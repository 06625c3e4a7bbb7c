------------------------------ MODULE RelayStore ------------------------------
(***************************************************************************)
(* How publishes are dated and what the relays keep of them: lastTs of     *)
(* BackupService (src/backup.ts), publishBackup and newestOwnTimestamp     *)
(* (src/nostr.ts), and the replacement rule of an addressable event, of    *)
(* which src/relay.ts is the repository's own implementation.              *)
(*                                                                         *)
(* A relay keeps the newest event and acknowledges every valid one, also   *)
(* one it ignores.  An acknowledged backup is therefore only kept if it is *)
(* dated after whatever the relay holds: an event of an earlier run whose  *)
(* clock was ahead, or of an attempt whose acknowledgement was lost.       *)
(*                                                                         *)
(* A restart is a new process: no program of the repository starts a       *)
(* stopped service again.  What was under way then is lost with its        *)
(* connections.  The clock may be set to anything at any time.             *)
(***************************************************************************)
EXTENDS Integers

CONSTANTS
    Relay,        \* relays that may be configured
    Configured,   \* those a new process is configured with
    Ids,          \* event ids; relays prefer the lower one of equal dates
    Leftovers,    \* events an earlier run may have left on a relay
    MaxNow,       \* bound: the clock
    MaxPublish,   \* bound: publishes
    MaxStart,     \* bound: processes
    MaxSwitch,    \* bound: relays added, removed, enabled or disabled
    MaxFault      \* bound: lost answers and refusals

Nothing == [at |-> 0, id |-> 0, version |-> 0]

ASSUME StoreAssumption ==
    /\ Configured \subseteq Relay /\ Configured # {}
    /\ Ids \subseteq Nat \ {0}
    /\ Leftovers \subseteq [at : Nat, id : Ids, version : {0}]
    /\ \A e, f \in Leftovers : e.id = f.id => e = f
    /\ MaxNow \in Nat /\ MaxPublish \in Nat /\ MaxStart \in Nat /\ MaxSwitch \in Nat /\ MaxFault \in Nat

VARIABLES
    now,        \* the clock, in seconds
    up,         \* a process runs and has begun
    active,     \* the enabled relays
    lastTs,     \* date of the last publish a relay acknowledged
    sending,    \* the event being published
    pending,    \* relays whose answer is awaited
    acks,       \* relays that acknowledged it
    held,       \* external: what each relay keeps
    answered,   \* history: relays that told this process what they hold
    lost,       \* history: latest date a relay took from this process without an acknowledgement
    last,       \* history: the last successful publish and the relays that vouch for it
    spent       \* the bounds used so far

process == <<up, lastTs, answered>>
publish == <<sending, pending, acks, last>>
vars    == <<now, process, active, publish, held, lost, spent>>

Event == [at : Nat, id : Ids, version : Nat]

\* Mutation: the clock alone dates an event.
TimestampOfClock == now

\* ts: never before the clock, always after the last publish.
Timestamp == IF now > lastTs + 1 THEN now ELSE lastTs + 1

\* External, with src/relay.ts: the newer event replaces the older, of equal dates the lower id.
Keep(old, e) == IF e.at > old.at \/ (e.at = old.at /\ e.id < old.id) THEN e ELSE old

Spend(what) == spent' = [spent EXCEPT ![what] = @ + 1]

-----------------------------------------------------------------------------
Init ==
    /\ now \in 1..MaxNow
    /\ up = FALSE /\ lastTs = 0 /\ answered = {}
    /\ active = Configured
    /\ sending = Nothing /\ pending = {} /\ acks = {}
    /\ last = [event |-> Nothing, sure |-> {}]
    /\ held \in [Relay -> Leftovers \cup {Nothing}]
    /\ lost = [r \in Relay |-> 0]
    /\ spent = [starts |-> 0, publishes |-> 0, switches |-> 0, faults |-> 0]

\* External: time passes, or the clock is set.
Clock ==
    /\ now' \in 1..MaxNow /\ now' # now
    /\ UNCHANGED <<process, active, publish, held, lost, spent>>

\* Mutation: a new process does not ask what the relays hold.
StartWithoutAsking ==
    /\ ~up /\ spent.starts < MaxStart /\ Spend("starts")
    /\ up' = TRUE /\ lastTs' = 0
    /\ answered' \in SUBSET active
    /\ UNCHANGED <<now, active, publish, held, lost>>

\* begin(): newestOwnTimestamp over the relays that answer in time.
Start ==
    /\ ~up /\ spent.starts < MaxStart /\ Spend("starts")
    /\ up' = TRUE
    /\ \E answering \in SUBSET active :
        /\ answered' = answering
        /\ lastTs' \in {0} \cup {held[r].at : r \in answering}
        /\ \A r \in answering : held[r].at <= lastTs'
    /\ UNCHANGED <<now, active, publish, held, lost>>

\* The process dies; the next one is configured from the environment.
Crash ==
    /\ up
    /\ up' = FALSE /\ lastTs' = 0 /\ answered' = {}
    /\ active' = Configured
    /\ sending' = Nothing /\ pending' = {} /\ acks' = {}
    /\ lost' = [r \in Relay |-> 0]
    /\ UNCHANGED <<now, held, last, spent>>

\* A relay is added, removed, enabled or disabled; one stays enabled.
Switch(r) ==
    /\ spent.switches < MaxSwitch /\ Spend("switches")
    /\ active # {r}
    /\ active' = IF r \in active THEN active \ {r} ELSE active \cup {r}
    /\ UNCHANGED <<now, process, publish, held, lost>>

-----------------------------------------------------------------------------
(* publishBackup *)

\* The event is signed and sent to every relay enabled at that moment.
Publish ==
    /\ up /\ sending = Nothing
    /\ spent.publishes < MaxPublish /\ Spend("publishes")
    /\ \E id \in Ids :
        /\ \A r \in Relay : held[r].id # id
        /\ sending' = [at |-> Timestamp, id |-> id, version |-> spent.publishes + 1]
    /\ pending' = active /\ acks' = {}
    /\ UNCHANGED <<now, process, active, held, lost, last>>

\* A relay takes the event, or ignores it for the one it holds, and acknowledges it.
Acknowledged(r) ==
    /\ r \in pending
    /\ pending' = pending \ {r} /\ acks' = acks \cup {r}
    /\ held' = [held EXCEPT ![r] = Keep(@, sending)]
    /\ UNCHANGED <<now, process, active, sending, last, lost, spent>>

\* The relay got it and its answer did not arrive: a failure for us.
AnswerLost(r) ==
    /\ r \in pending /\ spent.faults < MaxFault /\ Spend("faults")
    /\ pending' = pending \ {r}
    /\ held' = [held EXCEPT ![r] = Keep(@, sending)]
    /\ lost' = [lost EXCEPT ![r] = IF sending.at > @ THEN sending.at ELSE @]
    /\ UNCHANGED <<now, process, active, sending, acks, last>>

\* The relay was not reached or refused the event.
Refused(r) ==
    /\ r \in pending /\ spent.faults < MaxFault /\ Spend("faults")
    /\ pending' = pending \ {r}
    /\ UNCHANGED <<now, process, active, sending, acks, held, lost, last>>

\* allSettled: with an acknowledgement lastTs moves on, without one it stays for the retry.
Settled ==
    /\ sending # Nothing /\ pending = {}
    /\ IF acks # {}
       THEN /\ lastTs' = sending.at
            /\ last' = [event |-> sending,
                        sure  |-> {r \in acks \cap answered : lost[r] < sending.at}]
       ELSE UNCHANGED <<lastTs, last>>
    /\ sending' = Nothing /\ acks' = {}
    /\ UNCHANGED <<now, up, answered, active, pending, held, lost, spent>>

Next ==
    \/ Clock \/ Start \/ Crash \/ Publish \/ Settled
    \/ \E r \in Relay : Switch(r) \/ Acknowledged(r) \/ AnswerLost(r) \/ Refused(r)

Spec == Init /\ [][Next]_vars

-----------------------------------------------------------------------------
(* Properties *)

\* Every variable keeps its type; a date is positive and the relays asked are enabled ones.
TypeOK ==
    /\ now \in Nat \ {0} /\ up \in BOOLEAN /\ lastTs \in Nat
    /\ active \subseteq Relay /\ active # {}
    /\ sending \in Event \cup {Nothing}
    /\ pending \subseteq Relay /\ acks \subseteq Relay /\ answered \subseteq Relay
    /\ held \in [Relay -> Event \cup {Nothing}]
    /\ lost \in [Relay -> Nat]
    /\ last \in [event : Event \cup {Nothing}, sure : SUBSET Relay]
    /\ spent \in [{"starts", "publishes", "switches", "faults"} -> Nat]

\* An acknowledgement is worth something: a relay that told this process what it holds and
\* acknowledges a publish keeps that backup or a later one, whatever earlier runs left there,
\* however the clock is set, and across crashes; unless a relay took an event of this process of
\* the same or a later date without our hearing of it.
AckedIsHeld == \A r \in last.sure : held[r].version >= last.event.version
=============================================================================

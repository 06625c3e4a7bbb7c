---------------------------- MODULE Verification ----------------------------
(***************************************************************************)
(* One run of verifyBackup, src/backup.ts, with the probes and the         *)
(* selection rules of src/nostr.ts: every relay is asked for our events    *)
(* and answers what it likes, lnd exports the current channel set, the     *)
(* newest usable event is selected (Selection), lnd is asked what is       *)
(* inside it, and a verdict is drawn.                                      *)
(*                                                                         *)
(* The handlers of a probe are actions that race: only the timer of the    *)
(* probe itself and lnd's answers may be counted on.                       *)
(***************************************************************************)
EXTENDS Selection

CONSTANTS
    NumRelays,   \* how many relays are configured
    Events,      \* what a relay may send
    MaxEvents,   \* bound: events per relay
    Now,         \* the local clock, in units of FUTURE_SKEW_SEC
    Sets         \* channel sets of the node

Relays == 1..NumRelays

NoSet == "no channel set"

ASSUME RelaysAssumption == NumRelays \in Nat \ {0}
ASSUME EventsAssumption ==
    \A e \in Events : /\ e.id \in Nat \ {0} /\ e.own \in BOOLEAN /\ e.at \in Nat
                      /\ e.usable \in BOOLEAN /\ e.set \in Sets
ASSUME NoSetAssumption == NoSet \notin Sets
ASSUME NowAssumption == Now \in Nat

VARIABLES
    probe,    \* per relay: [status, opened, timer, got]; status is pending or how the probe
              \* ended (up is reachable), opened whether there was a connection, timer whether
              \* the timeout is armed, got are the events in the order received
    snap,     \* the export: "waiting", a channel set, or NoSet if it holds no backup
    result    \* verifyBackup's promise: pending, thrown, or done with the record returned

vars == <<probe, snap, result>>

Pending == [status |-> "pending"]
Thrown  == [status |-> "thrown"]

-----------------------------------------------------------------------------
(* verifyBackup once its answers are in *)

Received == FlattenSeq([r \in Relays |-> probe[r].got])

Reachable == {r \in Relays : probe[r].status = "up"}

\* own: the valid events of a relay, with their repetitions, as positions in what it sent.
Own(r) == {i \in DOMAIN probe[r].got : probe[r].got[i].own}

HasLatest(r, best) == best # NoEvent /\ \E i \in Own(r) : probe[r].got[i].id = best.id

RelayState(r, best) ==
    CASE r \notin Reachable -> "down"
      [] r \in Reachable /\ Own(r) = {} -> "missing"
      [] r \in Reachable /\ HasLatest(r, best) -> "healthy"
      [] r \in Reachable /\ Own(r) # {} /\ ~HasLatest(r, best) -> "stale"

ForeignEvents(r) == Cardinality({e.id : e \in ToSet(probe[r].got)}) - Cardinality(Own(r))

NewerUnusable(best) ==
    \E e \in ToSet(Received) : e.own /\ e.at > best.at /\ e.at <= Now + Skew

\* lnd's answer about the selected blob: what is inside, or that it rejects it.
Matches(best, lnd) ==
    IF best = NoEvent THEN "unknown"
    ELSE IF lnd = "rejects" THEN "no"
    ELSE IF snap = NoSet THEN "unknown"
    ELSE IF best.set = snap THEN "yes" ELSE "no"

\* Mutation: a relay that holds an older backup is no problem.
ProblemsWithoutStale(pick, lnd) ==
    LET best == pick.event
        states == {RelayState(r, best) : r \in Relays}
        If(condition, problem) == IF condition THEN {problem} ELSE {}
    IN  If(Reachable = {}, "no relay reachable") \cup If("down" \in states, "unreachable") \cup
        (IF best = NoEvent
         THEN If(Reachable # {}, "no backup")
         ELSE If(pick.future, "future") \cup
              If(lnd = "rejects", "rejected") \cup
              If("missing" \in states, "missing"))

Problems(pick, lnd) ==
    LET best == pick.event
        states == {RelayState(r, best) : r \in Relays}
        If(condition, problem) == IF condition THEN {problem} ELSE {}
    IN  If(Reachable = {}, "no relay reachable") \cup If("down" \in states, "unreachable") \cup
        (IF best = NoEvent
         THEN If(Reachable # {}, "no backup")
         ELSE If(NewerUnusable(best), "newer unreadable") \cup
              If(pick.future, "future") \cup
              If(lnd = "rejects", "rejected") \cup
              If(lnd # "rejects" /\ Matches(best, lnd) = "no", "behind") \cup
              If("missing" \in states, "missing") \cup
              If("stale" \in states, "stale")) \cup
        If(\E r \in Relays : ForeignEvents(r) > 0, "foreign")

\* Mutation: what cannot be compared counts as a match.
VerdictUnlessBehind(pick, lnd) ==
    LET ok == Reachable # {} /\ pick.event # NoEvent /\ Matches(pick.event, lnd) # "no" IN
    [status  |-> "done",
     verdict |-> IF ~ok THEN "failed"
                 ELSE IF Problems(pick, lnd) # {} THEN "degraded" ELSE "verified",
     event   |-> pick.event, future |-> pick.future, skipped |-> pick.skipped,
     matches |-> Matches(pick.event, lnd),
     foreign |-> [r \in Relays |-> ForeignEvents(r)]]

Verdict(pick, lnd) ==
    LET ok == Reachable # {} /\ pick.event # NoEvent /\ Matches(pick.event, lnd) = "yes" IN
    [status  |-> "done",
     verdict |-> IF ~ok THEN "failed"
                 ELSE IF Problems(pick, lnd) # {} THEN "degraded" ELSE "verified",
     event   |-> pick.event, future |-> pick.future, skipped |-> pick.skipped,
     matches |-> Matches(pick.event, lnd),
     foreign |-> [r \in Relays |-> ForeignEvents(r)]]

-----------------------------------------------------------------------------
(* probeRelayFilter: six ways to end, each in a handler of its own *)

Ended(r) == probe[r].status # "pending"

\* finish(): the first ending counts and clears the timeout, later ones do nothing.
Finish(r, status) ==
    /\ probe' = IF Ended(r) THEN probe
                ELSE [probe EXCEPT ![r].status = status, ![r].timer = FALSE]
    /\ UNCHANGED <<snap, result>>

Init ==
    /\ probe = [r \in Relays |->
                  [status |-> "pending", opened |-> FALSE, timer |-> TRUE, got |-> <<>>]]
    /\ snap = "waiting"
    /\ result = Pending

\* Mutation: a connection that opens is no longer timed.
OpenedInTime(r) ==
    /\ ~Ended(r) /\ ~probe[r].opened
    /\ probe' = [probe EXCEPT ![r].opened = TRUE, ![r].timer = FALSE]
    /\ UNCHANGED <<snap, result>>

\* The connection is open and the relay is asked.
Opened(r) ==
    /\ ~Ended(r) /\ ~probe[r].opened
    /\ probe' = [probe EXCEPT ![r].opened = TRUE]
    /\ UNCHANGED <<snap, result>>

\* An EVENT frame.  The handler does not look whether the probe has ended: what had arrived by
\* then still joins the events, as long as the verification has not read them.
EventFrame(r) ==
    /\ probe[r].opened /\ Len(probe[r].got) < MaxEvents /\ result = Pending
    /\ \E e \in Events : probe' = [probe EXCEPT ![r].got = Append(@, e)]
    /\ UNCHANGED <<snap, result>>

\* EOSE: the relay is reachable.
Eose(r) == probe[r].opened /\ Finish(r, "up")

\* CLOSED: the relay refuses; what was received before is kept.
ClosedFrame(r) == probe[r].opened /\ Finish(r, "down")

\* No socket at all, an error, a handshake that took too long, or a close, also the close that
\* finish() itself has caused.
Breaks(r) == Finish(r, "down")

TimesOut(r) == probe[r].timer /\ Finish(r, "down")

-----------------------------------------------------------------------------
(* verifyBackup's awaits *)

\* exportBackup answers; if it fails the verification throws whatever the relays say.
Exported ==
    /\ snap = "waiting" /\ result = Pending
    /\ \/ snap' \in Sets \cup {NoSet} /\ UNCHANGED result
       \/ result' = Thrown /\ UNCHANGED snap
    /\ UNCHANGED probe

AllIn == snap # "waiting" /\ \A r \in Relays : Ended(r)

\* Everything has answered, lnd is asked about the selected event, the verdict is drawn.
Conclude ==
    /\ result = Pending /\ AllIn
    /\ \E lnd \in {"lists", "rejects"} : result' = Verdict(Pick(Received, Now), lnd)
    /\ UNCHANGED <<probe, snap>>

Next ==
    \/ \E r \in Relays : \/ Opened(r) \/ EventFrame(r) \/ Eose(r)
                         \/ ClosedFrame(r) \/ Breaks(r) \/ TimesOut(r)
    \/ Exported \/ Conclude

Spec == Init /\ [][Next]_vars

\* Armed timers fire and lnd's calls settle.  Of the relays nothing is assumed.  The last line
\* is WF_vars(Conclude), of which the guard is all that is needed: Conclude can be taken whenever
\* that holds, and ends it.
Fairness ==
    /\ \A r \in Relays : WF_vars(TimesOut(r))
    /\ WF_vars(Exported)
    /\ []<>(AllIn => result # Pending)

FairSpec == Spec /\ Fairness

-----------------------------------------------------------------------------
(* Properties *)

Concluded == result.status = "done"

\* Every relay is consistent about an id: copies of an event are equal.
SameCopies == \A e, f \in ToSet(Received) : e.id = f.id => e = f

Candidates == {e \in ToSet(Received) : e.own /\ e.usable}

\* The newest of a set by date alone, independent of the tie rule.
LatestOf(S) == {e \in S : \A f \in S : f.at < e.at \/ (f.at = e.at /\ f.id >= e.id)}

\* docs/nostr.md, "Which event wins": the newest usable event not dated beyond the skew (ties:
\* lowest id), else the newest usable one, flagged; nothing else decides, in whatever order and
\* from whichever relays the events came.
SelectionFollowsTheRules ==
    Concluded /\ SameCopies =>
        LET present == {e \in Candidates : e.at <= Now + Skew}
            chosen  == LatestOf(IF present # {} THEN present ELSE Candidates)
        IN  /\ {result.event} \ {NoEvent} = chosen
            /\ result.future = (Candidates # {} /\ present = {})

\* "verified: proven and no caveats": every relay answered and itself holds a valid, readable
\* event, none dated in the future, with the channel set lnd exported; lnd accepted it; and no
\* valid event that competes is newer.
VerifiedIsProven ==
    Concluded /\ result.verdict = "verified" =>
        /\ result.event.set = snap /\ ~Future(result.event, Now)
        /\ \A r \in Relays :
              /\ probe[r].status = "up"
              /\ \E e \in ToSet(probe[r].got) : e.own /\ e.id = result.event.id
              /\ \A e \in ToSet(probe[r].got) : e.own /\ ~Future(e, Now) => e.at <= result.event.at

\* A verdict other than failed is drawn only about a node that exports a backup, from an event
\* that a restore from the same answers would select and that covers exactly that export.
OkMeansRestorable ==
    Concluded /\ result.verdict # "failed" =>
        /\ snap \in Sets
        /\ result.event \in ToSet(Received) /\ result.event.own /\ result.event.usable
        /\ result.event.set = snap

\* A verification ends, with a verdict or an error, whatever the relays do or leave undone and
\* however the ways to end a probe race: on an open connection that stays silent, too.
VerificationEnds == <>(result # Pending)
=============================================================================

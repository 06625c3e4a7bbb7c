------------------------------- MODULE Restore -------------------------------
(***************************************************************************)
(* A restore after the node was lost: restoreFromNostr of src/backup.ts    *)
(* and fetchLatestBackup of src/nostr.ts, run on a new node of the same    *)
(* seed against the relays as RelayStore left them.                        *)
(*                                                                         *)
(* While it runs nothing publishes: the old node is gone and the service   *)
(* is started on the new one only after the restore.  The clock is that of *)
(* the machine the restore runs on.                                        *)
(***************************************************************************)
EXTENDS RelayStore, Selection

CONSTANTS
    Rounds,     \* reconnectRounds: how often the peers are dialed
    Peers       \* the peer hints in the backup

ASSUME RestoreAssumption == Rounds \in Nat /\ Skew \in Nat

VARIABLES
    phase,      \* the await restoreFromNostr is in
    given,      \* the relays it was told to ask
    replied,    \* those whose answer is in
    got,        \* the events received
    picked,     \* the selected backup, NoEvent before there is one
    imported,   \* external: lnd has taken it, "unheard" if its answer did not arrive
    round,      \* rounds of redialing done
    reached     \* external: peers lnd is connected to

restore == <<phase, given, replied, got, picked, imported, round, reached>>

\* A stored event as the selection sees it: ours, valid and readable.
Seen(e) == [id |-> e.id, own |-> TRUE, at |-> e.at, usable |-> TRUE, set |-> e.version]

RestoreInit ==
    /\ Init
    /\ phase = "none" /\ given = {} /\ replied = {} /\ got = <<>>
    /\ picked = NoEvent /\ imported = "no"
    /\ round = 0 /\ reached = {}

\* The operator starts a restore; a relay he leaves out is one that does not answer.
Restore ==
    /\ ~up /\ phase = "none"
    /\ given' = Relay
    /\ phase' = "starting"
    /\ UNCHANGED <<replied, got, picked, imported, round, reached>>

\* waitActive and deriveNostrKey answer, or one of them fails for good.
NodeReady ==
    /\ phase = "starting"
    /\ phase' \in {"fetching", "failed"}
    /\ UNCHANGED <<given, replied, got, picked, imported, round, reached>>

\* querySync: a relay sends the event it holds, or nothing before maxWait.
Reply(r) ==
    /\ phase = "fetching" /\ r \in given \ replied
    /\ replied' = replied \cup {r}
    /\ got' = IF held[r] = Nothing THEN got ELSE Append(got, Seen(held[r]))
    /\ UNCHANGED <<phase, given, picked, imported, round, reached>>

NoReply(r) ==
    /\ phase = "fetching" /\ r \in given \ replied
    /\ given' = given \ {r}
    /\ UNCHANGED <<phase, replied, got, picked, imported, round, reached>>

\* Every relay has answered or the wait is over: the newest backup is selected, if there is one.
Fetched ==
    /\ phase = "fetching" /\ replied = given
    /\ picked' = Pick(got, now).event
    /\ phase' = IF picked' = NoEvent THEN "failed" ELSE "importing"
    /\ UNCHANGED <<given, replied, got, imported, round, reached>>

\* restoreBackup: lnd imports the backup and says so, or the call rejects: lnd has refused it, or
\* has taken it and the answer is lost or comes after the time limit of the call.
Imported ==
    /\ phase = "importing"
    /\ \/ imported' = "yes" /\ phase' = "dialing"
       \/ imported' \in {"no", "unheard"} /\ phase' = "failed"
    /\ UNCHANGED <<given, replied, got, picked, round, reached>>

\* Mutation: the round fails with the first peer that cannot be reached.
RedialAll ==
    /\ phase = "dialing" /\ round < Rounds
    /\ \E connected \in SUBSET Peers : reached' = reached \cup connected
    /\ round' = round + 1
    /\ phase' = IF reached' # Peers THEN "failed" ELSE phase
    /\ UNCHANGED <<given, replied, got, picked, imported>>

\* One round: every peer is dialed, a failed dial is left to the next round.
Redial ==
    /\ phase = "dialing" /\ round < Rounds
    /\ \E connected \in SUBSET Peers : reached' = reached \cup connected
    /\ round' = round + 1
    /\ UNCHANGED <<phase, given, replied, got, picked, imported>>

Finished ==
    /\ phase = "dialing" /\ round = Rounds
    /\ phase' = "done"
    /\ UNCHANGED <<given, replied, got, picked, imported, round, reached>>

RestoreNext ==
    \/ Restore \/ NodeReady \/ Fetched \/ Imported \/ Redial \/ Finished
    \/ \E r \in Relay : Reply(r) \/ NoReply(r)

System ==
    \/ phase = "none" /\ Next /\ UNCHANGED restore
    \/ phase # "none" /\ Clock /\ UNCHANGED restore
    \/ RestoreNext /\ UNCHANGED vars

SystemSpec == RestoreInit /\ [][System]_<<vars, restore>>

-----------------------------------------------------------------------------
(* Properties *)

\* What was read is not from the future when the selection is made: stated of the step.
NoneFromFuture == \A i \in DOMAIN got : ~Future(got[i], now)

\* A restore that hears from one relay vouching for the last acknowledged backup never goes
\* back behind its date: whatever the other relays hold, were left with by failed attempts, or
\* do not answer; as long as nothing it reads is dated in the future.
RestoreIsRecent ==
    [][Fetched /\ NoneFromFuture /\ last.sure \cap replied # {} =>
          picked' # NoEvent /\ picked'.at >= last.event.at]_<<vars, restore>>

\* A restore whose import lnd has confirmed is not reported as failed, whichever peers cannot be
\* reached in the rounds that follow.  An import whose answer is lost is reported as failed.
ImportIsReported == imported = "yes" => phase # "failed"

\* docs/nostr.md: "a leftover future-dated event cannot shadow new backups".
RestoreNotShadowed ==
    phase = "importing" /\ last.sure \cap replied # {} => picked.at >= last.event.at
=============================================================================

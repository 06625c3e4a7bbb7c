------------------------------ MODULE Selection ------------------------------
(***************************************************************************)
(* Which of the events that relays returned is the backup:                 *)
(* pickNewestDecryptable of src/nostr.ts, used by a verification and by a  *)
(* restore.                                                                *)
(*                                                                         *)
(* An event is reduced to what the rules tell apart: id, own (isOwnValid   *)
(* accepts its shape, author, d tag and signature), at (its date), usable  *)
(* (it decrypts to a valid payload) and set (the channel set inside).      *)
(***************************************************************************)
EXTENDS Integers, Sequences, SequencesExt

\* Dates are counted in units of FUTURE_SKEW_SEC.
Skew == 1
NoEvent == [id |-> 0]

\* Mutation: the comparison is the wrong way round.
OldestFirst(a, b) == a.at < b.at \/ (a.at = b.at /\ a.id < b.id)

\* newestFirst: by date, ties by lowest id.
NewestFirst(a, b) == a.at > b.at \/ (a.at = b.at /\ a.id < b.id)

\* new Map(...): of several copies with one id the last one is kept.
Unique(evs) ==
    {evs[i] : i \in {i \in DOMAIN evs : \A j \in DOMAIN evs : j > i => evs[j].id # evs[i].id}}

\* Mutation: the skew itself is not tolerated.
FutureAtSkew(e, now) == e.at >= now + Skew

Future(e, now) == e.at > now + Skew

\* A set of events with different ids, in that order.
Sorted(S) ==
    CHOOSE s \in SetToSeqs(S) : \A i, j \in DOMAIN s : i < j => NewestFirst(s[i], s[j])

\* The loop over our events, newest first: it returns the first usable one that is not dated in
\* the future, else falls back to the first usable one; skipped: those it has met in vain.
Scan(mine, now) ==
    LET usable   == {i \in DOMAIN mine : mine[i].usable}
        present  == {i \in usable : ~Future(mine[i], now)}
        First(S) == IF S = {} THEN NoEvent ELSE mine[Min(S)]
    IN  [found    |-> First(present),
         fallback |-> First(usable),
         skipped  |-> Cardinality({i \in DOMAIN mine \ usable : \A j \in present : i < j})]

Pick(evs, now) ==
    LET unique == Unique(evs)
        mine   == {e \in unique : e.own}
        scan   == Scan(Sorted(mine), now)
    IN  [event   |-> IF scan.found # NoEvent THEN scan.found ELSE scan.fallback,
         future  |-> scan.found = NoEvent /\ scan.fallback # NoEvent,
         skipped |-> scan.skipped + Cardinality(unique) - Cardinality(mine)]
=============================================================================

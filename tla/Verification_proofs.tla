-------------------------- MODULE Verification_proofs --------------------------
(***************************************************************************)
(* What a verdict is worth, for any number of relays, whatever they send   *)
(* in whatever order, and every clock.                                     *)
(***************************************************************************)
EXTENDS Verification, Selection_proofs

-----------------------------------------------------------------------------
(* The answers and the verdict *)

\* The answers of the relays, of lnd, and the promise.
TypeOK ==
    /\ probe \in [Relays -> [status : {"pending", "up", "down"}, opened : BOOLEAN,
                            timer : BOOLEAN, got : Seq(Events)]]
    /\ snap \in Sets \cup {NoSet, "waiting"}
    /\ result.status \in {"pending", "thrown", "done"}

\* A verdict is drawn from answers that do not change any more.
Drawn ==
    Concluded => AllIn /\ \E lnd \in {"lists", "rejects"} : result = Verdict(Pick(Received, Now), lnd)

\* What the verdicts rest on.
VerificationInv == TypeOK /\ Drawn

\* It holds at first.
LEMMA VerificationInit == Init => VerificationInv
<1>. SUFFICES ASSUME Init PROVE VerificationInv
  OBVIOUS
<1>1. <<>> \in Seq(Events)
  OBVIOUS
<1>. QED
  BY <1>1 DEF Init, VerificationInv, TypeOK, Drawn, Concluded, Pending

\* Every step keeps it.
LEMMA VerificationStep == VerificationInv /\ [Next]_vars => VerificationInv'
<1>. SUFFICES ASSUME VerificationInv, [Next]_vars PROVE VerificationInv'
  OBVIOUS
<1>. USE DEF VerificationInv
<1>1. ASSUME NEW r \in Relays, EventFrame(r) PROVE VerificationInv'
  <2>1. PICK e \in Events : probe' = [probe EXCEPT ![r].got = Append(@, e)]
    BY <1>1 DEF EventFrame
  <2>2. Append(probe[r].got, e) \in Seq(Events)
    BY DEF TypeOK
  <2>3. TypeOK'
    BY <1>1, <2>1, <2>2 DEF EventFrame, TypeOK
  <2>4. ~Concluded'
    BY <1>1 DEF EventFrame, Concluded, Pending
  <2>. QED
    BY <2>3, <2>4 DEF Drawn
<1>2. ASSUME NEW r \in Relays, Opened(r) \/ (\E s \in {"up", "down"} : Finish(r, s))
      PROVE  VerificationInv'
  <2>1. UNCHANGED <<snap, result>>
    BY <1>2 DEF Opened, Finish
  <2>2. TypeOK'
    <3>1. CASE Opened(r)
      BY <2>1, <3>1 DEF Opened, TypeOK
    <3>2. ASSUME NEW s \in {"up", "down"}, Finish(r, s) PROVE TypeOK'
      BY <2>1, <3>2 DEF Finish, TypeOK
    <3>. QED
      BY <1>2, <3>1, <3>2
  <2>3. CASE Concluded
    <3>1. Ended(r)
      BY <2>3 DEF Drawn, AllIn
    <3>2. UNCHANGED probe
      BY <1>2, <3>1 DEF Opened, Finish, Ended
    <3>3. AllIn' = AllIn /\ Concluded' = Concluded
      BY <2>1, <3>2 DEF AllIn, Ended, Concluded
    <3>4. \A lnd : Verdict(Pick(Received, Now), lnd)' = Verdict(Pick(Received, Now), lnd)
      BY <2>1, <3>2 DEF Verdict, Problems, Matches, Reachable, RelayState, Own, HasLatest,
         ForeignEvents, NewerUnusable, Received
    <3>. QED
      BY <2>1, <2>2, <3>3, <3>4 DEF Drawn
  <2>4. CASE ~Concluded
    BY <2>1, <2>2, <2>4 DEF Drawn, Concluded
  <2>. QED
    BY <2>3, <2>4
<1>3. CASE Exported
  <2>1. result = Pending \/ result = Thrown
    BY <1>3 DEF Exported
  <2>2. result' = Pending \/ result' = Thrown
    BY <1>3 DEF Exported
  <2>3. ~Concluded'
    BY <2>2 DEF Concluded, Pending, Thrown
  <2>4. TypeOK'
    BY <1>3, <2>2 DEF Exported, TypeOK, Pending, Thrown
  <2>. QED
    BY <2>3, <2>4 DEF Drawn
<1>4. CASE Conclude
  <2>1. PICK lnd \in {"lists", "rejects"} : result' = Verdict(Pick(Received, Now), lnd)
    BY <1>4 DEF Conclude
  <2>2. AllIn /\ UNCHANGED <<probe, snap>>
    BY <1>4 DEF Conclude
  <2>3. result'.status = "done"
    BY <2>1 DEF Verdict
  <2>4. AllIn' /\ Verdict(Pick(Received, Now), lnd)' = Verdict(Pick(Received, Now), lnd)
    BY <2>2 DEF AllIn, Ended, Verdict, Problems, Matches, Reachable, RelayState, Own, HasLatest,
       ForeignEvents, NewerUnusable, Received
  <2>5. TypeOK'
    BY <2>2, <2>3 DEF TypeOK
  <2>. QED
    BY <2>1, <2>4, <2>5 DEF Drawn
<1>5. CASE UNCHANGED vars
  <2>1. TypeOK' /\ Concluded' = Concluded /\ AllIn' = AllIn
    BY <1>5 DEF vars, TypeOK, Concluded, AllIn, Ended
  <2>2. \A lnd : Verdict(Pick(Received, Now), lnd)' = Verdict(Pick(Received, Now), lnd)
    BY <1>5 DEF vars, Verdict, Problems, Matches, Reachable, RelayState, Own, HasLatest,
       ForeignEvents, NewerUnusable, Received
  <2>. QED
    BY <1>5, <2>1, <2>2 DEF vars, Drawn
<1>. QED
  BY <1>1, <1>2, <1>3, <1>4, <1>5 DEF Next, Eose, ClosedFrame, Breaks, TimesOut

\* What the relays sent, taken together.
LEMMA ReceivedEvents ==
    ASSUME TypeOK
    PROVE  /\ Received \in Seq(Events)
           /\ ToSet(Received) = UNION {ToSet(probe[r].got) : r \in Relays}
           /\ \A r \in Relays : ToSet(probe[r].got) \subseteq ToSet(Received)
<1>. DEFINE ss == [r \in Relays |-> probe[r].got]
<1>1. ss \in [1..NumRelays -> Seq(Events)] /\ NumRelays \in Nat \ {0}
  BY RelaysAssumption DEF TypeOK, Relays, RelaysAssumption
<1>2. Received \in Seq(Events) /\ ToSet(Received) = UNION {ToSet(ss[r]) : r \in 1..NumRelays}
  BY <1>1, Flattened DEF Received
<1>3. ToSet(Received) = UNION {ToSet(probe[r].got) : r \in Relays}
  BY <1>2 DEF Relays
<1>. QED
  BY <1>2, <1>3

\* The selection from them: what it returns is an event that was received, and the rules are kept.
LEMMA PickReceived ==
    ASSUME TypeOK
    PROVE  LET pick == Pick(Received, Now)
               best == Best(Received, Now)
           IN  /\ best = {} => pick.event = NoEvent
               /\ best # {} => /\ pick.event \in best /\ pick.event # NoEvent
                               /\ \A e \in best : e = pick.event \/ NewestFirst(pick.event, e)
               /\ pick.future <=> Usable(Received) # {} /\ Present(Received, Now) = {}
               /\ best \subseteq {e \in ToSet(Received) : e.own /\ e.usable}
               /\ ToSet(Received) \subseteq Events
<1>1. Dated(Events) /\ Now \in Int
  BY EventsAssumption, NowAssumption DEF EventsAssumption, NowAssumption, Dated
<1>2. Received \in Seq(Events)
  BY ReceivedEvents
<1>3. ToSet(Received) \subseteq Events
  BY <1>2 DEF ToSet
<1>4. Best(Received, Now) \subseteq {e \in ToSet(Received) : e.own /\ e.usable}
  BY <1>1, <1>2, UniqueEvents DEF Best, Present, Usable
<1>5. NoEvent \notin Events
  BY <1>1 DEF Dated, NoEvent
<1>6. /\ Best(Received, Now) = {} => Pick(Received, Now).event = NoEvent
      /\ Best(Received, Now) # {} =>
            /\ Pick(Received, Now).event \in Best(Received, Now)
            /\ \A e \in Best(Received, Now) :
                  e = Pick(Received, Now).event \/ NewestFirst(Pick(Received, Now).event, e)
      /\ Pick(Received, Now).future <=> Usable(Received) # {} /\ Present(Received, Now) = {}
  BY <1>1, <1>2, PickIsBest
<1>. QED
  BY <1>3, <1>4, <1>5, <1>6, Zenon

\* If copies agree, an event is looked at for its own sake.
LEMMA AllAreCandidates ==
    ASSUME TypeOK, SameCopies
    PROVE  Usable(Received) = Candidates
<1>1. Dated(Events)
  BY EventsAssumption DEF EventsAssumption, Dated
<1>2. /\ Unique(Received) \subseteq ToSet(Received)
      /\ \A i \in DOMAIN Received : \E e \in Unique(Received) : e.id = Received[i].id
  BY <1>1, ReceivedEvents, UniqueEvents
<1>3. \A e \in ToSet(Received) : e \in Unique(Received)
  BY <1>2 DEF SameCopies, ToSet
<1>. QED
  BY <1>2, <1>3 DEF Usable, Candidates

\* The newest usable event that is not from the future is selected, else the newest usable one,
\* flagged: nothing else decides, neither the order of the answers nor the relays they come from.
THEOREM SelectionIsRight == Spec => []SelectionFollowsTheRules
<1>1. VerificationInv => SelectionFollowsTheRules
  <2>. SUFFICES ASSUME TypeOK, Drawn, Concluded, SameCopies
                PROVE  LET present == {e \in Candidates : e.at <= Now + Skew}
                           chosen  == LatestOf(IF present # {} THEN present ELSE Candidates)
                       IN  /\ {result.event} \ {NoEvent} = chosen
                           /\ result.future = (Candidates # {} /\ present = {})
    BY DEF VerificationInv, SelectionFollowsTheRules
  <2>. DEFINE pick == Pick(Received, Now)
              best == Best(Received, Now)
  <2>1. result.event = pick.event /\ result.future = pick.future
    BY DEF Drawn, Verdict
  <2>2. Usable(Received) = Candidates
    BY AllAreCandidates
  <2>3. \A e \in Candidates : e.at \in Nat /\ e.id \in Nat
    BY PickReceived, EventsAssumption DEF Candidates, EventsAssumption
  <2>4. Present(Received, Now) = {e \in Candidates : e.at <= Now + Skew}
    BY <2>2, <2>3, NowAssumption DEF Present, Future, NowAssumption, Skew
  <2>5. /\ best = {} => pick.event = NoEvent
        /\ best # {} => /\ pick.event \in best /\ pick.event # NoEvent
                        /\ \A e \in best : e = pick.event \/ NewestFirst(pick.event, e)
        /\ pick.future <=> Usable(Received) # {} /\ Present(Received, Now) = {}
    BY PickReceived
  <2>6. best \subseteq Candidates
    BY <2>2, <2>4 DEF Best
  <2>. HIDE DEF pick, best
  <2>7. {pick.event} \ {NoEvent} = LatestOf(best)
    <3>1. CASE best = {}
      BY <2>5, <3>1 DEF LatestOf
    <3>2. CASE best # {}
      <4>1. pick.event \in LatestOf(best)
        BY <2>3, <2>5, <2>6, <3>2 DEF LatestOf, NewestFirst
      <4>2. ASSUME NEW e \in LatestOf(best) PROVE e = pick.event
        BY <2>3, <2>5, <2>6, <3>2, <4>2 DEF LatestOf, NewestFirst
      <4>. QED
        BY <2>5, <3>2, <4>1, <4>2
    <3>. QED
      BY <3>1, <3>2
  <2>8. best = IF Present(Received, Now) # {} THEN Present(Received, Now) ELSE Candidates
    BY <2>2 DEF best, Best
  <2>9. pick.future \in BOOLEAN
    BY DEF pick, Pick
  <2>10. pick.future = (Candidates # {} /\ Present(Received, Now) = {})
    BY <2>2, <2>5, <2>9
  <2>. QED
    BY <2>1, <2>4, <2>7, <2>8, <2>10
<1>. QED
  BY <1>1, VerificationInit, VerificationStep, PTL DEF Spec

\* A verdict other than failed is about a selected backup of what lnd exported.
LEMMA OkMatches ==
    ASSUME TypeOK, Drawn, Concluded, result.verdict # "failed"
    PROVE  LET pick == Pick(Received, Now)
           IN  /\ result.event = pick.event /\ pick.event # NoEvent
               /\ pick.event \in Best(Received, Now)
               /\ pick.event.set = snap /\ snap \in Sets
<1>. DEFINE pick == Pick(Received, Now)
<1>1. PICK lnd \in {"lists", "rejects"} : result = Verdict(pick, lnd)
  BY DEF Drawn
<1>2. result.event = pick.event
  BY <1>1 DEF Verdict
<1>3. pick.event # NoEvent /\ Matches(pick.event, lnd) = "yes"
  <2>. HIDE DEF pick
  <2>. QED
    BY <1>1 DEF Verdict
<1>4. pick.event.set = snap /\ snap # NoSet
  <2>. HIDE DEF pick
  <2>. QED
    BY <1>3 DEF Matches
<1>5. snap \in Sets
  BY <1>4 DEF Drawn, AllIn, TypeOK
<1>. QED
  BY <1>2, <1>3, <1>4, <1>5, PickReceived

\* A verdict other than failed is drawn from a backup that a restore would select from the same
\* answers, and that covers exactly what lnd exports.
THEOREM OkIsRestorable == Spec => []OkMeansRestorable
<1>1. VerificationInv => OkMeansRestorable
  <2>. SUFFICES ASSUME TypeOK, Drawn, Concluded, result.verdict # "failed"
                PROVE  /\ snap \in Sets
                       /\ result.event \in ToSet(Received) /\ result.event.own
                       /\ result.event.usable
                       /\ result.event.set = snap
    BY DEF VerificationInv, OkMeansRestorable
  <2>. QED
    BY OkMatches, PickReceived
<1>. QED
  BY <1>1, VerificationInit, VerificationStep, PTL DEF Spec

\* Without a problem every relay has the selected event, and no valid event is newer.
LEMMA NoProblems ==
    ASSUME NEW pick, NEW lnd, pick.event # NoEvent, Problems(pick, lnd) = {}
    PROVE  /\ ~pick.future /\ ~NewerUnusable(pick.event)
           /\ \A r \in Relays : RelayState(r, pick.event) \notin {"down", "missing", "stale"}
<1>. DEFINE states == {RelayState(r, pick.event) : r \in Relays}
            If(condition, problem) == IF condition THEN {problem} ELSE {}
<1>1. /\ If("down" \in states, "unreachable") = {}
      /\ If(NewerUnusable(pick.event), "newer unreadable") = {}
      /\ If(pick.future, "future") = {}
      /\ If("missing" \in states, "missing") = {}
      /\ If("stale" \in states, "stale") = {}
  BY DEF Problems
<1>2. "down" \notin states /\ "missing" \notin states /\ "stale" \notin states
  BY <1>1
<1>3. ~pick.future /\ ~NewerUnusable(pick.event)
  BY <1>1
<1>. QED
  BY <1>2, <1>3

\* "verified: proven and no caveats": of every relay that was asked, and of the one export.
THEOREM VerifiedIsProof == Spec => []VerifiedIsProven
<1>1. VerificationInv => VerifiedIsProven
  <2>. SUFFICES ASSUME TypeOK, Drawn, Concluded, result.verdict = "verified"
                PROVE  /\ result.event.set = snap /\ ~Future(result.event, Now)
                       /\ \A r \in Relays :
                             /\ probe[r].status = "up"
                             /\ \E e \in ToSet(probe[r].got) : e.own /\ e.id = result.event.id
                             /\ \A e \in ToSet(probe[r].got) :
                                   e.own /\ ~Future(e, Now) => e.at <= result.event.at
    BY DEF VerificationInv, VerifiedIsProven
  <2>. DEFINE pick == Pick(Received, Now)
  <2>1. /\ result.event = pick.event /\ pick.event # NoEvent
        /\ pick.event \in Best(Received, Now) /\ pick.event.set = snap
    BY OkMatches
  <2>2. PICK lnd \in {"lists", "rejects"} : result = Verdict(pick, lnd)
    BY DEF Drawn
  <2>3. Problems(pick, lnd) = {}
    <3>. HIDE DEF pick
    <3>. QED
      BY <2>2 DEF Verdict
  <2>4. /\ ~pick.future /\ ~NewerUnusable(pick.event)
        /\ \A r \in Relays : RelayState(r, pick.event) \notin {"down", "missing", "stale"}
    BY <2>1, <2>3, NoProblems
  <2>5. pick.event \in Present(Received, Now)
    BY <2>1, <2>4, PickReceived DEF Best
  <2>6. ~Future(pick.event, Now)
    BY <2>5 DEF Present
  <2>. HIDE DEF pick
  <2>7. ASSUME NEW r \in Relays
        PROVE  /\ probe[r].status = "up"
               /\ \E e \in ToSet(probe[r].got) : e.own /\ e.id = pick.event.id
    <3>1. r \in Reachable /\ HasLatest(r, pick.event)
      BY <2>4 DEF RelayState
    <3>. QED
      BY <3>1 DEF Reachable, HasLatest, Own, ToSet
  <2>8. ASSUME NEW r \in Relays, NEW e \in ToSet(probe[r].got), e.own, ~Future(e, Now)
        PROVE  e.at <= pick.event.at
    <3>1. e \in ToSet(Received) /\ pick.event \in ToSet(Received)
      BY <2>1, ReceivedEvents, PickReceived
    <3>2. e.at \in Nat /\ pick.event.at \in Nat /\ e.at <= Now + Skew
      BY <2>8, <3>1, PickReceived, EventsAssumption, NowAssumption DEF EventsAssumption,
         NowAssumption, Future, Skew
    <3>3. ~(e.at > pick.event.at)
      BY <2>4, <2>8, <3>1, <3>2 DEF NewerUnusable
    <3>. QED
      BY <3>2, <3>3
  <2>. QED
    BY <2>1, <2>6, <2>7, <2>8
<1>. QED
  BY <1>1, VerificationInit, VerificationStep, PTL DEF Spec
=============================================================================

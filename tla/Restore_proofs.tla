---------------------------- MODULE Restore_proofs ----------------------------
(***************************************************************************)
(* That an acknowledged backup is kept, and that a restore finds it, for   *)
(* every set of relays, ids and leftovers, every clock and any number of   *)
(* publishes, faults and crashes.                                          *)
(***************************************************************************)
EXTENDS Restore, Selection_proofs

-----------------------------------------------------------------------------
(* Dates and the replacement rule *)

\* A relay keeps what it has or takes what it is sent.
LEMMA KeepEither ==
    ASSUME NEW old, NEW e
    PROVE  Keep(old, e) \in {old, e}
  BY DEF Keep

\* An event dated after the one a relay holds replaces it.
LEMMA KeepNewer ==
    ASSUME NEW old \in Event \cup {Nothing}, NEW e \in Event \cup {Nothing}, old.at < e.at
    PROVE  Keep(old, e) = e
  BY DEF Keep

\* A publish is dated after the last one.
LEMMA TimestampIsAfter ==
    ASSUME lastTs \in Nat, now \in Nat
    PROVE  Timestamp \in Nat /\ Timestamp > lastTs
  BY DEF Timestamp

\* No event is a record like any other, except for its id.
LEMMA NothingType ==
    /\ Nothing.at = 0 /\ Nothing.version = 0 /\ Nothing.id = 0
    /\ Nothing \notin Event
    /\ \A e \in Event \cup {Nothing} : e.at \in Nat /\ e.version \in Nat /\ e.id \in Nat
<1>1. Nothing.at = 0 /\ Nothing.version = 0 /\ Nothing.id = 0
  BY DEF Nothing
<1>2. Ids \subseteq Nat \ {0}
  BY StoreAssumption DEF StoreAssumption
<1>3. \A e \in Event : e.at \in Nat /\ e.version \in Nat /\ e.id \in Nat \ {0}
  BY <1>2 DEF Event
<1> QED
  BY <1>1, <1>3

-----------------------------------------------------------------------------
(* Type correctness *)

\* The initial state has the right type.
LEMMA TypeInit == Init => TypeOK
<1> SUFFICES ASSUME Init PROVE TypeOK
  OBVIOUS
<1>1. Leftovers \subseteq Event
  BY StoreAssumption DEF StoreAssumption, Event
<1>2. now \in Nat \ {0} /\ active \subseteq Relay /\ active # {}
  BY StoreAssumption DEF StoreAssumption, Init
<1>3. held \in [Relay -> Event \cup {Nothing}]
  BY <1>1 DEF Init
<1>4. last \in [event : Event \cup {Nothing}, sure : SUBSET Relay]
  BY DEF Init
<1>5. spent \in [{"starts", "publishes", "switches", "faults"} -> Nat]
  BY DEF Init
<1>6. lost \in [Relay -> Nat]
  BY DEF Init
<1> QED
  BY <1>2, <1>3, <1>4, <1>5, <1>6 DEF Init, TypeOK

\* Every step keeps it.
LEMMA TypeStep == TypeOK /\ [Next]_vars => TypeOK'
<1> SUFFICES ASSUME TypeOK PROVE [Next]_vars => TypeOK'
  OBVIOUS
<1> USE DEF TypeOK
<1>1. ASSUME Clock PROVE TypeOK'
  BY <1>1, StoreAssumption DEF StoreAssumption, Clock, process, publish
<1>2. ASSUME Start PROVE TypeOK'
  BY <1>2, NothingType DEF Start, publish, Spend
<1>3. ASSUME Crash PROVE TypeOK'
  BY <1>3, StoreAssumption DEF StoreAssumption, Crash
<1>4. ASSUME NEW r \in Relay, Switch(r) PROVE TypeOK'
  BY <1>4 DEF Switch, process, publish, Spend
<1>5. ASSUME Publish PROVE TypeOK'
  <2>1. PICK id \in Ids : sending' = [at |-> Timestamp, id |-> id, version |-> spent.publishes + 1]
    BY <1>5 DEF Publish
  <2>2. sending' \in Event
    BY <2>1, TimestampIsAfter DEF Event
  <2> QED
    BY <1>5, <2>2 DEF Publish, process, Spend
<1>6. ASSUME NEW r \in Relay, Acknowledged(r) PROVE TypeOK'
  BY <1>6, KeepEither DEF Acknowledged, process
<1>7. ASSUME NEW r \in Relay, AnswerLost(r) PROVE TypeOK'
  BY <1>7, KeepEither, NothingType DEF AnswerLost, process, Spend
<1>8. ASSUME NEW r \in Relay, Refused(r) PROVE TypeOK'
  BY <1>8 DEF Refused, process, Spend
<1>9. ASSUME Settled PROVE TypeOK'
  BY <1>9, NothingType DEF Settled
<1>10. ASSUME UNCHANGED vars PROVE TypeOK'
  BY <1>10 DEF vars, process, publish
<1> QED
  BY <1>1, <1>2, <1>3, <1>4, <1>5, <1>6, <1>7, <1>8, <1>9, <1>10 DEF Next

\* Every variable keeps its type.
THEOREM TypeCorrect == Spec => []TypeOK
  BY TypeInit, TypeStep, PTL DEF Spec

-----------------------------------------------------------------------------
(* Acknowledged backups are kept *)

\* Versions are handed out in order: what is sent is later than all that came before.
VersionsInOrder ==
    /\ last.event.version <= spent.publishes
    /\ \A r \in Relay : held[r].version <= spent.publishes
    /\ sending # Nothing =>
          /\ sending.version = spent.publishes /\ last.event.version < sending.version
          /\ \A r \in Relay : held[r] = sending \/ held[r].version < sending.version

\* A publish belongs to a running process, is dated after the last one, and every relay's
\* answer is awaited or in.
PublishInOrder ==
    /\ sending # Nothing => up /\ sending.at > lastTs
    /\ sending = Nothing => pending = {} /\ acks = {}
    /\ pending \cap acks = {}

\* What a relay that was asked may hold that is dated after the last publish: the event
\* being published, if it acknowledged it, or one whose acknowledgement was lost.
DatesAreKnown ==
    \A r \in answered :
        /\ \/ held[r].at <= lastTs \/ held[r].at <= lost[r]
           \/ r \in acks /\ held[r].at <= sending.at
        /\ r \in acks /\ lost[r] < sending.at => held[r] = sending

\* AckedIsHeld is not inductive: that a relay which acknowledges an event holds it follows
\* from the dates of all that it may hold instead, and that it keeps it from the versions.
StoreInv == TypeOK /\ VersionsInOrder /\ PublishInOrder /\ DatesAreKnown /\ AckedIsHeld

\* A relay that takes or ignores the event in flight leaves versions and backups in order.
LEMMA Delivery ==
    ASSUME StoreInv, NEW r \in Relay, sending # Nothing,
           held' = [held EXCEPT ![r] = Keep(@, sending)],
           UNCHANGED <<last, spent, sending>>
    PROVE  VersionsInOrder' /\ AckedIsHeld'
<1> USE DEF StoreInv
<1>1. \A s \in Relay : held'[s] \in {held[s], sending}
  BY KeepEither DEF TypeOK
<1>2. sending.version \in Nat /\ last.event.version \in Nat /\ spent.publishes \in Nat
  BY NothingType DEF TypeOK
<1>3. \A s \in Relay : held[s].version \in Nat
  BY NothingType DEF TypeOK
<1>4. VersionsInOrder'
  BY <1>1, <1>2, <1>3 DEF VersionsInOrder
<1>5. AckedIsHeld'
  BY <1>1, <1>2, <1>3 DEF AckedIsHeld, VersionsInOrder, TypeOK
<1> QED
  BY <1>4, <1>5

\* The invariant holds initially: nothing was published or acknowledged.
LEMMA StoreInit == Init => StoreInv
<1> SUFFICES ASSUME Init PROVE StoreInv
  OBVIOUS
<1>1. TypeOK
  BY TypeInit
<1>2. \A r \in Relay : held[r].version = 0
  BY StoreAssumption, NothingType DEF StoreAssumption, Init
<1>3. VersionsInOrder
  BY <1>2, NothingType DEF VersionsInOrder, Init
<1>4. PublishInOrder /\ DatesAreKnown /\ AckedIsHeld
  BY DEF PublishInOrder, DatesAreKnown, AckedIsHeld, Init
<1> QED
  BY <1>1, <1>3, <1>4 DEF StoreInv

\* Every step keeps the invariant.
LEMMA StoreStep == StoreInv /\ [Next]_vars => StoreInv'
<1> SUFFICES ASSUME StoreInv PROVE [Next]_vars => StoreInv'
  OBVIOUS
<1> USE DEF StoreInv
<1>t. ASSUME [Next]_vars PROVE TypeOK'
  BY <1>t, TypeStep
<1>n. \A r \in Relay : held[r].at \in Nat /\ held[r].version \in Nat
  BY NothingType DEF TypeOK
<1>s. sending.at \in Nat /\ sending.version \in Nat /\ last.event.version \in Nat /\ spent.publishes \in Nat
  BY NothingType DEF TypeOK
<1>l. lastTs \in Nat /\ \A r \in Relay : lost[r] \in Nat
  BY DEF TypeOK
<1>1. ASSUME Clock PROVE (VersionsInOrder /\ PublishInOrder /\ DatesAreKnown /\ AckedIsHeld)'
  BY <1>1 DEF Clock, process, publish, VersionsInOrder, PublishInOrder, DatesAreKnown, AckedIsHeld
<1>2. ASSUME Start PROVE (VersionsInOrder /\ PublishInOrder /\ DatesAreKnown /\ AckedIsHeld)'
  <2>1. sending = Nothing /\ UNCHANGED <<held, sending, pending, acks, last, lost, spent.publishes>>
    BY <1>2 DEF Start, Spend, PublishInOrder, publish, TypeOK
  <2>2. \A r \in answered' : held[r].at <= lastTs'
    BY <1>2 DEF Start
  <2>3. DatesAreKnown'
    BY <2>1, <2>2 DEF DatesAreKnown, PublishInOrder
  <2> QED
    BY <2>1, <2>3 DEF VersionsInOrder, PublishInOrder, AckedIsHeld
<1>3. ASSUME Crash PROVE (VersionsInOrder /\ PublishInOrder /\ DatesAreKnown /\ AckedIsHeld)'
  BY <1>3 DEF Crash, VersionsInOrder, PublishInOrder, DatesAreKnown, AckedIsHeld
<1>4. ASSUME NEW r \in Relay, Switch(r) PROVE (VersionsInOrder /\ PublishInOrder /\ DatesAreKnown /\ AckedIsHeld)'
  <2>1. UNCHANGED <<process, publish, held, lost, spent.publishes>>
    BY <1>4 DEF Switch, Spend, TypeOK
  <2> QED
    BY <2>1 DEF process, publish, VersionsInOrder, PublishInOrder, DatesAreKnown, AckedIsHeld
<1>5. ASSUME Publish PROVE (VersionsInOrder /\ PublishInOrder /\ DatesAreKnown /\ AckedIsHeld)'
  <2>1. /\ sending'.at > lastTs /\ sending'.version = spent.publishes + 1
        /\ spent'.publishes = spent.publishes + 1
    BY <1>5, TimestampIsAfter DEF Publish, Spend, TypeOK
  <2>2. up /\ sending = Nothing /\ acks' = {} /\ UNCHANGED <<process, held, lost, last>>
    BY <1>5 DEF Publish
  <2>3. VersionsInOrder'
    BY <2>1, <2>2, <1>n, <1>s DEF VersionsInOrder
  <2>4. PublishInOrder'
    <3>1. sending' # Nothing
      BY <2>1, <1>s, NothingType
    <3> QED
      BY <3>1, <2>1, <2>2 DEF PublishInOrder, process
  <2>5. DatesAreKnown'
    BY <2>2 DEF DatesAreKnown, PublishInOrder, process
  <2> QED
    BY <2>2, <2>3, <2>4, <2>5 DEF AckedIsHeld
<1>6. ASSUME NEW r \in Relay, Acknowledged(r) PROVE (VersionsInOrder /\ PublishInOrder /\ DatesAreKnown /\ AckedIsHeld)'
  <2>1. /\ r \in pending /\ r \notin acks /\ sending # Nothing
        /\ pending' = pending \ {r} /\ acks' = acks \cup {r}
        /\ held' = [held EXCEPT ![r] = Keep(@, sending)]
        /\ UNCHANGED <<up, lastTs, answered, sending, last, lost, spent>>
    BY <1>6 DEF Acknowledged, PublishInOrder, process
  <2>2. VersionsInOrder' /\ AckedIsHeld'
    BY <2>1, Delivery
  <2>3. PublishInOrder'
    BY <2>1 DEF PublishInOrder
  <2>4. /\ held'[r] = Keep(held[r], sending)
        /\ \A s \in Relay \ {r} : held'[s] = held[s]
    BY <2>1 DEF TypeOK
  <2>5. r \in answered => /\ lost[r] < sending.at => held'[r] = sending
                          /\ held'[r].at <= sending.at \/ held'[r].at <= lost[r]
    <3>1. ASSUME r \in answered PROVE held[r].at <= lastTs \/ held[r].at <= lost[r]
      BY <3>1, <2>1 DEF DatesAreKnown
    <3>2. sending.at > lastTs
      BY <2>1 DEF PublishInOrder
    <3>3. ASSUME r \in answered, lost[r] < sending.at PROVE held'[r] = sending
      <4>1. held[r].at < sending.at
        BY <3>1, <3>2, <3>3, <1>n, <1>s, <1>l
      <4> QED
        BY <4>1, <2>4, KeepNewer DEF TypeOK
    <3>4. held'[r] \in {held[r], sending}
      BY <2>4, KeepEither
    <3> QED
      BY <3>1, <3>2, <3>3, <3>4, <1>n, <1>s, <1>l
  <2>6. DatesAreKnown'
    <3> SUFFICES ASSUME NEW s \in answered
                 PROVE  /\ \/ held'[s].at <= lastTs \/ held'[s].at <= lost[s]
                           \/ s \in acks' /\ held'[s].at <= sending.at
                        /\ s \in acks' /\ lost[s] < sending.at => held'[s] = sending
      BY <2>1 DEF DatesAreKnown
    <3>1. CASE s = r
      BY <3>1, <2>1, <2>5
    <3>2. CASE s # r
      BY <3>2, <2>1, <2>4 DEF DatesAreKnown, TypeOK
    <3> QED
      BY <3>1, <3>2
  <2> QED
    BY <2>2, <2>3, <2>6
<1>7. ASSUME NEW r \in Relay, AnswerLost(r) PROVE (VersionsInOrder /\ PublishInOrder /\ DatesAreKnown /\ AckedIsHeld)'
  <2>1. /\ r \in pending /\ r \notin acks /\ sending # Nothing
        /\ pending' = pending \ {r}
        /\ held' = [held EXCEPT ![r] = Keep(@, sending)]
        /\ lost' = [lost EXCEPT ![r] = IF sending.at > @ THEN sending.at ELSE @]
        /\ UNCHANGED <<up, lastTs, answered, sending, acks, last, spent.publishes>>
    BY <1>7 DEF AnswerLost, PublishInOrder, process, Spend, TypeOK
  <2>2. \A s \in Relay : held'[s] \in {held[s], sending}
    BY <2>1, KeepEither DEF TypeOK
  <2>3. VersionsInOrder'
    BY <2>1, <2>2, <1>n, <1>s DEF VersionsInOrder
  <2>4. AckedIsHeld'
    BY <2>1, <2>2, <1>n, <1>s DEF AckedIsHeld, VersionsInOrder, TypeOK
  <2>5. PublishInOrder'
    BY <2>1 DEF PublishInOrder
  <2>6. /\ lost'[r] \in Nat /\ lost'[r] >= lost[r] /\ lost'[r] >= sending.at
        /\ \A s \in Relay \ {r} : held'[s] = held[s] /\ lost'[s] = lost[s]
    BY <2>1, <1>s, <1>l DEF TypeOK
  <2>7. DatesAreKnown'
    <3> SUFFICES ASSUME NEW s \in answered
                 PROVE  /\ \/ held'[s].at <= lastTs \/ held'[s].at <= lost'[s]
                           \/ s \in acks /\ held'[s].at <= sending.at
                        /\ s \in acks /\ lost'[s] < sending.at => held'[s] = sending
      BY <2>1 DEF DatesAreKnown
    <3>1. CASE s = r
      <4>1. held[r].at <= lastTs \/ held[r].at <= lost[r]
        BY <3>1, <2>1 DEF DatesAreKnown
      <4>2. held'[r].at <= lastTs \/ held'[r].at <= lost'[r]
        BY <4>1, <2>2, <2>6, <1>n, <1>s, <1>l
      <4> QED
        BY <3>1, <4>2, <2>1
    <3>2. CASE s # r
      BY <3>2, <2>1, <2>6 DEF DatesAreKnown, TypeOK
    <3> QED
      BY <3>1, <3>2
  <2> QED
    BY <2>3, <2>4, <2>5, <2>7
<1>8. ASSUME NEW r \in Relay, Refused(r) PROVE (VersionsInOrder /\ PublishInOrder /\ DatesAreKnown /\ AckedIsHeld)'
  <2>1. /\ pending' = pending \ {r} /\ sending # Nothing
        /\ UNCHANGED <<process, sending, acks, held, lost, last, spent.publishes>>
    BY <1>8 DEF Refused, Spend, PublishInOrder, TypeOK
  <2> QED
    BY <2>1 DEF process, VersionsInOrder, PublishInOrder, DatesAreKnown, AckedIsHeld
<1>9. ASSUME Settled PROVE (VersionsInOrder /\ PublishInOrder /\ DatesAreKnown /\ AckedIsHeld)'
  <2>1. /\ sending # Nothing /\ sending' = Nothing /\ pending' = {} /\ acks' = {}
        /\ UNCHANGED <<up, answered, held, lost, spent>>
    BY <1>9 DEF Settled
  <2>2. CASE acks = {}
    <3>1. UNCHANGED <<lastTs, last>>
      BY <1>9, <2>2 DEF Settled
    <3> QED
      BY <2>1, <2>2, <3>1 DEF VersionsInOrder, PublishInOrder, DatesAreKnown, AckedIsHeld
  <2>3. CASE acks # {}
    <3>1. /\ lastTs' = sending.at /\ last'.event = sending
          /\ last'.sure = {r \in acks \cap answered : lost[r] < sending.at}
      BY <1>9, <2>3 DEF Settled
    <3>2. \A r \in last'.sure : held[r] = sending
      BY <3>1 DEF DatesAreKnown
    <3>3. AckedIsHeld'
      BY <2>1, <3>1, <3>2, <1>s DEF AckedIsHeld
    <3>4. VersionsInOrder'
      BY <2>1, <3>1, <1>s DEF VersionsInOrder
    <3>5. DatesAreKnown'
      <4> SUFFICES ASSUME NEW r \in answered
                   PROVE  held[r].at <= sending.at \/ held[r].at <= lost[r]
        BY <2>1, <3>1 DEF DatesAreKnown
      <4>1. sending.at > lastTs
        BY <2>1 DEF PublishInOrder
      <4> QED
        BY <4>1, <1>n, <1>s, <1>l DEF DatesAreKnown, TypeOK
    <3> QED
      BY <2>1, <3>3, <3>4, <3>5 DEF PublishInOrder
  <2> QED
    BY <2>2, <2>3
<1>10. ASSUME UNCHANGED vars PROVE (VersionsInOrder /\ PublishInOrder /\ DatesAreKnown /\ AckedIsHeld)'
  BY <1>10 DEF vars, process, publish, VersionsInOrder, PublishInOrder, DatesAreKnown, AckedIsHeld
<1> QED
  BY <1>t, <1>1, <1>2, <1>3, <1>4, <1>5, <1>6, <1>7, <1>8, <1>9, <1>10 DEF Next

\* An acknowledged backup is kept, or replaced by a later one.
THEOREM AcknowledgedIsHeld == Spec => []AckedIsHeld
<1>1. StoreInv => AckedIsHeld
  BY DEF StoreInv
<1> QED
  BY <1>1, StoreInit, StoreStep, PTL DEF Spec

-----------------------------------------------------------------------------
(* A restore *)

\* Whatever the restore does, the relays see steps of the publisher only.
LEMMA RelaysMove == [System]_<<vars, restore>> => [Next]_vars
  BY DEF System, Next

\* An acknowledged backup is kept until the restore, and during it.
THEOREM AcknowledgedIsKept == SystemSpec => []AckedIsHeld
<1>1. RestoreInit => StoreInv
  BY StoreInit DEF RestoreInit
<1>2. StoreInv /\ [System]_<<vars, restore>> => StoreInv'
  BY RelaysMove, StoreStep
<1>3. StoreInv => AckedIsHeld
  BY DEF StoreInv
<1>. QED
  BY <1>1, <1>2, <1>3, PTL DEF SystemSpec

\* Once an import is confirmed the restore only goes on to its end.
ImportedGoesOn == imported = "yes" => phase \in {"dialing", "done"}

\* A restore whose import lnd has confirmed has its peers dialed to the end and is not reported as
\* failed; one whose import was not answered is, although lnd may have the backup.
THEOREM ImportsAreReported == SystemSpec => []ImportIsReported
<1>1. RestoreInit => ImportedGoesOn
  BY DEF RestoreInit, ImportedGoesOn
<1>2. ImportedGoesOn /\ [System]_<<vars, restore>> => ImportedGoesOn'
  BY DEF ImportedGoesOn, System, restore, RestoreNext, Restore, NodeReady, Fetched, Imported,
     Redial, Finished, Reply, NoReply
<1>3. ImportedGoesOn => ImportIsReported
  BY DEF ImportedGoesOn, ImportIsReported
<1>. QED
  BY <1>1, <1>2, <1>3, PTL DEF SystemSpec

\* A relay that vouches for the last acknowledged backup holds something of its date or later.
DatesAreKept == \A r \in last.sure : last.event.at > 0 /\ held[r].at >= last.event.at

\* Relays that hold the same id hold the same event, which may be the one being published.
IdsDiffer ==
    /\ \A r, s \in Relay : held[r].id = held[s].id => held[r] = held[s]
    /\ sending # Nothing => \A r \in Relay : held[r].id = sending.id => held[r] = sending

\* What a relay holds never gets older.
LEMMA KeepIsNotOlder ==
    ASSUME NEW old \in Event \cup {Nothing}, NEW e \in Event \cup {Nothing}
    PROVE  Keep(old, e).at >= old.at /\ Keep(old, e).at \in Nat
  BY NothingType DEF Keep

\* Both hold at first.
LEMMA HeldInit == Init => DatesAreKept /\ IdsDiffer
<1>. SUFFICES ASSUME Init PROVE DatesAreKept /\ IdsDiffer
  OBVIOUS
<1>1. \A e \in Leftovers : e.id # 0
  BY StoreAssumption DEF StoreAssumption
<1>2. \A e, f \in Leftovers \cup {Nothing} : e.id = f.id => e = f
  BY <1>1, NothingType, StoreAssumption DEF StoreAssumption
<1>3. IdsDiffer
  BY <1>2 DEF Init, IdsDiffer
<1>. QED
  BY <1>3 DEF Init, DatesAreKept

\* Every step keeps them.
LEMMA HeldStep == StoreInv /\ DatesAreKept /\ IdsDiffer /\ [Next]_vars => DatesAreKept' /\ IdsDiffer'
<1>. SUFFICES ASSUME StoreInv, DatesAreKept, IdsDiffer, [Next]_vars
              PROVE  DatesAreKept' /\ IdsDiffer'
  OBVIOUS
<1>t. TypeOK
  BY DEF StoreInv
<1>1. CASE Clock \/ Start \/ (\E r \in Relay : Switch(r) \/ Refused(r)) \/ UNCHANGED vars
  <2>1. UNCHANGED <<held, last, sending>>
    BY <1>1 DEF Clock, Start, Switch, Refused, process, publish, vars
  <2>. QED
    BY <2>1 DEF DatesAreKept, IdsDiffer
<1>2. CASE Crash
  BY <1>2 DEF Crash, DatesAreKept, IdsDiffer
<1>3. CASE Publish
  <2>1. PICK id \in Ids : /\ \A r \in Relay : held[r].id # id
                          /\ sending' = [at |-> Timestamp, id |-> id, version |-> spent.publishes + 1]
    BY <1>3 DEF Publish
  <2>2. UNCHANGED <<held, last>>
    BY <1>3 DEF Publish
  <2>. QED
    BY <2>1, <2>2 DEF DatesAreKept, IdsDiffer
<1>4. CASE \E r \in Relay : Acknowledged(r) \/ AnswerLost(r)
  <2>1. PICK r \in Relay : Acknowledged(r) \/ AnswerLost(r)
    BY <1>4
  <2>2. held' = [held EXCEPT ![r] = Keep(@, sending)] /\ UNCHANGED <<last, sending>> /\ r \in pending
    BY <2>1 DEF Acknowledged, AnswerLost
  <2>3. sending # Nothing
    BY <2>2 DEF StoreInv, PublishInOrder
  <2>4. \A s \in Relay : held'[s] = held[s] \/ (s = r /\ held'[s] = sending)
    BY <1>t, <2>2, KeepEither DEF TypeOK
  <2>5. IdsDiffer'
    BY <2>2, <2>3, <2>4 DEF IdsDiffer
  <2>6. \A s \in Relay : held'[s].at >= held[s].at /\ held'[s].at \in Nat /\ held[s].at \in Nat
    BY <1>t, <2>2, KeepIsNotOlder, NothingType DEF TypeOK
  <2>7. last.event.at \in Nat /\ last.sure \subseteq Relay
    BY <1>t, NothingType DEF TypeOK
  <2>8. DatesAreKept'
    BY <2>2, <2>6, <2>7 DEF DatesAreKept
  <2>. QED
    BY <2>5, <2>8
<1>5. CASE Settled
  <2>1. UNCHANGED held /\ sending' = Nothing /\ sending # Nothing
    BY <1>5 DEF Settled
  <2>2. IdsDiffer'
    BY <2>1 DEF IdsDiffer
  <2>3. CASE acks = {}
    <3>1. last' = last
      BY <1>5, <2>3 DEF Settled
    <3>. QED
      BY <2>1, <2>2, <3>1 DEF DatesAreKept
  <2>4. CASE acks # {}
    <3>1. /\ last'.event = sending
          /\ last'.sure = {r \in acks \cap answered : lost[r] < sending.at}
      BY <1>5, <2>4 DEF Settled
    <3>2. \A r \in last'.sure : held[r] = sending
      BY <3>1 DEF StoreInv, DatesAreKnown
    <3>3. sending.at \in Nat /\ lastTs \in Nat /\ sending.at > lastTs
      BY <1>t, <2>1, NothingType DEF TypeOK, StoreInv, PublishInOrder
    <3>. QED
      BY <2>1, <2>2, <3>1, <3>2, <3>3 DEF DatesAreKept
  <2>. QED
    BY <2>2, <2>3, <2>4
<1>. QED
  BY <1>1, <1>2, <1>3, <1>4, <1>5 DEF Next

\* What a restore may read from the relays.
Readable == {Seen(held[r]) : r \in {s \in Relay : held[s] # Nothing}}

\* What it has read: before it starts nothing, then what the relays hold that replied.
HeardFromRelays ==
    /\ phase = "none" => got = <<>> /\ replied = {}
    /\ got \in Seq(Readable) /\ replied \subseteq Relay /\ given \subseteq Relay
    /\ \A r \in replied : held[r] # Nothing => \E i \in DOMAIN got : got[i] = Seen(held[r])

\* RestoreIsRecent needs that what vouching relays hold is dated, told apart by its id, and read.
RestoreInv == StoreInv /\ DatesAreKept /\ IdsDiffer /\ HeardFromRelays

\* It holds at first.
LEMMA RestoreInvInit == RestoreInit => RestoreInv
<1>1. RestoreInit => HeardFromRelays
  BY DEF RestoreInit, HeardFromRelays
<1>. QED
  BY <1>1, StoreInit, HeldInit DEF RestoreInit, RestoreInv

\* Every step keeps it.
LEMMA RestoreInvStep == RestoreInv /\ [System]_<<vars, restore>> => RestoreInv'
<1>. SUFFICES ASSUME RestoreInv, [System]_<<vars, restore>> PROVE RestoreInv'
  OBVIOUS
<1>1. StoreInv' /\ DatesAreKept' /\ IdsDiffer'
  BY RelaysMove, StoreStep, HeldStep DEF RestoreInv
<1>2. HeardFromRelays'
  <2>. SUFFICES ASSUME HeardFromRelays PROVE HeardFromRelays'
    BY DEF RestoreInv
  <2>1. CASE phase = "none" /\ Next /\ UNCHANGED restore
    <3>1. phase' = "none" /\ got' = <<>> /\ replied' = {} /\ given' \subseteq Relay
      BY <2>1 DEF restore, HeardFromRelays
    <3>. QED
      BY <3>1 DEF HeardFromRelays
  <2>2. CASE ((phase # "none" /\ Clock) \/ UNCHANGED vars) /\ UNCHANGED restore
    <3>1. UNCHANGED <<held, phase, got, replied, given>>
      BY <2>2 DEF Clock, vars, restore
    <3>. QED
      BY <3>1 DEF HeardFromRelays, Readable
  <2>3. CASE RestoreNext /\ UNCHANGED vars
    <3>1. held' = held /\ Readable' = Readable
      BY <2>3 DEF vars, Readable
    <3>2. CASE Restore \/ NodeReady \/ Fetched \/ Imported \/ Redial \/ Finished
      <4>1. /\ UNCHANGED <<got, replied>> /\ (given' = given \/ given' = Relay)
            /\ phase' # "none"
        BY <3>2 DEF Restore, NodeReady, Fetched, Imported, Redial, Finished
      <4>. QED
        BY <3>1, <4>1 DEF HeardFromRelays
    <3>3. ASSUME NEW r \in Relay, NoReply(r) PROVE HeardFromRelays'
      <4>1. UNCHANGED <<got, replied, phase>> /\ given' = given \ {r}
        BY <3>3 DEF NoReply
      <4>. QED
        BY <3>1, <4>1 DEF HeardFromRelays
    <3>4. ASSUME NEW r \in Relay, Reply(r) PROVE HeardFromRelays'
      <4>1. /\ phase = "fetching" /\ phase' = phase /\ replied' = replied \cup {r}
            /\ given' = given
            /\ got' = IF held[r] = Nothing THEN got ELSE Append(got, Seen(held[r]))
        BY <3>4 DEF Reply
      <4>2. CASE held[r] = Nothing
        BY <3>1, <4>1, <4>2 DEF HeardFromRelays
      <4>3. CASE held[r] # Nothing
        <5>1. Seen(held[r]) \in Readable /\ got \in Seq(Readable)
          BY <4>3 DEF Readable, HeardFromRelays
        <5>. HIDE DEF Readable
        <5>2. got' = Append(got, Seen(held[r])) /\ got' \in Seq(Readable)
          BY <4>1, <4>3, <5>1
        <5>3. \A i \in DOMAIN got : i \in DOMAIN got' /\ got'[i] = got[i]
          BY <5>1, <5>2
        <5>4. Len(got') \in DOMAIN got' /\ got'[Len(got')] = Seen(held[r])
          BY <5>1, <5>2
        <5>5. \A s \in replied' : held[s] # Nothing => \E i \in DOMAIN got' : got'[i] = Seen(held[s])
          BY <4>1, <5>3, <5>4 DEF HeardFromRelays
        <5>6. replied' \subseteq Relay /\ given' \subseteq Relay /\ phase' # "none"
          BY <4>1 DEF HeardFromRelays
        <5>. QED
          BY <3>1, <5>2, <5>5, <5>6 DEF HeardFromRelays
      <4>. QED
        BY <4>2, <4>3
    <3>. QED
      BY <2>3, <3>2, <3>3, <3>4 DEF RestoreNext
  <2>. QED
    BY <2>1, <2>2, <2>3 DEF System
<1>. QED
  BY <1>1, <1>2 DEF RestoreInv

\* What a restore reads is dated.
LEMMA ReadableIsDated ==
    ASSUME TypeOK
    PROVE  Dated(Readable) /\ \A e \in Readable : e.own /\ e.usable
<1>1. \A r \in Relay : held[r] # Nothing => held[r].id \in Nat \ {0} /\ held[r].at \in Nat
  BY StoreAssumption DEF StoreAssumption, TypeOK, Event
<1>2. ASSUME NEW e \in Readable
      PROVE  e.id \in Nat \ {0} /\ e.at \in Nat /\ e.own = TRUE /\ e.usable = TRUE
  <2>1. PICK r \in Relay : held[r] # Nothing /\ e = Seen(held[r])
    BY DEF Readable
  <2>. QED
    BY <1>1, <2>1 DEF Seen
<1>. QED
  BY <1>2 DEF Dated

\* A restore that hears from one relay vouching for the last acknowledged backup never goes back
\* behind its date, as long as nothing that it reads is dated in the future.
THEOREM RestoresAreRecent == SystemSpec => RestoreIsRecent
<1>1. RestoreInv /\ [System]_<<vars, restore>>
      => [Fetched /\ NoneFromFuture /\ last.sure \cap replied # {}
             => picked' # NoEvent /\ picked'.at >= last.event.at]_<<vars, restore>>
  <2>. SUFFICES ASSUME RestoreInv, Fetched, NoneFromFuture, last.sure \cap replied # {}
                PROVE  picked' # NoEvent /\ picked'.at >= last.event.at
    OBVIOUS
  <2>1. PICK r \in last.sure \cap replied : TRUE
    OBVIOUS
  <2>2. r \in Relay /\ last.event.at > 0 /\ held[r].at >= last.event.at
    BY DEF RestoreInv, HeardFromRelays, DatesAreKept
  <2>3. TypeOK /\ held[r].at \in Nat /\ last.event.at \in Nat /\ now \in Int
    BY <2>2, NothingType DEF RestoreInv, StoreInv, TypeOK
  <2>4. held[r] # Nothing
    BY <2>2, <2>3, NothingType
  <2>5. PICK i \in DOMAIN got : got[i] = Seen(held[r])
    BY <2>4 DEF RestoreInv, HeardFromRelays
  <2>6. got \in Seq(Readable) /\ Dated(Readable) /\ \A e \in Readable : e.own /\ e.usable
    BY <2>3, ReadableIsDated DEF RestoreInv, HeardFromRelays
  <2>7. PICK e \in Unique(got) : e.id = got[i].id
    BY <2>6, UniqueEvents
  <2>8. Unique(got) \subseteq Readable /\ Unique(got) \subseteq ToSet(got)
    BY <2>6, UniqueEvents
  <2>9. e = Seen(held[r])
    <3>1. PICK s \in Relay : e = Seen(held[s])
      BY <2>8 DEF Readable
    <3>2. held[s].id = held[r].id
      BY <2>5, <2>7, <3>1 DEF Seen
    <3>. QED
      BY <2>2, <3>1, <3>2 DEF RestoreInv, IdsDiffer
  <2>10. \A f \in Unique(got) : ~Future(f, now)
    BY <2>8 DEF NoneFromFuture, ToSet
  <2>11. e \in Present(got, now) /\ Best(got, now) \subseteq Readable
    BY <2>6, <2>8, <2>10 DEF Present, Usable, Best
  <2>12. e \in Best(got, now)
    BY <2>11 DEF Best
  <2>13. picked' = Pick(got, now).event
    BY DEF Fetched
  <2>14. /\ picked' \in Best(got, now)
         /\ e = picked' \/ NewestFirst(picked', e)
    BY <2>3, <2>6, <2>12, <2>13, PickIsBest
  <2>15. picked' \in Readable /\ picked'.at \in Nat /\ picked'.id # 0
    BY <2>6, <2>11, <2>14 DEF Dated
  <2>16. e.at = held[r].at
    BY <2>9 DEF Seen
  <2>17. picked'.at >= e.at
    BY <2>3, <2>14, <2>15, <2>16 DEF NewestFirst
  <2>. QED
    BY <2>2, <2>3, <2>15, <2>16, <2>17 DEF NoEvent
<1>. QED
  BY <1>1, RestoreInvInit, RestoreInvStep, PTL DEF SystemSpec, RestoreIsRecent
=============================================================================

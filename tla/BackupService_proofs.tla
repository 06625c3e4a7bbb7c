------------------------ MODULE BackupService_proofs ------------------------
(***************************************************************************)
(* What holds of the backup service for every number of changes, faults,   *)
(* starts, stops, crashes and manual publishes.                            *)
(***************************************************************************)
EXTENDS BackupService, TLAPS

-----------------------------------------------------------------------------
(* The state machine *)

\* What the pipeline relies on in ALLOWED: every resting or verifying state may start a job, a
\* job walks through its three states, everything may fail, and an idle service refuses the
\* later states of a job.
LEMMA AllowedFacts ==
    /\ \A s \in States \ {"ENCRYPTING", "PUBLISHING"} : CanTransition(s, "BACKING_UP")
    /\ \A r \in Resting : CanTransition("BACKING_UP", r)
    /\ CanTransition("BACKING_UP", "ENCRYPTING") /\ CanTransition("ENCRYPTING", "PUBLISHING")
    /\ CanTransition("PUBLISHING", "SUCCESS") /\ CanTransition("PUBLISHING", "DEGRADED")
    /\ \A s \in States : CanTransition(s, "FAILED")
    /\ CanTransition("FAILED", "RECOVERING")
    /\ \A s \in {"SUCCESS", "DEGRADED"} :
          CanTransition(s, "VERIFYING") /\ CanTransition("VERIFYING", s)
    /\ \A s \in {"ENCRYPTING", "PUBLISHING", "SUCCESS", "DEGRADED"} : ~CanTransition("IDLE", s)
  BY DEF CanTransition, Allowed, States, Resting

\* setState keeps the shape of the state machine's record.
LEMMA ToType ==
    ASSUME NEW p \in Pipe, NEW s \in States
    PROVE  To(p, s) \in Pipe
  BY DEF To, Pipe, Resting

\* setState makes an allowed transition and only that.
LEMMA ToAllowed ==
    ASSUME NEW p \in Pipe, NEW s \in States, CanTransition(p.state, s)
    PROVE  /\ To(p, s).state = s
           /\ To(p, s).rest \in {p.rest, s}
           /\ To(p, s).invalid = p.invalid
           /\ s \notin Resting => To(p, s).rest = p.rest
  BY DEF To, Pipe, Resting

\* setState either takes the new state or keeps the old one, and rests only in resting ones.
LEMMA ToState ==
    ASSUME NEW p \in Pipe, NEW s \in States
    PROVE  /\ To(p, s).state \in {p.state, s}
           /\ To(p, s).rest \in {p.rest, s}
           /\ s \notin Resting => To(p, s).rest = p.rest
  BY DEF To, Pipe, Resting

\* setState ignores an impossible transition and counts it.
LEMMA ToRefused ==
    ASSUME NEW p \in Pipe, NEW s \in States, ~CanTransition(p.state, s)
    PROVE  To(p, s).state = p.state /\ To(p, s).rest = p.rest
  BY DEF To, Pipe

\* The states are nine, and a resting or working one is among them.
LEMMA StateSets == Resting \subseteq States /\ Working \subseteq States /\ Idle \in Pipe
  BY DEF Resting, Working, States, Idle, Pipe

-----------------------------------------------------------------------------
(* Type correctness *)

\* Appending a job keeps a queue of jobs.
LEMMA QueuedType ==
    ASSUME NEW q \in Seq(Entry), NEW r \in Reasons, NEW v \in Versions \cup {NoVersion},
           r = "stream" => v \in Versions
    PROVE  Queued(q, r, v) \in Seq(Entry)
  BY DEF Queued, Entry

\* The empty sequence is one of any elements.
LEMMA EmptyType == \A S : <<>> \in Seq(S)
  OBVIOUS

\* The constant records have their types.
LEMMA ConstantTypes == NoKey \in AnyKey /\ NoJob \in Job
  BY DEF NoKey, AnyKey, NoJob, Job, NoVersion

\* A snapshot taken up leaves a well-formed job and state.
LEMMA TakeSnapshotType ==
    ASSUME DataOK, NEW r \in Reasons \cup {"none"}, NEW v \in Versions, TakeSnapshot(r, v)
    PROVE  pipe' \in Pipe /\ job' \in Job
<1>. DEFINE p == To(pipe, "BACKING_UP")
<1>1. p \in Pipe
  BY ToType DEF DataOK, States
<1>2. To(p, p.rest) \in Pipe
  BY <1>1, ToType, StateSets DEF Pipe
<1>3. [NoJob EXCEPT !.reason = r, !.snap = v, !.step = "hints"] \in Job
  BY ConstantTypes DEF Job
<1>. QED
  BY <1>1, <1>2, <1>3, ConstantTypes DEF TakeSnapshot

\* A failure leaves a well-formed job and state.
LEMMA FailType ==
    ASSUME NEW p \in Pipe, Fail(p)
    PROVE  pipe' \in Pipe /\ job' \in Job
<1>1. To(p, "FAILED") \in Pipe
  BY ToType DEF States
<1>2. To(To(p, "FAILED"), "RECOVERING") \in Pipe
  BY <1>1, ToType DEF States
<1>. QED
  BY <1>1, <1>2, ConstantTypes DEF Fail

\* A failure sets the error and may arm the timer.
LEMMA FailFlags ==
    ASSUME FlagsOK, NEW p, Fail(p)
    PROVE  lastError' \in BOOLEAN /\ retryTimer' \in BOOLEAN
  BY Zenon DEF Fail, FlagsOK

\* Every flag of the service stays a Boolean.
LEMMA FlagsStep == FlagsOK /\ [Next]_vars => FlagsOK'
<1>. SUFFICES ASSUME FlagsOK PROVE [Next]_vars => FlagsOK'
  OBVIOUS
<1>. USE DEF FlagsOK, lifecycle, working, stream, external
<1>1. ASSUME Start PROVE FlagsOK'
  BY <1>1, Zenon DEF Start
<1>2. ASSUME KeyDerived PROVE FlagsOK'
  BY <1>2, Zenon DEF KeyDerived
<1>3. ASSUME Begun PROVE FlagsOK'
  BY <1>3, Zenon DEF Begun, Subscribe
<1>4. ASSUME Stop PROVE FlagsOK'
  BY <1>4, Zenon DEF Stop
<1>5. ASSUME Crash PROVE FlagsOK'
  BY <1>5, Zenon DEF Crash
<1>6. ASSUME Register PROVE FlagsOK'
  BY <1>6, Zenon DEF Register
<1>7. ASSUME ChannelChange PROVE FlagsOK'
  BY <1>7, Zenon DEF ChannelChange
<1>8. ASSUME StreamSnapshot PROVE FlagsOK'
  BY <1>8, Zenon DEF StreamSnapshot
<1>9. ASSUME StreamEnd PROVE FlagsOK'
  BY <1>9, Zenon DEF StreamEnd
<1>10. ASSUME Resubscribe PROVE FlagsOK'
  BY <1>10, Zenon DEF Resubscribe, Subscribe
<1>11. ASSUME Refresh PROVE FlagsOK'
  BY <1>11, Zenon DEF Refresh
<1>12. ASSUME Retry PROVE FlagsOK'
  BY <1>12, Zenon DEF Retry
<1>13. ASSUME PublishNow PROVE FlagsOK'
  BY <1>13, Zenon DEF PublishNow
<1>14. ASSUME NextJob PROVE FlagsOK'
  BY <1>14, Zenon DEF NextJob
<1>15. ASSUME Exported PROVE FlagsOK'
  BY <1>15, FailFlags, Zenon DEF Exported, TakeSnapshot, Fail
<1>16. ASSUME HintsRead PROVE FlagsOK'
  BY <1>16, FailFlags, Zenon DEF HintsRead, TakeSnapshot, Fail
<1>17. ASSUME Published PROVE FlagsOK'
  BY <1>17, FailFlags, Zenon DEF Published, TakeSnapshot, Fail
<1>18. ASSUME BeginVerify PROVE FlagsOK'
  BY <1>18, Zenon DEF BeginVerify
<1>19. ASSUME EndVerify PROVE FlagsOK'
  BY <1>19, Zenon DEF EndVerify
<1>20. ASSUME UNCHANGED vars PROVE FlagsOK'
  BY <1>20, Zenon DEF vars
<1>. QED
  BY <1>1, <1>2, <1>3, <1>4, <1>5, <1>6, <1>7, <1>8, <1>9, <1>10, <1>11, <1>12, <1>13, <1>14, <1>15, <1>16, <1>17, <1>18, <1>19, <1>20 DEF Next

\* Every other variable keeps its type.
LEMMA DataStep == DataOK /\ [Next]_vars => DataOK'
<1>. SUFFICES ASSUME DataOK PROVE [Next]_vars => DataOK'
  OBVIOUS
<1>. USE DEF lifecycle, working, stream, external
<1>a. ASSUME NEW what \in {"faults", "starts", "stops", "crashes", "manuals"}, Spend(what)
      PROVE  spent' \in [faults : Nat, starts : Nat, stops : Nat, crashes : Nat, manuals : Nat]
  BY <1>a DEF Spend, DataOK
<1>b. ASSUME Subscribe PROVE subs' \in Nat /\ wire' \in Seq(Versions)
  <2>1. subs' \in Nat
    BY <1>b DEF Subscribe, DataOK
  <2>2. wire' \in Seq(Versions)
    BY <1>b, EmptyType DEF Subscribe, DataOK
  <2>. QED
    BY <2>1, <2>2
<1>c. [pipe EXCEPT !.state = "IDLE", !.rest = "IDLE"] \in Pipe
  BY DEF DataOK, Pipe, States, Resting
<1>1. ASSUME Start PROVE DataOK'
  BY <1>1, <1>a DEF Start, DataOK
<1>2. ASSUME KeyDerived PROVE DataOK'
  BY <1>2, <1>a DEF KeyDerived, DataOK
<1>3. ASSUME Begun PROVE DataOK'
  BY <1>3, <1>b, QueuedType DEF Begun, DataOK, Reasons
<1>4. ASSUME Stop PROVE DataOK'
  <2>1. subs' \in Nat
    BY <1>4 DEF Stop, DataOK
  <2>2. pipe' \in Pipe
    BY <1>4, <1>c DEF Stop
  <2>3. job' \in Job
    BY <1>4 DEF Stop, DataOK, Job
  <2>. QED
    BY <1>4, <1>a, <2>1, <2>2, <2>3, EmptyType DEF Stop, DataOK
<1>5. ASSUME Crash PROVE DataOK'
  <2>1. stored' \in Versions \cup {NoVersion}
    BY <1>5 DEF Crash, DataOK, Job
  <2>. QED
    BY <1>5, <1>a, <2>1, EmptyType, StateSets, ConstantTypes DEF Crash, DataOK
<1>6. ASSUME Register PROVE DataOK'
  BY <1>6 DEF Register, DataOK
<1>7. ASSUME ChannelChange PROVE DataOK'
  <2>1. lnd + 1 \in Versions
    BY <1>7, BoundsAssumption DEF ChannelChange, DataOK, Versions, BoundsAssumption
  <2>. QED
    BY <1>7, <2>1 DEF ChannelChange, DataOK
<1>8. ASSUME StreamSnapshot PROVE DataOK'
  <2>1. Head(wire) \in Versions /\ Tail(wire) \in Seq(Versions)
    BY <1>8 DEF StreamSnapshot, DataOK
  <2>. QED
    BY <1>8, <2>1, QueuedType DEF StreamSnapshot, DataOK, Reasons
<1>9. ASSUME StreamEnd PROVE DataOK'
  <2>1. subs' \in Nat /\ resubs' \in Nat
    BY <1>9 DEF StreamEnd, DataOK
  <2>. QED
    BY <1>9, <1>a, <2>1, EmptyType DEF StreamEnd, DataOK
<1>10. ASSUME Resubscribe PROVE DataOK'
  <2>1. resubs' \in Nat
    BY <1>10 DEF Resubscribe, DataOK
  <2>. QED
    BY <1>10, <1>b, <2>1, QueuedType DEF Resubscribe, DataOK, Reasons
<1>11. ASSUME Refresh PROVE DataOK'
  BY <1>11, QueuedType DEF Refresh, DataOK, Reasons
<1>12. ASSUME Retry PROVE DataOK'
  BY <1>12, QueuedType DEF Retry, DataOK, Reasons
<1>13. ASSUME PublishNow PROVE DataOK'
  BY <1>13, <1>a, QueuedType DEF PublishNow, DataOK, Reasons
<1>14. ASSUME NextJob PROVE DataOK'
  <2>1. Head(queue) \in Entry /\ Tail(queue) \in Seq(Entry)
    BY <1>14 DEF NextJob, DataOK
  <2>2. ASSUME NEW r \in Reasons
        PROVE  [NoJob EXCEPT !.reason = r, !.step = "export"] \in Job
    BY ConstantTypes DEF Job
  <2>3. pipe' \in Pipe /\ job' \in Job
    <3>1. CASE Head(queue).reason = "stream"
      BY <1>14, <2>1, <3>1, TakeSnapshotType DEF NextJob, Entry
    <3>2. CASE Head(queue).reason # "stream"
      BY <1>14, <2>1, <2>2, <3>2 DEF NextJob, Entry, DataOK
    <3>. QED
      BY <3>1, <3>2
  <2>. QED
    BY <1>14, <2>1, <2>3 DEF NextJob, DataOK
<1>15. ASSUME Exported PROVE DataOK'
  <2>1. pipe' \in Pipe /\ job' \in Job
    <3>1. CASE TakeSnapshot(job.reason, lnd)
      BY <3>1, TakeSnapshotType DEF DataOK, Job
    <3>2. CASE Fail(pipe)
      BY <3>2, FailType DEF DataOK
    <3>. QED
      BY <1>15, <3>1, <3>2 DEF Exported
  <2>. QED
    BY <1>15, <1>a, <2>1 DEF Exported, DataOK
<1>16. ASSUME HintsRead PROVE DataOK'
  <2>1. To(pipe, "ENCRYPTING") \in Pipe /\ To(To(pipe, "ENCRYPTING"), "PUBLISHING") \in Pipe
    BY ToType DEF DataOK, States
  <2>2. To(pipe, pipe.rest) \in Pipe
    BY ToType, StateSets DEF DataOK, Pipe
  <2>3. ASSUME NEW hints \in BOOLEAN
        PROVE  [job EXCEPT !.step = "publish", !.key = Key(job.snap, hints)] \in Job
    <3>1. Fingerprint[job.snap] \in Nat
      BY <1>16, DataAssumption DEF HintsRead, DataOK, Job
    <3>2. Key(job.snap, hints) \in AnyKey /\ Key(job.snap, hints) # NoKey
      BY <3>1 DEF Key, AnyKey, NoKey, NoVersion
    <3>. QED
      BY <1>16, <3>2 DEF HintsRead, DataOK, Job
  <2>4. pipe' \in Pipe /\ job' \in Job
    BY <1>16, <2>1, <2>2, <2>3, FailType, ConstantTypes DEF HintsRead
  <2>. QED
    BY <1>16, <1>a, <2>4 DEF HintsRead, DataOK
<1>17. ASSUME Published PROVE DataOK'
  <2>1. To(pipe, "SUCCESS") \in Pipe /\ To(pipe, "DEGRADED") \in Pipe
    BY ToType DEF DataOK, States
  <2>2. pipe' \in Pipe /\ job' \in Job
    BY <1>17, <2>1, FailType, ConstantTypes DEF Published, DataOK
  <2>3. last' \in AnyKey /\ stored' \in Versions \cup {NoVersion}
    BY <1>17 DEF Published, DataOK, Job
  <2>. QED
    BY <1>17, <1>a, <2>2, <2>3 DEF Published, DataOK
<1>18. ASSUME BeginVerify PROVE DataOK'
  BY <1>18, ToType DEF BeginVerify, DataOK, States
<1>19. ASSUME EndVerify PROVE DataOK'
  BY <1>19, ToType DEF EndVerify, DataOK, States
<1>20. ASSUME UNCHANGED vars PROVE DataOK'
  BY <1>20 DEF vars, DataOK
<1>. QED
  BY <1>1, <1>2, <1>3, <1>4, <1>5, <1>6, <1>7, <1>8, <1>9, <1>10, <1>11, <1>12, <1>13, <1>14, <1>15, <1>16, <1>17, <1>18, <1>19, <1>20 DEF Next

\* The initial state is well-typed.
LEMMA InitType == Init => TypeOK
<1>1. Init => FlagsOK
  BY Zenon DEF Init, FlagsOK
<1>2. Init => DataOK
  BY StateSets, ConstantTypes, EmptyType, BoundsAssumption
  DEF Init, DataOK, Versions, NoVersion, BoundsAssumption
<1>. QED
  BY <1>1, <1>2 DEF TypeOK

\* Type correctness: every variable keeps its type, the queue holds jobs, a stream job carries
\* a snapshot, and subscriptions and timers never count below zero.
THEOREM TypeCorrect == Spec => []TypeOK
<1>1. Init => TypeOK
  BY InitType
<1>2. TypeOK /\ [Next]_vars => TypeOK'
  BY FlagsStep, DataStep DEF TypeOK
<1>. QED
  BY <1>1, <1>2, PTL DEF Spec

-----------------------------------------------------------------------------
(* What the state machine shows *)

\* What a job between two awaits has left in the state machine.  An inductive form of
\* NeverStuckWorking: it also says where an uninterrupted and an interrupted job stand.
Phase ==
    /\ job.step = "hints"   => pipe.state = IF job.interrupted THEN "IDLE" ELSE "BACKING_UP"
    /\ job.step = "publish" => pipe.state = IF job.interrupted THEN "IDLE" ELSE "PUBLISHING"
    /\ NeverStuckWorking

\* Taking up a snapshot outside a pipeline either rests as before or is at BACKING_UP.
LEMMA TakeSnapshotEffect ==
    ASSUME DataOK, pipe.state \notin {"ENCRYPTING", "PUBLISHING"},
           NEW r, NEW v, TakeSnapshot(r, v)
    PROVE  /\ pipe'.rest = pipe.rest /\ pipe'.invalid = pipe.invalid
           /\ \/ job' = NoJob /\ pipe'.state = pipe.rest
              \/ job'.step = "hints" /\ job'.interrupted = FALSE /\ pipe'.state = "BACKING_UP"
<1>. DEFINE p == To(pipe, "BACKING_UP")
<1>1. CanTransition(pipe.state, "BACKING_UP")
  BY AllowedFacts DEF DataOK, Pipe
<1>2. p \in Pipe /\ p.state = "BACKING_UP" /\ p.rest = pipe.rest /\ p.invalid = pipe.invalid
  BY <1>1, ToType, ToAllowed DEF DataOK, States, Resting
<1>3. CanTransition(p.state, p.rest)
  BY <1>2, AllowedFacts DEF Pipe
<1>4. /\ To(p, p.rest).state = pipe.rest /\ To(p, p.rest).rest = pipe.rest
      /\ To(p, p.rest).invalid = pipe.invalid
  BY <1>2, <1>3, ToAllowed, StateSets DEF Pipe
<1>. QED
  BY <1>2, <1>4 DEF TakeSnapshot, NoJob

\* A failure is always shown, and as RECOVERING only with the retry armed.
LEMMA FailEffect ==
    ASSUME NEW p \in Pipe, Fail(p)
    PROVE  /\ job' = NoJob
           /\ pipe'.state \in {"FAILED", "RECOVERING"}
           /\ pipe'.state = "RECOVERING" => retryTimer'
           /\ pipe'.rest \in {p.rest, "FAILED"}
           /\ pipe'.invalid = p.invalid
<1>. DEFINE failed == To(p, "FAILED")
<1>1. /\ failed \in Pipe /\ failed.state = "FAILED" /\ failed.rest \in {p.rest, "FAILED"}
      /\ failed.invalid = p.invalid
  BY ToType, ToAllowed, AllowedFacts DEF Pipe, States
<1>2. /\ To(failed, "RECOVERING").state = "RECOVERING"
      /\ To(failed, "RECOVERING").rest = failed.rest
      /\ To(failed, "RECOVERING").invalid = p.invalid
  BY <1>1, ToAllowed, AllowedFacts DEF States, Resting
<1>. QED
  BY <1>1, <1>2 DEF Fail

\* While a job runs, the state machine is where the job is, or idle if stop() overtook it.
LEMMA PhaseStep == DataOK /\ Phase /\ [Next]_vars => Phase'
<1>. SUFFICES ASSUME DataOK, Phase PROVE [Next]_vars => Phase'
  OBVIOUS
<1>. USE DEF Phase, NeverStuckWorking, Working, lifecycle, working, stream, external
<1>1. ASSUME UNCHANGED <<pipe, job>> PROVE Phase'
  BY <1>1
<1>2. ASSUME Stop PROVE Phase'
  BY <1>2 DEF Stop, DataOK, Pipe, Job
<1>3. ASSUME Crash PROVE Phase'
  BY <1>3 DEF Crash, Idle, NoJob
<1>4. ASSUME NEW r, NEW v, TakeSnapshot(r, v), job.step \notin {"hints", "publish"}
      PROVE  Phase'
  <2>1. pipe.state \notin {"ENCRYPTING", "PUBLISHING"}
    BY <1>4
  <2>2. CASE job' = NoJob /\ pipe'.state = pipe.rest
    BY <2>2 DEF NoJob, DataOK, Pipe, Resting
  <2>3. CASE job'.step = "hints" /\ job'.interrupted = FALSE /\ pipe'.state = "BACKING_UP"
    BY <2>3
  <2>. QED
    BY <1>4, <2>1, <2>2, <2>3, TakeSnapshotEffect
<1>5. ASSUME NEW p \in Pipe, Fail(p) PROVE Phase'
  BY <1>5, FailEffect DEF NoJob
<1>6. ASSUME NextJob PROVE Phase'
  <2>1. job.step = "none"
    BY <1>6 DEF NextJob, NoJob
  <2>2. CASE Head(queue).reason = "stream"
    BY <1>6, <2>1, <2>2, <1>4 DEF NextJob
  <2>3. CASE Head(queue).reason # "stream"
    BY <1>6, <2>1, <2>3 DEF NextJob, NoJob
  <2>. QED
    BY <2>2, <2>3
<1>7. ASSUME Exported PROVE Phase'
  BY <1>7, <1>4, <1>5 DEF Exported, DataOK
<1>8. ASSUME HintsRead PROVE Phase'
  <2>1. job.step = "hints" /\ pipe \in Pipe
    BY <1>8 DEF HintsRead, DataOK
  <2>2. CASE pipe' = To(pipe, pipe.rest) /\ job' = NoJob
    <3>1. pipe'.state \in {pipe.rest, "IDLE"}
      BY <2>1, <2>2, ToState, ToAllowed, AllowedFacts, StateSets DEF Pipe
    <3>. QED
      BY <2>1, <2>2, <3>1 DEF Pipe, NoJob, Resting
  <2>3. CASE Fail(To(pipe, "ENCRYPTING"))
    BY <2>1, <2>3, <1>5, ToType DEF States
  <2>4. CASE /\ pipe' = To(To(pipe, "ENCRYPTING"), "PUBLISHING")
             /\ \E k : job' = [job EXCEPT !.step = "publish", !.key = k]
    <3>1. job'.step = "publish" /\ job'.interrupted = job.interrupted
      BY <2>4 DEF DataOK, Job
    <3>2. CASE job.interrupted
      <4>1. pipe.state = "IDLE"
        BY <2>1, <3>2
      <4>2. To(pipe, "ENCRYPTING").state = "IDLE" /\ To(pipe, "ENCRYPTING") \in Pipe
        BY <2>1, <4>1, ToRefused, ToType, AllowedFacts DEF States
      <4>3. pipe'.state = "IDLE"
        BY <2>4, <4>2, ToRefused, AllowedFacts DEF States
      <4>. QED
        BY <3>1, <3>2, <4>3
    <3>3. CASE ~job.interrupted
      <4>1. pipe.state = "BACKING_UP"
        BY <2>1, <3>3
      <4>2. To(pipe, "ENCRYPTING").state = "ENCRYPTING" /\ To(pipe, "ENCRYPTING") \in Pipe
        BY <2>1, <4>1, ToAllowed, ToType, AllowedFacts DEF States
      <4>3. pipe'.state = "PUBLISHING"
        BY <2>4, <4>2, ToAllowed, AllowedFacts DEF States
      <4>. QED
        BY <3>1, <3>3, <4>3
    <3>. QED
      BY <3>2, <3>3
  <2>. QED
    BY <1>8, <2>2, <2>3, <2>4 DEF HintsRead
<1>9. ASSUME Published PROVE Phase'
  <2>1. job.step = "publish" /\ pipe \in Pipe
    BY <1>9 DEF Published, DataOK
  <2>2. ASSUME NEW s \in {"SUCCESS", "DEGRADED"}, pipe' = To(pipe, s), job' = NoJob
        PROVE  Phase'
    <3>1. pipe'.state \in {s, "IDLE"}
      BY <2>1, <2>2, ToState, ToAllowed, AllowedFacts DEF States
    <3>. QED
      BY <2>2, <3>1 DEF NoJob
  <2>. QED
    BY <1>9, <2>1, <2>2, <1>5 DEF Published
<1>10. ASSUME BeginVerify PROVE Phase'
  BY <1>10, ToAllowed, AllowedFacts DEF BeginVerify, DataOK, States
<1>11. ASSUME EndVerify PROVE Phase'
  BY <1>11, ToAllowed, AllowedFacts DEF EndVerify, DataOK, States, Resting
<1>12. ASSUME \/ Start \/ KeyDerived \/ Begun \/ Register \/ ChannelChange \/ StreamSnapshot
              \/ StreamEnd \/ Resubscribe \/ Refresh \/ Retry \/ PublishNow \/ UNCHANGED vars
       PROVE  UNCHANGED <<pipe, job>>
  BY <1>12, Zenon DEF Start, KeyDerived, Begun, Register, ChannelChange, StreamSnapshot,
     StreamEnd, Resubscribe, Refresh, Retry, PublishNow, vars
<1>. QED
  BY <1>1, <1>2, <1>3, <1>6, <1>7, <1>8, <1>9, <1>10, <1>11, <1>12 DEF Next

\* The state machine shows a job at work only while one is, however jobs end.
THEOREM WorkEnds == Spec => []NeverStuckWorking
<1>1. Init => Phase
  BY DEF Init, Phase, NeverStuckWorking, Working, NoJob, Idle
<1>2. TypeOK /\ Phase /\ [Next]_vars => Phase'
  BY PhaseStep DEF TypeOK
<1>3. Phase => NeverStuckWorking
  BY DEF Phase
<1>. QED
  BY <1>1, <1>2, <1>3, TypeCorrect, PTL DEF Spec

\* What a step other than a snapshot, a failure or a job's later steps does to the whitelist count.
LEMMA NeverRefused ==
    ASSUME DataOK, Phase, Next, job.interrupted = FALSE
    PROVE  ~(pipe'.invalid > pipe.invalid)
<1>. USE DEF lifecycle, working, stream, external
<1>a. pipe \in Pipe /\ pipe.invalid \in Nat
  BY DEF DataOK, Pipe
<1>1. ASSUME pipe'.invalid = pipe.invalid PROVE ~(pipe'.invalid > pipe.invalid)
  BY <1>a, <1>1
<1>2. ASSUME Stop PROVE pipe'.invalid = pipe.invalid
  BY <1>2, <1>a DEF Stop, Pipe
<1>3. ASSUME Crash PROVE ~(pipe'.invalid > pipe.invalid)
  BY <1>3, <1>a DEF Crash, Idle
<1>4. ASSUME NEW r, NEW v, TakeSnapshot(r, v), job.step \notin {"hints", "publish"}
      PROVE  pipe'.invalid = pipe.invalid
  BY <1>4, TakeSnapshotEffect DEF Phase, NeverStuckWorking, Working
<1>5. ASSUME NextJob PROVE pipe'.invalid = pipe.invalid
  BY <1>5, <1>4 DEF NextJob, NoJob
<1>6. ASSUME Exported PROVE pipe'.invalid = pipe.invalid
  BY <1>6, <1>4, <1>a, FailEffect DEF Exported
<1>7. ASSUME HintsRead PROVE pipe'.invalid = pipe.invalid
  <2>1. pipe.state = "BACKING_UP"
    BY <1>7 DEF HintsRead, Phase
  <2>2. CASE pipe' = To(pipe, pipe.rest)
    BY <1>a, <2>1, <2>2, ToAllowed, AllowedFacts, StateSets DEF Pipe
  <2>3. /\ To(pipe, "ENCRYPTING") \in Pipe /\ To(pipe, "ENCRYPTING").state = "ENCRYPTING"
        /\ To(pipe, "ENCRYPTING").invalid = pipe.invalid
    BY <1>a, <2>1, ToType, ToAllowed, AllowedFacts DEF States
  <2>4. CASE Fail(To(pipe, "ENCRYPTING"))
    BY <2>3, <2>4, FailEffect
  <2>5. CASE pipe' = To(To(pipe, "ENCRYPTING"), "PUBLISHING")
    BY <2>3, <2>5, ToAllowed, AllowedFacts DEF States
  <2>. QED
    BY <1>7, <2>2, <2>4, <2>5 DEF HintsRead
<1>8. ASSUME Published PROVE pipe'.invalid = pipe.invalid
  <2>1. pipe.state = "PUBLISHING"
    BY <1>8 DEF Published, Phase
  <2>2. CASE Fail(pipe)
    BY <1>a, <2>2, FailEffect
  <2>3. ASSUME NEW s \in {"SUCCESS", "DEGRADED"}, pipe' = To(pipe, s)
        PROVE  pipe'.invalid = pipe.invalid
    BY <1>a, <2>1, <2>3, ToAllowed, AllowedFacts DEF States
  <2>. QED
    BY <1>8, <2>2, <2>3 DEF Published
<1>9. ASSUME BeginVerify PROVE pipe'.invalid = pipe.invalid
  BY <1>9, <1>a, ToAllowed, AllowedFacts DEF BeginVerify, States
<1>10. ASSUME EndVerify PROVE pipe'.invalid = pipe.invalid
  BY <1>10, <1>a, ToAllowed, AllowedFacts DEF EndVerify, States
<1>11. ASSUME \/ Start \/ KeyDerived \/ Begun \/ Register \/ ChannelChange \/ StreamSnapshot
              \/ StreamEnd \/ Resubscribe \/ Refresh \/ Retry \/ PublishNow
       PROVE  pipe' = pipe
  BY <1>11, Zenon DEF Start, KeyDerived, Begun, Register, ChannelChange, StreamSnapshot,
     StreamEnd, Resubscribe, Refresh, Retry, PublishNow
<1>. QED
  BY <1>1, <1>2, <1>3, <1>5, <1>6, <1>7, <1>8, <1>9, <1>10, <1>11 DEF Next

\* canTransition refuses nothing unless stop() overtook a running job: jobs, verifications and
\* failures of one service never collide, whatever their order.
THEOREM NoCollision == Spec => RefusedOnlyWhenInterrupted
<1>1. Init => Phase
  BY DEF Init, Phase, NeverStuckWorking, Working, NoJob, Idle
<1>2. TypeOK /\ Phase /\ [Next]_vars => Phase'
  BY PhaseStep DEF TypeOK
<1>3. TypeOK /\ Phase /\ [Next]_vars => [pipe'.invalid > pipe.invalid => job.interrupted]_vars
  <2>1. ASSUME TypeOK, Phase, Next PROVE pipe'.invalid > pipe.invalid => job.interrupted
    <3>1. job.interrupted \in BOOLEAN
      BY <2>1 DEF TypeOK, DataOK, Job
    <3>. QED
      BY <2>1, <3>1, NeverRefused DEF TypeOK
  <2>. QED
    BY <2>1
<1>. QED
  BY <1>1, <1>2, <1>3, TypeCorrect, PTL DEF Spec, RefusedOnlyWhenInterrupted

-----------------------------------------------------------------------------
(* Retries *)

\* A shown recovery has a retry or a job behind it, whatever step is taken.
LEMMA RecoveryStep ==
    DataOK /\ Phase /\ RecoveryIsScheduled /\ [Next]_vars => RecoveryIsScheduled'
<1>. SUFFICES ASSUME DataOK, Phase, RecoveryIsScheduled
              PROVE  [Next]_vars => RecoveryIsScheduled'
  OBVIOUS
<1>. USE DEF RecoveryIsScheduled, Busy, lifecycle, working, stream, external
<1>a. pipe \in Pipe /\ pipe.rest # "RECOVERING" /\ queue \in Seq(Entry)
  BY DEF DataOK, Pipe, Resting
<1>b. \A r, v : Queued(queue, r, v) # <<>>
  BY <1>a DEF Queued
<1>c. ASSUME NEW p \in Pipe, Fail(p) PROVE RecoveryIsScheduled'
  BY <1>c, FailEffect
<1>d. ASSUME NEW r, NEW v, TakeSnapshot(r, v), job.step \notin {"hints", "publish"}
      PROVE  pipe'.state # "RECOVERING"
  BY <1>a, <1>d, TakeSnapshotEffect DEF Phase, NeverStuckWorking, Working
<1>1. ASSUME Stop PROVE RecoveryIsScheduled'
  BY <1>1, <1>a DEF Stop, Pipe
<1>2. ASSUME Crash PROVE RecoveryIsScheduled'
  BY <1>2 DEF Crash, Idle
<1>3. ASSUME Begun \/ StreamSnapshot \/ Resubscribe \/ Refresh \/ Retry \/ PublishNow
      PROVE  queue' # <<>>
  BY <1>3, <1>b DEF Begun, StreamSnapshot, Resubscribe, Refresh, Retry, PublishNow
<1>4. ASSUME NextJob PROVE RecoveryIsScheduled'
  <2>1. job.step = "none"
    BY <1>4 DEF NextJob, NoJob
  <2>2. CASE Head(queue).reason = "stream"
    BY <1>4, <2>1, <2>2, <1>d DEF NextJob
  <2>3. CASE Head(queue).reason # "stream"
    BY <1>4, <2>1, <2>3 DEF NextJob, NoJob
  <2>. QED
    BY <2>2, <2>3
<1>5. ASSUME Exported PROVE RecoveryIsScheduled'
  <2>1. CASE TakeSnapshot(job.reason, lnd)
    BY <1>5, <2>1, <1>d DEF Exported
  <2>2. CASE Fail(pipe)
    BY <2>2, <1>a, <1>c
  <2>. QED
    BY <1>5, <2>1, <2>2 DEF Exported
<1>6. ASSUME HintsRead PROVE RecoveryIsScheduled'
  <2>1. pipe.state # "RECOVERING"
    BY <1>6 DEF HintsRead, Phase
  <2>2. CASE pipe' = To(pipe, pipe.rest)
    BY <1>a, <2>1, <2>2, ToState, StateSets DEF Pipe
  <2>3. CASE Fail(To(pipe, "ENCRYPTING"))
    BY <2>3, <1>a, <1>c, ToType DEF States
  <2>4. CASE pipe' = To(To(pipe, "ENCRYPTING"), "PUBLISHING")
    <3>1. To(pipe, "ENCRYPTING") \in Pipe /\ To(pipe, "ENCRYPTING").state # "RECOVERING"
      BY <1>a, <2>1, ToState, ToType DEF States
    <3>. QED
      BY <2>4, <3>1, ToState DEF States
  <2>. QED
    BY <1>6, <2>2, <2>3, <2>4 DEF HintsRead
<1>7. ASSUME Published PROVE RecoveryIsScheduled'
  <2>1. pipe.state # "RECOVERING"
    BY <1>7 DEF Published, Phase
  <2>2. CASE Fail(pipe)
    BY <2>2, <1>a, <1>c
  <2>3. ASSUME NEW s \in {"SUCCESS", "DEGRADED"}, pipe' = To(pipe, s)
        PROVE  RecoveryIsScheduled'
    BY <1>a, <2>1, <2>3, ToState DEF States
  <2>. QED
    BY <1>7, <2>2, <2>3 DEF Published
<1>8. ASSUME BeginVerify PROVE RecoveryIsScheduled'
  BY <1>8, <1>a, ToState DEF BeginVerify, States
<1>9. ASSUME EndVerify PROVE RecoveryIsScheduled'
  BY <1>9, <1>a, ToState DEF EndVerify, States
<1>10. ASSUME \/ Start \/ KeyDerived \/ Register \/ ChannelChange \/ StreamEnd \/ UNCHANGED vars
       PROVE  UNCHANGED <<pipe, job, queue, retryTimer>>
  BY <1>10, Zenon DEF Start, KeyDerived, Register, ChannelChange, StreamEnd, vars
<1>. QED
  BY <1>1, <1>2, <1>3, <1>4, <1>5, <1>6, <1>7, <1>8, <1>9, <1>10 DEF Next

\* RECOVERING is never shown without a retry that is armed or a job that is on its way.
THEOREM RecoveryHasARetry == Spec => []RecoveryIsScheduled
<1>1. Init => Phase /\ RecoveryIsScheduled
  BY DEF Init, Phase, NeverStuckWorking, Working, NoJob, Idle, RecoveryIsScheduled
<1>2. TypeOK /\ Phase /\ RecoveryIsScheduled /\ [Next]_vars
      => Phase' /\ RecoveryIsScheduled'
  BY PhaseStep, RecoveryStep DEF TypeOK
<1>. QED
  BY <1>1, <1>2, TypeCorrect, PTL DEF Spec

-----------------------------------------------------------------------------
(* The subscription *)

\* Whatever step is taken, a running service keeps one subscription or one timer to reopen it.
LEMMA SubscriptionStep == TypeOK /\ OneSubscription /\ [Next]_vars => OneSubscription'
<1>. SUFFICES ASSUME TypeOK, OneSubscription
              PROVE  [Next]_vars => OneSubscription'
  OBVIOUS
<1>. USE DEF OneSubscription, Running, lifecycle, working, stream, external
<1>a. subs \in Nat /\ resubs \in Nat
  BY DEF TypeOK, DataOK
<1>1. ASSUME Start PROVE OneSubscription'
  BY <1>1, <1>a DEF Start
<1>2. ASSUME KeyDerived PROVE OneSubscription'
  BY <1>2, <1>a DEF KeyDerived
<1>3. ASSUME Begun PROVE OneSubscription'
  BY <1>3, <1>a DEF Begun, Subscribe
<1>4. ASSUME Stop PROVE OneSubscription'
  BY <1>4, <1>a DEF Stop
<1>5. ASSUME Crash PROVE OneSubscription'
  BY <1>5 DEF Crash
<1>6. ASSUME StreamEnd PROVE OneSubscription'
  BY <1>6, <1>a DEF StreamEnd
<1>7. ASSUME Resubscribe PROVE OneSubscription'
  BY <1>7, <1>a DEF Resubscribe, Subscribe
<1>8. ASSUME \/ Register \/ ChannelChange \/ StreamSnapshot \/ Refresh \/ Retry \/ PublishNow
             \/ NextJob \/ Exported \/ HintsRead \/ Published \/ BeginVerify \/ EndVerify
             \/ UNCHANGED vars
      PROVE  UNCHANGED <<stopped, starting, subs, resubs, streamUp>>
  BY <1>8, Zenon DEF Register, ChannelChange, StreamSnapshot, Refresh, Retry, PublishNow,
     NextJob, Exported, HintsRead, Published, BeginVerify, EndVerify, vars
<1>. QED
  BY <1>1, <1>2, <1>3, <1>4, <1>5, <1>6, <1>7, <1>8 DEF Next

\* A running service has exactly one subscription or one timer about to open it, a stopped or
\* starting one has neither, and the connection it shows is the one it has.
THEOREM SubscribedOnce == Spec => []OneSubscription
<1>1. Init => OneSubscription
  BY DEF Init, OneSubscription, Running
<1>2. TypeOK /\ OneSubscription /\ [Next]_vars => OneSubscription'
  BY SubscriptionStep
<1>. QED
  BY <1>1, <1>2, TypeCorrect, PTL DEF Spec

-----------------------------------------------------------------------------
(* What SUCCESS and DEGRADED claim *)

\* The inductive form of SuccessWasPublished: also the state rested in is vouched for by the
\* last key, and the last key by what the relays hold.
Vouched ==
    /\ pipe.state \in {"SUCCESS", "DEGRADED", "VERIFYING"} => last # NoKey
    /\ pipe.rest \in {"SUCCESS", "DEGRADED"} => last # NoKey
    /\ last # NoKey => stored # NoVersion

\* Only an acknowledged publish makes a success, and nothing but a crash forgets it.
LEMMA VouchedStep == DataOK /\ Phase /\ Vouched /\ [Next]_vars => Vouched'
<1>. SUFFICES ASSUME DataOK, Phase, Vouched PROVE [Next]_vars => Vouched'
  OBVIOUS
<1>. USE DEF Vouched, lifecycle, working, stream, external
<1>a. pipe \in Pipe /\ job \in Job /\ NoVersion \notin Versions
  BY DEF DataOK, NoVersion, Versions
<1>b. ASSUME NEW p \in Pipe, p.rest = pipe.rest, Fail(p), last' = last,
             stored' = stored \/ stored' # NoVersion
      PROVE  Vouched'
  BY <1>b, FailEffect
<1>c. ASSUME NEW r, NEW v, TakeSnapshot(r, v), job.step \notin {"hints", "publish"},
             UNCHANGED <<last, stored>>
      PROVE  Vouched'
  <2>1. pipe.state \notin {"ENCRYPTING", "PUBLISHING"}
    BY <1>c DEF Phase, NeverStuckWorking, Working
  <2>2. pipe'.rest = pipe.rest /\ pipe'.state \in {pipe.rest, "BACKING_UP"}
    BY <1>c, <2>1, TakeSnapshotEffect
  <2>. QED
    BY <1>a, <1>c, <2>2 DEF Pipe, Resting
<1>1. ASSUME Stop PROVE Vouched'
  BY <1>1, <1>a DEF Stop, Pipe
<1>2. ASSUME Crash PROVE Vouched'
  BY <1>2 DEF Crash, Idle
<1>3. ASSUME NextJob PROVE Vouched'
  BY <1>3, <1>c DEF NextJob, NoJob
<1>4. ASSUME Exported PROVE Vouched'
  BY <1>4, <1>a, <1>b, <1>c DEF Exported
<1>5. ASSUME HintsRead PROVE Vouched'
  <2>1. pipe.state \in {"BACKING_UP", "IDLE"} /\ UNCHANGED <<last, stored>>
    BY <1>5 DEF HintsRead, Phase
  <2>2. CASE pipe' = To(pipe, pipe.rest)
    <3>1. pipe'.state \in {pipe.state, pipe.rest} /\ pipe'.rest = pipe.rest
      BY <1>a, <2>2, ToState, StateSets DEF Pipe
    <3>. QED
      BY <1>a, <2>1, <3>1 DEF Pipe, Resting
  <2>3. To(pipe, "ENCRYPTING") \in Pipe /\ To(pipe, "ENCRYPTING").rest = pipe.rest
        /\ To(pipe, "ENCRYPTING").state \in {"BACKING_UP", "IDLE", "ENCRYPTING"}
    BY <1>a, <2>1, ToType, ToState DEF States, Resting
  <2>4. CASE Fail(To(pipe, "ENCRYPTING"))
    BY <2>1, <2>3, <2>4, <1>b
  <2>5. CASE pipe' = To(To(pipe, "ENCRYPTING"), "PUBLISHING")
    BY <2>1, <2>3, <2>5, ToState DEF States, Resting
  <2>. QED
    BY <1>5, <2>2, <2>4, <2>5 DEF HintsRead
<1>6. ASSUME Published PROVE Vouched'
  <2>1. job.key # NoKey /\ job.snap # NoVersion
    BY <1>6, <1>a DEF Published, Job
  <2>2. CASE Fail(pipe) /\ UNCHANGED last /\ stored' \in {stored, job.snap}
    BY <2>1, <2>2, <1>a, <1>b
  <2>3. CASE last' = job.key /\ stored' = job.snap
    BY <2>1, <2>3
  <2>. QED
    BY <1>6, <2>2, <2>3 DEF Published
<1>7. ASSUME BeginVerify PROVE Vouched'
  BY <1>7 DEF BeginVerify, To
<1>8. ASSUME EndVerify PROVE Vouched'
  BY <1>8 DEF EndVerify, To
<1>9. ASSUME \/ Start \/ KeyDerived \/ Begun \/ Register \/ ChannelChange \/ StreamSnapshot
             \/ StreamEnd \/ Resubscribe \/ Refresh \/ Retry \/ PublishNow \/ UNCHANGED vars
      PROVE  UNCHANGED <<pipe, last, stored>>
  BY <1>9, Zenon DEF Start, KeyDerived, Begun, Register, ChannelChange, StreamSnapshot,
     StreamEnd, Resubscribe, Refresh, Retry, PublishNow, vars
<1>. QED
  BY <1>1, <1>2, <1>3, <1>4, <1>5, <1>6, <1>7, <1>8, <1>9 DEF Next

\* SUCCESS, DEGRADED and VERIFYING are only shown by a process that has had a publish
\* acknowledged, and then the relays hold a backup.
THEOREM SuccessIsVouchedFor == Spec => []SuccessWasPublished
<1>1. Init => Phase /\ Vouched
  BY DEF Init, Phase, NeverStuckWorking, Working, NoJob, Idle, Vouched
<1>2. TypeOK /\ Phase /\ Vouched /\ [Next]_vars => Phase' /\ Vouched'
  BY PhaseStep, VouchedStep DEF TypeOK
<1>3. Vouched => SuccessWasPublished
  BY DEF Vouched, SuccessWasPublished
<1>. QED
  BY <1>1, <1>2, <1>3, TypeCorrect, PTL DEF Spec

-----------------------------------------------------------------------------
(* What the relays hold at rest *)

\* What is appended is last.
LEMMA LastAppended ==
    ASSUME NEW S, NEW s \in Seq(S), NEW e \in S
    PROVE  Append(s, e) # <<>> /\ Append(s, e)[Len(Append(s, e))] = e
  OBVIOUS

\* The last element stays the last when the first one is taken.
LEMMA LastOfTail ==
    ASSUME NEW S, NEW s \in Seq(S), s # <<>>
    PROVE  /\ Tail(s) = <<>> => Head(s) = s[Len(s)]
           /\ Tail(s) # <<>> => Tail(s)[Len(Tail(s))] = s[Len(s)]
<1>a. \A n \in Nat : n # 0 => n = 1 \/ n > 1
  OBVIOUS
<1>b. Len(s) \in Nat /\ Len(s) # 0
  OBVIOUS
<1>1. Len(s) \in Nat \ {0} /\ Head(s) = s[1]
  OBVIOUS
<1>2. Tail(s) \in Seq(S) /\ Len(Tail(s)) = Len(s) - 1 /\ \A i \in 1..(Len(s) - 1) : Tail(s)[i] = s[i + 1]
  OBVIOUS
<1>3. CASE Len(s) = 1
  <2>1. \A t \in Seq(S) : Len(t) = 0 => t = <<>>
    OBVIOUS
  <2>2. Len(Tail(s)) = 0 /\ Tail(s) \in Seq(S)
    BY <1>2, <1>3
  <2>3. Tail(s) = <<>>
    BY <2>1, <2>2, Zenon
  <2>. QED
    BY <1>1, <1>3, <2>3
<1>4. CASE Len(s) > 1
  <2>1. Len(s) - 1 \in 1..(Len(s) - 1) /\ (Len(s) - 1) + 1 = Len(s)
    BY <1>1, <1>4
  <2>2. Tail(s)[Len(s) - 1] = s[(Len(s) - 1) + 1]
    BY <1>2, <2>1, Zenon
  <2>3. Tail(s)[Len(Tail(s))] = s[Len(s)]
    BY <1>2, <2>1, <2>2, Zenon
  <2>4. Len(Tail(s)) # 0
    BY <1>2, <2>1
  <2>5. Len(<<>>) = 0
    OBVIOUS
  <2>6. Tail(s) # <<>>
    BY <2>4, <2>5, Zenon
  <2>. QED
    BY <2>3, <2>6, Zenon
<1>5. Len(s) = 1 \/ Len(s) > 1
  BY <1>a, <1>b, Zenon
<1>. QED
  BY <1>3, <1>4, <1>5, Zenon

\* What is in flight from lnd ends with the node's set, and only a registered subscriber is sent it.
WireEndsCurrent == wire # <<>> => registered /\ wire[Len(wire)] = lnd

\* While the subscription is up, a snapshot that is last in the queue is the node's set, unless a
\* newer one is in flight.
QueueEndsCurrent ==
    Running /\ resubs = 0 /\ queue # <<>> /\ queue[Len(queue)].reason = "stream"
    => registered /\ (wire = <<>> => queue[Len(queue)].snap = lnd)

\* Nothing is waiting behind the job that runs.
Settled == Running /\ resubs = 0 /\ wire = <<>> /\ queue = <<>>

\* A job with nothing behind it publishes the node's set.
JobIsCurrent == Settled /\ ~missed /\ job.step \in {"hints", "publish"} => job.snap = lnd

\* A job publishes under the key of its snapshot.
JobHasItsKey == job.step = "publish" => job.key.cp = Fingerprint[job.snap]

\* `last` is the key of what the relays hold.
LastIsOfStored == stored # NoVersion /\ Fingerprint[stored] = last.cp

\* It is that as long as no failure leaves it in doubt.
LastIsStored == last # NoKey /\ ~lastError => LastIsOfStored

\* Jobs publish with a key only; a service that was never stopped stays up once it has one.
KeyIsThere ==
    /\ starting = "newest" \/ Running => sk
    /\ job.step \in {"hints", "publish"} \/ last # NoKey => sk
    /\ spent.stops = 0 /\ sk => ~stopped /\ starting # "key"
    /\ spent.stops = 0 /\ starting # "no" => ~stopped

HasJob(q, reasons) == \E i \in 1..Len(q) : q[i].reason \in reasons

\* Where the relays may have changed beside the service, LastIsStored or a job that does not
\* compare with `last` is on its way.
StoredOrForced ==
    last # NoKey /\ ~lastError => LastIsOfStored \/ HasJob(queue, Forced) \/ job.reason \in Forced

\* After a failure a job that does not compare with `last` is on its way.
ForcedIsComing ==
    last # NoKey /\ lastError /\ spent.stops = 0 /\ NoBlob = {}
    => retryTimer \/ HasJob(queue, Forced) \/ job.reason \in Forced

\* QuietIsCurrent also before lnd has accepted the subscription.
RestIsCurrent ==
    Settled /\ job = NoJob /\ ~retryTimer /\ ~missed /\ ~RetryMayBeGone => Current

\* lnd appends its newest set to what is in flight.
LEMMA WireStep == DataOK /\ WireEndsCurrent /\ [Next]_vars => WireEndsCurrent'
<1>. SUFFICES ASSUME DataOK, WireEndsCurrent PROVE [Next]_vars => WireEndsCurrent'
  OBVIOUS
<1>. USE DEF WireEndsCurrent, lifecycle, working, stream, external
<1>a. wire \in Seq(Versions) /\ lnd \in Versions
  BY DEF DataOK
<1>1. ASSUME ChannelChange PROVE WireEndsCurrent'
  <2>1. lnd + 1 \in Versions
    BY <1>1, <1>a, BoundsAssumption DEF ChannelChange, Versions, BoundsAssumption
  <2>2. CASE registered
    BY <1>1, <1>a, <2>1, <2>2, LastAppended DEF ChannelChange
  <2>3. CASE ~registered
    BY <1>1, <2>3 DEF ChannelChange
  <2>. QED
    BY <2>2, <2>3
<1>2. ASSUME StreamSnapshot PROVE WireEndsCurrent'
  BY <1>2, <1>a, LastOfTail DEF StreamSnapshot
<1>3. ASSUME Register PROVE WireEndsCurrent'
  BY <1>3, Zenon DEF Register
<1>4. ASSUME Begun \/ Resubscribe \/ Stop \/ Crash \/ StreamEnd PROVE WireEndsCurrent'
  <2>1. wire' = <<>> \/ UNCHANGED <<wire, registered, lnd>>
    BY <1>4, Zenon DEF Begun, Resubscribe, Subscribe, Stop, Crash, StreamEnd
  <2>. QED
    BY <2>1
<1>5. ASSUME \/ Start \/ KeyDerived \/ Refresh \/ Retry \/ PublishNow \/ NextJob \/ Exported
             \/ HintsRead \/ Published \/ BeginVerify \/ EndVerify \/ UNCHANGED vars
      PROVE  UNCHANGED <<wire, registered, lnd>>
  BY <1>5, Zenon DEF Start, KeyDerived, Refresh, Retry, PublishNow, NextJob, Exported, HintsRead,
     Published, BeginVerify, EndVerify, vars
<1>. QED
  BY <1>1, <1>2, <1>3, <1>4, <1>5 DEF Next

\* The steps by which a service leaves rest: it is not running or has to resubscribe afterwards.
LEMMA NotSettled ==
    ASSUME DataOK, Start \/ KeyDerived \/ Stop \/ Crash \/ StreamEnd
    PROVE  ~(Running /\ resubs = 0)'
<1>. USE DEF Running
<1>1. ASSUME Start PROVE starting' # "no"
  BY <1>1 DEF Start
<1>2. ASSUME KeyDerived PROVE starting' # "no" \/ stopped'
  BY <1>2 DEF KeyDerived
<1>3. ASSUME Stop \/ Crash PROVE stopped'
  BY <1>3 DEF Stop, Crash
<1>4. ASSUME StreamEnd PROVE stopped' \/ resubs' # 0
  <2>1. stopped' = stopped /\ (stopped \/ resubs' = resubs + 1)
    BY <1>4, Zenon DEF StreamEnd, lifecycle
  <2>2. resubs \in Nat
    BY DEF DataOK
  <2>. QED
    BY <2>1, <2>2
<1>. QED
  BY <1>1, <1>2, <1>3, <1>4

\* The jobs other than a snapshot's are appended by these steps.
LEMMA JobQueued ==
    ASSUME DataOK, Begun \/ Resubscribe \/ Refresh \/ Retry \/ PublishNow
    PROVE  \E r \in Reasons \ {"stream"} : queue' = Queued(queue, r, NoVersion)
<1>. \A r \in {"startup", "resubscribe", "refresh", "retry", "manual"} : r \in Reasons \ {"stream"}
  BY DEF Reasons
<1>. QED
  BY Zenon DEF Begun, Resubscribe, Refresh, Retry, PublishNow

\* Whatever is appended, the queue's last job is the one appended.
LEMMA LastQueued ==
    ASSUME DataOK, NEW r \in Reasons, NEW v \in Versions \cup {NoVersion},
           r = "stream" => v \in Versions, queue' = Queued(queue, r, v)
    PROVE  queue' # <<>> /\ queue'[Len(queue')] = [reason |-> r, snap |-> v]
<1>1. [reason |-> r, snap |-> v] \in Entry /\ queue \in Seq(Entry)
  BY DEF Entry, DataOK
<1>. QED
  BY <1>1, LastAppended DEF Queued

\* A snapshot comes into the queue in the order lnd sent it; after a gap an export follows it.
LEMMA QueueStep ==
    DataOK /\ WireEndsCurrent /\ QueueEndsCurrent /\ [Next]_vars => QueueEndsCurrent'
<1>. SUFFICES ASSUME DataOK, WireEndsCurrent, QueueEndsCurrent
              PROVE  [Next]_vars => QueueEndsCurrent'
  OBVIOUS
<1>. USE DEF QueueEndsCurrent, lifecycle, working, stream, external
<1>a. queue \in Seq(Entry) /\ wire \in Seq(Versions) /\ lnd \in Versions
  BY DEF DataOK
<1>1. ASSUME Start \/ KeyDerived \/ Stop \/ Crash \/ StreamEnd PROVE QueueEndsCurrent'
  BY <1>1, NotSettled, Zenon
<1>2. ASSUME Begun \/ Resubscribe \/ Refresh \/ Retry \/ PublishNow PROVE QueueEndsCurrent'
  <2>1. PICK r \in Reasons \ {"stream"} : queue' = Queued(queue, r, NoVersion)
    BY <1>2, JobQueued
  <2>2. queue'[Len(queue')].reason # "stream"
    <3>1. queue'[Len(queue')] = [reason |-> r, snap |-> NoVersion]
      BY <2>1, LastQueued
    <3>. QED
      BY <3>1
  <2>. QED
    BY <2>2
<1>3. ASSUME StreamSnapshot PROVE QueueEndsCurrent'
  <2>1. Head(wire) \in Versions /\ registered' /\ lnd' = lnd /\ wire' = Tail(wire)
    BY <1>3, <1>a DEF StreamSnapshot, WireEndsCurrent
  <2>2. queue'[Len(queue')].snap = Head(wire)
    <3>1. queue' = Queued(queue, "stream", Head(wire)) /\ "stream" \in Reasons
      BY <1>3 DEF StreamSnapshot, Reasons
    <3>2. queue'[Len(queue')] = [reason |-> "stream", snap |-> Head(wire)]
      BY <2>1, <3>1, LastQueued
    <3>. QED
      BY <3>2
  <2>3. wire' = <<>> => Head(wire) = lnd
    BY <1>3, <1>a, LastOfTail DEF StreamSnapshot, WireEndsCurrent
  <2>. QED
    BY <2>1, <2>2, <2>3
<1>4. ASSUME NextJob PROVE QueueEndsCurrent'
  <2>1. UNCHANGED <<stopped, starting, resubs, registered, wire, lnd>>
    BY <1>4, Zenon DEF NextJob
  <2>2. queue # <<>> /\ (queue' # <<>> => queue'[Len(queue')] = queue[Len(queue)])
    BY <1>4, <1>a, LastOfTail DEF NextJob
  <2>. QED
    BY <2>1, <2>2, Zenon DEF Running
<1>5. ASSUME Register PROVE QueueEndsCurrent'
  BY <1>5, Zenon DEF Register, Running
<1>6. ASSUME ChannelChange PROVE QueueEndsCurrent'
  <2>1. UNCHANGED <<stopped, starting, resubs, registered, queue>>
    BY <1>6, Zenon DEF ChannelChange
  <2>2. registered => wire' # <<>>
    BY <1>6, <1>a, BoundsAssumption DEF ChannelChange, Versions, BoundsAssumption
  <2>. QED
    BY <2>1, <2>2, Zenon DEF Running
<1>7. ASSUME \/ Exported \/ HintsRead \/ Published \/ BeginVerify \/ EndVerify \/ UNCHANGED vars
      PROVE  QueueEndsCurrent'
  <2>1. UNCHANGED <<stopped, starting, resubs, queue, registered, wire, lnd>>
    BY <1>7, Zenon DEF Exported, HintsRead, Published, BeginVerify, EndVerify, vars
  <2>. QED
    BY <2>1, Zenon DEF Running
<1>. QED
  BY <1>1, <1>2, <1>3, <1>4, <1>5, <1>6, <1>7 DEF Next

\* What taking up a snapshot makes of the job.
LEMMA TakeSnapshotJob ==
    ASSUME NEW r, NEW v, TakeSnapshot(r, v)
    PROVE  \/ job' = NoJob /\ (v \in NoBlob \/ ~sk)
           \/ job'.step = "hints" /\ job'.reason = r /\ job'.snap = v /\ v \notin NoBlob /\ sk
  BY DEF TakeSnapshot, NoJob

\* A failure ends the job; a service that is not stopped has its retry armed.
LEMMA FailArms ==
    ASSUME NEW p, Fail(p)
    PROVE  job' = NoJob /\ lastError' /\ (stopped \/ retryTimer')
<1>1. job' = NoJob /\ lastError'
  BY Zenon DEF Fail
<1>2. CASE stopped \/ retryTimer
  BY <1>2, Zenon DEF Fail
<1>3. CASE ~(stopped \/ retryTimer)
  BY <1>3, Zenon DEF Fail
<1>. QED
  BY <1>1, <1>2, <1>3

\* The job that goes on is the same; only its step and key, or that it was interrupted, change.
LEMMA JobGoesOn ==
    ASSUME DataOK, HintsRead \/ Stop
    PROVE  \/ job' = NoJob
           \/ /\ job'.snap = job.snap /\ job'.reason = job.reason
              /\ job'.step = job.step \/ job.step = "hints"
<1>1. job \in Job
  BY DEF DataOK
<1>2. ASSUME HintsRead
      PROVE  \/ job' = NoJob
             \/ job.step = "hints" /\ \E k : job' = [job EXCEPT !.step = "publish", !.key = k]
  BY <1>2, FailArms, Zenon DEF HintsRead
<1>3. ASSUME Stop PROVE job' = job \/ job' = [job EXCEPT !.interrupted = TRUE]
  BY <1>3, Zenon DEF Stop
<1>. QED
  BY <1>1, <1>2, <1>3 DEF Job

\* With nothing behind it a job has the node's set: it comes from an export answered since the
\* last change, or from the last snapshot that was sent.
LEMMA JobIsCurrentStep ==
    DataOK /\ QueueEndsCurrent /\ JobIsCurrent /\ [Next]_vars => JobIsCurrent'
<1>. SUFFICES ASSUME DataOK, QueueEndsCurrent, JobIsCurrent
              PROVE  [Next]_vars => JobIsCurrent'
  OBVIOUS
<1>. USE DEF JobIsCurrent, Settled, lifecycle, working, stream, external
<1>a. queue \in Seq(Entry) /\ wire \in Seq(Versions) /\ lnd \in Versions
  BY DEF DataOK
<1>1. ASSUME Start \/ KeyDerived \/ Stop \/ Crash \/ StreamEnd PROVE JobIsCurrent'
  BY <1>1, NotSettled, Zenon
<1>2. ASSUME Begun \/ Resubscribe \/ Refresh \/ Retry \/ PublishNow PROVE JobIsCurrent'
  <2>1. PICK r \in Reasons \ {"stream"} : queue' = Queued(queue, r, NoVersion)
    BY <1>2, JobQueued
  <2>2. queue' # <<>>
    BY <2>1, LastQueued
  <2>. QED
    BY <2>2, Zenon
<1>3. ASSUME StreamSnapshot PROVE JobIsCurrent'
  <2>1. queue' = Queued(queue, "stream", Head(wire)) /\ "stream" \in Reasons /\ Head(wire) \in Versions
    BY <1>3, <1>a DEF StreamSnapshot, Reasons
  <2>2. queue' # <<>>
    BY <2>1, LastQueued
  <2>. QED
    BY <2>2, Zenon
<1>4. ASSUME NextJob PROVE JobIsCurrent'
  <2>1. UNCHANGED <<stopped, starting, resubs, wire, lnd>> /\ queue # <<>>
    BY <1>4, Zenon DEF NextJob
  <2>2. CASE Head(queue).reason = "stream"
    <3>1. TakeSnapshot(Head(queue).reason, Head(queue).snap)
      BY <1>4, <2>2, Zenon DEF NextJob
    <3>2. job'.step = "hints" => job'.snap = Head(queue).snap
      BY <3>1, TakeSnapshotJob DEF NoJob
    <3>3. job'.step # "publish"
      BY <3>1, TakeSnapshotJob DEF NoJob
    <3>4. queue' = <<>> => Head(queue) = queue[Len(queue)]
      BY <1>4, <1>a, LastOfTail DEF NextJob
    <3>. QED
      BY <2>1, <2>2, <3>2, <3>3, <3>4, Zenon DEF QueueEndsCurrent, Running
  <2>3. CASE Head(queue).reason # "stream"
    <3>1. job'.step = "export"
      BY <1>4, <2>3 DEF NextJob, NoJob
    <3>. QED
      BY <3>1
  <2>. QED
    BY <2>2, <2>3
<1>5. ASSUME Exported PROVE JobIsCurrent'
  <2>1. job' = NoJob \/ job'.snap = lnd
    BY <1>5, TakeSnapshotJob, FailArms DEF Exported
  <2>2. lnd' = lnd
    BY <1>5, Zenon DEF Exported
  <2>. QED
    BY <2>1, <2>2 DEF NoJob
<1>6. ASSUME HintsRead PROVE JobIsCurrent'
  <2>1. UNCHANGED <<stopped, starting, resubs, wire, queue, lnd, missed>> /\ job.step = "hints"
    BY <1>6, Zenon DEF HintsRead
  <2>2. job' = NoJob \/ job'.snap = job.snap
    BY <1>6, JobGoesOn
  <2>3. NoJob.step = "none"
    BY DEF NoJob
  <2>. QED
    BY <2>1, <2>2, <2>3 DEF Running
<1>7. ASSUME Published PROVE JobIsCurrent'
  <2>1. job' = NoJob
    BY <1>7, FailArms, Zenon DEF Published
  <2>. QED
    BY <2>1 DEF NoJob
<1>8. ASSUME ChannelChange PROVE JobIsCurrent'
  <2>1. UNCHANGED <<stopped, starting, resubs, queue, job>> /\ (missed' \/ registered)
    BY <1>8, Zenon DEF ChannelChange
  <2>2. registered => wire' # <<>>
    BY <1>8, <1>a, BoundsAssumption DEF ChannelChange, Versions, BoundsAssumption
  <2>. QED
    BY <2>1, <2>2, Zenon DEF Running
<1>9. ASSUME Register \/ BeginVerify \/ EndVerify \/ UNCHANGED vars PROVE JobIsCurrent'
  <2>1. UNCHANGED <<stopped, starting, resubs, wire, queue, lnd, missed, job>>
    BY <1>9, Zenon DEF Register, BeginVerify, EndVerify, vars
  <2>. QED
    BY <2>1, Zenon DEF Running
<1>. QED
  BY <1>1, <1>2, <1>3, <1>4, <1>5, <1>6, <1>7, <1>8, <1>9 DEF Next

\* The key a job publishes under is made from its snapshot.
LEMMA JobKeyStep == DataOK /\ JobHasItsKey /\ [Next]_vars => JobHasItsKey'
<1>. SUFFICES ASSUME DataOK, JobHasItsKey PROVE [Next]_vars => JobHasItsKey'
  OBVIOUS
<1>. USE DEF JobHasItsKey, lifecycle, working, stream, external
<1>a. job \in Job /\ NoJob.step = "none"
  BY DEF DataOK, NoJob
<1>1. ASSUME Crash PROVE JobHasItsKey'
  BY <1>1, <1>a DEF Crash
<1>2. ASSUME Stop PROVE JobHasItsKey'
  <2>1. job' = job \/ job' = [job EXCEPT !.interrupted = TRUE]
    BY <1>2, Zenon DEF Stop
  <2>2. job'.step = job.step /\ job'.key = job.key /\ job'.snap = job.snap
    BY <1>a, <2>1 DEF Job
  <2>. QED
    BY <2>2, Zenon
<1>3. ASSUME NextJob PROVE JobHasItsKey'
  <2>1. \/ TakeSnapshot(Head(queue).reason, Head(queue).snap)
        \/ job' = [NoJob EXCEPT !.reason = Head(queue).reason, !.step = "export"]
    BY <1>3, Zenon DEF NextJob
  <2>2. job'.step \in {"none", "hints", "export"}
    BY <2>1, <1>a, TakeSnapshotJob DEF NoJob
  <2>. QED
    BY <2>2
<1>4. ASSUME Exported PROVE JobHasItsKey'
  <2>1. job'.step # "publish"
    BY <1>4, TakeSnapshotJob, FailArms DEF Exported, NoJob
  <2>. QED
    BY <2>1, Zenon
<1>5. ASSUME HintsRead PROVE JobHasItsKey'
  <2>1. \/ job' = NoJob
        \/ \E hints : job' = [job EXCEPT !.step = "publish", !.key = Key(job.snap, hints)]
    BY <1>5, FailArms, Zenon DEF HintsRead
  <2>2. \A h : Key(job.snap, h).cp = Fingerprint[job.snap]
    BY DEF Key
  <2>3. ASSUME NEW h, job' = [job EXCEPT !.step = "publish", !.key = Key(job.snap, h)]
        PROVE  job'.key.cp = Fingerprint[job'.snap]
    <3>1. job'.key = Key(job.snap, h) /\ job'.snap = job.snap
      BY <1>a, <2>3 DEF Job
    <3>. QED
      BY <2>2, <3>1
  <2>4. CASE job' = NoJob
    BY <1>a, <2>4
  <2>. QED
    BY <2>1, <2>3, <2>4, Zenon
<1>6. ASSUME Published PROVE JobHasItsKey'
  <2>1. job' = NoJob
    BY <1>6, FailArms, Zenon DEF Published
  <2>. QED
    BY <1>a, <2>1
<1>7. ASSUME \/ Start \/ KeyDerived \/ Begun \/ Register \/ ChannelChange \/ StreamSnapshot
             \/ StreamEnd \/ Resubscribe \/ Refresh \/ Retry \/ PublishNow
             \/ BeginVerify \/ EndVerify \/ UNCHANGED vars
      PROVE  UNCHANGED job
  BY <1>7, Zenon DEF Start, KeyDerived, Begun, Register, ChannelChange, StreamSnapshot, StreamEnd,
     Resubscribe, Refresh, Retry, PublishNow, BeginVerify, EndVerify, vars
<1>. QED
  BY <1>1, <1>2, <1>3, <1>4, <1>5, <1>6, <1>7 DEF Next

\* A publish leaves the key of what the relays hold, or a failure; nothing else changes either,
\* but a new process and a failed job.
LEMMA LastMoves ==
    ASSUME DataOK, JobHasItsKey, [Next]_vars
    PROVE  \/ last' = NoKey \/ lastError' \/ LastIsOfStored'
           \/ ~Published /\ UNCHANGED <<last, lastError, stored>>
<1>. USE DEF lifecycle, working, stream, external
<1>1. CASE Published
  <2>1. job.step = "publish"
    BY <1>1, Zenon DEF Published
  <2>2. job.snap # NoVersion
    BY <2>1 DEF DataOK, Job, NoVersion, Versions
  <2>3. lastError' \/ (last' = job.key /\ stored' = job.snap)
    BY <1>1, FailArms, Zenon DEF Published
  <2>. QED
    BY <2>1, <2>2, <2>3, Zenon DEF JobHasItsKey, LastIsOfStored
<1>2. CASE ~Published /\ (Exported \/ HintsRead)
  <2>1. UNCHANGED <<last, stored>> /\ (lastError' = lastError \/ lastError')
    BY <1>2, FailArms, Zenon DEF Exported, HintsRead
  <2>. QED
    BY <1>2, <2>1, Zenon
<1>3. CASE Crash
  BY <1>3, Zenon DEF Crash
<1>4. CASE /\ ~Published
           /\ \/ Start \/ KeyDerived \/ Begun \/ Stop \/ Register \/ ChannelChange \/ StreamSnapshot
              \/ StreamEnd \/ Resubscribe \/ Refresh \/ Retry \/ PublishNow \/ NextJob
              \/ BeginVerify \/ EndVerify \/ UNCHANGED vars
  BY <1>4, Zenon DEF Start, KeyDerived, Begun, Stop, Register, ChannelChange, StreamSnapshot,
     StreamEnd, Resubscribe, Refresh, Retry, PublishNow, NextJob, BeginVerify, EndVerify, vars
<1>. QED
  BY <1>1, <1>2, <1>3, <1>4, Zenon DEF Next

\* `last` follows what the relays hold as long as no failure leaves it in doubt.
LEMMA StoredStep == DataOK /\ JobHasItsKey /\ LastIsStored /\ [Next]_vars => LastIsStored'
  BY LastMoves, Zenon DEF LastIsStored, LastIsOfStored

\* A key is there before anything is published, and only stop() takes down what has one.
LEMMA KeyStep == DataOK /\ KeyIsThere /\ [Next]_vars => KeyIsThere'
<1>. SUFFICES ASSUME DataOK, KeyIsThere PROVE [Next]_vars => KeyIsThere'
  OBVIOUS
<1>. USE DEF KeyIsThere, Running, lifecycle, working, stream, external
<1>a. spent.stops \in Nat /\ job \in Job /\ NoJob.step = "none"
  BY DEF DataOK, NoJob
<1>b. ASSUME NEW what \in {"faults", "starts", "crashes", "manuals"}, Spend(what)
      PROVE  spent'.stops = spent.stops
  BY <1>b DEF Spend, DataOK
<1>1. ASSUME Start PROVE KeyIsThere'
  <2>1. spent'.stops = spent.stops /\ stopped /\ ~stopped' /\ starting' = "key"
    BY <1>1, <1>b DEF Start
  <2>2. UNCHANGED <<sk, job, last>>
    BY <1>1, Zenon DEF Start
  <2>3. spent.stops = 0 => ~sk
    BY <2>1
  <2>. QED
    BY <2>1, <2>2, <2>3
<1>2. ASSUME KeyDerived PROVE KeyIsThere'
  <2>1. UNCHANGED <<job, last>> /\ starting = "key"
    BY <1>2, Zenon DEF KeyDerived
  <2>2. CASE sk' = TRUE /\ starting' = "newest" /\ UNCHANGED <<stopped, spent>>
    BY <2>1, <2>2
  <2>3. CASE stopped' = TRUE /\ starting' = "no" /\ UNCHANGED sk /\ Spend("faults")
    <3>1. spent'.stops = spent.stops
      BY <2>3, <1>b
    <3>. QED
      BY <2>1, <2>3, <3>1
  <2>. QED
    BY <1>2, <2>2, <2>3, Zenon DEF KeyDerived
<1>3. ASSUME Begun PROVE KeyIsThere'
  <2>1. UNCHANGED <<stopped, sk, job, last, spent>> /\ starting = "newest" /\ starting' = "no"
    BY <1>3, Zenon DEF Begun
  <2>. QED
    BY <2>1
<1>4. ASSUME Stop PROVE KeyIsThere'
  <2>1. UNCHANGED <<starting, sk, last>> /\ stopped'
    BY <1>4, Zenon DEF Stop
  <2>2. spent'.stops = spent.stops + 1
    BY <1>4 DEF Stop, Spend, DataOK
  <2>3. job'.step \in {"hints", "publish"} => job.step \in {"hints", "publish"}
    BY <1>4, <1>a, JobGoesOn
  <2>4. spent'.stops # 0
    BY <2>2, <1>a
  <2>. QED
    BY <2>1, <2>3, <2>4
<1>5. ASSUME Crash PROVE KeyIsThere'
  BY <1>5, <1>a DEF Crash
<1>6. ASSUME NextJob \/ Exported \/ HintsRead \/ Published PROVE KeyIsThere'
  <2>1. UNCHANGED <<stopped, starting, sk>>
    BY <1>6, Zenon DEF NextJob, Exported, HintsRead, Published
  <2>2. spent'.stops = spent.stops
    BY <1>6, <1>b DEF NextJob, Exported, HintsRead, Published
  <2>3. job'.step \in {"hints", "publish"} => sk
    <3>1. CASE NextJob
      <4>1. \/ TakeSnapshot(Head(queue).reason, Head(queue).snap)
            \/ job' = [NoJob EXCEPT !.reason = Head(queue).reason, !.step = "export"]
        BY <3>1, Zenon DEF NextJob
      <4>. QED
        BY <4>1, <1>a, TakeSnapshotJob DEF NoJob
    <3>2. CASE Exported
      BY <3>2, <1>a, TakeSnapshotJob, FailArms DEF Exported
    <3>3. CASE HintsRead
      BY <3>3, <1>a, JobGoesOn DEF HintsRead
    <3>4. CASE Published
      BY <3>4, <1>a, FailArms, Zenon DEF Published
    <3>. QED
      BY <1>6, <3>1, <3>2, <3>3, <3>4
  <2>4. last' # last => job.step = "publish"
    BY <1>6, Zenon DEF NextJob, Exported, HintsRead, Published
  <2>. QED
    BY <2>1, <2>2, <2>3, <2>4
<1>7. ASSUME \/ Register \/ ChannelChange \/ StreamSnapshot \/ StreamEnd \/ Resubscribe
             \/ Refresh \/ Retry \/ PublishNow \/ BeginVerify \/ EndVerify \/ UNCHANGED vars
      PROVE  KeyIsThere'
  <2>1. UNCHANGED <<stopped, starting, sk, job, last>>
    BY <1>7, Zenon DEF Register, ChannelChange, StreamSnapshot, StreamEnd, Resubscribe, Refresh,
       Retry, PublishNow, BeginVerify, EndVerify, vars
  <2>2. spent' = spent \/ Spend("faults") \/ Spend("manuals")
    BY <1>7, Zenon DEF Register, ChannelChange, StreamSnapshot, StreamEnd, Resubscribe, Refresh,
       Retry, PublishNow, BeginVerify, EndVerify, vars
  <2>3. spent'.stops = spent.stops
    BY <2>2, <1>b
  <2>. QED
    BY <2>1, <2>3
<1>. QED
  BY <1>1, <1>2, <1>3, <1>4, <1>5, <1>6, <1>7 DEF Next

\* A job of some kind stays in the queue when another is appended.
LEMMA HasJobQueued ==
    ASSUME NEW R, NEW q \in Seq(Entry), NEW r \in Reasons, NEW v \in Versions \cup {NoVersion},
           r = "stream" => v \in Versions, HasJob(q, R) \/ r \in R
    PROVE  HasJob(Queued(q, r, v), R)
<1>. DEFINE e == [reason |-> r, snap |-> v]
<1>1. e \in Entry
  BY DEF Entry
<1>2. /\ Len(Append(q, e)) = Len(q) + 1 /\ Append(q, e)[Len(q) + 1] = e
      /\ \A i \in 1..Len(q) : Append(q, e)[i] = q[i]
  BY <1>1
<1>3. Len(q) \in Nat
  OBVIOUS
<1>4. CASE HasJob(q, R)
  <2>1. PICK i \in 1..Len(q) : q[i].reason \in R
    BY <1>4 DEF HasJob
  <2>2. i \in 1..Len(Append(q, e)) /\ Append(q, e)[i].reason \in R
    BY <1>2, <1>3, <2>1
  <2>. QED
    BY <2>2, Zenon DEF HasJob, Queued
<1>5. CASE r \in R
  <2>1. Len(q) + 1 \in 1..Len(Append(q, e)) /\ Append(q, e)[Len(q) + 1].reason \in R
    BY <1>2, <1>3, <1>5
  <2>. QED
    BY <2>1, Zenon DEF HasJob, Queued
<1>. QED
  BY <1>4, <1>5

\* Taking the first job takes one of some kind or leaves it in the queue.
LEMMA HasJobTaken ==
    ASSUME NEW R, NEW q \in Seq(Entry), HasJob(q, R)
    PROVE  Head(q).reason \in R \/ HasJob(Tail(q), R)
<1>1. PICK i \in 1..Len(q) : q[i].reason \in R
  BY DEF HasJob
<1>2. /\ Len(q) \in Nat /\ Len(Tail(q)) = Len(q) - 1 /\ Head(q) = q[1]
      /\ \A k \in 1..(Len(q) - 1) : Tail(q)[k] = q[k + 1]
  BY <1>1
<1>3. CASE i = 1
  BY <1>1, <1>2, <1>3
<1>4. CASE i # 1
  <2>1. i - 1 \in 1..Len(Tail(q)) /\ Tail(q)[i - 1] = q[i]
    BY <1>1, <1>2, <1>4
  <2>. QED
    BY <1>1, <2>1, Zenon DEF HasJob
<1>. QED
  BY <1>3, <1>4

\* Only stop() counts as a stop.
LEMMA StopsCounted ==
    ASSUME DataOK, [Next]_vars
    PROVE  IF Stop THEN spent'.stops # 0 ELSE spent'.stops = spent.stops
<1>. USE DEF lifecycle, working, stream, external
<1>1. ASSUME Stop PROVE spent'.stops # 0
  BY <1>1 DEF Stop, Spend, DataOK
<1>2. ASSUME NEW what \in {"faults", "starts", "crashes", "manuals"}, Spend(what)
      PROVE  spent'.stops = spent.stops
  BY <1>2 DEF Spend, DataOK
<1>3. Stop \/ spent' = spent \/ (\E what \in {"faults", "starts", "crashes", "manuals"} : Spend(what))
  BY Zenon DEF Next, vars, Start, KeyDerived, Begun, Crash, Register, ChannelChange,
     StreamSnapshot, StreamEnd, Resubscribe, Refresh, Retry, PublishNow, NextJob, Exported,
     HintsRead, Published, BeginVerify, EndVerify
<1>. QED
  BY <1>1, <1>2, <1>3, Zenon

\* After a failure a running service forces the next publish; only stop(), which counts, and a
\* set without a backup take the retry away.
LEMMA ForcedStep ==
    DataOK /\ KeyIsThere /\ ForcedIsComing /\ [Next]_vars => ForcedIsComing'
<1>. DEFINE Coming == retryTimer \/ HasJob(queue, Forced) \/ job.reason \in Forced
<1>. SUFFICES ASSUME DataOK, KeyIsThere, ForcedIsComing, [Next]_vars,
                     last' # NoKey, lastError', spent'.stops = 0, NoBlob = {}
              PROVE  Coming'
  BY Zenon DEF ForcedIsComing
<1>. USE DEF lifecycle, working, stream, external
<1>a. queue \in Seq(Entry) /\ "retry" \in Forced /\ job \in Job /\ lnd \in Versions
  BY DEF DataOK, Forced
<1>b. spent.stops = 0 /\ ~Stop
  BY StopsCounted
<1>c. last # NoKey => sk /\ ~stopped
  BY <1>b DEF KeyIsThere
<1>d. ASSUME NEW p, Fail(p), UNCHANGED last PROVE Coming'
  BY <1>c, <1>d, FailArms, Zenon
<1>e. ASSUME UNCHANGED <<last, lastError>> PROVE Coming
  BY <1>b, <1>e, Zenon DEF ForcedIsComing
<1>1. ASSUME Begun \/ Resubscribe \/ Refresh \/ Retry \/ PublishNow PROVE Coming'
  <2>1. UNCHANGED <<last, lastError, job>>
    BY <1>1, Zenon DEF Begun, Resubscribe, Refresh, Retry, PublishNow
  <2>2. PICK r \in Reasons \ {"stream"} : queue' = Queued(queue, r, NoVersion)
    BY <1>1, JobQueued
  <2>3. HasJob(queue, Forced) => HasJob(queue', Forced)
    BY <1>a, <2>2, HasJobQueued
  <2>4. CASE Retry
    <3>1. queue' = Queued(queue, "retry", NoVersion) /\ "retry" \in Reasons
      BY <2>4 DEF Retry, Reasons
    <3>2. HasJob(queue', Forced)
      BY <1>a, <3>1, HasJobQueued
    <3>. QED
      BY <3>2, Zenon
  <2>5. CASE Begun \/ Resubscribe \/ Refresh \/ PublishNow
    <3>1. retryTimer' = retryTimer
      BY <2>5, Zenon DEF Begun, Resubscribe, Refresh, PublishNow
    <3>. QED
      BY <1>e, <2>1, <2>3, <3>1, Zenon
  <2>. QED
    BY <1>1, <2>4, <2>5
<1>2. ASSUME StreamSnapshot PROVE Coming'
  <2>1. UNCHANGED <<last, lastError, job, retryTimer>>
    BY <1>2, Zenon DEF StreamSnapshot
  <2>2. queue' = Queued(queue, "stream", Head(wire)) /\ "stream" \in Reasons /\ Head(wire) \in Versions
    BY <1>2 DEF StreamSnapshot, Reasons, DataOK
  <2>3. HasJob(queue, Forced) => HasJob(queue', Forced)
    BY <1>a, <2>2, HasJobQueued
  <2>. QED
    BY <1>e, <2>1, <2>3, Zenon
<1>3. ASSUME NextJob PROVE Coming'
  <2>1. UNCHANGED <<last, lastError, retryTimer>> /\ job = NoJob /\ queue' = Tail(queue)
    BY <1>3, Zenon DEF NextJob
  <2>2. NoJob.reason \notin Forced /\ "stream" \notin Forced
    BY DEF NoJob, Forced
  <2>3. HasJob(queue, Forced) => Head(queue).reason \in Forced \/ HasJob(queue', Forced)
    BY <1>a, <2>1, HasJobTaken
  <2>4. Head(queue).reason \in Forced => job'.reason = Head(queue).reason
    BY <1>3, <2>2 DEF NextJob, NoJob
  <2>. QED
    BY <1>e, <2>1, <2>2, <2>3, <2>4, Zenon
<1>4. ASSUME Exported PROVE Coming'
  <2>1. UNCHANGED <<last, queue>>
    BY <1>4, Zenon DEF Exported
  <2>2. CASE TakeSnapshot(job.reason, lnd) /\ UNCHANGED <<lastError, retryTimer>>
    <3>1. job'.reason = job.reason
      BY <1>c, <2>1, <2>2, TakeSnapshotJob
    <3>. QED
      BY <1>e, <2>1, <2>2, <3>1, Zenon
  <2>. QED
    BY <1>4, <1>d, <2>1, <2>2, Zenon DEF Exported
<1>5. ASSUME HintsRead PROVE Coming'
  <2>1. UNCHANGED <<last, queue>>
    BY <1>5, Zenon DEF HintsRead
  <2>2. CASE job.reason \notin Forced /\ UNCHANGED <<lastError, retryTimer>>
    BY <1>e, <2>1, <2>2, Zenon
  <2>3. CASE /\ UNCHANGED <<lastError, retryTimer>>
             /\ \E k : job' = [job EXCEPT !.step = "publish", !.key = k]
    <3>1. job'.reason = job.reason
      BY <1>a, <2>3 DEF Job
    <3>. QED
      BY <1>e, <2>1, <2>3, <3>1, Zenon
  <2>. QED
    BY <1>5, <1>d, <2>1, <2>2, <2>3, Zenon DEF HintsRead
<1>6. ASSUME Published PROVE Coming'
  BY <1>6, <1>d, Zenon DEF Published
<1>7. ASSUME Crash PROVE FALSE
  BY <1>7, Zenon DEF Crash
<1>8. ASSUME \/ Start \/ KeyDerived \/ Register \/ ChannelChange \/ StreamEnd
             \/ BeginVerify \/ EndVerify \/ UNCHANGED vars
      PROVE  Coming'
  <2>1. UNCHANGED <<last, lastError, queue, job, retryTimer>>
    BY <1>8, Zenon DEF Start, KeyDerived, Register, ChannelChange, StreamEnd, BeginVerify,
       EndVerify, vars
  <2>. QED
    BY <1>e, <2>1, Zenon
<1>. QED
  BY <1>b, <1>1, <1>2, <1>3, <1>4, <1>5, <1>6, <1>7, <1>8 DEF Next

\* What a job leaves behind when nothing follows it is what the node has.
LEMMA RestStep ==
    /\ TypeOK /\ QueueEndsCurrent /\ JobIsCurrent /\ StoredOrForced /\ KeyIsThere /\ ForcedIsComing
    /\ RestIsCurrent /\ [Next]_vars
    => RestIsCurrent'
<1>. SUFFICES ASSUME TypeOK, QueueEndsCurrent, JobIsCurrent, StoredOrForced, KeyIsThere,
                     ForcedIsComing, RestIsCurrent, [Next]_vars,
                     Settled', job' = NoJob, ~retryTimer', ~missed', ~RetryMayBeGone'
              PROVE  Current'
  BY Zenon DEF RestIsCurrent
<1>. USE DEF lifecycle, working, stream, external
<1>a. /\ queue \in Seq(Entry) /\ wire \in Seq(Versions) /\ lnd \in Versions /\ job \in Job
      /\ NoVersion \notin Versions /\ NoJob.step = "none" /\ DataOK
  BY DEF TypeOK, DataOK, NoVersion, Versions, NoJob
<1>1. ASSUME Start \/ KeyDerived \/ Stop \/ Crash \/ StreamEnd PROVE FALSE
  BY <1>1, <1>a, NotSettled, Zenon DEF Settled, Running
<1>2. ASSUME Begun \/ Resubscribe \/ Refresh \/ Retry \/ PublishNow PROVE FALSE
  <2>1. PICK r \in Reasons \ {"stream"} : queue' = Queued(queue, r, NoVersion)
    BY <1>2, <1>a, JobQueued
  <2>2. queue' # <<>>
    BY <1>a, <2>1, LastQueued
  <2>. QED
    BY <2>2, Zenon DEF Settled
<1>3. ASSUME StreamSnapshot PROVE FALSE
  <2>1. queue' = Queued(queue, "stream", Head(wire)) /\ "stream" \in Reasons /\ Head(wire) \in Versions
    BY <1>3, <1>a DEF StreamSnapshot, Reasons
  <2>2. queue' # <<>>
    BY <1>a, <2>1, LastQueued
  <2>. QED
    BY <2>2, Zenon DEF Settled
<1>4. ASSUME ChannelChange PROVE FALSE
  <2>1. registered => wire' # <<>>
    BY <1>4, <1>a DEF ChannelChange
  <2>. QED
    BY <1>4, <2>1, Zenon DEF ChannelChange, Settled
<1>5. ASSUME NextJob PROVE Current'
  <2>1. UNCHANGED <<stopped, starting, resubs, wire, lnd, stored>> /\ queue # <<>>
    BY <1>5, Zenon DEF NextJob
  <2>2. sk /\ Running /\ resubs = 0 /\ wire = <<>>
    BY <2>1, Zenon DEF Settled, Running, KeyIsThere
  <2>3. CASE Head(queue).reason = "stream"
    <3>1. TakeSnapshot(Head(queue).reason, Head(queue).snap)
      BY <1>5, <2>3, Zenon DEF NextJob
    <3>2. Head(queue).snap \in NoBlob
      BY <1>a, <2>2, <3>1, TakeSnapshotJob
    <3>3. Head(queue) = queue[Len(queue)]
      BY <1>5, <1>a, LastOfTail DEF NextJob, Settled
    <3>4. lnd \in NoBlob
      BY <2>1, <2>2, <2>3, <3>2, <3>3, Zenon DEF QueueEndsCurrent
    <3>. QED
      BY <2>1, <3>4, Zenon DEF Current
  <2>4. CASE Head(queue).reason # "stream"
    <3>1. job'.step = "export"
      BY <1>5, <2>4 DEF NextJob, NoJob
    <3>. QED
      BY <1>a, <3>1
  <2>. QED
    BY <2>3, <2>4
<1>6. ASSUME NEW p, Fail(p), UNCHANGED stopped PROVE FALSE
  BY <1>6, FailArms, Zenon DEF Settled, Running
<1>7. ASSUME Exported PROVE Current'
  <2>1. UNCHANGED <<stopped, starting, lnd>>
    BY <1>7, Zenon DEF Exported
  <2>2. sk
    BY <2>1, Zenon DEF Settled, Running, KeyIsThere
  <2>3. TakeSnapshot(job.reason, lnd)
    BY <1>7, <1>6, <2>1, Zenon DEF Exported
  <2>4. lnd \in NoBlob
    BY <1>a, <2>2, <2>3, TakeSnapshotJob
  <2>. QED
    BY <2>1, <2>4, Zenon DEF Current
<1>8. ASSUME HintsRead PROVE Current'
  <2>1. /\ UNCHANGED <<stopped, starting, resubs, wire, queue, lnd, missed, stored, last>>
        /\ job.step = "hints"
    BY <1>8, Zenon DEF HintsRead
  <2>2. Settled /\ ~missed
    BY <2>1, Zenon DEF Settled, Running
  <2>3. job.snap = lnd
    BY <2>1, <2>2 DEF JobIsCurrent
  <2>4. [job EXCEPT !.step = "publish"].step = "publish"
    BY <1>a DEF Job
  <2>5. PICK hints \in BOOLEAN :
          /\ job.reason \notin Forced /\ Key(job.snap, hints) = last
          /\ UNCHANGED <<lastError, retryTimer>>
    <3>1. \A k : [job EXCEPT !.step = "publish", !.key = k].step = "publish"
      BY <1>a DEF Job
    <3>2. \A k : [job EXCEPT !.step = "publish", !.key = k] # NoJob
      BY <1>a, <3>1
    <3>. QED
      BY <1>6, <1>8, <2>1, <3>2, Zenon DEF HintsRead
  <2>6. last # NoKey /\ last.cp = Fingerprint[lnd]
    <3>1. Fingerprint[lnd] \in Nat
      BY <1>a, DataAssumption
    <3>. QED
      BY <2>3, <2>5, <3>1 DEF Key, NoKey, NoVersion
  <2>a. ~HasJob(queue, Forced)
    <3>1. ~HasJob(<<>>, Forced)
      BY DEF HasJob
    <3>. QED
      BY <2>2, <3>1, Zenon DEF Settled
  <2>7. CASE ~lastError
    <3>1. LastIsOfStored
      BY <2>5, <2>6, <2>7, <2>a, Zenon DEF StoredOrForced
    <3>. QED
      BY <2>1, <2>6, <3>1 DEF LastIsOfStored, Current
  <2>8. CASE lastError
    <3>1. ~(spent'.stops > 0) /\ NoBlob = {}
      BY <2>5, <2>8, Zenon DEF RetryMayBeGone
    <3>2. spent'.stops \in Nat
      BY <1>a, DataStep DEF DataOK
    <3>3. spent'.stops = 0
      BY <3>1, <3>2
    <3>4. spent.stops = 0
      BY <1>1, <1>a, <3>3, StopsCounted, Zenon
    <3>. QED
      BY <2>1, <2>2, <2>5, <2>6, <2>8, <2>a, <3>1, <3>4, Zenon DEF ForcedIsComing, Settled
  <2>. QED
    BY <2>7, <2>8
<1>9. ASSUME Published PROVE Current'
  <2>1. /\ UNCHANGED <<stopped, starting, resubs, wire, queue, lnd, missed>>
        /\ job.step = "publish"
    BY <1>9, Zenon DEF Published
  <2>2. Settled /\ ~missed
    BY <2>1, Zenon DEF Settled, Running
  <2>3. job.snap = lnd
    BY <2>1, <2>2 DEF JobIsCurrent
  <2>4. stored' = job.snap
    BY <1>9, <1>6, <2>1, Zenon DEF Published
  <2>. QED
    BY <1>a, <2>1, <2>3, <2>4 DEF Current
<1>10. ASSUME Register \/ BeginVerify \/ EndVerify \/ UNCHANGED vars PROVE Current'
  <2>1. UNCHANGED <<stopped, starting, resubs, wire, queue, lnd, missed, stored, job, retryTimer,
                    lastError, spent>>
    BY <1>10, Zenon DEF Register, BeginVerify, EndVerify, vars
  <2>. QED
    BY <2>1, Zenon DEF RestIsCurrent, Settled, Running, RetryMayBeGone, Current
<1>. QED
  BY <1>1, <1>2, <1>3, <1>4, <1>5, <1>7, <1>8, <1>9, <1>10 DEF Next

\* The versions in flight, from lnd to the relays, in the order they take there.
Following ==
    /\ WireEndsCurrent /\ QueueEndsCurrent /\ JobIsCurrent /\ JobHasItsKey /\ LastIsStored
    /\ KeyIsThere /\ ForcedIsComing /\ RestIsCurrent

\* A service at rest has brought the node's current channel set to the relays, unless a change
\* fell where nobody saw it or a shown failure's retry may be gone: for every number of stream
\* ends, faults, starts, stops and crashes, and every history of channel sets.
THEOREM RestingIsCurrent == Spec => []QuietIsCurrent
<1>1. Init => Following
  <2>. SUFFICES ASSUME Init PROVE Following
    OBVIOUS
  <2>1. /\ wire = <<>> /\ queue = <<>> /\ stopped /\ starting = "no" /\ ~sk /\ ~lastError
        /\ job.step = "none" /\ last = NoKey
    BY DEF Init, NoJob
  <2>. QED
    BY <2>1 DEF Following, WireEndsCurrent, QueueEndsCurrent, JobIsCurrent, JobHasItsKey, LastIsStored,
       KeyIsThere, ForcedIsComing, RestIsCurrent, Running, Settled
<1>2. TypeOK /\ Following /\ [Next]_vars => Following'
  <2>1. LastIsStored => StoredOrForced
    BY Zenon DEF LastIsStored, StoredOrForced
  <2>. QED
    BY <2>1, WireStep, QueueStep, JobIsCurrentStep, JobKeyStep, StoredStep, KeyStep, ForcedStep,
       RestStep, Zenon DEF Following, TypeOK
<1>3. Following => QuietIsCurrent
  BY Zenon DEF Following, RestIsCurrent, QuietIsCurrent, Quiet, Settled, Busy
<1>. QED
  BY <1>1, <1>2, <1>3, TypeCorrect, PTL DEF Spec
=============================================================================

---------------------------- MODULE Monitor_proofs ----------------------------
(***************************************************************************)
(* What holds of the monitor and the service it owns, and of what the      *)
(* console says about them, for every value of the constants.              *)
(***************************************************************************)
EXTENDS Security, BackupService_proofs

-----------------------------------------------------------------------------
(* How the monitor moves the service *)

\* What a verification may make of what the service shows.
ShownFrom(p) ==
    {p} \cup {q \in Pipe : /\ p.state \in {"SUCCESS", "DEGRADED", "VERIFYING"}
                           /\ q.state \in {"SUCCESS", "DEGRADED", "FAILED", "VERIFYING"}
                           /\ q.invalid = p.invalid}

\* A step of the monitor beside the service: it touches what the service shows, what the relays
\* hold and the end of the queue, and nothing else.
Beside ==
    /\ UNCHANGED <<lifecycle, job, last, lastError, retryTimer, stream, refreshers, lnd,
                   registered, wire, missed>>
    /\ pipe' \in ShownFrom(pipe)
    /\ queue' = queue \/ \E r \in {"heal", "manual"} : queue' = Queued(queue, r, NoVersion)
    /\ \/ stored' = stored /\ (spent' = spent \/ Spend("faults"))
       \/ /\ Spend("manuals") /\ stored' \in FewerCopies
          /\ queue' = Queued(queue, "manual", NoVersion)

\* A run puts the service into VERIFYING exactly if it rests in a success.
LEMMA BeginEffect ==
    ASSUME NEW p \in Pipe, Begin(p)
    PROVE  /\ pipe' \in Pipe /\ pipe'.invalid = p.invalid
           /\ pipe' = p \/ (p.state \in {"SUCCESS", "DEGRADED"} /\ pipe'.state = "VERIFYING")
           /\ run' \in Runs
           /\ run'.current = TRUE /\ run'.overtaken = FALSE /\ run'.outdated = FALSE
           /\ p.state # "VERIFYING" /\ pipe'.state = "VERIFYING"
              => run'.active = TRUE /\ run'.began = TRUE
<1>. DEFINE began == p.state \in {"SUCCESS", "DEGRADED"}
<1>1. NoRun \in Runs
  BY DEF NoRun, Runs, Reading
<1>2. ASSUME NEW b \in BOOLEAN PROVE [NoRun EXCEPT !.active = TRUE, !.began = b] \in Runs
  BY <1>1 DEF Runs
<1>3. CASE sk /\ began
  <2>1. CanTransition(p.state, "VERIFYING")
    BY <1>3, AllowedFacts
  <2>2. /\ To(p, "VERIFYING") \in Pipe /\ To(p, "VERIFYING").state = "VERIFYING"
        /\ To(p, "VERIFYING").invalid = p.invalid
    BY <2>1, ToType, ToAllowed DEF States
  <2>3. pipe' = To(p, "VERIFYING") /\ run' = [NoRun EXCEPT !.active = TRUE, !.began = TRUE]
    BY <1>3 DEF Begin
  <2>. QED
    BY <1>1, <1>3, <2>2, <2>3 DEF NoRun, Runs
<1>4. CASE sk /\ ~began
  <2>a. pipe' = p /\ run' = [NoRun EXCEPT !.active = TRUE, !.began = began]
    BY <1>4, Zenon DEF Begin
  <2>b. began \in BOOLEAN
    OBVIOUS
  <2>1. pipe' = p /\ \E b \in BOOLEAN : run' = [NoRun EXCEPT !.active = TRUE, !.began = b]
    BY <2>a, <2>b, Zenon
  <2>2. run' \in Runs /\ run'.current = TRUE /\ run'.overtaken = FALSE /\ run'.outdated = FALSE
    BY <1>1, <1>2, <2>1 DEF NoRun, Runs
  <2>. QED
    BY <1>4, <2>1, <2>2
<1>5. CASE ~sk
  <2>1. pipe' = p /\ run' = NoRun
    BY <1>5 DEF Begin
  <2>. QED
    BY <1>1, <2>1 DEF NoRun
<1>. QED
  BY <1>3, <1>4, <1>5

\* A verdict is shown in place of VERIFYING only.
LEMMA VerdictEffect ==
    ASSUME NEW p \in Pipe, NEW v \in {"SUCCESS", "DEGRADED", "FAILED"}
    PROVE  /\ VerdictShown(p, v) \in Pipe /\ VerdictShown(p, v).invalid = p.invalid
           /\ VerdictShown(p, v).state = IF p.state = "VERIFYING" THEN v ELSE p.state
           /\ p.state # "VERIFYING" => VerdictShown(p, v) = p
<1>1. v \in States /\ CanTransition("VERIFYING", v)
  BY AllowedFacts DEF States
<1>2. CASE p.state = "VERIFYING"
  BY <1>1, <1>2, ToType, ToAllowed DEF VerdictShown
<1>3. CASE p.state # "VERIFYING"
  BY <1>3 DEF VerdictShown
<1>. QED
  BY <1>2, <1>3

\* A run that ends shows its verdict, if it began one, and may be followed by another.
LEMMA EndEffect ==
    ASSUME NEW p \in Pipe, End(p)
    PROVE  /\ pipe' \in Pipe /\ pipe'.invalid = p.invalid
           /\ pipe' = p \/ (p.state \in {"SUCCESS", "DEGRADED"} /\ pipe'.state = "VERIFYING")
           /\ run' \in Runs /\ waiters' = FALSE
           /\ run'.current = TRUE /\ run'.overtaken = FALSE /\ run'.outdated = FALSE
           /\ p.state # "VERIFYING" /\ pipe'.state = "VERIFYING"
              => run'.active = TRUE /\ run'.began = TRUE
<1>1. NoRun \in Runs
  BY DEF NoRun, Runs, Reading
<1>2. CASE Begin(p)
  BY <1>2, BeginEffect DEF End
<1>3. CASE pipe' = p /\ run' = NoRun
  BY <1>1, <1>3 DEF End, NoRun
<1>. QED
  BY <1>2, <1>3 DEF End

\* What a run in flight leaves the service showing when it ends.
Verdicts(p) == {p} \cup {VerdictShown(p, v) : v \in {"SUCCESS", "DEGRADED", "FAILED"}}

\* The two ways of a run to end have their effect on the service in common.
LEMMA RunOver ==
    ASSUME RunEnds \/ RunThrows
    PROVE  \E p \in Verdicts(pipe) : End(p) /\ (run.began => p.state # "VERIFYING" \/ pipe \notin Pipe)
<1>1. ASSUME NEW v \in {"SUCCESS", "DEGRADED", "FAILED"},
             End(IF run.began THEN VerdictShown(pipe, v) ELSE pipe)
      PROVE  \E p \in Verdicts(pipe) : End(p) /\ (run.began => p.state # "VERIFYING" \/ pipe \notin Pipe)
  <2>1. CASE run.began
    <3>1. VerdictShown(pipe, v) \in Verdicts(pipe) /\ End(VerdictShown(pipe, v))
      BY <1>1, <2>1 DEF Verdicts
    <3>2. pipe \in Pipe => VerdictShown(pipe, v).state # "VERIFYING"
      BY VerdictEffect
    <3>. QED
      BY <3>1, <3>2
  <2>2. CASE ~run.began
    BY <1>1, <2>2 DEF Verdicts
  <2>. QED
    BY <2>1, <2>2
<1>2. CASE RunEnds
  <2>1. PICK v \in {"SUCCESS", "DEGRADED", "FAILED"} :
          End(IF run.began THEN VerdictShown(pipe, v) ELSE pipe)
    BY <1>2, Zenon DEF RunEnds
  <2>. QED
    BY <1>1, <2>1
<1>3. CASE RunThrows
  BY <1>1, <1>3 DEF RunThrows
<1>. QED
  BY <1>2, <1>3

\* Every step of the composition is one of the service or beside it.
LEMMA MonitorMoves == DataOK /\ [MonitorNext]_allVars => Next \/ Beside
<1>. SUFFICES ASSUME DataOK PROVE [MonitorNext]_allVars => Next \/ Beside
  OBVIOUS
<1>a. pipe \in Pipe /\ pipe \in ShownFrom(pipe)
  BY DEF DataOK, ShownFrom
<1>1. ASSUME UNCHANGED vars PROVE Beside
  BY <1>1, <1>a, Zenon DEF vars, Beside, lifecycle, working, stream, external
<1>2. ASSUME MonitorStart \/ MonitorBegun \/ NodeRead \/ UNCHANGED allVars PROVE UNCHANGED vars
  BY <1>2, Zenon DEF MonitorStart, MonitorBegun, NodeRead, allVars
<1>3. ASSUME ServiceStarts \/ JobStep \/ ServiceAlone PROVE Next
  BY <1>3, Zenon DEF ServiceStarts, JobStep, ServiceAlone, Next
<1>4. ASSUME InfoPolled PROVE Next \/ Beside
  BY <1>4, <1>a, Zenon DEF InfoPolled, Next, Beside, lifecycle, working, stream, external
<1>5. ASSUME MonitorStop PROVE Next \/ Beside
  BY <1>5, <1>1, Zenon DEF MonitorStop, Next
<1>6. ASSUME VerifyTimerFires \/ VerifyTick \/ VerifyRequested PROVE Beside
  <2>1. VerifyNow /\ UNCHANGED RestOfService
    BY <1>6, Zenon DEF VerifyTimerFires, VerifyTick, VerifyRequested, RestOfService
  <2>2. pipe' \in ShownFrom(pipe)
    BY <1>a, <2>1, BeginEffect DEF VerifyNow, ShownFrom
  <2>. QED
    BY <2>1, <2>2, Zenon DEF RestOfService, Beside, lifecycle, working, stream, external
<1>7. ASSUME RelaysRead PROVE Beside
  BY <1>7, <1>a, Zenon DEF RelaysRead, Beside, lifecycle, working, stream, external
<1>8. ASSUME RunEnds \/ RunThrows PROVE Beside
  <2>1. PICK p \in Verdicts(pipe) : End(p)
    BY <1>8, RunOver
  <2>2. p \in ShownFrom(pipe) /\ p \in Pipe
    BY <1>a, <2>1, VerdictEffect DEF Verdicts, ShownFrom
  <2>3. pipe' \in ShownFrom(pipe)
    BY <1>a, <2>1, <2>2, EndEffect DEF ShownFrom
  <2>4. /\ UNCHANGED <<lifecycle, job, last, lastError, retryTimer, stream, refreshers, external>>
        /\ queue' = queue \/ queue' = Queued(queue, "heal", NoVersion)
        /\ spent' = spent \/ Spend("faults")
    BY <1>8, Zenon DEF RunEnds, RunThrows
  <2>. QED
    BY <2>3, <2>4, Zenon DEF Beside, external
<1>9. ASSUME RelayChange PROVE Beside
  BY <1>9, <1>a, Zenon DEF RelayChange, Beside, lifecycle, working, stream, external
<1>. QED
  BY <1>1, <1>2, <1>3, <1>4, <1>5, <1>6, <1>7, <1>8, <1>9 DEF MonitorNext

-----------------------------------------------------------------------------
(* Type correctness *)

\* Beside the service nothing loses its type either.
LEMMA BesideType == TypeOK /\ Beside => TypeOK'
<1>. SUFFICES ASSUME TypeOK, Beside PROVE TypeOK'
  OBVIOUS
<1>. USE DEF lifecycle, stream
<1>1. FlagsOK'
  BY Zenon DEF Beside, TypeOK, FlagsOK
<1>2. pipe' \in Pipe
  BY DEF Beside, ShownFrom, TypeOK, DataOK
<1>3. queue' \in Seq(Entry)
  <2>1. queue \in Seq(Entry) /\ {"heal", "manual"} \subseteq Reasons
    BY DEF TypeOK, DataOK, Reasons
  <2>2. \A r \in {"heal", "manual"} : Queued(queue, r, NoVersion) \in Seq(Entry)
    BY <2>1, QueuedType
  <2>. QED
    BY <2>1, <2>2, Zenon DEF Beside
<1>4. stored' \in Versions \cup {NoVersion}
  BY DEF Beside, FewerCopies, TypeOK, DataOK
<1>5. spent' \in [faults : Nat, starts : Nat, stops : Nat, crashes : Nat, manuals : Nat]
  BY DEF Beside, Spend, TypeOK, DataOK
<1>6. UNCHANGED <<starting, job, last, subs, resubs, refreshers, lnd, wire>>
  BY Zenon DEF Beside
<1>. QED
  BY <1>1, <1>2, <1>3, <1>4, <1>5, <1>6 DEF TypeOK, DataOK

\* The service keeps its types under the monitor.
LEMMA ServiceType == TypeOK /\ [MonitorNext]_allVars => TypeOK'
  BY MonitorMoves, BesideType, FlagsStep, DataStep DEF TypeOK

\* A call of verifyNow starts a run, shares one or waits.
LEMMA VerifyNowEffect ==
    ASSUME pipe \in Pipe, run \in Runs, waiters \in BOOLEAN, VerifyNow
    PROVE  /\ run' \in Runs /\ waiters' \in BOOLEAN
           /\ \/ run.active /\ pipe' = pipe /\ run' = run
              \/ /\ run.active /\ run.current /\ pipe' = pipe
                 /\ run' = [run EXCEPT !.outdated = @ \/ run.overtaken]
              \/ ~run.active /\ Begin(pipe)
<1>1. CASE run.active /\ run.current
  <2>1. pipe' = pipe /\ waiters' = waiters /\ run' = [run EXCEPT !.outdated = run.outdated \/ run.overtaken]
    BY <1>1, Zenon DEF VerifyNow
  <2>2. (run.outdated \/ run.overtaken) \in BOOLEAN
    OBVIOUS
  <2>3. \A b \in BOOLEAN : [run EXCEPT !.outdated = b] \in Runs
    BY DEF Runs
  <2>4. run' \in Runs
    BY <2>1, <2>2, <2>3, Zenon
  <2>. QED
    BY <1>1, <2>1, <2>4, Zenon
<1>2. CASE run.active /\ ~run.current
  BY <1>2, Zenon DEF VerifyNow
<1>3. CASE ~run.active
  BY <1>3, BeginEffect, Zenon DEF VerifyNow
<1>. QED
  BY <1>1, <1>2, <1>3

\* The monitor's own variables keep their types.
LEMMA MonitorOKStep == TypeOK /\ MonitorOK /\ [MonitorNext]_allVars => MonitorOK'
<1>. SUFFICES ASSUME TypeOK, MonitorOK PROVE [MonitorNext]_allVars => MonitorOK'
  OBVIOUS
<1>a. pipe \in Pipe /\ run \in Runs /\ waiters \in BOOLEAN
  BY DEF TypeOK, DataOK, MonitorOK
<1>1. ASSUME MonitorStart \/ InfoPolled PROVE MonitorOK'
  <2>1. UNCHANGED <<run, waiters, verifyTimer, ticks, healing, verify, unverified>>
    BY <1>1, Zenon DEF MonitorStart, InfoPolled
  <2>2. mStopped' \in BOOLEAN /\ mStarting' \in {"no", "info", "service", "spend"}
    BY <1>1, Zenon DEF MonitorStart, InfoPolled, MonitorOK
  <2>. QED
    BY <2>1, <2>2, Zenon DEF MonitorOK
<1>2. ASSUME ServiceStarts PROVE MonitorOK'
  <2>1. UNCHANGED <<run, waiters, ticks, healing, verify, unverified>>
    BY <1>2, Zenon DEF ServiceStarts
  <2>2. /\ mStopped' \in BOOLEAN /\ mStarting' \in {"no", "info", "service", "spend"}
        /\ verifyTimer' \in BOOLEAN
    BY <1>2, Zenon DEF ServiceStarts, MonitorOK
  <2>. QED
    BY <2>1, <2>2, Zenon DEF MonitorOK
<1>3. ASSUME MonitorBegun PROVE MonitorOK'
  <2>1. UNCHANGED <<mStopped, run, waiters, healing, verify, unverified>>
    BY <1>3, Zenon DEF MonitorBegun
  <2>2. ticks' \in Nat
    BY <1>3 DEF MonitorBegun, MonitorOK
  <2>3. mStarting' \in {"no", "info", "service", "spend"} /\ verifyTimer' \in BOOLEAN
    BY <1>3 DEF MonitorBegun, MonitorOK
  <2>. QED
    BY <2>1, <2>2, <2>3, Zenon DEF MonitorOK
<1>4. ASSUME MonitorStop PROVE MonitorOK'
  <2>1. UNCHANGED <<mStarting, run, waiters, healing, verify, unverified>> /\ mStopped' = TRUE
        /\ verifyTimer' = FALSE /\ ticks' = 0
    BY <1>4, Zenon DEF MonitorStop
  <2>. QED
    BY <2>1 DEF MonitorOK
<1>5. ASSUME VerifyTimerFires \/ VerifyTick \/ VerifyRequested PROVE MonitorOK'
  <2>1. /\ VerifyNow /\ UNCHANGED <<mStopped, mStarting, ticks, healing, verify, unverified>>
        /\ verifyTimer' \in {FALSE, verifyTimer}
    BY <1>5, Zenon DEF VerifyTimerFires, VerifyTick, VerifyRequested
  <2>2. run' \in Runs /\ waiters' \in BOOLEAN
    BY <1>a, <2>1, VerifyNowEffect
  <2>. QED
    BY <2>1, <2>2, Zenon DEF MonitorOK
<1>6. ASSUME RelaysRead \/ NodeRead PROVE MonitorOK'
  <2>1. /\ UNCHANGED <<mStopped, mStarting, waiters, verifyTimer, ticks, healing, verify, unverified>>
        /\ \E r \in Reading : run' = [run EXCEPT !.seen = r] \/ run' = [run EXCEPT !.node = r]
    <3>1. stored \in Reading /\ NoVersion \in Reading /\ lnd \in Reading
      BY DEF TypeOK, DataOK, Reading
    <3>. QED
      BY <1>6, <3>1, Zenon DEF RelaysRead, NodeRead
  <2>2. run' \in Runs
    BY <1>a, <2>1 DEF Runs
  <2>. QED
    BY <2>1, <2>2, Zenon DEF MonitorOK
<1>7. ASSUME RunEnds \/ RunThrows PROVE MonitorOK'
  <2>1. PICK p \in Verdicts(pipe) : End(p)
    BY <1>7, RunOver
  <2>2. p \in Pipe
    BY <1>a, VerdictEffect DEF Verdicts
  <2>3. run' \in Runs /\ waiters' = FALSE
    BY <2>1, <2>2, EndEffect
  <2>4. /\ UNCHANGED <<mStopped, mStarting, verifyTimer, ticks>>
        /\ healing' \in {healing, TRUE} /\ unverified' \in {unverified, unverified /\ ~run.current}
        /\ verify' \in {verify, "SUCCESS", "DEGRADED", "FAILED", "behind"}
    BY <1>7, Zenon DEF RunEnds, RunThrows
  <2>5. (unverified /\ ~run.current) \in BOOLEAN
    OBVIOUS
  <2>6. unverified' \in BOOLEAN /\ healing' \in BOOLEAN
    BY <2>4, <2>5, Zenon DEF MonitorOK
  <2>7. verify' \in {"none", "SUCCESS", "DEGRADED", "FAILED", "behind"}
    BY <2>4, Zenon DEF MonitorOK
  <2>. QED
    BY <2>3, <2>4, <2>6, <2>7, Zenon DEF MonitorOK
<1>8. ASSUME JobStep PROVE MonitorOK'
  <2>1. UNCHANGED <<mStopped, mStarting, waiters, ticks, verify>>
    BY <1>8, Zenon DEF JobStep
  <2>2. healing' \in BOOLEAN
    <3>1. \E b : healing' = (healing /\ ~b)
      BY <1>8, Zenon DEF JobStep, Healed
    <3>. QED
      BY <3>1
  <2>3. CASE UNCHANGED <<run, verifyTimer, unverified>>
    BY <2>1, <2>2, <2>3, Zenon DEF MonitorOK
  <2>4. CASE PublishFinished
    <3>1. verifyTimer' \in BOOLEAN /\ unverified' \in BOOLEAN
      BY <2>4 DEF PublishFinished
    <3>2. (~run.active) \in BOOLEAN /\ (run.active /\ run.seen # Unread) \in BOOLEAN
      OBVIOUS
    <3>3. \A b, c \in BOOLEAN : [run EXCEPT !.current = b, !.overtaken = c] \in Runs
      BY <1>a DEF Runs
    <3>4. run' \in Runs
      BY <2>4, <3>2, <3>3, Zenon DEF PublishFinished
    <3>. QED
      BY <2>1, <2>2, <3>1, <3>4, Zenon DEF MonitorOK
  <2>. QED
    BY <1>8, <2>3, <2>4, Zenon DEF JobStep
<1>9. ASSUME RelayChange PROVE MonitorOK'
  BY <1>9, Zenon DEF RelayChange, MonitorOK
<1>10. ASSUME ServiceAlone \/ UNCHANGED allVars PROVE MonitorOK'
  BY <1>10, Zenon DEF ServiceAlone, allVars, monitor, MonitorOK
<1>. QED
  BY <1>1, <1>2, <1>3, <1>4, <1>5, <1>6, <1>7, <1>8, <1>9, <1>10 DEF MonitorNext

\* Type correctness of the composition: the service's under the monitor's steps, and the monitor's
\* own, whose run is one that was begun, shared, ended or thrown away, or none.
THEOREM MonitorTypeCorrect == MonitorSpec => []MonitorTypeOK
<1>1. MonitorInit => MonitorTypeOK
  <2>1. Init => TypeOK
    BY InitType
  <2>2. MonitorInit => MonitorOK
    <3>1. NoRun \in Runs
      BY DEF NoRun, Runs, Reading
    <3>2. 0 \in Nat
      OBVIOUS
    <3>. QED
      BY <3>1, <3>2, Zenon DEF MonitorInit, MonitorOK
  <2>. QED
    BY <2>1, <2>2 DEF MonitorInit, MonitorTypeOK
<1>2. MonitorTypeOK /\ [MonitorNext]_allVars => MonitorTypeOK'
  BY ServiceType, MonitorOKStep DEF MonitorTypeOK
<1>. QED
  BY <1>1, <1>2, PTL DEF MonitorSpec

-----------------------------------------------------------------------------
(* The service under the monitor *)

\* Beside the service the state it shows stays where its job is.
LEMMA BesidePhase == DataOK /\ Phase /\ Beside => Phase'
<1>. SUFFICES ASSUME DataOK, Phase, Beside PROVE Phase'
  OBVIOUS
<1>1. job' = job
  BY Zenon DEF Beside
<1>2. \/ pipe' = pipe
      \/ /\ pipe.state \in {"SUCCESS", "DEGRADED", "VERIFYING"}
         /\ pipe'.state \in {"SUCCESS", "DEGRADED", "FAILED", "VERIFYING"}
  BY DEF Beside, ShownFrom
<1>. QED
  BY <1>1, <1>2 DEF Phase, NeverStuckWorking, Working

\* Verifications, heals and changed relays leave a scheduled recovery scheduled.
LEMMA BesideRecovery == DataOK /\ RecoveryIsScheduled /\ Beside => RecoveryIsScheduled'
<1>. SUFFICES ASSUME DataOK, RecoveryIsScheduled, Beside PROVE RecoveryIsScheduled'
  OBVIOUS
<1>1. job' = job /\ retryTimer' = retryTimer
  BY Zenon DEF Beside
<1>2. pipe'.state = "RECOVERING" => pipe.state = "RECOVERING"
  BY DEF Beside, ShownFrom
<1>3. queue # <<>> => queue' # <<>>
  <2>1. ASSUME NEW r \in {"heal", "manual"}, queue' = Queued(queue, r, NoVersion)
        PROVE  queue' # <<>>
    <3>1. r \in Reasons /\ r # "stream"
      BY DEF Reasons
    <3>. QED
      BY <2>1, <3>1, LastQueued
  <2>. QED
    BY <2>1, Zenon DEF Beside
<1>. QED
  BY <1>1, <1>2, <1>3, Zenon DEF RecoveryIsScheduled, Busy

\* Beside the service the subscription is left alone.
LEMMA BesideSubscription == OneSubscription /\ Beside => OneSubscription'
<1>1. Beside => UNCHANGED <<stopped, starting, streamUp, subs, resubs>>
  BY Zenon DEF Beside, lifecycle, stream
<1>. QED
  BY <1>1 DEF OneSubscription, Running

\* What the service promises of itself, and the phases it rests on.
Undisturbed == Phase /\ RecoveryIsScheduled /\ OneSubscription

\* Each step of the composition keeps it.
LEMMA UndisturbedStep ==
    TypeOK /\ Undisturbed /\ [MonitorNext]_allVars => Undisturbed'
  BY MonitorMoves, PhaseStep, RecoveryStep, SubscriptionStep, BesidePhase, BesideRecovery,
     BesideSubscription DEF Undisturbed, TypeOK

\* It holds at first.
LEMMA UndisturbedInit == MonitorInit => Undisturbed
  BY DEF MonitorInit, Init, Undisturbed, Phase, NeverStuckWorking, Working, NoJob, Idle,
     RecoveryIsScheduled, OneSubscription, Running

\* The service keeps its promises under a monitor that verifies, heals and switches its relays
\* meanwhile: no job is left behind, a shown recovery is scheduled, and there is one subscription.
THEOREM ServiceUndisturbed ==
    MonitorSpec => [](NeverStuckWorking /\ RecoveryIsScheduled /\ OneSubscription)
<1>1. MonitorTypeOK /\ Undisturbed /\ [MonitorNext]_allVars => Undisturbed'
  BY UndisturbedStep DEF MonitorTypeOK
<1>2. Undisturbed => NeverStuckWorking /\ RecoveryIsScheduled /\ OneSubscription
  BY DEF Undisturbed, Phase
<1>. QED
  BY <1>1, <1>2, UndisturbedInit, MonitorTypeCorrect, PTL DEF MonitorSpec

\* canTransition refuses nothing to the monitor either: only a job that stop() overtook can
\* meet a state it did not expect.
THEOREM MonitorNeverCollides == MonitorSpec => RefusedOnlyWhenInterrupted
<1>1. MonitorTypeOK /\ Undisturbed /\ [MonitorNext]_allVars => Undisturbed'
  BY UndisturbedStep DEF MonitorTypeOK
<1>2. MonitorTypeOK /\ Undisturbed /\ [MonitorNext]_allVars
      => [pipe'.invalid > pipe.invalid => job.interrupted]_vars
  <2>. SUFFICES ASSUME MonitorTypeOK, Undisturbed, [MonitorNext]_allVars,
                       pipe'.invalid > pipe.invalid
                PROVE  job.interrupted
    OBVIOUS
  <2>1. DataOK /\ Phase /\ job.interrupted \in BOOLEAN /\ pipe.invalid \in Nat
    BY DEF MonitorTypeOK, TypeOK, DataOK, Job, Pipe, Undisturbed
  <2>2. CASE Next
    BY <2>1, <2>2, NeverRefused
  <2>3. CASE Beside
    <3>1. pipe'.invalid = pipe.invalid
      BY <2>3 DEF Beside, ShownFrom
    <3>. QED
      BY <2>1, <3>1
  <2>. QED
    BY <2>1, <2>2, <2>3, MonitorMoves
<1>. QED
  BY <1>1, <1>2, UndisturbedInit, MonitorTypeCorrect, PTL DEF MonitorSpec, RefusedOnlyWhenInterrupted

\* The inductive form of MonitorIsWatching: how far start() has come, unless stop() was called.
Watchful ==
    mStopped \/
    /\ mStarting = "service" => ~stopped /\ starting # "no"
    /\ mStarting \in {"spend", "no"} => Running /\ refreshers > 0
    /\ mStarting = "no" => ticks > 0

\* Each await of start() leaves what the next one counts on, and nobody else touches it.
LEMMA WatchfulStep ==
    ASSUME MonitorTypeOK, Watchful, [MonitorNext]_allVars
    PROVE  Watchful'
<1>0. /\ refreshers \in Nat /\ ticks \in Nat /\ mStarting \in {"no", "info", "service", "spend"}
      /\ mStopped \in BOOLEAN
  BY DEF MonitorTypeOK, TypeOK, DataOK, MonitorOK
<1>1. CASE MonitorStart
  BY <1>1 DEF MonitorStart, Watchful
<1>2. CASE InfoPolled
  <2>1. \/ mStarting' = "service" /\ stopped' = FALSE /\ starting' = "key"
        \/ mStopped' = TRUE
    BY <1>2, Zenon DEF InfoPolled, Start
  <2>. QED
    BY <2>1 DEF Watchful
<1>3. CASE ServiceStarts
  <2>1. CASE KeyDerived /\ starting' = "no"
    BY <1>3, <2>1 DEF ServiceStarts, KeyDerived, Begun, Watchful
  <2>2. CASE KeyDerived /\ starting' # "no" /\ UNCHANGED <<mStopped, mStarting>>
    <3>1. mStarting = "service" /\ stopped' = stopped
      BY <1>3, <2>2 DEF ServiceStarts, KeyDerived
    <3>. QED
      BY <2>2, <3>1 DEF Watchful
  <2>3. CASE Begun /\ mStarting' = "spend" /\ UNCHANGED mStopped
    <3>1. mStarting = "service" /\ UNCHANGED stopped /\ starting' = "no" /\ refreshers' = refreshers + 1
      BY <1>3, <2>3, Zenon DEF ServiceStarts, Begun
    <3>2. refreshers' > 0
      BY <1>0, <3>1
    <3>. QED
      BY <2>3, <3>1, <3>2 DEF Watchful, Running
  <2>. QED
    BY <1>3, <2>1, <2>2, <2>3, Zenon DEF ServiceStarts
<1>4. CASE MonitorBegun
  <2>1. /\ mStarting = "spend" /\ mStarting' = "no" /\ ticks' = ticks + 1
        /\ UNCHANGED <<mStopped, stopped, starting, refreshers>>
    BY <1>4, Zenon DEF MonitorBegun, vars, lifecycle
  <2>2. ticks' > 0
    BY <1>0, <2>1
  <2>. QED
    BY <2>1, <2>2 DEF Watchful, Running
<1>5. CASE MonitorStop
  BY <1>5 DEF MonitorStop, Watchful
<1>6. CASE UNCHANGED <<stopped, starting, refreshers, mStopped, mStarting, ticks>>
  BY <1>6, Zenon DEF Watchful, Running
<1>7. CASE JobStep
  BY <1>6, <1>7, Zenon DEF JobStep, NextJob, Exported, HintsRead, Published, lifecycle
<1>8. CASE ServiceAlone
  BY <1>6, <1>8, Zenon DEF ServiceAlone, Register, ChannelChange, StreamSnapshot, StreamEnd,
     Resubscribe, Refresh, Retry, PublishNow, lifecycle, monitor
<1>9. CASE VerifyTimerFires \/ VerifyTick \/ VerifyRequested \/ RelaysRead \/ NodeRead \/ RunEnds
           \/ RunThrows \/ RelayChange \/ UNCHANGED allVars
  BY <1>6, <1>9, Zenon DEF VerifyTimerFires, VerifyTick, VerifyRequested, RelaysRead, NodeRead,
     RunEnds, RunThrows, RelayChange, RestOfService, lifecycle, vars, monitor, allVars
<1>. QED
  BY <1>1, <1>2, <1>3, <1>4, <1>5, <1>7, <1>8, <1>9, Zenon DEF MonitorNext

\* A monitor that runs is watching: its service is up and subscribed, or about to be, and both
\* intervals are armed, in whatever order stop() and the awaits of start() came (start, begin, stop).
THEOREM MonitorWatches == MonitorSpec => []MonitorIsWatching
<1>1. MonitorInit => Watchful
  BY DEF MonitorInit, Watchful
<1>2. MonitorTypeOK /\ Watchful /\ [MonitorNext]_allVars => Watchful'
  BY WatchfulStep
<1>3. Watchful /\ OneSubscription => MonitorIsWatching
  BY DEF Watchful, OneSubscription, MonitorIsWatching, MonitorRunning
<1>. QED
  BY <1>1, <1>2, <1>3, MonitorTypeCorrect, ServiceUndisturbed, PTL DEF MonitorSpec

-----------------------------------------------------------------------------
(* Verifications and publishes *)

\* The inductive form of VerifyingHasARun and AnswersAreFresh: VERIFYING is shown only until a
\* publish finishes, and a run overtaken by a publish is known not to be current any more.
RunsAreCurrent ==
    /\ pipe.state = "VERIFYING" => run.active /\ run.began /\ run.current
    /\ run.overtaken => ~run.current
    /\ ~run.outdated

\* What the service's jobs show is never VERIFYING, so that only the monitor shows it.
LEMMA NotVerifying ==
    ASSUME DataOK, Phase, NextJob \/ Exported \/ HintsRead \/ Published
    PROVE  /\ pipe' = pipe \/ pipe'.state # "VERIFYING"
           /\ Published => pipe'.state # "VERIFYING"
<1>. USE DEF lifecycle, working, stream, external
<1>a. pipe \in Pipe /\ pipe.rest # "VERIFYING"
  BY DEF DataOK, Pipe, Resting
<1>1. ASSUME NEW r, NEW v, TakeSnapshot(r, v), job.step \notin {"hints", "publish"}
      PROVE  pipe'.state # "VERIFYING"
  BY <1>a, <1>1, TakeSnapshotEffect DEF Phase, NeverStuckWorking, Working
<1>2. ASSUME NEW p \in Pipe, Fail(p) PROVE pipe'.state # "VERIFYING"
  BY <1>2, FailEffect
<1>3. CASE NextJob
  <2>1. job.step = "none" /\ ~Published
    BY <1>3 DEF NextJob, NoJob, Published
  <2>. QED
    BY <1>1, <1>3, <2>1 DEF NextJob
<1>4. CASE Exported
  <2>1. job.step = "export" /\ ~Published
    BY <1>4 DEF Exported, Published
  <2>. QED
    BY <1>1, <1>2, <1>4, <1>a, <2>1 DEF Exported
<1>5. CASE HintsRead
  <2>1. job.step = "hints" /\ ~Published /\ pipe.state # "VERIFYING"
    BY <1>5 DEF HintsRead, Published, Phase
  <2>2. CASE pipe' = To(pipe, pipe.rest)
    BY <1>a, <2>1, <2>2, ToState, StateSets DEF Pipe
  <2>3. To(pipe, "ENCRYPTING") \in Pipe /\ To(pipe, "ENCRYPTING").state # "VERIFYING"
    BY <1>a, <2>1, ToState, ToType DEF States
  <2>4. CASE Fail(To(pipe, "ENCRYPTING"))
    BY <1>2, <2>1, <2>3, <2>4
  <2>5. CASE pipe' = To(To(pipe, "ENCRYPTING"), "PUBLISHING")
    BY <2>1, <2>3, <2>5, ToState DEF States
  <2>. QED
    BY <1>5, <2>1, <2>2, <2>4, <2>5 DEF HintsRead
<1>6. CASE Published
  <2>1. pipe.state # "VERIFYING"
    BY <1>6 DEF Published, Phase
  <2>2. ASSUME NEW s \in {"SUCCESS", "DEGRADED"}, pipe' = To(pipe, s)
        PROVE  pipe'.state # "VERIFYING"
    BY <1>a, <2>1, <2>2, ToState DEF States
  <2>. QED
    BY <1>2, <1>6, <1>a, <2>2 DEF Published
<1>. QED
  BY <1>3, <1>4, <1>5, <1>6

\* These steps leave what the service shows as it is.
LEMMA PipeUntouched ==
    ASSUME \/ MonitorStart \/ InfoPolled \/ ServiceStarts \/ MonitorBegun \/ RelaysRead \/ NodeRead
           \/ RelayChange \/ ServiceAlone \/ UNCHANGED allVars
    PROVE  pipe' = pipe
<1>. USE DEF working
<1>1. CASE MonitorStart \/ MonitorBegun \/ NodeRead \/ RelaysRead \/ RelayChange \/ UNCHANGED allVars
  BY <1>1, Zenon DEF MonitorStart, MonitorBegun, NodeRead, RelaysRead, RelayChange, allVars, vars
<1>2. CASE InfoPolled
  BY <1>2, Zenon DEF InfoPolled, Start
<1>3. CASE ServiceStarts
  BY <1>3, Zenon DEF ServiceStarts, KeyDerived, Begun
<1>4. CASE ServiceAlone
  BY <1>4, Zenon DEF ServiceAlone, Register, ChannelChange, StreamSnapshot, StreamEnd, Resubscribe,
     Refresh, Retry, PublishNow
<1>. QED
  BY <1>1, <1>2, <1>3, <1>4

\* When a run is over, the service shows what it showed before, its verdict, or the next run.
LEMMA RunOverEffect ==
    ASSUME pipe \in Pipe, RunsAreCurrent, RunEnds \/ RunThrows
    PROVE  \E p \in Verdicts(pipe) :
              /\ p \in Pipe /\ p.state # "VERIFYING" /\ End(p)
              /\ p # pipe => pipe.state = "VERIFYING"
<1>1. PICK p \in Verdicts(pipe) : End(p) /\ (run.began => p.state # "VERIFYING")
  BY RunOver
<1>2. p \in Pipe /\ (p # pipe => pipe.state = "VERIFYING")
  BY <1>1, VerdictEffect DEF Verdicts
<1>3. p.state # "VERIFYING"
  BY <1>1, <1>2 DEF RunsAreCurrent
<1>. QED
  BY <1>1, <1>2, <1>3

\* A verdict is only shown by a run that no publish has overtaken, and only such a run is shared.
LEMMA RunsStep ==
    MonitorTypeOK /\ Phase /\ RunsAreCurrent /\ [MonitorNext]_allVars => RunsAreCurrent'
<1>. SUFFICES ASSUME MonitorTypeOK, Phase, RunsAreCurrent
              PROVE  [MonitorNext]_allVars => RunsAreCurrent'
  OBVIOUS
<1>a. DataOK /\ pipe \in Pipe /\ run \in Runs /\ waiters \in BOOLEAN
  BY DEF MonitorTypeOK, TypeOK, DataOK, MonitorOK
<1>b. ASSUME pipe' = pipe \/ pipe'.state # "VERIFYING", run' = run PROVE RunsAreCurrent'
  BY <1>b, Zenon DEF RunsAreCurrent
<1>1. ASSUME \/ MonitorStart \/ InfoPolled \/ ServiceStarts \/ MonitorBegun \/ RelayChange
             \/ ServiceAlone \/ UNCHANGED allVars
      PROVE  RunsAreCurrent'
  <2>1. run' = run
    BY <1>1, Zenon DEF MonitorStart, InfoPolled, ServiceStarts, MonitorBegun, RelayChange,
       ServiceAlone, allVars, monitor
  <2>. QED
    BY <1>1, <1>b, <2>1, PipeUntouched, Zenon
<1>2. ASSUME MonitorStop PROVE RunsAreCurrent'
  <2>1. run' = run /\ (UNCHANGED vars \/ Stop)
    BY <1>2, Zenon DEF MonitorStop
  <2>2. pipe' = pipe \/ pipe'.state # "VERIFYING"
    BY <1>a, <2>1 DEF Stop, vars, working, Pipe
  <2>. QED
    BY <1>b, <2>1, <2>2, Zenon
<1>3. ASSUME VerifyTimerFires \/ VerifyTick \/ VerifyRequested PROVE RunsAreCurrent'
  <2>1. VerifyNow
    BY <1>3, Zenon DEF VerifyTimerFires, VerifyTick, VerifyRequested
  <2>2. CASE pipe' = pipe /\ run' = run
    BY <1>b, <2>2, Zenon
  <2>3. CASE /\ run.active /\ run.current /\ pipe' = pipe
             /\ run' = [run EXCEPT !.outdated = @ \/ run.overtaken]
    <3>1. ~run.overtaken /\ ~run.outdated
      BY <2>3, Zenon DEF RunsAreCurrent
    <3>2. /\ run'.active = run.active /\ run'.began = run.began /\ run'.current = run.current
          /\ run'.overtaken = run.overtaken /\ run'.outdated = (run.outdated \/ run.overtaken)
      BY <1>a, <2>3 DEF Runs
    <3>. QED
      BY <2>3, <3>1, <3>2, Zenon DEF RunsAreCurrent
  <2>4. CASE ~run.active /\ Begin(pipe)
    <3>1. pipe.state # "VERIFYING"
      BY <2>4, Zenon DEF RunsAreCurrent
    <3>. QED
      BY <1>a, <2>4, <3>1, BeginEffect DEF RunsAreCurrent
  <2>. QED
    BY <1>a, <2>1, <2>2, <2>3, <2>4, VerifyNowEffect
<1>4. ASSUME RelaysRead \/ NodeRead PROVE RunsAreCurrent'
  <2>1. \E v : run' = [run EXCEPT !.seen = v] \/ run' = [run EXCEPT !.node = v]
    BY <1>4, Zenon DEF RelaysRead, NodeRead
  <2>2. /\ run'.active = run.active /\ run'.began = run.began /\ run'.current = run.current
        /\ run'.overtaken = run.overtaken /\ run'.outdated = run.outdated
    BY <1>a, <2>1 DEF Runs
  <2>3. pipe' = pipe
    BY <1>4, PipeUntouched
  <2>. QED
    BY <2>2, <2>3, Zenon DEF RunsAreCurrent
<1>5. ASSUME RunEnds \/ RunThrows PROVE RunsAreCurrent'
  <2>1. PICK p \in Verdicts(pipe) : p \in Pipe /\ p.state # "VERIFYING" /\ End(p)
    BY <1>5, <1>a, RunOverEffect
  <2>. QED
    BY <2>1, EndEffect DEF RunsAreCurrent
<1>6. ASSUME JobStep PROVE RunsAreCurrent'
  <2>1. NextJob \/ Exported \/ HintsRead \/ Published
    BY <1>6, Zenon DEF JobStep
  <2>2. CASE UNCHANGED <<run, verifyTimer, unverified>>
    BY <1>a, <1>b, <2>1, <2>2, NotVerifying
  <2>3. CASE PublishFinished /\ job.step = "publish"
    <3>1. Published
      BY <2>1, <2>3 DEF NextJob, Exported, HintsRead, NoJob
    <3>2. pipe'.state # "VERIFYING"
      BY <1>a, <3>1, NotVerifying
    <3>3. /\ run'.current = ~run.active /\ run'.outdated = run.outdated
          /\ run'.overtaken = (run.active /\ run.seen # Unread)
      BY <1>a, <2>3 DEF PublishFinished, Runs
    <3>. QED
      BY <3>2, <3>3, Zenon DEF RunsAreCurrent
  <2>. QED
    BY <1>6, <2>2, <2>3, Zenon DEF JobStep
<1>. QED
  BY <1>1, <1>2, <1>3, <1>4, <1>5, <1>6 DEF MonitorNext

\* It holds at first.
LEMMA RunsInit == MonitorInit => RunsAreCurrent
  BY DEF MonitorInit, Init, Idle, NoRun, RunsAreCurrent

\* VERIFYING is shown only while the run that put the service there is under way, whatever job,
\* stop or exception comes between.
THEOREM VerifyingEnds == MonitorSpec => []VerifyingHasARun
<1>1. MonitorTypeOK /\ Undisturbed /\ RunsAreCurrent /\ [MonitorNext]_allVars
      => Undisturbed' /\ RunsAreCurrent'
  BY UndisturbedStep, RunsStep DEF MonitorTypeOK, Undisturbed
<1>2. RunsAreCurrent => VerifyingHasARun
  BY DEF RunsAreCurrent, VerifyingHasARun
<1>. QED
  BY <1>1, <1>2, UndisturbedInit, RunsInit, MonitorTypeCorrect, PTL DEF MonitorSpec

\* Nobody who asks after a publish has finished shares a run that read the relays before it.
THEOREM FreshAnswers == MonitorSpec => []AnswersAreFresh
<1>1. MonitorTypeOK /\ Undisturbed /\ RunsAreCurrent /\ [MonitorNext]_allVars
      => Undisturbed' /\ RunsAreCurrent'
  BY UndisturbedStep, RunsStep DEF MonitorTypeOK, Undisturbed
<1>2. RunsAreCurrent => AnswersAreFresh
  BY DEF RunsAreCurrent, AnswersAreFresh
<1>. QED
  BY <1>1, <1>2, UndisturbedInit, RunsInit, MonitorTypeCorrect, PTL DEF MonitorSpec

\* A step of a job takes it from the queue or moves it.
LEMMA JobMoves ==
    ASSUME DataOK, NextJob \/ Exported \/ HintsRead \/ Published
    PROVE  job' # job \/ ~(Len(queue') >= Len(queue))
<1>a. job \in Job /\ queue \in Seq(Entry) /\ NoJob.step = "none"
  BY DEF DataOK, NoJob
<1>1. CASE NextJob
  <2>1. Len(Tail(queue)) = Len(queue) - 1 /\ Len(queue) \in Nat
    BY <1>1, <1>a DEF NextJob
  <2>. QED
    BY <1>1, <2>1 DEF NextJob
<1>2. CASE Exported
  <2>1. job.step = "export" /\ job'.step \in {"none", "hints"}
    BY <1>2, <1>a, TakeSnapshotJob, FailArms DEF Exported
  <2>. QED
    BY <2>1
<1>3. CASE HintsRead
  <2>1. job.step = "hints"
    BY <1>3, Zenon DEF HintsRead
  <2>2. job' = NoJob \/ \E k : job' = [job EXCEPT !.step = "publish", !.key = k]
    BY <1>3, FailArms, Zenon DEF HintsRead
  <2>3. job'.step \in {"none", "publish"}
    BY <1>a, <2>2 DEF Job
  <2>. QED
    BY <2>1, <2>3
<1>4. CASE Published
  <2>1. job.step = "publish" /\ job' = NoJob
    BY <1>4, FailArms, Zenon DEF Published
  <2>. QED
    BY <1>a, <2>1
<1>. QED
  BY <1>1, <1>2, <1>3, <1>4

\* As long as no job moves, what is shown changes to a verdict only by a run that is current.
LEMMA TimelyStep ==
    ASSUME MonitorTypeOK, Phase, RunsAreCurrent, MonitorNext, pipe' # pipe,
           pipe'.state \in {"SUCCESS", "DEGRADED", "FAILED"},
           job' = job, Len(queue') >= Len(queue)
    PROVE  run.current
<1>a. DataOK /\ pipe \in Pipe /\ run \in Runs /\ waiters \in BOOLEAN
  BY DEF MonitorTypeOK, TypeOK, DataOK, MonitorOK
<1>1. ASSUME \/ MonitorStart \/ InfoPolled \/ ServiceStarts \/ MonitorBegun \/ RelaysRead
             \/ NodeRead \/ RelayChange \/ ServiceAlone
      PROVE  FALSE
  BY <1>1, PipeUntouched
<1>2. ASSUME MonitorStop PROVE FALSE
  <2>1. UNCHANGED vars \/ Stop
    BY <1>2, Zenon DEF MonitorStop
  <2>. QED
    BY <1>a, <2>1 DEF Stop, vars, working, Pipe
<1>3. ASSUME VerifyTimerFires \/ VerifyTick \/ VerifyRequested PROVE FALSE
  <2>1. VerifyNow
    BY <1>3, Zenon DEF VerifyTimerFires, VerifyTick, VerifyRequested
  <2>2. pipe' = pipe \/ Begin(pipe)
    BY <1>a, <2>1, VerifyNowEffect
  <2>. QED
    BY <1>a, <2>2, BeginEffect
<1>4. ASSUME RunEnds \/ RunThrows PROVE run.current
  <2>1. PICK p \in Verdicts(pipe) : p \in Pipe /\ End(p) /\ (p # pipe => pipe.state = "VERIFYING")
    BY <1>4, <1>a, RunOverEffect
  <2>2. p # pipe
    BY <2>1, EndEffect
  <2>. QED
    BY <2>1, <2>2 DEF RunsAreCurrent
<1>5. ASSUME JobStep PROVE FALSE
  <2>1. NextJob \/ Exported \/ HintsRead \/ Published
    BY <1>5, Zenon DEF JobStep
  <2>. QED
    BY <1>a, <2>1, JobMoves
<1>. QED
  BY <1>1, <1>2, <1>3, <1>4, <1>5 DEF MonitorNext

\* What a finished publish shows is not replaced by the verdict of a run it has overtaken.
THEOREM TimelyVerdicts == MonitorSpec => VerdictIsTimely
<1>1. MonitorTypeOK /\ Undisturbed /\ RunsAreCurrent /\ [MonitorNext]_allVars
      => Undisturbed' /\ RunsAreCurrent'
  BY UndisturbedStep, RunsStep DEF MonitorTypeOK, Undisturbed
<1>2. MonitorTypeOK /\ Undisturbed /\ RunsAreCurrent /\ [MonitorNext]_allVars
      => [/\ pipe' # pipe /\ pipe'.state \in {"SUCCESS", "DEGRADED", "FAILED"}
          /\ job' = job /\ Len(queue') >= Len(queue)
          => run.current]_allVars
  BY TimelyStep, Zenon DEF Undisturbed
<1>. QED
  BY <1>1, <1>2, UndisturbedInit, RunsInit, MonitorTypeCorrect, PTL DEF MonitorSpec, VerdictIsTimely

-----------------------------------------------------------------------------
(* Self-healing *)

\* HealingHasAJob with the queue's positions counted.
HealIsComing == healing => job.reason = "heal" \/ HasJob(queue, {"heal"})

\* Whatever is appended to the queue, a job of some kind stays in it.
LEMMA StaysQueued ==
    ASSUME DataOK, NEW R, HasJob(queue, R), Beside \/ Begun \/ Resubscribe \/ Refresh \/ Retry
           \/ PublishNow \/ StreamSnapshot
    PROVE  HasJob(queue', R)
<1>a. queue \in Seq(Entry) /\ NoVersion \in Versions \cup {NoVersion}
  BY DEF DataOK
<1>1. ASSUME NEW r \in Reasons \ {"stream"}, queue' = Queued(queue, r, NoVersion)
      PROVE  HasJob(queue', R)
  BY <1>a, <1>1, HasJobQueued
<1>2. CASE Beside
  <2>1. {"heal", "manual"} \subseteq Reasons \ {"stream"}
    BY DEF Reasons
  <2>2. queue' = queue \/ \E r \in {"heal", "manual"} : queue' = Queued(queue, r, NoVersion)
    BY <1>2, Zenon DEF Beside
  <2>. QED
    BY <1>1, <2>1, <2>2, Zenon
<1>3. CASE Begun \/ Resubscribe \/ Refresh \/ Retry \/ PublishNow
  BY <1>1, <1>3, JobQueued
<1>4. CASE StreamSnapshot
  <2>1. queue' = Queued(queue, "stream", Head(wire)) /\ "stream" \in Reasons /\ Head(wire) \in Versions
    BY <1>4 DEF StreamSnapshot, Reasons, DataOK
  <2>. QED
    BY <1>a, <2>1, HasJobQueued
<1>. QED
  BY <1>2, <1>3, <1>4

\* A job that is taken up is at work, and one at work stays it until it has ended.
LEMMA StaysAtWork ==
    ASSUME DataOK, NEW R, "stream" \notin R, "none" \notin R, job.reason \in R \/ HasJob(queue, R),
           NextJob \/ Exported \/ HintsRead \/ Published
    PROVE  job'.reason \in R \/ HasJob(queue', R) \/ (job.reason \in R /\ job # NoJob /\ job' = NoJob)
<1>a. queue \in Seq(Entry) /\ job \in Job /\ NoJob.reason = "none" /\ NoJob.step = "none"
  BY DEF DataOK, NoJob
<1>1. CASE NextJob
  <2>1. job = NoJob /\ queue' = Tail(queue)
    BY <1>1, Zenon DEF NextJob
  <2>2. HasJob(queue, R)
    BY <1>a, <2>1
  <2>3. Head(queue).reason \in R \/ HasJob(queue', R)
    BY <1>a, <2>1, <2>2, HasJobTaken
  <2>4. Head(queue).reason # "stream" => job'.reason = Head(queue).reason
    BY <1>1 DEF NextJob, NoJob
  <2>. QED
    BY <2>3, <2>4
<1>2. CASE Exported
  <2>1. queue' = queue /\ job # NoJob
    BY <1>2, <1>a, Zenon DEF Exported
  <2>2. job' = NoJob \/ job'.reason = job.reason
    BY <1>2, TakeSnapshotJob, FailArms, Zenon DEF Exported
  <2>. QED
    BY <2>1, <2>2, Zenon
<1>3. CASE HintsRead
  <2>1. queue' = queue /\ job # NoJob
    BY <1>3, <1>a, Zenon DEF HintsRead
  <2>2. job' = NoJob \/ job'.reason = job.reason
    BY <1>3, JobGoesOn
  <2>. QED
    BY <2>1, <2>2, Zenon
<1>4. CASE Published
  <2>1. queue' = queue /\ job # NoJob /\ job' = NoJob
    BY <1>4, <1>a, FailArms, Zenon DEF Published
  <2>. QED
    BY <2>1, Zenon
<1>. QED
  BY <1>1, <1>2, <1>3, <1>4

\* A heal is queued when the flag is set, and the flag is cleared by the step that ends its job.
LEMMA HealStep == MonitorTypeOK /\ HealIsComing /\ [MonitorNext]_allVars => HealIsComing'
<1>. SUFFICES ASSUME MonitorTypeOK, HealIsComing PROVE [MonitorNext]_allVars => HealIsComing'
  OBVIOUS
<1>. USE DEF working
<1>a. /\ DataOK /\ queue \in Seq(Entry) /\ job \in Job
      /\ "heal" \in Reasons /\ "stream" \notin {"heal"} /\ "none" \notin {"heal"}
  BY DEF MonitorTypeOK, TypeOK, DataOK, Reasons
<1>b. ASSUME healing' = healing, job'.reason = job.reason,
             HasJob(queue, {"heal"}) => HasJob(queue', {"heal"})
      PROVE  HealIsComing'
  BY <1>b, Zenon DEF HealIsComing
<1>1. ASSUME \/ MonitorStart \/ InfoPolled \/ MonitorBegun \/ VerifyTimerFires \/ VerifyTick
             \/ VerifyRequested \/ RelaysRead \/ NodeRead \/ RunThrows \/ UNCHANGED allVars
      PROVE  HealIsComing'
  <2>1. CASE MonitorStart \/ MonitorBegun \/ RelaysRead \/ NodeRead \/ RunThrows \/ UNCHANGED allVars
    <3>1. UNCHANGED <<healing, job, queue>>
      BY <2>1, Zenon DEF MonitorStart, MonitorBegun, RelaysRead, NodeRead, RunThrows, allVars,
         monitor, vars
    <3>. QED
      BY <1>b, <3>1, Zenon
  <2>2. CASE InfoPolled
    <3>1. UNCHANGED <<healing, job, queue>>
      BY <2>2, Zenon DEF InfoPolled, Start
    <3>. QED
      BY <1>b, <3>1, Zenon
  <2>3. CASE VerifyTimerFires \/ VerifyTick \/ VerifyRequested
    <3>1. UNCHANGED <<healing, job, queue>>
      BY <2>3, Zenon DEF VerifyTimerFires, VerifyTick, VerifyRequested, RestOfService
    <3>. QED
      BY <1>b, <3>1, Zenon
  <2>. QED
    BY <1>1, <2>1, <2>2, <2>3
<1>2. ASSUME ServiceStarts PROVE HealIsComing'
  <2>1. UNCHANGED <<healing, job>> /\ (queue' = queue \/ Begun)
    BY <1>2, Zenon DEF ServiceStarts, KeyDerived, Begun
  <2>. QED
    BY <1>a, <1>b, <2>1, StaysQueued, Zenon
<1>3. ASSUME MonitorStop PROVE HealIsComing'
  <2>1. UNCHANGED <<healing, queue>> /\ (job' = job \/ Stop)
    BY <1>3, Zenon DEF MonitorStop, Stop, vars
  <2>2. job'.reason = job.reason
    <3>1. Stop => job' = job \/ job' = [job EXCEPT !.interrupted = TRUE]
      BY Zenon DEF Stop
    <3>. QED
      BY <1>a, <2>1, <3>1 DEF Job
  <2>. QED
    BY <1>b, <2>1, <2>2, Zenon
<1>4. ASSUME RunEnds PROVE HealIsComing'
  <2>1. /\ job' = job
        /\ UNCHANGED <<healing, queue>> \/ queue' = Queued(queue, "heal", NoVersion)
    BY <1>4, Zenon DEF RunEnds
  <2>2. ASSUME queue' = Queued(queue, "heal", NoVersion) PROVE HasJob(queue', {"heal"})
    BY <1>a, <2>2, HasJobQueued
  <2>. QED
    BY <1>b, <2>1, <2>2, Zenon DEF HealIsComing
<1>5. ASSUME RelayChange PROVE HealIsComing'
  <2>1. UNCHANGED <<healing, job>> /\ queue' = Queued(queue, "manual", NoVersion)
    BY <1>5, Zenon DEF RelayChange
  <2>2. "manual" \in Reasons
    BY DEF Reasons
  <2>3. HasJob(queue, {"heal"}) => HasJob(queue', {"heal"})
    BY <1>a, <2>1, <2>2, HasJobQueued
  <2>. QED
    BY <1>b, <2>1, <2>3, Zenon
<1>6. ASSUME ServiceAlone PROVE HealIsComing'
  <2>1. UNCHANGED <<healing, job>>
    BY <1>6, Zenon DEF ServiceAlone, monitor, Register, ChannelChange, StreamSnapshot, StreamEnd,
       Resubscribe, Refresh, Retry, PublishNow
  <2>2. queue' = queue \/ Resubscribe \/ Refresh \/ Retry \/ PublishNow \/ StreamSnapshot
    BY <1>6, Zenon DEF ServiceAlone, Register, ChannelChange, StreamEnd
  <2>. QED
    BY <1>a, <1>b, <2>1, <2>2, StaysQueued, Zenon
<1>7. ASSUME JobStep PROVE HealIsComing'
  <2>1. NextJob \/ Exported \/ HintsRead \/ Published
    BY <1>7, Zenon DEF JobStep
  <2>2. healing' => healing /\ ~(job # NoJob /\ job' = NoJob /\ job.reason = "heal")
    BY <1>7, Zenon DEF JobStep, Healed
  <2>3. healing => job.reason \in {"heal"} \/ HasJob(queue, {"heal"})
    BY Zenon DEF HealIsComing
  <2>4. healing => \/ job'.reason \in {"heal"} \/ HasJob(queue', {"heal"})
                   \/ job.reason \in {"heal"} /\ job # NoJob /\ job' = NoJob
    BY <1>a, <2>1, <2>3, StaysAtWork
  <2>. QED
    BY <2>2, <2>4, Zenon DEF HealIsComing
<1>. QED
  BY <1>1, <1>2, <1>3, <1>4, <1>5, <1>6, <1>7 DEF MonitorNext

\* healing is never left set without the republish it stands for, however that job ends, so that
\* the monitor does not stop healing for good.
THEOREM HealingEnds == MonitorSpec => []HealingHasAJob
<1>1. MonitorInit => HealIsComing
  BY DEF MonitorInit, HealIsComing
<1>2. MonitorTypeOK /\ HealIsComing /\ [MonitorNext]_allVars => HealIsComing'
  BY HealStep
<1>3. MonitorTypeOK /\ HealIsComing => HealingHasAJob
  <2>1. MonitorTypeOK => DOMAIN queue = 1..Len(queue)
    BY DEF MonitorTypeOK, TypeOK, DataOK
  <2>. QED
    BY <2>1, Zenon DEF HealIsComing, HealingHasAJob, HasJob
<1>. QED
  BY <1>1, <1>2, <1>3, MonitorTypeCorrect, PTL DEF MonitorSpec

-----------------------------------------------------------------------------
(* What the console says *)

\* A retry is armed by a failure and with its error only.
RetryHasAnError == retryTimer => lastError

\* Until the relays are changed they keep what was published.
StoredStays == last # NoKey /\ spent.manuals = 0 => stored # NoVersion

\* Relays that a change has left empty are published to, unless stop() or a set without a backup
\* takes the job or its retry away.
RefillIsComing ==
    stored = NoVersion /\ last # NoKey /\ spent.stops = 0 /\ NoBlob = {}
    => retryTimer \/ HasJob(queue, Forced) \/ job.reason \in Forced

\* Only an acknowledged publish and a new process change the last key; relays that answered a
\* publish, or may have got it, hold something afterwards.
LEMMA StoredMoves ==
    ASSUME DataOK, [Next]_vars
    PROVE  \/ UNCHANGED <<last, stored>>
           \/ last' = NoKey
           \/ last' = last /\ (stored' = stored \/ stored' # NoVersion)
           \/ stored' # NoVersion
<1>1. ASSUME Published PROVE (last' = last /\ stored' = stored) \/ stored' # NoVersion
  <2>1. job.snap # NoVersion
    BY <1>1 DEF Published, DataOK, Job, NoVersion, Versions
  <2>2. stored' = job.snap \/ (last' = last /\ stored' \in {stored, job.snap})
    BY <1>1, Zenon DEF Published
  <2>. QED
    BY <2>1, <2>2
<1>2. Crash => last' = NoKey
  BY Zenon DEF Crash
<1>3. \/ Start \/ KeyDerived \/ Begun \/ Stop \/ Register \/ ChannelChange \/ StreamSnapshot
      \/ StreamEnd \/ Resubscribe \/ Refresh \/ Retry \/ PublishNow \/ NextJob \/ Exported
      \/ HintsRead \/ BeginVerify \/ EndVerify \/ UNCHANGED vars
      => UNCHANGED <<last, stored>>
  BY Zenon DEF Start, KeyDerived, Begun, Stop, Register, ChannelChange, StreamSnapshot, StreamEnd,
     Resubscribe, Refresh, Retry, PublishNow, NextJob, Exported, HintsRead, BeginVerify,
     EndVerify, vars, working, external
<1>. QED
  BY <1>1, <1>2, <1>3 DEF Next

\* Changes of the relays and manual publishes are only ever counted up.
LEMMA ManualsCounted ==
    ASSUME DataOK, [Next]_vars, spent'.manuals = 0
    PROVE  spent.manuals = 0
<1>1. ASSUME NEW what \in {"faults", "starts", "stops", "crashes", "manuals"}, Spend(what)
      PROVE  spent.manuals = 0
  BY <1>1 DEF Spend, DataOK
<1>2. \/ spent' = spent
      \/ \E what \in {"faults", "starts", "stops", "crashes", "manuals"} : Spend(what)
  BY Zenon DEF Next, vars, Start, KeyDerived, Begun, Stop, Crash, Register, ChannelChange,
     StreamSnapshot, StreamEnd, Resubscribe, Refresh, Retry, PublishNow, NextJob, Exported,
     HintsRead, Published, BeginVerify, EndVerify, external
<1>. QED
  BY <1>1, <1>2

\* What a step beside the service counts.
LEMMA BesideCounts ==
    ASSUME DataOK, Beside
    PROVE  /\ spent'.stops = spent.stops
           /\ spent'.manuals = 0 => spent.manuals = 0 /\ stored' = stored
<1>1. ASSUME Spend("faults") PROVE spent'.stops = spent.stops /\ spent'.manuals = spent.manuals
  BY <1>1 DEF Spend, DataOK
<1>2. ASSUME Spend("manuals") PROVE spent'.stops = spent.stops /\ spent'.manuals # 0
  BY <1>2 DEF Spend, DataOK
<1>. QED
  BY <1>1, <1>2, Zenon DEF Beside

\* The retry and its error change together.
LEMMA ErrorStep == RetryHasAnError /\ (([Next]_vars) \/ Beside) => RetryHasAnError'
<1>. SUFFICES ASSUME RetryHasAnError PROVE ([Next]_vars) \/ Beside => RetryHasAnError'
  OBVIOUS
<1>. USE DEF RetryHasAnError, working
<1>1. ASSUME NEW p, Fail(p) PROVE lastError'
  BY <1>1, FailArms
<1>2. ASSUME Exported \/ HintsRead \/ Published PROVE RetryHasAnError'
  BY <1>1, <1>2, Zenon DEF Exported, HintsRead, Published
<1>3. ASSUME Stop \/ Crash \/ Retry PROVE retryTimer' = FALSE
  BY <1>3, Zenon DEF Stop, Crash, Retry
<1>4. ASSUME \/ Start \/ KeyDerived \/ Begun \/ Register \/ ChannelChange \/ StreamSnapshot
             \/ StreamEnd \/ Resubscribe \/ Refresh \/ PublishNow \/ NextJob
             \/ BeginVerify \/ EndVerify \/ UNCHANGED vars \/ Beside
      PROVE  UNCHANGED <<retryTimer, lastError>>
  BY <1>4, Zenon DEF Start, KeyDerived, Begun, Register, ChannelChange, StreamSnapshot, StreamEnd,
     Resubscribe, Refresh, PublishNow, NextJob, BeginVerify, EndVerify, vars, Beside
<1>. QED
  BY <1>2, <1>3, <1>4 DEF Next

\* A service under its monitor has a key before anything is published, like one by itself.
LEMMA BesideKey == DataOK /\ KeyIsThere /\ Beside => KeyIsThere'
<1>. SUFFICES ASSUME DataOK, KeyIsThere, Beside PROVE KeyIsThere'
  OBVIOUS
<1>1. UNCHANGED <<stopped, starting, sk, job, last>>
  BY Zenon DEF Beside, lifecycle
<1>2. spent'.stops = spent.stops
  BY BesideCounts
<1>. QED
  BY <1>1, <1>2, Zenon DEF KeyIsThere, Running

\* Only a changed set of relays takes away what was published.
LEMMA StoredStaysStep ==
    DataOK /\ StoredStays /\ (([Next]_vars) \/ Beside) => StoredStays'
<1>1. ASSUME DataOK, StoredStays, [Next]_vars PROVE StoredStays'
  BY <1>1, ManualsCounted, StoredMoves, Zenon DEF StoredStays
<1>2. ASSUME DataOK, StoredStays, Beside PROVE StoredStays'
  <2>1. last' = last
    BY <1>2, Zenon DEF Beside
  <2>. QED
    BY <1>2, <2>1, BesideCounts, Zenon DEF StoredStays
<1>. QED
  BY <1>1, <1>2

\* A forced job that ends without publishing, though the node's set has a backup, has failed; a
\* service that is not stopped has its retry armed.
LEMMA ForcedEndsInRetry ==
    ASSUME DataOK, lnd \notin NoBlob, sk, job.reason \in Forced, job # NoJob, job' = NoJob,
           NextJob \/ Exported \/ HintsRead
    PROVE  lastError' /\ (stopped \/ retryTimer')
<1>a. job \in Job /\ NoJob.step = "none"
  BY DEF DataOK, NoJob
<1>b. ASSUME NEW p, Fail(p) PROVE lastError' /\ (stopped \/ retryTimer')
  BY <1>b, FailArms
<1>1. CASE NextJob
  BY <1>1, Zenon DEF NextJob
<1>2. CASE Exported
  <2>1. ~TakeSnapshot(job.reason, lnd)
    BY <1>a, TakeSnapshotJob
  <2>. QED
    BY <1>2, <1>b, <2>1, Zenon DEF Exported
<1>3. CASE HintsRead
  <2>1. \A k : [job EXCEPT !.step = "publish", !.key = k].step = "publish"
    BY <1>a DEF Job
  <2>2. \A k : [job EXCEPT !.step = "publish", !.key = k] # NoJob
    BY <1>a, <2>1
  <2>. QED
    BY <1>3, <1>b, <2>2, Zenon DEF HintsRead
<1>. QED
  BY <1>1, <1>2, <1>3

\* What the relays lack after a change comes with a job or a retry.
LEMMA RefillStep ==
    DataOK /\ KeyIsThere /\ RefillIsComing /\ (([Next]_vars) \/ Beside) => RefillIsComing'
<1>. DEFINE Coming == retryTimer \/ HasJob(queue, Forced) \/ job.reason \in Forced
<1>. SUFFICES ASSUME DataOK, KeyIsThere, RefillIsComing, ([Next]_vars) \/ Beside,
                     stored' = NoVersion, last' # NoKey, spent'.stops = 0, NoBlob = {}
              PROVE  Coming'
  BY Zenon DEF RefillIsComing
<1>. USE DEF lifecycle, working, stream, external
<1>a. /\ queue \in Seq(Entry) /\ job \in Job /\ "retry" \in Forced /\ "manual" \in Forced
      /\ "stream" \notin Forced /\ "none" \notin Forced /\ "retry" \in Reasons /\ "manual" \in Reasons
      /\ NoVersion \in Versions \cup {NoVersion}
  BY DEF DataOK, Forced, Reasons
<1>b. spent.stops = 0
  BY StopsCounted, BesideCounts
<1>c. last # NoKey => sk /\ ~stopped
  BY <1>b DEF KeyIsThere
<1>d. ASSUME stored = NoVersion, last # NoKey PROVE Coming
  BY <1>b, <1>d, Zenon DEF RefillIsComing
<1>e. lnd \notin NoBlob
  OBVIOUS
<1>1. ASSUME Beside PROVE Coming'
  <2>1. UNCHANGED <<last, job, retryTimer>>
    BY <1>1, Zenon DEF Beside
  <2>2. CASE stored' = stored
    BY <1>1, <1>d, <2>1, <2>2, StaysQueued, Zenon
  <2>3. CASE queue' = Queued(queue, "manual", NoVersion)
    <3>1. HasJob(queue', Forced)
      BY <1>a, <2>3, HasJobQueued
    <3>. QED
      BY <3>1, Zenon
  <2>. QED
    BY <1>1, <2>2, <2>3, Zenon DEF Beside
<1>2. ASSUME [Next]_vars PROVE Coming'
  <2>a. ~Stop /\ ~Crash
    BY <1>2, StopsCounted, Zenon DEF Crash
  <2>1. CASE Published
    <3>1. job.snap # NoVersion
      BY <2>1 DEF Published, DataOK, Job, NoVersion, Versions
    <3>2. Fail(pipe) /\ last' = last
      BY <2>1, <3>1, Zenon DEF Published
    <3>. QED
      BY <1>c, <3>2, FailArms, Zenon
  <2>2. CASE NextJob \/ Exported \/ HintsRead
    <3>1. UNCHANGED <<last, stored>>
      BY <2>2, Zenon DEF NextJob, Exported, HintsRead
    <3>2. Coming /\ sk /\ ~stopped
      BY <1>c, <1>d, <3>1, Zenon
    <3>3. retryTimer' = retryTimer \/ retryTimer'
      BY <2>2, <3>2, FailArms, Zenon DEF NextJob, Exported, HintsRead
    <3>4. CASE retryTimer
      BY <3>3, <3>4, Zenon
    <3>5. CASE HasJob(queue, Forced) \/ job.reason \in Forced
      <4>1. job'.reason \in Forced \/ HasJob(queue', Forced)
            \/ (job.reason \in Forced /\ job # NoJob /\ job' = NoJob)
        BY <1>a, <2>2, <3>5, StaysAtWork
      <4>. QED
        BY <1>e, <2>2, <3>2, <4>1, ForcedEndsInRetry, Zenon
    <3>. QED
      BY <3>2, <3>4, <3>5, Zenon
  <2>3. CASE Begun \/ Resubscribe \/ Refresh \/ Retry \/ PublishNow \/ StreamSnapshot
    <3>1. UNCHANGED <<last, stored, job>>
      BY <2>3, Zenon DEF Begun, Resubscribe, Refresh, Retry, PublishNow, StreamSnapshot
    <3>2. CASE Retry
      <4>1. queue' = Queued(queue, "retry", NoVersion)
        BY <3>2, Zenon DEF Retry
      <4>2. HasJob(queue', Forced)
        BY <1>a, <4>1, HasJobQueued
      <4>. QED
        BY <4>2, Zenon
    <3>3. CASE ~Retry
      <4>1. retryTimer' = retryTimer
        BY <2>3, <3>3, Zenon DEF Begun, Resubscribe, Refresh, PublishNow, StreamSnapshot
      <4>. QED
        BY <1>d, <2>3, <3>1, <4>1, StaysQueued, Zenon
    <3>. QED
      BY <3>2, <3>3
  <2>4. CASE \/ Start \/ KeyDerived \/ Register \/ ChannelChange \/ StreamEnd
             \/ BeginVerify \/ EndVerify \/ UNCHANGED vars
    <3>1. UNCHANGED <<last, stored, queue, job, retryTimer>>
      BY <2>4, Zenon DEF Start, KeyDerived, Register, ChannelChange, StreamEnd, BeginVerify,
         EndVerify, vars
    <3>. QED
      BY <1>d, <3>1, Zenon
  <2>. QED
    BY <1>2, <2>a, <2>1, <2>2, <2>3, <2>4 DEF Next
<1>. QED
  BY <1>1, <1>2

\* The statuses are ranked by numbers.
LEMMA RankedStatuses ==
    /\ Rank["pass"] = 0 /\ Rank["unknown"] = 1 /\ Rank["warn"] = 2
    /\ Rank["degraded"] = 3 /\ Rank["fail"] = 4
  BY DEF Rank, Statuses

\* Every set of statuses that has "pass" has a worst.
LEMMA AWorstThereIs ==
    ASSUME NEW C, C \subseteq Statuses, "pass" \in C
    PROVE  \E s \in C : \A t \in C : Rank[t] <= Rank[s]
<1>1. ASSUME NEW s \in C,
             \A t \in Statuses : Rank[t] <= Rank[s] \/ t \notin C
      PROVE  \E r \in C : \A t \in C : Rank[t] <= Rank[r]
  BY <1>1
<1>2. CASE "fail" \in C
  BY <1>1, <1>2, RankedStatuses DEF Statuses
<1>3. CASE "degraded" \in C /\ "fail" \notin C
  BY <1>1, <1>3, RankedStatuses DEF Statuses
<1>4. CASE "warn" \in C /\ {"degraded", "fail"} \cap C = {}
  BY <1>1, <1>4, RankedStatuses DEF Statuses
<1>5. CASE "unknown" \in C /\ {"warn", "degraded", "fail"} \cap C = {}
  BY <1>1, <1>5, RankedStatuses DEF Statuses
<1>6. CASE {"unknown", "warn", "degraded", "fail"} \cap C = {}
  BY <1>1, <1>6, RankedStatuses DEF Statuses
<1>. QED
  BY <1>2, <1>3, <1>4, <1>5, <1>6

\* Every check has a status.
LEMMA ChecksAreStatuses ==
    ASSUME NEW e \in Environment, MonitorTypeOK
    PROVE  Checks(e) \subseteq Statuses /\ "pass" \in Checks(e)
<1>. USE DEF Statuses
<1>1. ConnectionCheck(e) \in Statuses
  BY DEF ConnectionCheck, Environment, Answer
<1>2. NetworkCheck(e) \in Statuses
  BY DEF NetworkCheck, Environment
<1>3. MacaroonCheck(e) \in Statuses
  BY DEF MacaroonCheck, Environment, Answer
<1>4. RelaysCheck(e) \in Statuses
  BY DEF RelaysCheck, Environment
<1>5. StateCheck \in Statuses
  BY DEF StateCheck
<1>6. PublishedCheck(e) \in Statuses
  BY DEF PublishedCheck
<1>7. VerifiedCheck \in Statuses
  BY DEF VerifiedCheck, MonitorTypeOK, MonitorOK
<1>8. ErrorsCheck \subseteq Statuses /\ StreamCheck \subseteq Statuses
  BY DEF ErrorsCheck, StreamCheck
<1>9. /\ (IF e.loose = "yes" THEN {"warn"} ELSE {}) \subseteq Statuses
      /\ (IF e.cleartext THEN {"warn"} ELSE {}) \subseteq Statuses
      /\ (IF e.foreign /\ verify # "none" THEN {"warn"} ELSE {}) \subseteq Statuses
      /\ "pass" \in Statuses
  OBVIOUS
<1>10. "pass" \in Checks(e)
  BY DEF Checks
<1>. HIDE DEF Statuses
<1>11. {"pass", ConnectionCheck(e), NetworkCheck(e), MacaroonCheck(e), RelaysCheck(e), StateCheck,
        PublishedCheck(e), VerifiedCheck} \subseteq Statuses
  BY <1>1, <1>2, <1>3, <1>4, <1>5, <1>6, <1>7, <1>9, Zenon
<1>. QED
  BY <1>8, <1>9, <1>10, <1>11, Zenon DEF Checks

\* The overall status is no better than that of any check.
LEMMA WorstIsShown ==
    ASSUME NEW e \in Environment, MonitorTypeOK, NEW t \in Checks(e)
    PROVE  Rank[t] <= Rank[Worst(e)]
  BY ChecksAreStatuses, AWorstThereIs, Zenon DEF Worst

\* What the checks rest on.
Accountable == KeyIsThere /\ RetryHasAnError /\ StoredStays /\ RefillIsComing

\* It holds at first and is kept by every step.
LEMMA AccountableStep ==
    /\ MonitorInit => Accountable
    /\ TypeOK /\ Accountable /\ [MonitorNext]_allVars => Accountable'
<1>1. MonitorInit => Accountable
  BY DEF MonitorInit, Init, Accountable, KeyIsThere, Running, NoJob, RetryHasAnError, StoredStays,
     RefillIsComing
<1>2. ASSUME TypeOK, Accountable, [MonitorNext]_allVars PROVE Accountable'
  <2>1. DataOK /\ (Next \/ Beside)
    BY <1>2, MonitorMoves DEF TypeOK
  <2>2. KeyIsThere'
    BY <1>2, <2>1, KeyStep, BesideKey DEF Accountable
  <2>3. RetryHasAnError' /\ StoredStays' /\ RefillIsComing'
    BY <1>2, <2>1, ErrorStep, StoredStaysStep, RefillStep DEF Accountable
  <2>. QED
    BY <2>2, <2>3 DEF Accountable
<1>. QED
  BY <1>1, <1>2

\* /healthz says "degraded" or worse whenever a retry is waited for, the subscription is gone, or
\* the relays hold nothing although lnd has channels: in every environment, and whatever jobs,
\* verifications and changed relays have made of the state meanwhile.
THEOREM TroubleShows == MonitorSpec => []TroubleIsShown
<1>1. MonitorTypeOK /\ Undisturbed /\ Accountable /\ [MonitorNext]_allVars
      => Undisturbed' /\ Accountable'
  BY UndisturbedStep, AccountableStep DEF MonitorTypeOK
<1>2. MonitorTypeOK /\ Undisturbed /\ Accountable => TroubleIsShown
  <2>. SUFFICES ASSUME MonitorTypeOK, Undisturbed, Accountable, NEW e \in Environments,
                       \/ retryTimer
                       \/ Running /\ subs = 0
                       \/ NothingStored /\ e.channels
                PROVE  Rank[Worst(e)] >= Rank["degraded"]
    BY Zenon DEF TroubleIsShown
  <2>a. e \in Environment
    BY EnvironmentsAssumption
  <2>0. ErrorsCheck \cup StreamCheck \cup {PublishedCheck(e)} \subseteq Checks(e)
    BY DEF Checks
  <2>. DEFINE Shown == "degraded" \in Checks(e) \/ "fail" \in Checks(e)
  <2>1. ASSUME retryTimer PROVE Shown
    <3>1. lastError
      BY <2>1 DEF Accountable, RetryHasAnError
    <3>2. "degraded" \in ErrorsCheck
      BY <2>1, <3>1 DEF ErrorsCheck
    <3>. QED
      BY <2>0, <3>2
  <2>2. ASSUME Running, subs = 0 PROVE Shown
    <3>1. ~streamUp /\ ~stopped
      BY <2>2 DEF Undisturbed, OneSubscription, Running
    <3>2. "degraded" \in StreamCheck
      BY <3>1 DEF StreamCheck
    <3>. QED
      BY <2>0, <3>2
  <2>3. ASSUME NothingStored, e.channels, ~retryTimer PROVE Shown
    <3>1. last = NoKey
      <4>1. CASE spent.manuals = 0
        BY <2>3, <4>1 DEF NothingStored, Accountable, StoredStays
      <4>2. CASE ~Busy /\ spent.stops = 0 /\ NoBlob = {}
        <5>1. queue = <<>> /\ job = NoJob
          BY <4>2, Zenon DEF Busy
        <5>2. ~HasJob(queue, Forced)
          BY <5>1 DEF HasJob
        <5>3. job.reason \notin Forced
          BY <5>1 DEF NoJob, Forced
        <5>. QED
          BY <2>3, <4>2, <5>2, <5>3 DEF NothingStored, Accountable, RefillIsComing
      <4>. QED
        BY <2>3, <4>1, <4>2 DEF NothingStored
    <3>2. PublishedCheck(e) = "fail"
      BY <2>3, <3>1 DEF PublishedCheck
    <3>. QED
      BY <2>0, <3>2
  <2>4. Shown
    BY <2>1, <2>2, <2>3, Zenon
  <2>5. Rank["degraded"] <= Rank[Worst(e)] \/ Rank["fail"] <= Rank[Worst(e)]
    BY <2>a, <2>4, WorstIsShown, Zenon
  <2>6. Worst(e) \in Statuses
    BY <2>a, ChecksAreStatuses, AWorstThereIs, Zenon DEF Worst
  <2>7. Rank[Worst(e)] \in Nat
    BY <2>6, RankedStatuses DEF Statuses
  <2>. QED
    BY <2>5, <2>7, RankedStatuses
<1>. QED
  BY <1>1, <1>2, UndisturbedInit, AccountableStep, MonitorTypeCorrect, PTL DEF MonitorSpec

-----------------------------------------------------------------------------
(* What the relays hold at rest under the monitor *)

\* Beside the service nothing comes in from lnd, and what comes into the queue exports.
LEMMA BesideInFlight ==
    ASSUME DataOK, Beside
    PROVE  /\ WireEndsCurrent => WireEndsCurrent'
           /\ QueueEndsCurrent => QueueEndsCurrent'
           /\ JobIsCurrent => JobIsCurrent'
           /\ JobHasItsKey => JobHasItsKey'
           /\ Settled' => Settled /\ queue' = queue
<1>1. UNCHANGED <<stopped, starting, resubs, registered, wire, lnd, missed, job>>
  BY Zenon DEF Beside, lifecycle, stream
<1>2. queue' = queue \/ (queue' # <<>> /\ queue'[Len(queue')].reason # "stream")
  <2>1. ASSUME NEW r \in {"heal", "manual"}, queue' = Queued(queue, r, NoVersion)
        PROVE  queue' # <<>> /\ queue'[Len(queue')].reason # "stream"
    <3>1. r \in Reasons /\ r # "stream"
      BY DEF Reasons
    <3>2. queue' # <<>> /\ queue'[Len(queue')] = [reason |-> r, snap |-> NoVersion]
      BY <2>1, <3>1, LastQueued
    <3>. QED
      BY <3>1, <3>2
  <2>. QED
    BY <2>1, Zenon DEF Beside
<1>3. Settled' => Settled /\ queue' = queue
  BY <1>1, <1>2, Zenon DEF Settled, Running
<1>4. QueueEndsCurrent => QueueEndsCurrent'
  BY <1>1, <1>2, Zenon DEF QueueEndsCurrent, Running
<1>. QED
  BY <1>1, <1>3, <1>4, Zenon DEF WireEndsCurrent, JobIsCurrent, JobHasItsKey

\* A changed set of relays comes with a job that does not compare with `last`.
LEMMA BesideForces ==
    ASSUME DataOK, Beside
    PROVE  /\ stored' = stored \/ HasJob(queue', Forced)
           /\ HasJob(queue, Forced) => HasJob(queue', Forced)
<1>1. ASSUME queue' = Queued(queue, "manual", NoVersion) PROVE HasJob(queue', Forced)
  <2>1. "manual" \in Reasons /\ "manual" \in Forced /\ queue \in Seq(Entry)
    BY DEF Reasons, Forced, DataOK
  <2>. QED
    BY <1>1, <2>1, HasJobQueued
<1>2. HasJob(queue, Forced) => HasJob(queue', Forced)
  BY StaysQueued
<1>. QED
  BY <1>1, <1>2, Zenon DEF Beside

\* A node without channels has no backup; from its first channel on it has one.
BackupsStay == \A v \in NoBlob, w \in Versions \ NoBlob : v < w

\* What is in flight are the node's sets until now, and what was published had a backup.
WireIsPast  == \A i \in 1..Len(wire) : wire[i] <= lnd
QueueIsPast == \A i \in 1..Len(queue) : queue[i].snap <= lnd
JobIsPast   == job.snap <= lnd /\ (job.step \in {"hints", "publish"} => job.snap \notin NoBlob)
LastIsPast  == last # NoKey => \E w \in Versions \ NoBlob : w <= lnd
SeenIsPast  == WireIsPast /\ QueueIsPast /\ JobIsPast /\ LastIsPast

\* What is true of all elements stays so when one more or one less is there.
LEMMA AllOfSequence ==
    ASSUME NEW S, NEW s \in Seq(S), NEW e \in S, NEW P \in SUBSET S, \A i \in 1..Len(s) : s[i] \in P
    PROVE  /\ e \in P => \A i \in 1..Len(Append(s, e)) : Append(s, e)[i] \in P
           /\ s # <<>> => Head(s) \in P /\ \A i \in 1..Len(Tail(s)) : Tail(s)[i] \in P
  OBVIOUS

\* A set comes into flight when it is the node's, and the node's set only ever gets newer.
LEMMA SeenIsPastStep == DataOK /\ SeenIsPast /\ (([Next]_vars) \/ Beside) => SeenIsPast'
<1>. DEFINE Past    == {v \in Versions : v <= lnd}
            Pending == {e \in Entry : e.snap <= lnd}
<1>. SUFFICES ASSUME DataOK, SeenIsPast PROVE ([Next]_vars) \/ Beside => SeenIsPast'
  OBVIOUS
<1>. USE DEF lifecycle, working, stream, external
<1>a. /\ queue \in Seq(Entry) /\ wire \in Seq(Versions) /\ lnd \in Versions /\ job \in Job
      /\ NoVersion \in Int /\ NoVersion <= lnd /\ NoJob.step = "none" /\ NoJob.snap = NoVersion
      /\ Versions \subseteq Int
  BY DEF DataOK, NoVersion, Versions, NoJob
<1>. USE DEF SeenIsPast
<1>b. ASSUME NEW r \in Reasons, NEW v \in Past \cup {NoVersion}, r = "stream" => v \in Versions,
             queue' = Queued(queue, r, v), lnd' = lnd
      PROVE  QueueIsPast'
  <2>1. [reason |-> r, snap |-> v] \in Pending
    BY <1>a, <1>b DEF Entry
  <2>2. \A i \in 1..Len(queue) : queue[i] \in Pending
    BY <1>a DEF QueueIsPast
  <2>3. \A i \in 1..Len(queue') : queue'[i] \in Pending
    BY <1>a, <1>b, <2>1, <2>2, AllOfSequence, Zenon DEF Queued
  <2>. QED
    BY <1>b, <2>3 DEF QueueIsPast
<1>c. ASSUME NEW r \in Reasons \ {"stream"}, queue' = Queued(queue, r, NoVersion),
             UNCHANGED <<wire, lnd, job, last>>
      PROVE  SeenIsPast'
  <2>1. QueueIsPast'
    BY <1>b, <1>c
  <2>. QED
    BY <1>c, <2>1, Zenon DEF WireIsPast, JobIsPast, LastIsPast
<1>d. ASSUME UNCHANGED <<queue, wire, lnd, last>>, job' = NoJob \/ UNCHANGED job
      PROVE  SeenIsPast'
  <2>1. WireIsPast' /\ QueueIsPast' /\ LastIsPast'
    BY <1>d, Zenon DEF WireIsPast, QueueIsPast, LastIsPast
  <2>2. JobIsPast'
    BY <1>a, <1>d DEF JobIsPast
  <2>. QED
    BY <2>1, <2>2, Zenon
<1>e. ASSUME lnd' = lnd, wire' = wire \/ wire' = <<>> PROVE WireIsPast'
  BY <1>e DEF WireIsPast
<1>1. ASSUME ChannelChange PROVE SeenIsPast'
  <2>1. UNCHANGED <<queue, job, last>> /\ lnd' = lnd + 1
    BY <1>1, Zenon DEF ChannelChange
  <2>2. lnd + 1 \in Versions
    BY <1>1, <1>a, BoundsAssumption DEF ChannelChange, Versions, BoundsAssumption
  <2>3. \A v \in Versions \cup {NoVersion} : v <= lnd => v <= lnd'
    BY <1>a, <2>1
  <2>4. WireIsPast'
    <3>1. \A i \in 1..Len(wire) : wire[i] \in {v \in Versions : v <= lnd'}
      <4>1. \A i \in 1..Len(wire) : wire[i] \in Versions
        BY <1>a
      <4>. QED
        BY <2>3, <4>1, Zenon DEF WireIsPast
    <3>2. lnd + 1 \in {v \in Versions : v <= lnd'}
      BY <1>a, <2>1, <2>2
    <3>3. \A i \in 1..Len(wire') : wire'[i] \in {v \in Versions : v <= lnd'}
      <4>1. wire' = wire \/ wire' = Append(wire, lnd + 1)
        BY <1>1, Zenon DEF ChannelChange
      <4>2. {v \in Versions : v <= lnd'} \in SUBSET Versions
        OBVIOUS
      <4>3. \A i \in 1..Len(Append(wire, lnd + 1)) :
              Append(wire, lnd + 1)[i] \in {v \in Versions : v <= lnd'}
        BY <1>a, <2>2, <3>1, <3>2, <4>2, AllOfSequence, Zenon
      <4>. QED
        BY <3>1, <4>1, <4>3, Zenon
    <3>. QED
      BY <3>3 DEF WireIsPast
  <2>5. QueueIsPast'
    <3>1. \A i \in 1..Len(queue) : queue[i].snap \in Versions \cup {NoVersion}
      BY <1>a DEF Entry
    <3>. QED
      BY <2>1, <2>3, <3>1, Zenon DEF QueueIsPast
  <2>6. JobIsPast'
    <3>1. job.snap \in Versions \cup {NoVersion}
      BY <1>a DEF Job
    <3>. QED
      BY <2>1, <2>3, <3>1, Zenon DEF JobIsPast
  <2>7. LastIsPast'
    BY <2>1, <2>3, Zenon DEF LastIsPast
  <2>. QED
    BY <2>4, <2>5, <2>6, <2>7, Zenon
<1>2. ASSUME StreamSnapshot PROVE SeenIsPast'
  <2>1. UNCHANGED <<job, last, lnd>> /\ wire # <<>> /\ wire' = Tail(wire)
    BY <1>2, Zenon DEF StreamSnapshot
  <2>2. Head(wire) \in Past /\ \A i \in 1..Len(wire') : wire'[i] \in Past
    <3>1. \A i \in 1..Len(wire) : wire[i] \in Past
      BY <1>a DEF WireIsPast
    <3>2. Past \in SUBSET Versions
      OBVIOUS
    <3>. QED
      BY <1>a, <2>1, <3>1, <3>2, AllOfSequence, Zenon
  <2>3. QueueIsPast'
    <3>1. queue' = Queued(queue, "stream", Head(wire)) /\ "stream" \in Reasons
      BY <1>2 DEF StreamSnapshot, Reasons
    <3>. QED
      BY <1>b, <2>1, <2>2, <3>1
  <2>4. WireIsPast'
    BY <2>1, <2>2 DEF WireIsPast
  <2>. QED
    BY <2>1, <2>3, <2>4, Zenon DEF JobIsPast, LastIsPast
<1>3. ASSUME Begun \/ Resubscribe \/ Refresh \/ Retry \/ PublishNow PROVE SeenIsPast'
  <2>1. PICK r \in Reasons \ {"stream"} : queue' = Queued(queue, r, NoVersion)
    BY <1>3, JobQueued
  <2>2. UNCHANGED <<lnd, job, last>> /\ (wire' = wire \/ wire' = <<>>)
    BY <1>3, Zenon DEF Begun, Resubscribe, Refresh, Retry, PublishNow, Subscribe
  <2>3. QueueIsPast'
    BY <1>b, <2>1, <2>2
  <2>4. WireIsPast'
    BY <1>e, <2>2
  <2>. QED
    BY <2>2, <2>3, <2>4, Zenon DEF JobIsPast, LastIsPast
<1>4. ASSUME NextJob PROVE SeenIsPast'
  <2>1. UNCHANGED <<wire, lnd, last>> /\ queue # <<>> /\ queue' = Tail(queue)
    BY <1>4, Zenon DEF NextJob
  <2>2. Head(queue) \in Pending /\ \A i \in 1..Len(queue') : queue'[i] \in Pending
    <3>1. \A i \in 1..Len(queue) : queue[i] \in Pending
      BY <1>a DEF QueueIsPast
    <3>2. Pending \in SUBSET Entry
      OBVIOUS
    <3>3. \E e : e \in Entry
      BY <1>a, <2>1
    <3>. QED
      BY <1>a, <2>1, <3>1, <3>2, <3>3, AllOfSequence, Zenon
  <2>3. JobIsPast'
    <3>1. CASE TakeSnapshot(Head(queue).reason, Head(queue).snap)
      BY <1>a, <2>1, <2>2, <3>1, TakeSnapshotJob DEF JobIsPast
    <3>2. CASE job' = [NoJob EXCEPT !.reason = Head(queue).reason, !.step = "export"]
      BY <1>a, <2>1, <3>2 DEF NoJob, JobIsPast
    <3>. QED
      BY <1>4, <3>1, <3>2, Zenon DEF NextJob
  <2>4. QueueIsPast'
    BY <2>1, <2>2 DEF QueueIsPast
  <2>. QED
    BY <2>1, <2>3, <2>4, Zenon DEF WireIsPast, LastIsPast
<1>5. ASSUME Exported PROVE SeenIsPast'
  <2>1. UNCHANGED <<queue, wire, lnd, last>>
    BY <1>5, Zenon DEF Exported
  <2>2. CASE TakeSnapshot(job.reason, lnd)
    <3>1. JobIsPast'
      BY <1>a, <2>1, <2>2, TakeSnapshotJob DEF JobIsPast
    <3>. QED
      BY <2>1, <3>1, Zenon DEF WireIsPast, QueueIsPast, LastIsPast
  <2>. QED
    BY <1>5, <1>d, <2>1, <2>2, FailArms, Zenon DEF Exported
<1>6. ASSUME HintsRead \/ Stop PROVE SeenIsPast'
  <2>1. UNCHANGED <<queue, lnd, last>> /\ (wire' = wire \/ wire' = <<>>)
    BY <1>6, Zenon DEF HintsRead, Stop
  <2>2. JobIsPast'
    BY <1>6, <1>a, <2>1, JobGoesOn DEF JobIsPast
  <2>. QED
    BY <1>e, <2>1, <2>2, Zenon DEF QueueIsPast, LastIsPast
<1>7. ASSUME Published PROVE SeenIsPast'
  <2>1. UNCHANGED <<queue, wire, lnd>> /\ job.step = "publish" /\ job' = NoJob
    BY <1>7, FailArms, Zenon DEF Published
  <2>2. job.snap \in Versions \ NoBlob /\ job.snap <= lnd
    BY <1>a, <2>1 DEF JobIsPast, Job, DataOK, NoVersion, Versions
  <2>3. JobIsPast'
    BY <1>a, <2>1 DEF JobIsPast
  <2>. QED
    BY <2>1, <2>2, <2>3, Zenon DEF WireIsPast, QueueIsPast, LastIsPast
<1>8. ASSUME Crash PROVE SeenIsPast'
  <2>1. lnd' = lnd /\ wire' = <<>> /\ queue' = <<>> /\ job' = NoJob /\ last' = NoKey
    BY <1>8, Zenon DEF Crash
  <2>2. QueueIsPast' /\ JobIsPast'
    BY <1>a, <2>1 DEF QueueIsPast, JobIsPast
  <2>. QED
    BY <1>e, <2>1, <2>2, Zenon DEF LastIsPast
<1>9. ASSUME \/ Start \/ KeyDerived \/ Register \/ StreamEnd
             \/ BeginVerify \/ EndVerify \/ UNCHANGED vars
      PROVE  SeenIsPast'
  <2>1. UNCHANGED <<queue, lnd, job, last>> /\ (wire' = wire \/ wire' = <<>>)
    BY <1>9, Zenon DEF Start, KeyDerived, Register, StreamEnd, BeginVerify, EndVerify, vars
  <2>. QED
    BY <1>e, <2>1, Zenon DEF QueueIsPast, JobIsPast, LastIsPast
<1>10. ASSUME Beside PROVE SeenIsPast'
  <2>1. UNCHANGED <<wire, lnd, job, last>>
    BY <1>10, Zenon DEF Beside
  <2>2. \A r \in {"heal", "manual"} : r \in Reasons \ {"stream"}
    BY DEF Reasons
  <2>3. CASE queue' = queue
    BY <2>1, <2>3, <1>d
  <2>. QED
    BY <1>10, <1>c, <2>1, <2>2, <2>3, Zenon DEF Beside
<1>. QED
  BY <1>1, <1>2, <1>3, <1>4, <1>5, <1>6, <1>7, <1>8, <1>9, <1>10 DEF Next

\* Whatever the service does, a publish that the relays need is not lost while `last` and the
\* relays differ, if no set is without a backup once something was published.
LEMMA ForcedStays ==
    ASSUME DataOK, SeenIsPast, BackupsStay, JobHasItsKey, KeyIsThere, StoredOrForced, [Next]_vars
    PROVE  StoredOrForced'
<1>. DEFINE Coming == HasJob(queue, Forced) \/ job.reason \in Forced
<1>. SUFFICES ASSUME last' # NoKey, ~lastError', ~LastIsOfStored' PROVE Coming'
  BY Zenon DEF StoredOrForced
<1>. USE DEF lifecycle, working, stream, external
<1>a. ~Published /\ UNCHANGED <<last, lastError, stored>>
  BY LastMoves, Zenon
<1>b. Coming /\ sk
  BY <1>a, Zenon DEF StoredOrForced, LastIsOfStored, KeyIsThere
<1>d. lnd \notin NoBlob
  <2>1. PICK w \in Versions \ NoBlob : w <= lnd
    BY <1>a DEF SeenIsPast, LastIsPast
  <2>2. lnd \in NoBlob => lnd < w
    BY DEF BackupsStay
  <2>. QED
    BY <2>1, <2>2 DEF DataOK, Versions
<1>c. job \in Job /\ "stream" \notin Forced /\ "none" \notin Forced
  BY DEF DataOK, Forced
<1>1. CASE NextJob \/ Exported \/ HintsRead
  <2>1. \/ job'.reason \in Forced \/ HasJob(queue', Forced)
        \/ job.reason \in Forced /\ job # NoJob /\ job' = NoJob
    BY <1>1, <1>b, <1>c, StaysAtWork
  <2>. QED
    BY <1>1, <1>b, <1>d, <2>1, ForcedEndsInRetry, Zenon
<1>2. CASE Begun \/ Resubscribe \/ Refresh \/ Retry \/ PublishNow \/ StreamSnapshot
  <2>1. job' = job
    BY <1>2, Zenon DEF Begun, Resubscribe, Refresh, Retry, PublishNow, StreamSnapshot
  <2>. QED
    BY <1>2, <1>b, <2>1, StaysQueued, Zenon
<1>3. CASE Stop
  <2>1. queue' = queue /\ (job' = job \/ job' = [job EXCEPT !.interrupted = TRUE])
    BY <1>3, Zenon DEF Stop
  <2>2. job'.reason = job.reason
    BY <1>c, <2>1 DEF Job
  <2>. QED
    BY <1>b, <2>1, <2>2, Zenon
<1>4. CASE Crash
  BY <1>4, Zenon DEF Crash
<1>5. CASE \/ Start \/ KeyDerived \/ Register \/ ChannelChange \/ StreamEnd
           \/ BeginVerify \/ EndVerify \/ UNCHANGED vars
  <2>1. UNCHANGED <<queue, job>>
    BY <1>5, Zenon DEF Start, KeyDerived, Register, ChannelChange, StreamEnd, BeginVerify,
       EndVerify, vars
  <2>. QED
    BY <1>b, <2>1, Zenon
<1>. QED
  BY <1>a, <1>1, <1>2, <1>3, <1>4, <1>5 DEF Next

\* What the relays lose can be published again, or they keep what they acknowledged.
Repairable == BackupsStay \/ spent.manuals = 0

\* The versions in flight, with the relays changing beside the service.
FollowingBeside ==
    /\ WireEndsCurrent /\ QueueEndsCurrent /\ JobIsCurrent /\ JobHasItsKey
    /\ KeyIsThere /\ ForcedIsComing /\ SeenIsPast
    /\ BackupsStay => StoredOrForced
    /\ spent.manuals = 0 => LastIsStored
    /\ Repairable => RestIsCurrent

\* A step of the service keeps it, and
LEMMA FollowingBesideNext == TypeOK /\ FollowingBeside /\ [Next]_vars => FollowingBeside'
<1>. SUFFICES ASSUME TypeOK, FollowingBeside, [Next]_vars PROVE FollowingBeside'
  OBVIOUS
<1>a. DataOK
  BY DEF TypeOK
<1>b. /\ WireEndsCurrent /\ QueueEndsCurrent /\ JobIsCurrent /\ JobHasItsKey
      /\ KeyIsThere /\ ForcedIsComing /\ SeenIsPast
  BY Zenon DEF FollowingBeside
<1>1. /\ WireEndsCurrent' /\ QueueEndsCurrent' /\ JobIsCurrent' /\ JobHasItsKey'
      /\ KeyIsThere' /\ ForcedIsComing' /\ SeenIsPast'
  BY <1>a, <1>b, WireStep, QueueStep, JobIsCurrentStep, JobKeyStep, KeyStep, ForcedStep,
     SeenIsPastStep, Zenon
<1>2. BackupsStay => StoredOrForced'
  BY <1>a, <1>b, ForcedStays, Zenon DEF FollowingBeside
<1>3. spent'.manuals = 0 => LastIsStored'
  BY <1>a, <1>b, ManualsCounted, StoredStep, Zenon DEF FollowingBeside
<1>4. ASSUME Repairable' PROVE RestIsCurrent'
  <2>1. Repairable
    BY <1>a, <1>4, ManualsCounted, Zenon DEF Repairable
  <2>2. StoredOrForced
    BY <2>1, Zenon DEF Repairable, FollowingBeside, StoredOrForced, LastIsStored
  <2>3. RestIsCurrent
    BY <2>1, Zenon DEF FollowingBeside
  <2>. QED
    BY <1>b, <2>2, <2>3, RestStep, Zenon
<1>. QED
  BY <1>1, <1>2, <1>3, <1>4, Zenon DEF FollowingBeside

\* so does a step beside it: what it takes from the relays, it has a job bring back.
LEMMA FollowingBesideStep == TypeOK /\ FollowingBeside /\ Beside => FollowingBeside'
<1>. SUFFICES ASSUME TypeOK, FollowingBeside, Beside PROVE FollowingBeside'
  OBVIOUS
<1>a. DataOK
  BY DEF TypeOK
<1>b. UNCHANGED <<stopped, starting, job, last, lastError, retryTimer, lnd, missed>>
  BY Zenon DEF Beside, lifecycle
<1>c. /\ spent'.stops = spent.stops
      /\ spent'.manuals = 0 => spent.manuals = 0 /\ stored' = stored
  BY <1>a, BesideCounts
<1>d. /\ stored' = stored \/ HasJob(queue', Forced)
      /\ HasJob(queue, Forced) => HasJob(queue', Forced)
  BY <1>a, BesideForces
<1>1. /\ WireEndsCurrent' /\ QueueEndsCurrent' /\ JobIsCurrent' /\ JobHasItsKey' /\ KeyIsThere'
      /\ SeenIsPast'
  BY <1>a, BesideInFlight, BesideKey, SeenIsPastStep, Zenon DEF FollowingBeside
<1>2. ForcedIsComing'
  BY <1>b, <1>c, <1>d, Zenon DEF FollowingBeside, ForcedIsComing
<1>3. BackupsStay => StoredOrForced'
  BY <1>b, <1>d, Zenon DEF FollowingBeside, StoredOrForced, LastIsOfStored
<1>4. spent'.manuals = 0 => LastIsStored'
  BY <1>b, <1>c, Zenon DEF FollowingBeside, LastIsStored, LastIsOfStored
<1>5. ASSUME Repairable' PROVE RestIsCurrent'
  <2>. SUFFICES ASSUME Settled', job' = NoJob, ~retryTimer', ~missed', ~RetryMayBeGone'
                PROVE  Current'
    BY Zenon DEF RestIsCurrent
  <2>1. Settled /\ queue' = queue
    BY <1>a, BesideInFlight
  <2>2. ~HasJob(queue', Forced)
    <3>1. queue' = <<>>
      BY Zenon DEF Settled
    <3>. QED
      BY <3>1 DEF HasJob
  <2>3. stored' = stored
    BY <1>d, <2>2
  <2>4. Repairable
    BY <1>5, <1>c, Zenon DEF Repairable
  <2>5. Current
    BY <1>b, <1>c, <2>1, <2>4, Zenon DEF FollowingBeside, RestIsCurrent, RetryMayBeGone
  <2>. QED
    BY <1>b, <2>3, <2>5, Zenon DEF Current
<1>. QED
  BY <1>1, <1>2, <1>3, <1>4, <1>5, Zenon DEF FollowingBeside

\* Under its monitor, too, a service at rest has brought the node's channel set to the relays: what
\* changeRelays takes away is published again, and neither a verification nor a heal hides a change.
\* Where a node's sets may lose and regain their backup it is shown for relays that are not changed.
THEOREM MonitorRestsCurrent == MonitorSpec => [](Repairable => QuietIsCurrent)
<1>1. MonitorInit => FollowingBeside
  <2>. SUFFICES ASSUME MonitorInit PROVE FollowingBeside
    OBVIOUS
  <2>1. /\ wire = <<>> /\ queue = <<>> /\ stopped /\ starting = "no" /\ ~sk /\ ~lastError
        /\ job.step = "none" /\ last = NoKey
    BY DEF MonitorInit, Init, NoJob
  <2>2. job.snap <= lnd
    BY DEF MonitorInit, Init, NoJob, NoVersion
  <2>. QED
    BY <2>1, <2>2 DEF FollowingBeside, SeenIsPast, WireIsPast, QueueIsPast, JobIsPast, LastIsPast,
       WireEndsCurrent, QueueEndsCurrent, JobIsCurrent, JobHasItsKey,
       LastIsStored, StoredOrForced, KeyIsThere, ForcedIsComing, RestIsCurrent, Running, Settled
<1>2. MonitorTypeOK /\ FollowingBeside /\ [MonitorNext]_allVars => FollowingBeside'
  BY MonitorMoves, FollowingBesideNext, FollowingBesideStep DEF MonitorTypeOK, TypeOK
<1>3. FollowingBeside => (Repairable => QuietIsCurrent)
  BY Zenon DEF FollowingBeside, RestIsCurrent, QuietIsCurrent, Quiet, Settled, Busy
<1>. QED
  BY <1>1, <1>2, <1>3, MonitorTypeCorrect, PTL DEF MonitorSpec
=============================================================================

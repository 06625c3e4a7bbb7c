-------------------------------- MODULE Monitor --------------------------------
(***************************************************************************)
(* The monitor, src/monitor.ts, composed with the backup service it owns:  *)
(* it starts and stops the service, verifies what the relays hold against  *)
(* what lnd exports (shortly after each publish, every minute and on       *)
(* demand, one run at a time), shows the verdict in the service's state    *)
(* and republishes when the relays are behind the node.                    *)
(*                                                                         *)
(* A verification is modelled here by what it reads and when; the verdict  *)
(* itself, relay by relay, is the subject of Verification.  Times only     *)
(* serve to compare the begin of a run with the end of a publish, and the  *)
(* two are taken to fall into different milliseconds.  A crash is left to  *)
(* BackupService: nothing of the monitor outlives the process.             *)
(***************************************************************************)
EXTENDS BackupService

VARIABLES
    mStopped, mStarting,  \* life cycle; mStarting is the await begin() is in
    run,                  \* inflight: the verification that is under way
    waiters,              \* callers wait for it because it began before the latest publish
    verifyTimer,          \* scheduleVerify's timer is armed
    ticks,                \* verify intervals that are armed
    healing,
    verify,               \* the result of the last run that had one: its verdict, "behind" if a
                          \* backup was found that does not match
    unverified            \* history: a publish finished and no run begun since has had a result

monitor  == <<mStopped, mStarting, run, waiters, verifyTimer, ticks, healing, verify, unverified>>
allVars  == <<vars, monitor>>

Unread == -2

\* began: it has put the service into VERIFYING; seen and node: the version in the newest event
\* and the one exported; current: no publish has finished since it began; overtaken (history):
\* one has finished since it read the relays; outdated (history): somebody who asked after that
\* shares its answer.
NoRun  == [active |-> FALSE, began |-> FALSE, seen |-> Unread, node |-> Unread,
           current |-> TRUE, overtaken |-> FALSE, outdated |-> FALSE]

MonitorInit ==
    /\ Init
    /\ mStopped = TRUE /\ mStarting = "no"
    /\ run = NoRun /\ waiters = FALSE
    /\ verifyTimer = FALSE /\ ticks = 0
    /\ healing = FALSE /\ verify = "none" /\ unverified = FALSE

-----------------------------------------------------------------------------
(* Life cycle *)

\* start() until pollInfo is awaited.  No program starts a monitor again that it has stopped.
MonitorStart ==
    /\ mStopped /\ stopped /\ mStarting = "no"
    /\ spent.starts < MaxStart
    /\ mStopped' = FALSE /\ mStarting' = "info"
    /\ UNCHANGED <<vars, run, waiters, verifyTimer, ticks, healing, verify, unverified>>

\* pollInfo has settled (it never fails); the network is refused or the service is started,
\* whether or not the monitor has been stopped meanwhile.
InfoPolled ==
    /\ mStarting = "info"
    /\ \/ Start /\ mStarting' = "service" /\ UNCHANGED mStopped
       \/ /\ CanFail /\ Spend("faults")
          /\ mStopped' = TRUE /\ mStarting' = "no"
          /\ UNCHANGED <<lifecycle, working, stream, refreshers, external>>
    /\ UNCHANGED <<run, waiters, verifyTimer, ticks, healing, verify, unverified>>

\* The service's start() fails, which stops the monitor, or it goes on to its last await.
ServiceStarts ==
    /\ mStarting = "service"
    /\ \/ /\ KeyDerived
          /\ IF starting' = "no"
             THEN mStopped' = TRUE /\ mStarting' = "no" /\ verifyTimer' = FALSE
             ELSE UNCHANGED <<mStopped, mStarting, verifyTimer>>
       \/ Begun /\ mStarting' = "spend" /\ UNCHANGED <<mStopped, verifyTimer>>
    /\ UNCHANGED <<run, waiters, ticks, healing, verify, unverified>>

\* Mutation: verifications only follow the start and publishes.
MonitorBegunOnce ==
    /\ mStarting = "spend"
    /\ mStarting' = "no"
    /\ verifyTimer' = (verifyTimer \/ ~mStopped)
    /\ UNCHANGED <<vars, mStopped, run, waiters, ticks, healing, verify, unverified>>

\* canSpendOnchain has settled: the intervals are armed and the first verification scheduled.
MonitorBegun ==
    /\ mStarting = "spend"
    /\ mStarting' = "no"
    /\ ticks' = ticks + 1
    /\ verifyTimer' = (verifyTimer \/ ~mStopped)
    /\ UNCHANGED <<vars, mStopped, run, waiters, healing, verify, unverified>>

\* stop(): timers are cleared and the service is stopped; a verification goes on.
MonitorStop ==
    /\ ~mStopped
    /\ IF stopped THEN UNCHANGED vars /\ spent.stops < MaxStop ELSE Stop
    /\ mStopped' = TRUE
    /\ verifyTimer' = FALSE /\ ticks' = 0
    /\ UNCHANGED <<mStarting, run, waiters, healing, verify, unverified>>

-----------------------------------------------------------------------------
(* verifyNow *)

\* A run begins, from the service's state p; without a key it fails at once, having begun nothing.
Begin(p) ==
    LET began == p.state \in {"SUCCESS", "DEGRADED"} IN
    IF sk
    THEN /\ pipe' = IF began THEN To(p, "VERIFYING") ELSE p
         /\ run' = [NoRun EXCEPT !.active = TRUE, !.began = began]
    ELSE pipe' = p /\ run' = NoRun

\* Mutation: whoever asks during a run shares it.
VerifyNowShared ==
    IF run.active
    THEN /\ run' = [run EXCEPT !.outdated = @ \/ run.overtaken]
         /\ UNCHANGED <<waiters, pipe>>
    ELSE Begin(pipe) /\ UNCHANGED waiters

\* Shares the run in flight, or waits for it to end if a publish has finished since it began.
VerifyNow ==
    IF run.active
    THEN /\ IF run.current
            THEN run' = [run EXCEPT !.outdated = @ \/ run.overtaken] /\ UNCHANGED waiters
            ELSE waiters' = TRUE /\ UNCHANGED run
         /\ UNCHANGED pipe
    ELSE Begin(pipe) /\ UNCHANGED waiters

RestOfService == <<lifecycle, queue, job, last, lastError, retryTimer, stream, refreshers,
                   external, spent>>

VerifyTimerFires ==
    /\ verifyTimer /\ verifyTimer' = FALSE
    /\ VerifyNow
    /\ UNCHANGED <<RestOfService, mStopped, mStarting, ticks, healing, verify, unverified>>

VerifyTick ==
    /\ ticks > 0
    /\ VerifyNow
    /\ UNCHANGED <<RestOfService, mStopped, mStarting, verifyTimer, ticks, healing, verify, unverified>>

\* POST /api/monitor/verify
VerifyRequested ==
    /\ VerifyNow
    /\ UNCHANGED <<RestOfService, mStopped, mStarting, verifyTimer, ticks, healing, verify, unverified>>

\* verifyBackup: the probes have answered, or no relay did.
RelaysRead ==
    /\ run.active /\ run.seen = Unread
    /\ \/ run' = [run EXCEPT !.seen = stored] /\ UNCHANGED spent
       \/ CanFail /\ Spend("faults") /\ run' = [run EXCEPT !.seen = NoVersion]
    /\ UNCHANGED <<lifecycle, working, stream, refreshers, external, mStopped, mStarting,
                   waiters, verifyTimer, ticks, healing, verify, unverified>>

NodeRead ==
    /\ run.active /\ run.node = Unread
    /\ run' = [run EXCEPT !.node = lnd]
    /\ UNCHANGED <<vars, mStopped, mStarting, waiters, verifyTimer, ticks, healing, verify, unverified>>

\* matchesCurrent; undefined without a backup on the relays or at the node.
Match(seen, node) ==
    IF seen = NoVersion \/ node \in NoBlob THEN "undefined"
    ELSE IF Fingerprint[seen] = Fingerprint[node] THEN "yes" ELSE "no"

\* Mutation: the verdict is shown in whatever state the service is.
VerdictAnyway(p, verdict) == To(p, verdict)

\* endVerify
VerdictShown(p, verdict) == IF p.state = "VERIFYING" THEN To(p, verdict) ELSE p

\* The end of a run: those who waited for it call verifyNow again.
End(p) ==
    /\ IF waiters THEN Begin(p) ELSE pipe' = p /\ run' = NoRun
    /\ waiters' = FALSE

\* verifyBackup has its result: the verdict is shown and a backup that is behind is republished.
\* lnd rejects the backup, or does not answer when it is asked about it, and that counts as behind.
RunEnds ==
    /\ run.seen # Unread /\ run.node # Unread
    /\ \E match \in {Match(run.seen, run.node), "no"} :
        /\ \/ match = Match(run.seen, run.node) /\ UNCHANGED spent
           \/ run.seen # NoVersion /\ CanFail /\ Spend("faults")
        /\ \E verdict \in IF match = "yes" THEN {"SUCCESS", "DEGRADED"} ELSE {"FAILED"} :
              /\ End(IF run.began THEN VerdictShown(pipe, verdict) ELSE pipe)
              /\ verify' = IF match = "no" THEN "behind" ELSE verdict
        /\ IF match = "no" /\ ~healing /\ ~mStopped
           THEN healing' = TRUE /\ queue' = Queued(queue, "heal", NoVersion)
           ELSE UNCHANGED <<healing, queue>>
    /\ unverified' = (unverified /\ ~run.current)
    /\ UNCHANGED <<lifecycle, job, last, lastError, retryTimer, stream, refreshers,
                   external, mStopped, mStarting, verifyTimer, ticks>>

\* Mutation: a run that throws leaves the service as it is.
RunThrowsSilently ==
    /\ run.active /\ run.node = Unread
    /\ CanFail /\ Spend("faults")
    /\ End(pipe)
    /\ UNCHANGED <<lifecycle, queue, job, last, lastError, retryTimer, stream, refreshers,
                   external, mStopped, mStarting, verifyTimer, ticks, healing, verify, unverified>>

\* exportBackup fails, and with it the run.
RunThrows ==
    /\ run.active /\ run.node = Unread
    /\ CanFail /\ Spend("faults")
    /\ End(IF run.began THEN VerdictShown(pipe, "FAILED") ELSE pipe)
    /\ UNCHANGED <<lifecycle, queue, job, last, lastError, retryTimer, stream, refreshers,
                   external, mStopped, mStarting, verifyTimer, ticks, healing, verify, unverified>>

-----------------------------------------------------------------------------
(* The service's jobs and what they call back *)

\* Mutation: the flag is cleared when the publish succeeds.
HealedBySuccess(ended, succeeded) == healing' = (healing /\ ~(ended /\ succeeded))

\* .finally(() => (this.healing = false)) of the job that heals.
Healed(ended, succeeded) == healing' = (healing /\ ~ended)

\* onPublish
PublishFinished ==
    /\ run' = [run EXCEPT !.current = ~run.active,
                          !.overtaken = run.active /\ run.seen # Unread]
    /\ verifyTimer' = (verifyTimer \/ ~mStopped)
    /\ unverified' = TRUE

JobStep ==
    /\ NextJob \/ Exported \/ HintsRead \/ Published
    /\ LET ended     == job # NoJob /\ job' = NoJob
           succeeded == job.step = "publish" /\ ended /\ ~lastError'
       IN  /\ Healed(ended /\ job.reason = "heal", succeeded)
           /\ IF succeeded THEN PublishFinished ELSE UNCHANGED <<run, verifyTimer, unverified>>
    /\ UNCHANGED <<mStopped, mStarting, waiters, ticks, verify>>

\* What the relays hold after a change of their set: perhaps an older backup or none.
FewerCopies == {stored, NoVersion} \cup {v \in Versions : v < stored}

\* RelaySet's onChange: the current backup is published again and a verification scheduled.
RelayChange ==
    /\ ~mStopped
    /\ spent.manuals < MaxManual /\ Spend("manuals")
    /\ stored' \in FewerCopies
    /\ queue' = Queued(queue, "manual", NoVersion)
    /\ verifyTimer' = TRUE
    /\ UNCHANGED <<lifecycle, pipe, job, last, lastError, retryTimer, stream, refreshers,
                   lnd, registered, wire, missed,
                   mStopped, mStarting, run, waiters, ticks, healing, verify, unverified>>

\* The service's own timers and callbacks, and POST /api/monitor/publish.
ServiceAlone ==
    /\ \/ Register \/ ChannelChange \/ StreamSnapshot \/ StreamEnd \/ Resubscribe
       \/ Refresh \/ Retry \/ PublishNow
    /\ UNCHANGED monitor

-----------------------------------------------------------------------------
MonitorNext ==
    \/ MonitorStart \/ InfoPolled \/ ServiceStarts \/ MonitorBegun \/ MonitorStop
    \/ VerifyTimerFires \/ VerifyTick \/ VerifyRequested
    \/ RelaysRead \/ NodeRead \/ RunEnds \/ RunThrows
    \/ JobStep \/ RelayChange \/ ServiceAlone

MonitorSpec == MonitorInit /\ [][MonitorNext]_allVars

\* Awaits settle, timers and intervals fire, and the program starts its monitor.
MonitorFairness ==
    /\ WF_allVars(MonitorStart) /\ WF_allVars(InfoPolled) /\ WF_allVars(ServiceStarts)
    /\ WF_allVars(MonitorBegun)
    /\ WF_allVars(VerifyTimerFires) /\ WF_allVars(VerifyTick)
    /\ WF_allVars(RelaysRead) /\ WF_allVars(NodeRead) /\ WF_allVars(RunEnds)
    /\ WF_allVars(JobStep)
    /\ WF_allVars(Register /\ UNCHANGED monitor)
    /\ WF_allVars(StreamSnapshot /\ UNCHANGED monitor)
    /\ WF_allVars(Resubscribe /\ UNCHANGED monitor)
    /\ WF_allVars(Retry /\ UNCHANGED monitor)

MonitorFairSpec == MonitorSpec /\ MonitorFairness

-----------------------------------------------------------------------------
(* Properties *)

Reading == Versions \cup {NoVersion, Unread}

Runs == [active : BOOLEAN, began : BOOLEAN, seen : Reading, node : Reading,
         current : BOOLEAN, overtaken : BOOLEAN, outdated : BOOLEAN]

MonitorOK ==
    /\ mStopped \in BOOLEAN /\ mStarting \in {"no", "info", "service", "spend"}
    /\ run \in Runs
    /\ waiters \in BOOLEAN /\ verifyTimer \in BOOLEAN /\ ticks \in Nat
    /\ healing \in BOOLEAN /\ unverified \in BOOLEAN
    /\ verify \in {"none", "SUCCESS", "DEGRADED", "FAILED", "behind"}

\* Every variable of the monitor and of the service keeps its type: a run that is shared, ended
\* or thrown away is a run or none (verifyNow, begin, stop).
MonitorTypeOK == TypeOK /\ MonitorOK

\* The service shows VERIFYING only while a run that put it there is under way: whether that run
\* ends or throws, is shared, preempted by a job or overtaken by stop(), none leaves it behind.
VerifyingHasARun == pipe.state = "VERIFYING" => run.active /\ run.began

\* healing is set only while the republish it stands for is queued or at work, so that one that
\* fails or finds nothing to publish does not end the self-healing for good.
HealingHasAJob ==
    healing => job.reason = "heal" \/ \E i \in DOMAIN queue : queue[i].reason = "heal"

\* The comment on verifyNow: no caller who asks after a publish has finished is answered by a
\* run that read the relays before it.
AnswersAreFresh == ~run.outdated

\* What a finished publish shows is replaced, as long as no job moves, only by the verdict of a
\* run begun after it: one that comes late, after a publish preempted its run, moves nothing
\* (endVerify).
VerdictIsTimely ==
    [][/\ pipe' # pipe /\ pipe'.state \in {"SUCCESS", "DEGRADED", "FAILED"}
       /\ job' = job /\ Len(queue') >= Len(queue)
       => run.current]_allVars

MonitorRunning == ~mStopped /\ mStarting = "no"

\* A monitor that runs has its service up, with one subscription or a timer about to open it and
\* the refresh armed, and its own interval: whatever stop() was called between the awaits of
\* start(), and whichever of them failed, none leaves it running and blind (start, begin, stop).
MonitorIsWatching ==
    MonitorRunning => Running /\ subs + resubs = 1 /\ refreshers > 0 /\ ticks > 0

\* "verify ... after every publish": while the monitor runs, a publish is followed by a run that
\* began after it and has a result, whatever runs were in flight or failed meanwhile.
PublishIsVerified == unverified /\ MonitorRunning ~> ~unverified \/ ~MonitorRunning

\* The comment in lnd.ts: "the monitor republishes if verification ever finds the backup behind
\* the node".  So a monitor that stays up gets the node's channel set to the relays in every
\* case, changes missed by stream and export included, and does not need the refresh for it.
MonitorMakesCurrent == <>[]MonitorRunning => <>[]Current
=============================================================================

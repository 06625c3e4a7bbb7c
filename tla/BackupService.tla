---------------------------- MODULE BackupService ----------------------------
(***************************************************************************)
(* The publisher of channel backups, src/backup.ts: a service that is      *)
(* started and stopped, keeps a subscription to lnd's backup stream, runs  *)
(* export-and-publish jobs one at a time from a promise chain, arms a      *)
(* retry after a failure, refreshes periodically, and shows its progress   *)
(* as the state of a whitelisted state machine.                            *)
(*                                                                         *)
(* Every await of the code is a boundary between two actions; what runs    *)
(* between two awaits is one action.  lnd and the relays are external:     *)
(* lnd is the version of the node's channel set and the wire of the        *)
(* subscription, the relays are the version their newest event holds.      *)
(* Their timestamps are modelled in RelayStore.                            *)
(***************************************************************************)
EXTENDS Integers, Sequences

CONSTANTS
    MaxChange,        \* bound: how often the node's channel set changes
    Fingerprint,      \* version -> fingerprint of its channel set; equal for equal sets
    NoBlob,           \* versions whose snapshot has no multi-channel backup
    TooBig,           \* versions whose payload does not fit NIP-44
    MaxFault,         \* bound: failures of lnd, relays and connections
    MaxStart,         \* bound: calls of start()
    MaxStop,          \* bound: calls of stop()
    MaxCrash,         \* bound: crashes of the process
    MaxManual,        \* bound: calls of publishNow()
    MaxRefreshQueue   \* bound: the refresh timer fires only below this queue length

Versions == 0..MaxChange

ASSUME BoundsAssumption ==
    /\ MaxChange \in Nat /\ MaxFault \in Nat /\ MaxStart \in Nat /\ MaxStop \in Nat
    /\ MaxCrash \in Nat /\ MaxManual \in Nat /\ MaxRefreshQueue \in Nat

ASSUME DataAssumption ==
    /\ Fingerprint \in [Versions -> Nat]
    /\ NoBlob \subseteq Versions
    /\ TooBig \subseteq Versions

VARIABLES
    stopped, starting, sk,            \* life cycle; starting is the await begin() is in
    pipe,                             \* [state, rest, invalid] of the state machine
    queue, job,                       \* jobs chained behind the one that runs
    last, lastError, retryTimer,
    streamUp, subs, resubs,           \* subscription: belief, live ones, timers to resubscribe
    refreshers,                       \* refresh intervals that are armed
    lnd, registered, wire,            \* external: node, its end of the subscription, in flight
    stored,                           \* external: version in the newest event on the relays
    missed,                           \* history: a change no export or stream has shown yet
    spent                             \* the bounds used so far

lifecycle == <<stopped, starting, sk>>
working   == <<pipe, queue, job, last, lastError, retryTimer>>
stream    == <<streamUp, subs, resubs>>
external  == <<lnd, registered, wire, stored, missed>>
vars      == <<lifecycle, working, stream, refreshers, external, spent>>

-----------------------------------------------------------------------------
(* The state machine: ALLOWED, RESTING and canTransition. *)

States  == {"IDLE", "BACKING_UP", "ENCRYPTING", "PUBLISHING", "VERIFYING",
            "SUCCESS", "DEGRADED", "FAILED", "RECOVERING"}
Resting == {"IDLE", "SUCCESS", "DEGRADED", "FAILED"}
Working == {"BACKING_UP", "ENCRYPTING", "PUBLISHING"}

\* Mutation: a publish may not preempt a verification.
AllowedWithoutPreemption ==
    [s \in States |->
        CASE s = "IDLE"       -> {"BACKING_UP", "FAILED"}
          [] s = "BACKING_UP" -> {"ENCRYPTING", "IDLE", "SUCCESS", "DEGRADED", "FAILED"}
          [] s = "ENCRYPTING" -> {"PUBLISHING", "FAILED"}
          [] s = "PUBLISHING" -> {"SUCCESS", "DEGRADED", "FAILED"}
          [] s = "VERIFYING"  -> {"SUCCESS", "DEGRADED", "FAILED"}
          [] s = "SUCCESS"    -> {"BACKING_UP", "VERIFYING", "FAILED"}
          [] s = "DEGRADED"   -> {"BACKING_UP", "VERIFYING", "RECOVERING", "FAILED"}
          [] s = "FAILED"     -> {"RECOVERING", "BACKING_UP"}
          [] s = "RECOVERING" -> {"BACKING_UP", "FAILED"}]

Allowed ==
    [s \in States |->
        CASE s = "IDLE"       -> {"BACKING_UP", "FAILED"}
          [] s = "BACKING_UP" -> {"ENCRYPTING", "IDLE", "SUCCESS", "DEGRADED", "FAILED"}
          [] s = "ENCRYPTING" -> {"PUBLISHING", "FAILED"}
          [] s = "PUBLISHING" -> {"SUCCESS", "DEGRADED", "FAILED"}
          [] s = "VERIFYING"  -> {"SUCCESS", "DEGRADED", "FAILED", "BACKING_UP"}
          [] s = "SUCCESS"    -> {"BACKING_UP", "VERIFYING", "FAILED"}
          [] s = "DEGRADED"   -> {"BACKING_UP", "VERIFYING", "RECOVERING", "FAILED"}
          [] s = "FAILED"     -> {"RECOVERING", "BACKING_UP"}
          [] s = "RECOVERING" -> {"BACKING_UP", "FAILED"}]

CanTransition(from, to) == from = to \/ to \in Allowed[from]

\* setState: an impossible transition is counted and ignored.
To(p, next) ==
    IF CanTransition(p.state, next)
    THEN [state   |-> next,
          rest    |-> IF next # p.state /\ next \in Resting THEN next ELSE p.rest,
          invalid |-> p.invalid]
    ELSE [p EXCEPT !.invalid = @ + 1]

Idle == [state |-> "IDLE", rest |-> "IDLE", invalid |-> 0]

-----------------------------------------------------------------------------
(* Jobs.  A stream job carries its snapshot, every other one exports.      *)

\* "heal" is the publishNow() of the monitor, "manual" that of a caller.
Reasons == {"startup", "stream", "resubscribe", "refresh", "retry", "manual", "heal"}
\* Mutation: a retry skips a set that was published before.
ForcedWithoutRetry == {"refresh", "manual", "heal"}

Forced  == {"refresh", "retry", "manual", "heal"}
NoVersion == -1

\* What the code compares: fingerprint and peer hints, never the blob.
Key(v, hints) == [cp |-> Fingerprint[v], hints |-> hints]
NoKey == [cp |-> NoVersion, hints |-> FALSE]

\* interrupted (history): stop() overtook the job between its awaits.
NoJob == [reason |-> "none", snap |-> NoVersion, step |-> "none",
          key |-> NoKey, interrupted |-> FALSE]

Entry == {e \in [reason : Reasons, snap : Versions \cup {NoVersion}] :
            e.reason = "stream" => e.snap \in Versions}

Queued(q, reason, snap) == Append(q, [reason |-> reason, snap |-> snap])

Busy == job # NoJob \/ queue # <<>>

Spend(what) == spent' = [spent EXCEPT ![what] = @ + 1]
CanFail == spent.faults < MaxFault

-----------------------------------------------------------------------------
Init ==
    /\ stopped = TRUE /\ starting = "no" /\ sk = FALSE
    /\ pipe = Idle
    /\ queue = <<>> /\ job = NoJob
    /\ last = NoKey /\ lastError = FALSE /\ retryTimer = FALSE
    /\ streamUp = FALSE /\ subs = 0 /\ resubs = 0
    /\ refreshers = 0
    /\ lnd = 0 /\ registered = FALSE /\ wire = <<>>
    /\ stored = NoVersion
    /\ missed = FALSE
    /\ spent = [faults |-> 0, starts |-> 0, stops |-> 0, crashes |-> 0, manuals |-> 0]

-----------------------------------------------------------------------------
(* Life cycle: start, begin, stop. *)

\* start() until begin's first await.  Callers await one start before the next.
Start ==
    /\ stopped /\ starting = "no"
    /\ spent.starts < MaxStart /\ Spend("starts")
    /\ stopped' = FALSE /\ starting' = "key"
    /\ UNCHANGED <<sk, working, stream, refreshers, external>>

\* deriveNostrKey answers, or start() fails and the service is stopped again.
KeyDerived ==
    /\ starting = "key"
    /\ \/ sk' = TRUE /\ starting' = "newest" /\ UNCHANGED <<stopped, spent>>
       \/ /\ CanFail /\ Spend("faults")
          /\ stopped' = TRUE /\ starting' = "no" /\ UNCHANGED sk
    /\ UNCHANGED <<working, stream, refreshers, external>>

\* Mutation: subscribe() does not look whether the service was stopped meanwhile.
SubscribeAlways ==
    /\ streamUp' = TRUE /\ subs' = subs + 1
    /\ registered' = FALSE /\ wire' = <<>>

\* subscribe(): nothing on a stopped service; a new subscription replaces closeStream.
Subscribe ==
    IF stopped
    THEN UNCHANGED <<streamUp, subs, registered, wire>>
    ELSE /\ streamUp' = TRUE /\ subs' = subs + 1
         /\ registered' = FALSE /\ wire' = <<>>

\* Mutation: begin() forgets the refresh interval.
BegunWithoutRefresh ==
    /\ starting = "newest"
    /\ starting' = "no"
    /\ queue' = Queued(queue, "startup", NoVersion)
    /\ Subscribe
    /\ UNCHANGED <<stopped, sk, pipe, job, last, lastError, retryTimer, resubs, refreshers,
                   lnd, stored, missed, spent>>

\* newestTimestamp has answered (a failure counts as 0) and the rest of begin() runs.
Begun ==
    /\ starting = "newest"
    /\ starting' = "no"
    /\ queue' = Queued(queue, "startup", NoVersion)
    /\ Subscribe
    /\ refreshers' = refreshers + 1
    /\ UNCHANGED <<stopped, sk, pipe, job, last, lastError, retryTimer, resubs,
                   lnd, stored, missed, spent>>

\* Mutation: stop() does not reset the state.
StopKeepsState ==
    /\ ~stopped
    /\ spent.stops < MaxStop /\ Spend("stops")
    /\ stopped' = TRUE
    /\ streamUp' = FALSE /\ subs' = IF subs > 0 THEN subs - 1 ELSE 0
    /\ registered' = FALSE /\ wire' = <<>>
    /\ resubs' = 0 /\ refreshers' = 0 /\ retryTimer' = FALSE
    /\ job' = IF job.step \in {"hints", "publish"} THEN [job EXCEPT !.interrupted = TRUE] ELSE job
    /\ UNCHANGED <<starting, sk, pipe, queue, last, lastError, lnd, stored, missed>>

\* stop(): timers, subscription and state are reset; the queue is left as it is.
Stop ==
    /\ ~stopped
    /\ spent.stops < MaxStop /\ Spend("stops")
    /\ stopped' = TRUE
    /\ streamUp' = FALSE /\ subs' = IF subs > 0 THEN subs - 1 ELSE 0
    /\ registered' = FALSE /\ wire' = <<>>
    /\ resubs' = 0 /\ refreshers' = 0 /\ retryTimer' = FALSE
    /\ pipe' = [pipe EXCEPT !.state = "IDLE", !.rest = "IDLE"]
    /\ job' = IF job.step \in {"hints", "publish"} THEN [job EXCEPT !.interrupted = TRUE] ELSE job
    /\ UNCHANGED <<starting, sk, queue, last, lastError, lnd, stored, missed>>

\* External: the process dies and is started anew with nothing but the relays' copy.
Crash ==
    /\ spent.crashes < MaxCrash /\ Spend("crashes")
    /\ stopped' = TRUE /\ starting' = "no" /\ sk' = FALSE
    /\ pipe' = Idle
    /\ queue' = <<>> /\ job' = NoJob
    /\ last' = NoKey /\ lastError' = FALSE /\ retryTimer' = FALSE
    /\ streamUp' = FALSE /\ subs' = 0 /\ resubs' = 0 /\ refreshers' = 0
    /\ registered' = FALSE /\ wire' = <<>>
    /\ stored' \in {stored} \cup (IF job.step = "publish" THEN {job.snap} ELSE {})
    /\ UNCHANGED <<lnd, missed>>

-----------------------------------------------------------------------------
(* The subscription. *)

\* External: lnd has accepted the subscription; changes before that are not sent.
Register ==
    /\ subs > 0 /\ ~registered
    /\ registered' = TRUE
    /\ UNCHANGED <<lifecycle, working, stream, refreshers, lnd, wire, stored, missed, spent>>

\* External: a channel opens or closes and a registered subscriber is sent the new set.
ChannelChange ==
    /\ lnd < MaxChange
    /\ lnd' = lnd + 1
    /\ wire' = IF registered THEN Append(wire, lnd + 1) ELSE wire
    /\ missed' = (missed \/ ~registered)
    /\ UNCHANGED <<lifecycle, working, stream, refreshers, registered, stored, spent>>

\* subscribe's first callback: the snapshot is queued as a job.
StreamSnapshot ==
    /\ wire # <<>>
    /\ wire' = Tail(wire)
    /\ queue' = Queued(queue, "stream", Head(wire))
    /\ UNCHANGED <<lifecycle, pipe, job, last, lastError, retryTimer, stream, refreshers,
                   lnd, registered, stored, missed, spent>>

\* subscribe's second callback: the stream has ended, what was in flight is lost.
StreamEnd ==
    /\ subs > 0 /\ CanFail /\ Spend("faults")
    /\ subs' = subs - 1 /\ streamUp' = FALSE
    /\ registered' = FALSE /\ wire' = <<>>
    /\ resubs' = IF stopped THEN resubs ELSE resubs + 1
    /\ UNCHANGED <<lifecycle, working, refreshers, lnd, stored, missed>>

\* Mutation: the timer subscribes and does not export.
ResubscribeOnly ==
    /\ resubs > 0
    /\ resubs' = resubs - 1
    /\ Subscribe
    /\ UNCHANGED <<lifecycle, pipe, queue, job, last, lastError, retryTimer, refreshers,
                   lnd, stored, missed, spent>>

\* The resubscribe timer fires: subscribe and export, for changes during the gap.
Resubscribe ==
    /\ resubs > 0
    /\ resubs' = resubs - 1
    /\ Subscribe
    /\ queue' = Queued(queue, "resubscribe", NoVersion)
    /\ UNCHANGED <<lifecycle, pipe, job, last, lastError, retryTimer, refreshers,
                   lnd, stored, missed, spent>>

-----------------------------------------------------------------------------
(* What else queues a job. *)

Refresh ==
    /\ refreshers > 0 /\ Len(queue) < MaxRefreshQueue
    /\ queue' = Queued(queue, "refresh", NoVersion)
    /\ UNCHANGED <<lifecycle, pipe, job, last, lastError, retryTimer, stream, refreshers,
                   external, spent>>

Retry ==
    /\ retryTimer
    /\ retryTimer' = FALSE
    /\ queue' = Queued(queue, "retry", NoVersion)
    /\ UNCHANGED <<lifecycle, pipe, job, last, lastError, stream, refreshers, external, spent>>

PublishNow ==
    /\ spent.manuals < MaxManual /\ Spend("manuals")
    /\ queue' = Queued(queue, "manual", NoVersion)
    /\ UNCHANGED <<lifecycle, pipe, job, last, lastError, retryTimer, stream, refreshers,
                   external>>

-----------------------------------------------------------------------------
(* A job, await by await. *)

\* Mutation: a snapshot without a backup leaves the state as it is.
TakeSnapshotWithoutReset(reason, v) ==
    LET p == To(pipe, "BACKING_UP") IN
    /\ pipe' = p
    /\ job' = IF v \in NoBlob \/ ~sk
              THEN NoJob
              ELSE [NoJob EXCEPT !.reason = reason, !.snap = v, !.step = "hints"]

\* publishSnapshot until it awaits the peer hints.
TakeSnapshot(reason, v) ==
    LET p == To(pipe, "BACKING_UP") IN
    IF v \in NoBlob \/ ~sk
    THEN pipe' = To(p, p.rest) /\ job' = NoJob
    ELSE /\ pipe' = p
         /\ job' = [NoJob EXCEPT !.reason = reason, !.snap = v, !.step = "hints"]

\* Mutation: the failure is recorded and no retry is armed.
FailForGood(p) ==
    /\ job' = NoJob
    /\ lastError' = TRUE
    /\ pipe' = To(p, "FAILED") /\ UNCHANGED retryTimer

\* fail(): recorded; a running service has one retry armed afterwards.
Fail(p) ==
    LET failed == To(p, "FAILED") IN
    /\ job' = NoJob
    /\ lastError' = TRUE
    /\ IF stopped \/ retryTimer
       THEN pipe' = failed /\ UNCHANGED retryTimer
       ELSE pipe' = To(failed, "RECOVERING") /\ retryTimer' = TRUE

\* The promise chain reaches the next job.
NextJob ==
    /\ job = NoJob /\ queue # <<>>
    /\ queue' = Tail(queue)
    /\ LET j == Head(queue) IN
       IF j.reason = "stream"
       THEN TakeSnapshot(j.reason, j.snap)
       ELSE job' = [NoJob EXCEPT !.reason = j.reason, !.step = "export"] /\ UNCHANGED pipe
    /\ UNCHANGED <<lifecycle, last, lastError, retryTimer, stream, refreshers, external, spent>>

\* exportBackup answers with the node's current set, or fails.
Exported ==
    /\ job.step = "export"
    /\ \/ /\ TakeSnapshot(job.reason, lnd)
          /\ missed' = FALSE
          /\ UNCHANGED <<lastError, retryTimer, spent>>
       \/ /\ CanFail /\ Spend("faults")
          /\ Fail(pipe)
          /\ UNCHANGED missed
    /\ UNCHANGED <<lifecycle, queue, last, stream, refreshers, lnd, registered, wire, stored>>

\* channelPeerHints answers (a failure means no hints) and the job runs to the publish.
HintsRead ==
    /\ job.step = "hints"
    /\ \E hints \in BOOLEAN :
        /\ IF hints THEN UNCHANGED spent ELSE CanFail /\ Spend("faults")
        /\ LET key == Key(job.snap, hints)
               encrypting == To(pipe, "ENCRYPTING")
           IN  \/ /\ job.reason \notin Forced /\ key = last
                  /\ pipe' = To(pipe, pipe.rest) /\ job' = NoJob
                  /\ UNCHANGED <<lastError, retryTimer>>
               \/ /\ job.reason \in Forced \/ key # last
                  /\ job.snap \in TooBig
                  /\ Fail(encrypting)
               \/ /\ job.reason \in Forced \/ key # last
                  /\ job.snap \notin TooBig
                  /\ pipe' = To(encrypting, "PUBLISHING")
                  /\ job' = [job EXCEPT !.step = "publish", !.key = key]
                  /\ UNCHANGED <<lastError, retryTimer>>
    /\ UNCHANGED <<lifecycle, queue, last, stream, refreshers, external>>

\* Mutation: a publish no relay acknowledged counts as one some relays refused.
PublishedByNone ==
    /\ job.step = "publish"
    /\ \E acks \in {"all", "some", "none"} :
        /\ IF acks = "all" THEN UNCHANGED spent ELSE CanFail /\ Spend("faults")
        /\ stored' = IF acks = "none" THEN stored ELSE job.snap
        /\ last' = job.key /\ lastError' = FALSE /\ retryTimer' = FALSE
        /\ pipe' = To(pipe, IF acks = "all" THEN "SUCCESS" ELSE "DEGRADED")
        /\ job' = NoJob
    /\ UNCHANGED <<lifecycle, queue, stream, refreshers, lnd, registered, wire, missed>>

\* The relays have answered: all, some or none acknowledged; a lost answer may be stored.
Published ==
    /\ job.step = "publish"
    /\ \/ \E all \in BOOLEAN :
            /\ IF all THEN UNCHANGED spent ELSE CanFail /\ Spend("faults")
            /\ stored' = job.snap
            /\ last' = job.key /\ lastError' = FALSE /\ retryTimer' = FALSE
            /\ pipe' = To(pipe, IF all THEN "SUCCESS" ELSE "DEGRADED")
            /\ job' = NoJob
       \/ /\ CanFail /\ Spend("faults")
          /\ stored' \in {stored, job.snap}
          /\ Fail(pipe)
          /\ UNCHANGED last
    /\ UNCHANGED <<lifecycle, queue, stream, refreshers, lnd, registered, wire, missed>>

-----------------------------------------------------------------------------
(* The monitor reports its verification. *)

BeginVerify ==
    /\ pipe.state \in {"SUCCESS", "DEGRADED"}
    /\ pipe' = To(pipe, "VERIFYING")
    /\ UNCHANGED <<lifecycle, queue, job, last, lastError, retryTimer, stream, refreshers,
                   external, spent>>

EndVerify ==
    /\ pipe.state = "VERIFYING"
    /\ \E verdict \in {"SUCCESS", "DEGRADED", "FAILED"} : pipe' = To(pipe, verdict)
    /\ UNCHANGED <<lifecycle, queue, job, last, lastError, retryTimer, stream, refreshers,
                   external, spent>>

-----------------------------------------------------------------------------
Next ==
    \/ Start \/ KeyDerived \/ Begun \/ Stop \/ Crash
    \/ Register \/ ChannelChange \/ StreamSnapshot \/ StreamEnd \/ Resubscribe
    \/ Refresh \/ Retry \/ PublishNow
    \/ NextJob \/ Exported \/ HintsRead \/ Published
    \/ BeginVerify \/ EndVerify

Spec == Init /\ [][Next]_vars

\* Awaits settle (calls and publishes time out), timers fire, callbacks are delivered,
\* and the operator or systemd starts the service.  Of the refresh, which fires every six
\* hours, nothing is assumed.
Fairness ==
    /\ WF_vars(Start) /\ WF_vars(KeyDerived) /\ WF_vars(Begun)
    /\ WF_vars(Register) /\ WF_vars(StreamSnapshot) /\ WF_vars(Resubscribe)
    /\ WF_vars(Retry)
    /\ WF_vars(NextJob) /\ WF_vars(Exported) /\ WF_vars(HintsRead) /\ WF_vars(Published)

FairSpec == Spec /\ Fairness
-----------------------------------------------------------------------------
(* Properties *)

Pipe   == [state : States, rest : Resting, invalid : Nat]
AnyKey == [cp : Nat \cup {NoVersion}, hints : BOOLEAN]
Job    == {j \in [reason : Reasons \cup {"none"}, snap : Versions \cup {NoVersion},
                  step : {"none", "export", "hints", "publish"}, key : AnyKey,
                  interrupted : BOOLEAN] :
             /\ j.step \in {"hints", "publish"} => j.snap \in Versions
             /\ j.step = "publish" => j.key # NoKey}

FlagsOK ==
    /\ stopped \in BOOLEAN /\ sk \in BOOLEAN /\ lastError \in BOOLEAN
    /\ retryTimer \in BOOLEAN /\ streamUp \in BOOLEAN /\ registered \in BOOLEAN
    /\ missed \in BOOLEAN

DataOK ==
    /\ starting \in {"no", "key", "newest"}
    /\ pipe \in Pipe
    /\ queue \in Seq(Entry)
    /\ job \in Job
    /\ last \in AnyKey
    /\ subs \in Nat /\ resubs \in Nat /\ refreshers \in Nat
    /\ lnd \in Versions /\ wire \in Seq(Versions)
    /\ stored \in Versions \cup {NoVersion}
    /\ spent \in [faults : Nat, starts : Nat, stops : Nat, crashes : Nat, manuals : Nat]

\* Every variable keeps its type: the queue holds jobs, a stream job a snapshot, and no count
\* of subscriptions or timers goes below zero (subscribe, stop, publishSnapshot, setState).
TypeOK == FlagsOK /\ DataOK

Running == ~stopped /\ starting = "no"

\* A running service has exactly one live subscription or one timer about to open it, any
\* other none, and "stream connected" is shown exactly while one is live: neither a stream
\* that ends, a stop nor a failed start loses or doubles it (subscribe, stop, begin).
OneSubscription ==
    /\ subs + resubs = IF Running THEN 1 ELSE 0
    /\ streamUp <=> subs = 1

\* The state machine shows a job at work only while one is: however jobs fail, change nothing
\* or are overtaken by stop(), none leaves BACKING_UP, ENCRYPTING or PUBLISHING behind.
NeverStuckWorking == pipe.state \in Working => job.step \in {"hints", "publish"}

\* "RECOVERING (a retry is scheduled)": the retry timer is armed or a job is on its way,
\* whatever cleared the timer (a stop, another job's success, its own firing).
RecoveryIsScheduled == pipe.state = "RECOVERING" => retryTimer \/ Busy

\* SUCCESS, DEGRADED and VERIFYING are shown only once this process has had a publish
\* acknowledged, so after a restart an unchanged state is never read as a backup made.
SuccessWasPublished ==
    pipe.state \in {"SUCCESS", "DEGRADED", "VERIFYING"} => last # NoKey /\ stored # NoVersion

\* canTransition refuses a transition only in a job that stop() overtook; work being
\* serialised, jobs, verifications and failures never collide by themselves.
RefusedOnlyWhenInterrupted ==
    [][pipe'.invalid > pipe.invalid => job.interrupted]_vars

\* Nothing left to do but wait for lnd's next change or the refresh.
Quiet ==
    Running /\ ~Busy /\ ~retryTimer /\ resubs = 0 /\ registered /\ wire = <<>>

Current ==
    lnd \notin NoBlob => stored # NoVersion /\ Fingerprint[stored] = Fingerprint[lnd]

\* A failure is still shown, and the retry that would make it good may be gone: stop() took it,
\* or it met a set without a backup and gave up.
RetryMayBeGone == lastError /\ (spent.stops > 0 \/ NoBlob # {})

\* When the service has come to rest the relays hold the node's current channel set, unless a
\* change fell where neither the stream nor an export saw it, or a failure is shown whose retry
\* may be gone: across retries, stream ends, restarts, crashes, lost acknowledgements, stale
\* snapshots and sets that return to an earlier one.
QuietIsCurrent == Quiet /\ ~missed /\ ~RetryMayBeGone => Current

\* The comment on BackupService: it "re-exports after the stream reconnects (changes during the
\* gap would otherwise be missed)".  So a service whose stream has ended and been reopened, and
\* which has come to rest, has the node's set on the relays, also if it changed meanwhile.
GapsAreCovered == [](resubs > 0 => [](Quiet => Current))

\* A failure that is shown is made good: a running service publishes after it.
ErrorClears == lastError /\ Running ~> ~lastError \/ ~Running

\* A service that stays up gets the node's channel set to the relays, by retries and
\* re-exports alone, unless a change was missed.
EventuallyCurrent == <>[]Running => <>[](Current \/ missed)

\* With a refresh that keeps firing, a service that stays up does so in every case, changes
\* missed by stream and export included.
RefreshMakesCurrent == WF_vars(Refresh) => (<>[]Running => <>[]Current)
=============================================================================

-------------------------------- MODULE Routes --------------------------------
(***************************************************************************)
(* The routes of the console that change something, src/web.ts, but for    *)
(* the drill's (Console): the set of relays, the public relay test, and    *)
(* the two that make the monitor verify and publish.  They are composed    *)
(* with what they change: RelaySet, RelayTest, and the jobs by which the   *)
(* service brings the backup to the relays of the set.                     *)
(*                                                                         *)
(* A request is where it is waiting; its content is chosen when its body   *)
(* has been read.  Every await is a boundary.  A request that is answered  *)
(* at once and changes nothing (a blocked or unknown one, one without the  *)
(* token, a GET) does not appear.  Of the service, whose life is the       *)
(* subject of BackupService, only forced jobs and the relays they reach    *)
(* are seen here: the node has channels, and they do not change.           *)
(***************************************************************************)
EXTENDS RelaySet, RelayTest

CONSTANTS
    Client,      \* who sends requests, one at a time each
    Inputs,      \* what they type
    Workloads,   \* bound: the kinds of requests that occur together
    MaxRequest,  \* bound: requests
    MaxFault     \* bound: failures of lnd and of relays

ASSUME RoutesAssumption ==
    /\ Client \subseteq Tester /\ Inputs \subseteq Input
    /\ Client \cap {"start", "change", "retry", "refresh", "nobody"} = {}
    /\ MaxRequest \in Nat /\ MaxFault \in Nat /\ Workloads # {}

VARIABLES
    monitored,      \* the console has a monitor
    workload,       \* the kinds of requests it gets
    list,           \* RelaySet's entries
    request,        \* client -> where its request is
    relayTestBusy,
    confirmed,      \* history: addresses that were added with a confirmation
    queue,          \* the service's jobs, each by who asked for it
    job,            \* the one that is publishing, and to which relays
    retryTimer,
    held,           \* external: relays that hold the backup
    missed,         \* history: those that a publish did not reach, or that lost it since
    sent, faults    \* the bounds used so far

setting   == <<monitored, workload>>
requests  == <<request, relayTestBusy, sent>>
relays    == <<list, confirmed>>
service   == <<queue, job, retryTimer>>
copies    == <<held, missed>>
routeVars == <<setting, requests, relays, service, copies, faults, test>>

Waiting == {"none", "relays", "check", "test body", "testing", "publish"}

Others == {"start", "change", "retry", "refresh"}

NoJob == [for |-> "nobody", targets |-> {}]

RoutesInit ==
    /\ monitored \in BOOLEAN /\ workload \in Workloads
    /\ list = InitialList /\ confirmed = {}
    /\ request = [c \in Client |-> "none"] /\ relayTestBusy = FALSE /\ sent = 0
    /\ queue = IF monitored THEN <<"start">> ELSE <<>>
    /\ job = NoJob /\ retryTimer = FALSE
    /\ held = {} /\ missed = {} /\ faults = 0
    /\ TestInit

Fault == faults < MaxFault /\ faults' = faults + 1

-----------------------------------------------------------------------------
(* Requests *)

Moves(c, from, to) == request[c] = from /\ request' = [request EXCEPT ![c] = to]

\* A request that has passed the guards: publishNow() is queued, a verification asked for, or
\* the body is awaited.
Arrives(c) ==
    /\ sent < MaxRequest /\ sent' = sent + 1
    /\ \E kind \in workload :
        /\ kind \in {"test body", "relays", "check", "publish"}
        /\ monitored \/ kind = "test body"
        /\ Moves(c, "none", kind)
        /\ queue' = IF kind = "publish" THEN Append(queue, c) ELSE queue
    /\ UNCHANGED <<setting, relayTestBusy, relays, job, retryTimer, copies, faults, test>>

\* 415, 413 and 400: no JSON, too much of it, no object, fields of another shape, an unknown
\* action, an address that is refused, a confirmation that is missing; or the time is up.
BodyRefused(c) ==
    /\ Moves(c, "relays", "none") \/ Moves(c, "test body", "none")
    /\ UNCHANGED <<setting, relayTestBusy, sent, relays, service, copies, faults, test>>

\* Mutation: nobody is told that the set has changed.
ChangedSilently == UNCHANGED queue

\* changed(): the monitor listens and publishes to the set.
Changed == queue' = Append(queue, "change")

\* What the routes of the set have in common.
Edits(c) ==
    /\ Moves(c, "relays", "none")
    /\ UNCHANGED <<setting, relayTestBusy, sent, job, retryTimer, copies, faults, test>>

\* Mutation: no relay asks for a confirmation.
AddRelayUnasked(c) ==
    /\ Edits(c)
    /\ \E input \in Inputs :
        /\ CanAdd(list, input)
        /\ list' = Added(list, input)
    /\ UNCHANGED confirmed
    /\ Changed

\* action "add": a relay that is not on this machine needs a confirmation.
AddRelay(c) ==
    /\ Edits(c)
    /\ \E input \in Inputs, confirm \in BOOLEAN :
        /\ CanAdd(list, input)
        /\ Norm(input) \in Loopback \/ confirm
        /\ list' = Added(list, input)
        /\ confirmed' = IF confirm THEN confirmed \cup {Norm(input)} ELSE confirmed
    /\ Changed

\* action "remove"
RemoveRelay(c) ==
    /\ Edits(c)
    /\ \E input \in Inputs : \E e \in Found(list, input) :
        MayDrop(list, e) /\ list' = list \ {e}
    /\ Changed
    /\ UNCHANGED confirmed

\* Actions "enable" and "disable" of a relay that is not; of one that is, nothing happens.
SwitchRelay(c) ==
    /\ Edits(c)
    /\ \E input \in Inputs : \E e \in Found(list, input) :
        MayDrop(list, e) /\ list' = Switched(list, e)
    /\ Changed
    /\ UNCHANGED confirmed

\* action "test"
ProbeRelay(c) ==
    /\ Moves(c, "relays", "check")
    /\ UNCHANGED <<setting, relayTestBusy, sent, relays, service, copies, faults, test>>

\* A probe or a verification ends by itself, with a result or without.
CheckEnds(c) ==
    /\ Moves(c, "check", "none")
    /\ UNCHANGED <<setting, relayTestBusy, sent, relays, service, copies, faults, test>>

\* POST /api/relays/test-public, confirmed: 409 while another test is running.
TestRelay(c) ==
    /\ IF relayTestBusy
       THEN Moves(c, "test body", "none") /\ UNCHANGED <<relayTestBusy, test>>
       ELSE Moves(c, "test body", "testing") /\ relayTestBusy' = TRUE /\ BeginTest(c)
    /\ UNCHANGED <<setting, sent, relays, service, copies, faults>>

\* Mutation: the flag is given back once the relay has taken the event.
RelayTestedPublished(c) ==
    /\ Moves(c, "testing", "none")
    /\ relayTestBusy' = ~test[c].published
    /\ TestOver(c)
    /\ UNCHANGED <<setting, sent, relays, service, copies, faults>>

\* finally: the flag is given back and the result is the answer.
RelayTested(c) ==
    /\ Moves(c, "testing", "none")
    /\ relayTestBusy' = FALSE
    /\ TestOver(c)
    /\ UNCHANGED <<setting, sent, relays, service, copies, faults>>

Testing(c) ==
    /\ request[c] = "testing"
    /\ TestStep(c)
    /\ UNCHANGED <<setting, requests, relays, service, copies, faults>>

-----------------------------------------------------------------------------
(* The service's jobs, one at a time. *)

\* The answer to the request that asked for a job, 200 or 502.
AnswerFor(who) ==
    request' = [c \in Client |-> IF c = who THEN "none" ELSE request[c]]

\* exportBackup fails: the job does, and a retry is armed.
ExportFails ==
    /\ job = NoJob /\ queue # <<>>
    /\ Fault
    /\ queue' = Tail(queue) /\ retryTimer' = TRUE
    /\ AnswerFor(Head(queue))
    /\ UNCHANGED <<setting, relayTestBusy, sent, relays, job, copies, test>>

\* The export is there: the backup is sent to the relays that are enabled now.
Publishes ==
    /\ job = NoJob /\ queue # <<>>
    /\ job' = [for |-> Head(queue), targets |-> Active(list)]
    /\ queue' = Tail(queue)
    /\ UNCHANGED <<setting, requests, relays, retryTimer, copies, faults, test>>

\* All have answered: one acknowledgement is a success, and no retry is due any more.
Published ==
    /\ job # NoJob
    /\ \E acks \in SUBSET job.targets :
        /\ IF acks = job.targets THEN UNCHANGED faults ELSE Fault
        /\ retryTimer' = (acks = {})
        /\ held' = held \cup acks
        /\ missed' = (missed \ acks) \cup (job.targets \ acks)
    /\ job' = NoJob
    /\ AnswerFor(job.for)
    /\ UNCHANGED <<setting, relayTestBusy, sent, relays, queue, test>>

Retry ==
    /\ retryTimer /\ retryTimer' = FALSE
    /\ queue' = Append(queue, "retry")
    /\ UNCHANGED <<setting, requests, relays, job, copies, faults, test>>

\* Mutation: the refresh is for a service that has not succeeded.
RefreshAfterFailure ==
    /\ monitored /\ retryTimer
    /\ job.for # "refresh" /\ \A i \in DOMAIN queue : queue[i] # "refresh"
    /\ queue' = Append(queue, "refresh")
    /\ UNCHANGED <<setting, requests, relays, job, retryTimer, copies, faults, test>>

\* The refresh timer, every six hours: the last one has been done by then.
Refresh ==
    /\ monitored
    /\ job.for # "refresh" /\ \A i \in DOMAIN queue : queue[i] # "refresh"
    /\ queue' = Append(queue, "refresh")
    /\ UNCHANGED <<setting, requests, relays, job, retryTimer, copies, faults, test>>

\* External: a relay loses what it holds.
Forgets ==
    /\ Fault
    /\ \E r \in held : held' = held \ {r} /\ missed' = missed \cup {r}
    /\ UNCHANGED <<setting, requests, relays, service, test>>

-----------------------------------------------------------------------------
\* What a request may be waiting for, but for the job it has queued.
GoesOn(c) ==
    \/ BodyRefused(c) \/ AddRelay(c) \/ RemoveRelay(c) \/ SwitchRelay(c) \/ ProbeRelay(c)
    \/ CheckEnds(c) \/ TestRelay(c) \/ Testing(c) \/ RelayTested(c)

\* The jobs, one after the other, and the timers.
ServiceGoesOn == ExportFails \/ Publishes \/ Published \/ Retry \/ Refresh

RoutesNext == (\E c \in Client : Arrives(c) \/ GoesOn(c)) \/ ServiceGoesOn \/ Forgets

-----------------------------------------------------------------------------
(* Properties *)

RoutesTypeOK ==
    /\ monitored \in BOOLEAN /\ workload \in Workloads
    /\ relayTestBusy \in BOOLEAN /\ retryTimer \in BOOLEAN
    /\ list \subseteq Entry /\ confirmed \subseteq Url
    /\ request \in [Client -> Waiting]
    /\ queue \in Seq(Client \cup Others)
    /\ job \in [for : Client \cup Others \cup {"nobody"}, targets : SUBSET Url]
    /\ held \subseteq Url /\ missed \subseteq Url
    /\ sent \in Nat /\ faults \in Nat
    /\ test \in [Tester -> Test]

\* Whatever requests come in whatever order, a relay stays enabled ("at least one relay always
\* stays enabled"), none is there twice, of which one could be disabled and the other published
\* to, and there are no more than the cap.
SetStaysUsable ==
    /\ Active(list) # {}
    /\ \A e, f \in list : e.url = f.url => e = f
    /\ Cardinality(list) <= MaxRelays

\* "Continue only if you trust it": a relay that is not on this machine is in the set because
\* the operator configured it or confirmed that it is one.
PublicIsConfirmed == Urls(list) \subseteq Loopback \cup Configured \cup confirmed

\* "A relay added or enabled at runtime should receive the current backup": when the service has
\* come to rest, every enabled relay holds it, also if the set changed while a job was at work;
\* but for the relays that a publish did not reach or that lost it since.
ActiveIsServed ==
    monitored /\ queue = <<>> /\ job = NoJob /\ ~retryTimer => Active(list) \subseteq held \cup missed

=============================================================================

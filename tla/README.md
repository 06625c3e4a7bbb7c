# A TLA+ model of Lifeboat

Lifeboat keeps the newest static channel backup of an lnd node on Nostr relays,
encrypted to a key derived from the node's seed, verifies it there, and restores
it on a new node. These modules model that code as it is in `src/`: how backups
are published, dated and kept, how they are selected, verified and restored, how
the monitor drives it all, how the web console runs the recovery drill and changes the
set of relays, and what the programs do from their start to their exit.

* `BackupService.tla`, `RelayStore.tla`, `Selection.tla`, `Verification.tla`,
  `Restore.tla`, `Monitor.tla`, `Security.tla`, `LndClient.tla`, `Console.tla`,
  `RelaySet.tla`, `RelayTest.tla`, `Routes.tla`, `Programs.tla`: the components.
* `Exclusive.tla`, `Subscription.tla`: abstract specifications, of a resource that one user at
  a time may hold, and of a stream of messages that ends once.
* `MC*.tla` and `*.cfg`: instances for TLC. Every run has a cfg of its own name.
* `*_proofs.tla`: theorems, checked by TLAPS.

Definitions keep the source's names where they can. A definition whose comment
starts with "Mutation" is a plausible bug in the definition below it; it is used
by nothing, and shows on demand that a property depends on that code.

## The system

| Part | Source | State it keeps | Operations | Hard to get right |
| --- | --- | --- | --- | --- |
| Backup service | `backup.ts` | life cycle, subscription, promise chain of jobs, `last`, `lastTs`, retry timer, the pipeline's state | `start`, `stop`, `publishNow`, stream callbacks, timers, `beginVerify`, `endVerify` | stop between two awaits; changes between export and subscription; state left behind by a failing or empty job |
| Publishing | `backup.ts`, `nostr.ts`, `relay.ts` | `lastTs`; at each relay the newest event | `newestOwnTimestamp`, `publishBackup`, a relay's replacement | leftovers dated ahead, lost acknowledgements, clocks that are set |
| Selection | `nostr.ts` | none | `pickNewestDecryptable` | copies, ties, dates in the future, unreadable events |
| Verification | `backup.ts`, `nostr.ts` | answers of relays and lnd | `verifyBackup`, `probeRelayFilter` | relays that fail half way, lie or hang; what may be called verified |
| Restore | `backup.ts`, `nostr.ts` | none | `restoreFromNostr` | what a part of the relays holds after a partial publish |
| Monitor | `monitor.ts` | life cycle, the run in flight, timers, `healing`, the picture of the node | `start`, `stop`, `verifyNow`, `snapshot`, callbacks | single flight against publishes; preempted runs; self-healing that fails |
| Relay set | `relays.ts` | the list of relays | `add`, `remove`, `setEnabled` | changes while jobs are under way |
| lnd client | `lnd.ts` | sockets | `call`, `stream` | settling once; noticing the end of a stream |
| Drill | `drill.ts`, `drill-parse.ts` | claim, events of a run | `tryClaim`, `run`, `shutdown` | two requests at once; crashes |
| Event stream | `sse.ts` | clients | `add`, `broadcast`, `closeAll` | joining in mid-run; slow clients |
| Console | `web.ts`, `errors.ts` | token, counters, `relayTestBusy` | the HTTP routes | answers and events in any order; two tests at once; a change of the set while jobs run |
| Landing page | `web/index.html` | what it shows, its button | `handle`, the click | reconnecting, stale status |
| Security checks | `security.ts` | none | `assess` | calling something "pass" too early |
| Payload, keys, config | `payload.ts`, `keys.ts`, `config.ts` | none | encoding, derivation, parsing | limits that writer and reader do not share |
| Relay test | `relay-test.ts` | none; at the relay its dummy event | `publicRelayTest` | breaking off between the dummy and its deletion |
| Programs | `serve.ts`, `cli.ts` | what they have asked and done; bake's file | the commands, the console, signals | touching a node before its network is known |
| Scripts | `playground*.ts`, `demo*.ts`, `e2e.ts`, `regtest.ts` | none | scripts over docker | straight line |

The console and the CLI call the monitor and the service. The monitor owns one
backup service, which calls it back on every publish and takes its verdicts. The
service calls lnd, is called back by lnd's stream, and publishes through
`nostr.ts` to the relays, which verification and restore read with the same
selection. The relay set is shared by all of them and calls the monitor back on a
change. The drill runner calls the console's broadcaster for each event. All of it
runs in one JavaScript thread: what interleaves is what lies between two awaits.
Nothing is persisted; the only durable state is what the relays hold.

## Modules

**BackupService** has one action per await of `src/backup.ts`. `queue` and `job`
are the promise chain of `exec`: `NextJob` takes the next job, `Exported`,
`HintsRead` and `Published` are the answers to its awaits (`exportBackup`,
`channelPeerHints`, `publish`), each with its failures. `pipe` is the state
machine with `ALLOWED`, `rest` and the counter of refused transitions. `subs` and
`resubs` are live subscriptions and timers to reopen one; `registered` and `wire`
are lnd's end of it, which sends only what changes after lnd accepted it. A backup
is its version of the node's channel set; `Fingerprint` says which versions have
equal sets, so that sets may return to an earlier one. `stored` is the version
in the newest event on the relays. `interrupted` and `missed` are history: a job
that stop() overtook, and a change which neither an export nor the stream has shown.

**RelayStore** is the part the first module abstracts: `lastTs`, the question
asked at the start, one publish relay by relay, and a relay's rule for which of two
events it keeps. Relays acknowledge what they ignore, refuse, do not answer, or
take an event without the answer arriving. The clock takes any value at any time.

**Selection** is `pickNewestDecryptable` as operators over events reduced to
`id`, `own`, `at`, `usable`, `set`: the loop over the sorted events is told by the
positions at which it returns, falls back and skips. It is used by **Verification** and by
**Restore**.

**Verification** is one run of `verifyBackup`. Each probe is a connection with its handlers and
its timer, which race: `Opened`, `EventFrame`, `Eose`, `ClosedFrame`, `Breaks`, `TimesOut`. The
last four end in `Finish`, which looks at nothing but whether the probe has ended before. The
run itself waits for all probes and for lnd (`Conclude`).

**Restore** composes `restoreFromNostr` with the relays as RelayStore leaves them. `imported` is
history: lnd has not imported, has without our hearing of it, or has confirmed it.

**Monitor** extends BackupService: its actions are the service's, with the
callbacks into the monitor added to the same step, and the monitor's own. `run` is
the run in flight with what it has read, `waiters` whether callers wait for it
because a publish overtook it. A change of the relays leaves any older backup, or
none, on the new set. A run is taken to begin in another millisecond than a publish
ends; the code compares `>=`, so that in the same one it would share the run.

**Security** is `assess` over Monitor's states, each check reduced to its status. What
the monitor does not know, such as the macaroon's rights or the age of a publish, is
an environment; the instance takes one with nothing to report and others in which one
thing deviates.

**LndClient** is one request of `lnd.ts`: a call, or a stream with its line buffer. The
handlers that may end it are actions, the server and node's http module their
environment: chunks of any size, a refusal, a body that breaks off with a reset
(an error on the request and on the answer) or without (on the answer only).

**Console** composes `DrillRunner`, `Broadcaster`, the routes that start and show
a drill and the pages that follow it. An event is its type and its run. A page's
answers and its events travel separately.

**RelaySet** is `relays.ts` with `parseRelays` as operators on a set of entries: each
operation by its conditions and its result. An input is told apart by what the code makes
of it: the addresses it names, and whether it is a single neat one.

**RelayTest** is `publicRelayTest`, one action per await, against a relay that may do
anything with the dummy event: not keep what it acknowledges, keep what it refuses, send
back a broken copy, ignore the deletion or the last look.

**Routes** composes the two with the console's routes that change something (but for the
drill's, which are in Console) and with the jobs by which the service brings the backup to
the set. A request is where it is waiting. Of the service only what is queued, to whom a
job publishes, and the timers are seen; how jobs work is BackupService's subject.
`missed` is history: relays that a publish did not reach or that lost what they held.

**Programs** extends Routes by `main` of `cli.ts` and `serve.ts`: `at` is the await a
program is in, `known` the network it takes its node to be on, `did` what it has brought
about, `code` its exit code. `validateConfig` is a flag of the environment,
`assertNetworkAllowed` is `Allowed`. Every await may fail. A signal ends a program at any
moment and takes what is in memory with it (`Gone`), while a publish under way may still
reach relays. `serve` runs Routes while it is serving. The drill is left out here.

**Exclusive** is what `relayTestBusy` promises: nobody gets the resource before it was given
back, and it is given back. Programs implements it (`TestsTakeTurns`): the users are the
requests that are testing, `free` is the negated flag, and a signal is a release.

**Subscription** is what BackupService counts on when it subscribes to a node's backups:
messages in their order, none left out before the end and none after it, and one end, which
is reported unless the subscriber has closed the stream himself. LndClient implements it (`Subscribed`):
`toCome` are the messages of the lines that lnd has yet to complete, `state` is read off the
flag and who raised it. The condition is `NoLineIsRejected`: after a line that is no message
the code reports the end, leaves the connection open and goes on handing on.

## Runs

| Run | Shows | Bounds |
| --- | --- | --- |
| `service_safety` | subscription, retries and state stay coherent under every order of starts, stops, failures, lost acknowledgements, stream ends and verifications, and at rest the relays are current | a set without a backup, then three changes between one set and another; two faults, two starts, a stop, one manual publish |
| `service_live` | retries and re-exports alone make the relays current and clear errors; with a refresh that fires also what nobody saw gets there | the set changes and returns; two faults, one of which may be a lost acknowledgement; a crash; refreshes |
| `service_gap` | *violated*: a service whose stream has ended and been reopened has missed a change all the same | one change, one fault |
| `verify` | selection, verdicts, and that a verification ends with the timeouts alone to count on | two relays, two of eight events each: older, newer, equal date, at the edge of the skew, two beyond it, unreadable, foreign |
| `restore` | acknowledged backups are kept, and a restore never goes back behind one and reports an import that lnd has confirmed | two relays with leftovers from the past and the future, two publishes, two processes, a switch, a fault, one round of redialing |
| `restore_shadowed` | *violated*: a leftover dated ahead makes a restore take an older backup | the same with two rounds |
| `monitor` | verification, publishing, relay changes and self-healing together | one change, a fault, a stop, one manual publish or relay change |
| `monitor_live` | every publish is verified; missed changes are healed without the refresh; the security checks show what is still to be done | one change, a fault |
| `lnd_client` | a call settles, a stream hands on its lines and reports its end once | three lines of two messages, malformed or empty, cut anywhere |
| `programs` | the network is meant before anything is done, the set of relays stays usable and is served, relay tests take turns and report what they leave, every enabled relay catches up | every command and the console in every environment that tells something apart; two clients with two requests in all, three addresses and a list, a cap of two relays; a failure of lnd or of a relay; a signal at any moment |
| `mainnet_guard` | *violated*: a program may touch mainnet although nobody allowed it | the same, for a console on such a node |
| `console` | one drill at a time; pages follow it exactly, no button is lost, and each comes back | two pages, two runs, one stream client, two events of buffer, a broken connection, docker down for one request and in any status |

The run `monitor` does not distinguish states (`VIEW`) by the last verification's result
and by a history variable, on which no step and no property of it depends.

In `programs` a console meets requests about the set together with checks and publishes,
or relay tests together with publishes (`Workloads`), since tests and the set have nothing
in common but the clients: the product would only multiply what is seen. `MaxRequest` and
`MaxFault` bound the requests and the failures, not what they do.

The bounds are small because the hazards need few actors: each property is
violated by a mutation within them, and most by a trace of ten to twenty steps. Two
relays are enough for what one holds and another does not; two faults let one
happen while the other is being made good; one change in flight is enough to be
missed, two to return to an earlier set. Where a run has fewer of something, another
has more: stop is left to the safety runs, since liveness is claimed only of a
service that stays up.

Deadlock is not checked: with its bounds used up the environment may stop, and a
service, a restore, a verification and a program end.

The type invariants of BackupService, RelayStore, Monitor and Programs are not checked again
by these runs: they are proved. Neither is `MonitorIsWatching`, which is proved too.

## Fairness

Weak fairness, and only of what the code's timers guarantee: lnd calls end by an
answer or a 30 s timeout, probes and publishes have timeouts, Node fires armed
timers and runs queued promises, callbacks are delivered, and a supervisor starts
the process. Failures, stops, crashes, channel changes and clicks are never fair.
Of the refresh nothing is assumed in `service_live`, and it never fires in
`monitor_live` (`MaxRefreshQueue = 0`), to show that it is not what they rest on;
`RefreshMakesCurrent` names it as its own assumption. In `lnd_client` only the timer
of a call is fair. In `verify` only the timers of the probes, the end of lnd's call and
the step that follows them all are fair: relays need not connect, answer or break off.
`service_gap` has the fairness of `service_live`, so that the change is not just late there.
`restore` states no liveness.

In `programs` there are two assumptions. A program goes on, and so does some request: each
await in them has a time limit (`lnd.ts:66`, the timeouts of `publishBackup` and
`probeRelayFilter`, the body's in `web.ts`). And the service goes on: its jobs end likewise
and node fires its timers, the refresh among them, on which `RelaysCatchUp` rests. The
refresh comes every six hours, so that it is taken to be armed again only when the last one
has been done. Requests, clicks and signals are never fair.

## What is proved

For every value of the constants, without the bounds TLC needs:

* `BackupService_proofs`: type correctness (`TypeCorrect`), and then, in the order
  in which they build on each other, `WorkEnds`, `NoCollision`, `RecoveryHasARetry`,
  `SubscribedOnce`, `SuccessIsVouchedFor` and `RestingIsCurrent`, the properties of
  `service_safety`. The strengthening most of them share is `Phase`: at each step of a job
  the pipeline is in that step's state, or stop() has interrupted the job. Without it
  nothing is known of the state a job finds when it ends. `Vouched` adds that `rest`
  itself is a success only after a publish, since an unchanged job returns to it.
  `RestingIsCurrent` needs the node's set followed from lnd to the relays: `Following` says
  that the last snapshot on the wire, else the last in the queue, else the one of the job,
  is the current one, that a job publishes under its snapshot's key, that `last` names what
  is stored (`LastIsStored`), and that a set for which this does not hold has a forced job or
  a retry to come. The step to rest itself needs of `last` only `StoredOrForced`, that it
  names what is stored or a forced job is still to come; that is also true under a monitor.

* `Restore_proofs`: type correctness and `AcknowledgedIsHeld` for the publisher alone. The
  invariant is `StoreInv`: versions are numbered as they are published, the event being sent
  is dated after everything this process knows of, and what an answering relay holds is
  not dated after `lastTs` or the event in flight, except by events whose
  acknowledgement was lost, which `lost` bounds. A restore's steps are steps of the
  publisher or leave it alone, which gives `AcknowledgedIsKept` beside a restore.
  `ImportsAreReported` says
  that nothing which follows a confirmed import makes the restore fail; it is nearly inductive. `RestoresAreRecent` needs `RestoreInv`: a relay
  that vouches for the last backup holds something of its date (`DatesAreKept`), one id is
  one event (`IdsDiffer`), and what the restore has read is what relays hold
  (`HeardFromRelays`); what it selects then follows from `PickIsBest`.

* `Selection_proofs`: `PickIsBest`, for every sequence of events, by what a verification
  and a restore know of a selection. That a finite set of events can be sorted needs an
  induction, which is made with sets: a set of numbers that holds 0 and all successors
  holds every number, since strict inclusion of finite sets is well founded
  (`FiniteSetTheorems`), so that a smallest counterexample would exist. The same gives
  the induction over sequences of the other proofs.

* `Verification_proofs`: `SelectionIsRight`, `OkIsRestorable`, `VerifiedIsProof`. `Drawn` says
  that a result is the verdict on the selection from what the probes hold; the rest is what
  the concatenation of the answers contains and what `PickIsBest` says of it.

* `Monitor_proofs`: the monitor's type correctness, and the properties of `monitor`. Its lemma
  `MonitorMoves` says that each step of the composition is a step of the service or one of
  the few things the monitor does to it (`Beside`), so that `Phase` and the service's
  invariants carry over (`ServiceUndisturbed`, `MonitorNeverCollides`). `VerifyingEnds` and
  `FreshAnswers` rest on `RunsAreCurrent`, that a run which a publish overtook is known not
  to be current, and `HealingEnds` on `HealIsComing`. `TroubleShows` is `assess` for every
  environment, also when the relays change, which `monitor_live` leaves out; its invariant
  `Accountable` says that a retry has its error, and that relays which a change left empty
  have a job to fill them unless stop() took it. `MonitorWatches` says that a monitor which
  is started has a service that runs, subscribed or about to be, and all its intervals
  (`MonitorIsWatching`, on `Watchful`: what each await of start() leaves to the next).
  `MonitorRestsCurrent` is `QuietIsCurrent` for the service under its monitor, whose
  relays are switched beside it: `FollowingBeside` has `StoredOrForced` in the place of
  `LastIsStored`. It needs that a node which once had a backup goes on having one
  (`BackupsStay`; a new node has no channels and no backup), or that the relays are not
  changed. Without that it is false, as TLC shows: a publish after a change of the relays
  finds a set without a backup and gives up, the set returns to the one of `last`, and the
  stream's job skips it. On a real node a set does not return, as each channel has its own
  funding output.

* `LndClient_proofs`: `ReportedOnce` and `DeathsAreReported`, on `Accounted`: the flag `ended`
  stands for a report or for the caller's closing, and never for both. `LinesAreRead` is on
  `Reading`: the buffer is what follows the last newline of what has arrived, and what was
  handed on are the messages before it. Its lemmas are about the text as a sequence: where
  the last newline of a concatenation is, and what filtering makes of it.
  `StreamIsASubscription` says that every step of a request is one of `Subscription` or leaves
  it alone, as long as no line is rejected: a chunk takes from what is to come the messages of
  the lines that it completes (`ChunkIsHandedOn`), and an end comes with the connection's
  (`EndsClosed`), so that nothing is handed on after it.

* `Programs_proofs`: type correctness, `NetworkIsMeant`, `SetStaysUsable`,
  `PublicIsConfirmed`, `ActiveIsServed`, `LeftoverIsReported`, and that
  every step of the programs is one of `Exclusive` or leaves the tests alone
  (`TurnsAreTaken`). None but `PublicIsConfirmed` and `LeftoverIsReported` is inductive.
  `Phase` says which command awaits what, without which even a program's next await has no type. `Cautious`
  says at which awaits nothing has been done yet and at which the network is known to be
  meant; with `IdleUnmonitored`, that a console without a node never gets a job, it gives
  `NetworkIsMeant`. `Usable` adds to the set's promises that it is finite, and counts. `OnTheWay` names the
  four places where an enabled relay's backup can be: at the relay, in the job at work, in
  a job to come, behind the retry timer. `TakesTurns` adds to the flag that a queued job
  belongs to a request that waits for it and for no other, since otherwise the answer to a
  publish might end another request's test.

* `Console_proofs`: `OneDrillAtATime`, `RunsAreWhole`, `PagesShowTheRun` and
  `ButtonsComeBack`. `Claimed` says who has the claim: the request that waits for docker, the drill that runs, the cleanup after
  it, or nobody. `Kept` adds how far the kept events must have come in each of these, and
  that they hold no more lines than have been printed. `Follows` is the inductive form of
  what a page will display: the events on its way are the end of the run, and it shows what
  comes before them, so that reading one changes nothing of the whole. `Unlost` is
  the inductive form of `NoButtonIsLost`: nothing is on its way to a page that is not connected
  (`Wired`), a page that a run made busy will be replayed it (`Noted`), and one whose button no
  answer gives back has the end of a run to come (`Waiting`), unless it is one of `misled`: told
  that docker is down, or busy for a claim that came to nothing, and shown no run since. It is the safety part of
  `ButtonReturns`.

The proofs assume only what the modules assume of their constants: `BoundsAssumption`,
`DataAssumption`, `StoreAssumption` (of the leftovers only that an id names one event),
`RelaysAssumption`, `EventsAssumption`, `NoSetAssumption`, `NowAssumption`,
`EnvironmentsAssumption`, `RelaySetAssumption`, `RoutesAssumption`, `ProgramsAssumption` and
`ConsoleAssumption`; those about LndClient need none. Two have a hypothesis about the environment:
`MonitorRestsCurrent` (`BackupsStay`, or relays that are not changed) and `StreamIsASubscription`
(`[]NoLineIsRejected`). A verification's date `Now` is any number.

Only model-checked: the liveness properties, which are out of the prover's reach. Of `TestsTakeTurns` the safety part is proved and
the liveness part, that a test's place is given back, is model-checked. The three
properties that are violated have their counterexample from TLC. Every other property of the runs is
a theorem.

## Where the code and its texts part

Three runs end in a violation, each of what a text of the repository says:

* `service_gap`: when the stream has ended, resubscribing and exporting again go on at the same
  time (`backup.ts:229`), so that a change between the export's answer and lnd's registration
  is in neither, which the re-export is there to prevent (`backup.ts:94`). Only the refresh, or
  a monitor, makes it good. A start has the same gap.
* `restore_shadowed`: backups dated after a leftover from the future are from the
  future themselves, and lose to an older one elsewhere (`docs/nostr.md:22`).
* `mainnet_guard`: when the monitor's first poll fails, its network is "unknown", which the
  guard lets pass if `LIFEBOAT_NETWORK` is not set; a console then publishes from a
  mainnet node that nobody has allowed (`monitor.ts:100`, `config.ts:68`).
  `NetworkIsMeant` excepts exactly this.

Others met while modelling, which no run states:

* stop() leaves the promise chain alone, whose jobs then move a stopped service out of
  IDLE (`backup.ts:157`).
* Of several copies of an id the last is kept and only then checked, so that a broken copy
  hides the good one (`docs/nostr.md:13`).
* A relay that does not answer the test's last look counts as having deleted the dummy
  (`relay-test.ts:85`; `docs/public-relay-testing.md:13`). `LeftoverIsReported` excepts
  exactly this.
* A relay test whose publish times out ends without a deletion request, although the relay
  may have the dummy; it does report an error (`relay-test.ts:50`).
* A bake that cannot write its file may leave an empty one, which the next bake then
  refuses to overwrite (`cli.ts:76`).
* Nothing limits the number of peer hints that are published, while a restore refuses more
  than 200 (`payload.ts:25`).
* stop() during begin()'s awaits leaves the refresh interval, and in the monitor the
  whole service and its intervals, armed (`monitor.test.ts:63`). Programs exit then.
* A snapshot that came over the stream and was queued behind an export may be
  published after the newer set, until the next job (`backup.ts:221`).
* After a publish whose acknowledgements were all lost, the next may carry the same
  date, and a relay keeps the lower id (`backup.ts:265`).
* A relay that does not answer at the start, or is added later, may hold an event
  dated ahead of all that follows (`nostr.ts:142`).
* A restore whose import lnd has made, while the answer was lost or took longer than the 30 s
  of a call, is reported as failed (`lnd.ts:82`, `backup.ts:487`). `ImportIsReported` is about
  imports that lnd has confirmed.
* `foreignEvents` is too low when a relay repeats one of our events (`backup.ts:390`).
* FAILED after a verification stays until the next publish, since `beginVerify` does
  not start from it (`backup.ts:179`).
* When no relay holds any backup, nothing counts as behind and nothing is healed.
* A publish that reached a relay without its answer arriving fails and is left to the retry.
  If stop() takes the retry and the set returns to the one of `last`, the restarted service
  skips it, and the relay keeps the other set (`backup.ts:255`). Likewise a retry is used
  up by an export without a backup. `QuietIsCurrent` excepts both (`RetryMayBeGone`). So is a
  publish that a change of the relays asked for, which the hypothesis of `MonitorRestsCurrent`
  excludes (`backup.ts:243`).
* The verification that a change of the relays asks for may share a run that has read the
  old ones (`monitor.ts:141`).
* A page that is told "busy" by a claim which docker's absence then takes back, or
  that is refused the stream, keeps its button disabled (`web.ts:161`, `web.ts:191`).
* A page that is loaded while docker is down keeps its button disabled when docker is back, and
  asks to be reloaded (`index.html:824`, `index.html:825`), unless somebody's run is shown
  meanwhile. `NoButtonIsLost` and `ButtonReturns` except these pages and those told "busy".
* A stream that lnd answers with an error status and cuts off never reports its end;
  after a malformed message the connection stays open (`lnd.ts:101`).

## What is not modelled

* Cryptography: an event or a backup is valid or not, readable or not; a key is there or
  not (`keys.ts`).
* `payload.ts`: its limits are single comparisons, and BackupService has snapshots that are
  too big as a constant.
* `config.ts` but for `parseRelays` and `assertNetworkAllowed`: each setting is parsed by
  itself, and all that a program does with the result is to go on or not.
* HTTP parsing and the console's guards against other hosts and origins: what they stop
  changes nothing but a counter. GET routes, wording, errors' texts and logging.
* The growth of the retry delay, counters and the history that is only shown.
* `drill-parse.ts`: regular expressions over lines; Console has the events they make.
* lnd, relays, docker and browsers are environment: they answer, fail, are slow, lose and
  repeat, within what the code can meet.
* The playground, the demo, the end-to-end test and the regtest helpers: scripts over docker
  that run once, in a straight line. `web/console.html` polls and shows.
* `restore` and `verify` in Programs are single steps; their modules have the awaits.

## Plan

What is left would be refinements more than properties:

1. BackupService with the subscription of `Subscription` in the place of its own, so that the
   two ends of the stream meet in one specification.
2. An abstract specification of what the service promises (the newest set a relay
   acknowledged is the one a restore finds), implemented by RelayStore.
3. The jobs of Routes as an abstraction of BackupService's, shown by a refinement.
4. Console's claim, which passes from a request to its drill, as another implementation of
   `Exclusive`.

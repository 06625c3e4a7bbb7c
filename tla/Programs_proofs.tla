---------------------------- MODULE Programs_proofs ----------------------------
(***************************************************************************)
(* What holds of the programs and of the console's routes for any          *)
(* addresses, clients, inputs, environments and bounds, whatever fails and *)
(* whenever a signal comes.                                                *)
(***************************************************************************)
EXTENDS Programs, FiniteSetTheorems, TLAPS

USE DEF To, Exit, Is, Rest

-----------------------------------------------------------------------------
(* Type correctness *)

\* The records that the steps of a relay test make of one are tests.
LEMMA NewTest ==
    ASSUME NEW x \in Test, NEW a \in {"none", "publish", "retrieve", "delete", "recheck", "done"},
           NEW k \in BOOLEAN, NEW r \in Answers, NEW h \in {"unchecked", "yes", "no"},
           NEW b \in BOOLEAN
    PROVE  /\ [x EXCEPT !.at = a, !.kept = k, !.published = TRUE] \in Test
           /\ [x EXCEPT !.at = a, !.kept = k, !.errors = TRUE] \in Test
           /\ [x EXCEPT !.at = a, !.answer = r, !.errors = b] \in Test
           /\ [x EXCEPT !.at = a, !.kept = k, !.requested = TRUE] \in Test
           /\ [x EXCEPT !.at = a, !.blind = b, !.honored = h] \in Test
  BY DEF Test

\* A step that moves one test keeps all of them tests.
LEMMA StepsType ==
    ASSUME test \in [Tester -> Test], NEW t \in Tester, NEW from, NEW to \in Test,
           Steps(t, from, to)
    PROVE  test' \in [Tester -> Test]
  BY DEF Steps

\* So does every step of publicRelayTest.
LEMMA TestStepType ==
    ASSUME test \in [Tester -> Test], NEW t \in Tester,
           TestStep(t) \/ BeginTest(t) \/ TestOver(t)
    PROVE  test' \in [Tester -> Test]
<1>0. test[t] \in Test OBVIOUS
<1>1. CASE TestPublished(t)
  BY <1>0, <1>1, NewTest, StepsType DEF TestPublished, Answers
<1>2. CASE TestRetrieved(t)
  BY <1>0, <1>2, NewTest, StepsType DEF TestRetrieved, Answers
<1>3. CASE TestDeleted(t)
  <2>1. test[t].kept \in BOOLEAN BY <1>0 DEF Test
  <2>2. PICK kept \in BOOLEAN :
            \/ Steps(t, "delete", [test[t] EXCEPT !.at = "recheck", !.kept = kept,
                                                  !.requested = TRUE])
            \/ Steps(t, "delete", [test[t] EXCEPT !.at = "done", !.kept = kept,
                                                  !.errors = TRUE])
    BY <1>3, <2>1, Zenon DEF TestDeleted
  <2> QED BY <1>0, <2>2, NewTest, StepsType DEF Answers
<1>4. CASE TestRechecked(t)
  BY <1>0, <1>4, NewTest, StepsType DEF TestRechecked, Answers
<1>5. CASE BeginTest(t) BY <1>5 DEF BeginTest, Steps, NoTest, Test, Answers
<1>6. CASE TestOver(t) BY <1>6 DEF TestOver, Steps, NoTest, Test, Answers
<1> QED BY <1>1, <1>2, <1>3, <1>4, <1>5, <1>6 DEF TestStep

\* parseRelays: what it accepts has a first address.
LEMMA NormType ==
    ASSUME NEW input \in Inputs, Parses(input)
    PROVE  Norm(input) \in Url
BY RoutesAssumption DEF Parses, Norm, Input

\* The parts of RoutesTypeOK.
SetOK     == list \subseteq Entry /\ confirmed \subseteq Url
RequestOK == request \in [Client -> Waiting] /\ sent \in Nat
QueueOK   == queue \in Seq(Client \cup Others)
JobOK     == job \in [for : Client \cup Others \cup {"nobody"}, targets : SUBSET Url]
CopiesOK  == held \subseteq Url /\ missed \subseteq Url /\ faults \in Nat
FlagsOK   == monitored \in BOOLEAN /\ workload \in Workloads
             /\ relayTestBusy \in BOOLEAN /\ retryTimer \in BOOLEAN

\* The entries keep their shape: RelaySet adds, removes and switches only such.
LEMMA SetStep == ASSUME SetOK, RoutesNext PROVE SetOK'
<1> USE DEF SetOK, relays
<1>1. ASSUME NEW c \in Client, AddRelay(c) PROVE SetOK'
  <2>1. PICK input \in Inputs, confirm \in BOOLEAN :
            /\ CanAdd(list, input)
            /\ list' = Added(list, input)
            /\ confirmed' = IF confirm THEN confirmed \cup {Norm(input)} ELSE confirmed
    BY <1>1 DEF AddRelay
  <2>2. Norm(input) \in Url BY <2>1, NormType DEF CanAdd
  <2>3. [url |-> Norm(input), enabled |-> TRUE, session |-> TRUE] \in Entry BY <2>2 DEF Entry
  <2>5. list' \subseteq Entry BY <2>1, <2>3 DEF Added
  <2>4. confirmed' \subseteq Url BY <2>1, <2>2
  <2> QED BY <2>4, <2>5
<1>2. ASSUME NEW c \in Client, RemoveRelay(c) PROVE SetOK'
    BY <1>2 DEF RemoveRelay
<1>3. ASSUME NEW c \in Client, SwitchRelay(c) PROVE SetOK'
    BY <1>3 DEF SwitchRelay, Switched, Found, Entry
<1> QED BY <1>1, <1>2, <1>3 DEF RoutesNext, GoesOn, ServiceGoesOn, Arrives, BodyRefused,
                                ProbeRelay, CheckEnds, TestRelay, Testing, RelayTested,
                                ExportFails, Publishes, Published, Retry, Refresh, Forgets

\* Counting stays with the natural numbers.
LEMMA NextNat == \A n \in Nat : n + 1 \in Nat
  OBVIOUS

\* A request is always somewhere.
LEMMA RequestStep == ASSUME RequestOK, RoutesNext PROVE RequestOK'
<1> USE DEF RequestOK, requests
<1>1. ASSUME NEW c \in Client, Arrives(c) PROVE RequestOK'
  <2>1. PICK kind \in {"test body", "relays", "check", "publish"} : Moves(c, "none", kind)
    BY <1>1 DEF Arrives
  <2>2. request' \in [Client -> Waiting] BY <2>1 DEF Moves, Waiting
  <2>3. sent' = sent + 1 BY <1>1, Zenon DEF Arrives
  <2> QED BY <2>2, <2>3, NextNat, Zenon
<1>2. ASSUME NEW c \in Client, GoesOn(c) PROVE RequestOK'
    BY <1>2 DEF GoesOn, BodyRefused, AddRelay, RemoveRelay, SwitchRelay, Edits, ProbeRelay,
                CheckEnds, TestRelay, Testing, RelayTested, Moves, Waiting
<1>3. CASE ServiceGoesOn
    BY <1>3 DEF ServiceGoesOn, ExportFails, Publishes, Published, Retry, Refresh, AnswerFor,
                Waiting
<1>4. CASE Forgets
    BY <1>4 DEF Forgets
<1> QED BY <1>1, <1>2, <1>3, <1>4 DEF RoutesNext

\* Queueing keeps a sequence of jobs.
LEMMA Appended == ASSUME NEW S, NEW s \in Seq(S), NEW e \in S PROVE Append(s, e) \in Seq(S)
  OBVIOUS

\* The queue of a service that has not been started.
LEMMA Empty == \A S : <<>> \in Seq(S)
  OBVIOUS

\* The queue of one that has.
LEMMA Single == ASSUME NEW S, NEW e \in S PROVE <<e>> \in Seq(S)
  OBVIOUS

\* A job is asked for by a client or by the service itself.
LEMMA QueueStep == ASSUME QueueOK, RoutesNext PROVE QueueOK'
<1> USE DEF QueueOK, service, Others
<1>1. ASSUME NEW c \in Client, Arrives(c) PROVE QueueOK'
  <2>1. queue' \in {queue, Append(queue, c)} BY <1>1 DEF Arrives
  <2> QED BY <2>1, Appended
<1>2. ASSUME NEW c \in Client, GoesOn(c) PROVE QueueOK'
  <2>1. queue' \in {queue, Append(queue, "change")}
    BY <1>2 DEF GoesOn, BodyRefused, AddRelay, RemoveRelay, SwitchRelay, Edits, Changed,
                ProbeRelay, CheckEnds, TestRelay, Testing, RelayTested
  <2> QED BY <2>1, Appended
<1>3. CASE ServiceGoesOn
    BY <1>3 DEF ServiceGoesOn, ExportFails, Publishes, Published, Retry, Refresh
<1>4. CASE Forgets
    BY <1>4 DEF Forgets
<1> QED BY <1>1, <1>2, <1>3, <1>4 DEF RoutesNext

\* What is published to are addresses.
LEMMA ActiveType == ASSUME NEW l \in SUBSET Entry PROVE Active(l) \subseteq Url
  BY DEF Active, Urls, Enabled, Entry

\* The job at work is one of the queue's, and publishes to addresses.
LEMMA JobStep == ASSUME JobOK, QueueOK, SetOK, RoutesNext PROVE JobOK'
<1> USE DEF JobOK, service
<1>1. CASE Publishes
  <2>1. Head(queue) \in Client \cup Others BY <1>1 DEF Publishes, QueueOK
  <2>2. Active(list) \subseteq Url BY ActiveType DEF SetOK
  <2> QED BY <1>1, <2>1, <2>2 DEF Publishes
<1>2. CASE Published BY <1>2 DEF Published, NoJob
<1> QED BY <1>1, <1>2, Zenon DEF RoutesNext, GoesOn, ServiceGoesOn, Arrives, BodyRefused,
                                 ProbeRelay, CheckEnds, TestRelay, Testing, RelayTested,
                                 ExportFails, Retry, Refresh, Forgets, Edits, AddRelay,
                                 RemoveRelay, SwitchRelay

\* What relays hold or miss is known by their addresses.
LEMMA CopiesStep == ASSUME CopiesOK, JobOK, RoutesNext PROVE CopiesOK'
<1> USE DEF CopiesOK, copies, Fault
<1>1. CASE Published
  <2>1. job.targets \subseteq Url BY DEF JobOK
  <2> QED BY <1>1, <2>1 DEF Published
<1>2. CASE Forgets BY <1>2 DEF Forgets
<1>3. CASE ExportFails BY <1>3 DEF ExportFails
<1>4. \/ Published \/ Forgets \/ ExportFails
      \/ UNCHANGED copies /\ UNCHANGED faults
  BY Zenon DEF RoutesNext, GoesOn, ServiceGoesOn, Arrives, BodyRefused, ProbeRelay, CheckEnds,
               TestRelay, Testing, RelayTested, Publishes, Retry, Refresh, Edits, AddRelay,
               RemoveRelay, SwitchRelay
<1> QED BY <1>1, <1>2, <1>3, <1>4

\* Flags stay Booleans, and the setting is fixed.
LEMMA FlagsStep == ASSUME FlagsOK, RoutesNext PROVE FlagsOK'
<1> USE DEF FlagsOK, setting, requests, service
<1>1. ASSUME NEW c \in Client, Arrives(c) \/ GoesOn(c) PROVE FlagsOK'
    BY <1>1, Zenon DEF Arrives, GoesOn, BodyRefused, AddRelay, RemoveRelay, SwitchRelay, Edits,
                       ProbeRelay, CheckEnds, TestRelay, Testing, RelayTested
<1>2. CASE ServiceGoesOn
    BY <1>2, Zenon DEF ServiceGoesOn, ExportFails, Publishes, Published, Retry, Refresh
<1>3. CASE Forgets
    BY <1>3, Zenon DEF Forgets
<1> QED BY <1>1, <1>2, <1>3 DEF RoutesNext

\* The last part: the tests.
TestOK == test \in [Tester -> Test]

\* Requests move tests by the steps of publicRelayTest only.
LEMMA TestsStep == ASSUME TestOK, RoutesNext PROVE TestOK'
<1> USE RoutesAssumption DEF TestOK
<1>1. ASSUME NEW c \in Client, Arrives(c) \/ GoesOn(c) PROVE TestOK'
    BY <1>1, TestStepType DEF Arrives, GoesOn, BodyRefused, AddRelay, RemoveRelay, SwitchRelay,
                              Edits, ProbeRelay, CheckEnds, TestRelay, Testing, RelayTested
<1>2. CASE ServiceGoesOn
    BY <1>2 DEF ServiceGoesOn, ExportFails, Publishes, Published, Retry, Refresh
<1>3. CASE Forgets
    BY <1>3 DEF Forgets
<1> QED BY <1>1, <1>2, <1>3 DEF RoutesNext

\* All parts together.
LEMMA RoutesType ==
    ASSUME RoutesTypeOK, RoutesNext
    PROVE  RoutesTypeOK'
BY SetStep, RequestStep, QueueStep, JobStep, CopiesStep, FlagsStep, TestsStep
   DEF RoutesTypeOK, SetOK, RequestOK, QueueOK, JobOK, CopiesOK, FlagsOK, TestOK

-----------------------------------------------------------------------------
(* Steps of the programs, and of the routes *)

\* A step of the programs is one of the routes, a signal, or leaves the routes alone but for
\* the test that the command line runs.
LEMMA Frame ==
    ASSUME [Next]_allVars
    PROVE  \/ at = "serving" /\ RoutesNext /\ UNCHANGED <<env, at, code, known, file>>
           \/ Signal
           \/ UNCHANGED <<setting, requests, relays, service, copies, faults>> /\ Advances
           \/ UNCHANGED allVars
<1> USE DEF routeVars
<1>1. CASE Advances
    BY <1>1, Zenon DEF Advances, Begin, TestGoesOn, TestExit, Info, KeyDerived, VerifyExits,
                       RestoreExits, Baked, BakeExits, BackupStarted, BackupRuns, Served,
                       Polled, MonitorStarts
<1>2. CASE Serves(RoutesNext) BY <1>2, Zenon DEF Serves
<1> QED BY <1>1, <1>2, Zenon DEF Next

\* Which command awaits what.
Phase ==
    /\ at = "test" => Is("relay-test")
    /\ at = "info" => ~Is("relay-test") /\ ~Is("serve")
    /\ at = "key" => env.command \in {"pubkey", "verify", "restore", "backup"}
    /\ at = "verify" => Is("verify")
    /\ at = "restore" => Is("restore")
    /\ at \in {"bake", "confirm"} => Is("bake")
    /\ at \in {"backup", "running"} => Is("backup")
    /\ at \in {"poll", "start", "serving"} => Is("serve")

\* The values of the program's variables.
ValuesOK ==
    /\ at \in {"begin", "test", "info", "key", "verify", "restore", "bake", "confirm", "backup",
              "running", "poll", "start", "serving", "over"}
    /\ code \in {-1, 0, 1, 2, 130} /\ known \in Networks \cup {"none"}
    /\ did \subseteq {"key", "verified", "imported", "baked", "can spend", "published"}
    /\ file \in {"absent", "other", "empty", "macaroon"}

\* The environment is one of those given.
EnvOK == env \in Environments

\* What is known of an environment.
LEMMA EnvType == ASSUME EnvOK PROVE
      /\ env.command \in {"serve", "relay-test", "pubkey", "bake", "verify", "restore", "backup"}
      /\ env.network \in Networks
  BY ProgramsAssumption DEF Environment, EnvOK

\* A program does not change its environment.
LEMMA EnvKept == ASSUME [Next]_allVars PROVE UNCHANGED env
 BY Zenon DEF Next, Advances, Begin, TestGoesOn, TestExit, Info, KeyDerived, VerifyExits,
              RestoreExits, Baked, BakeExits, BackupStarted, BackupRuns, Served, Polled,
              MonitorStarts, Serves, Signal, allVars, program

\* Every command goes its own way through the awaits.
LEMMA PhaseStep == ASSUME Phase, EnvOK, [Next]_allVars PROVE Phase'
<1> USE DEF Phase
<1>0. UNCHANGED env BY EnvKept
<1>a. env.command \in {"serve", "relay-test", "pubkey", "bake", "verify", "restore", "backup"}
  BY EnvType
<1>1. CASE Begin
  <2>1. at' \in {"over", IF Is("relay-test") THEN "test" ELSE "info"} /\ ~Is("serve")
    BY <1>1 DEF Begin
  <2> QED BY <2>1, <1>0, <1>a
<1>2. CASE Info
  <2>1. at' \in {"over", IF Is("bake") THEN "bake" ELSE "key"} /\ at = "info"
    BY <1>2 DEF Info
  <2> QED BY <2>1, <1>0, <1>a
<1>3. CASE KeyDerived
  <2>1. at' \in {"over", env.command} /\ at = "key"
    BY <1>3 DEF KeyDerived
  <2> QED BY <2>1, <1>0, <1>a
<1>4. CASE Baked
  <2>1. at' \in {"over", "confirm"} /\ at = "bake"
    BY <1>4 DEF Baked
  <2> QED BY <2>1, <1>0
<1>5. CASE BackupStarted
  <2>1. at' \in {"over", "running"} /\ at = "backup"
    BY <1>5 DEF BackupStarted
  <2> QED BY <2>1, <1>0
<1>6. CASE Served \/ Polled \/ MonitorStarts
  <2>1. at' \in {"over", "poll", "start", "serving"} /\ Is("serve")
    BY <1>6 DEF Served, Polled, MonitorStarts
  <2> QED BY <2>1, <1>0
<1>7. CASE at' \in {at, "over"}
  BY <1>7, <1>0
<1> QED BY <1>1, <1>2, <1>3, <1>4, <1>5, <1>6, <1>7, Zenon
        DEF Next, Advances, TestGoesOn, TestExit, VerifyExits, RestoreExits, BakeExits,
            BackupRuns, Serves, Signal, allVars, program

\* Every step of a program assigns values of the right kind.
LEMMA ValuesStep == ASSUME ValuesOK, EnvOK, Phase, [Next]_allVars PROVE ValuesOK'
<1> USE DEF ValuesOK
<1>0. env.command \in {"serve", "relay-test", "pubkey", "bake", "verify", "restore", "backup"}
      /\ env.network \in Networks
  BY EnvType
<1>1. CASE Begin BY <1>1 DEF Begin
<1>2. CASE TestGoesOn BY <1>2 DEF TestGoesOn, program
<1>3. CASE TestExit BY <1>3 DEF TestExit
<1>4. CASE Info
  <2>1. at' \in {"over", "bake", "key"} /\ code' \in {code, 1} BY <1>4 DEF Info
  <2>2. known' \in {known, env.network} /\ UNCHANGED <<did, file>> BY <1>4, Zenon DEF Info
  <2>3. code' \in {-1, 0, 1, 2, 130} BY <2>1
  <2>4. known' \in Networks \cup {"none"} BY <2>2, <1>0
  <2> QED BY <2>1, <2>2, <2>3, <2>4, Zenon
<1>5. CASE KeyDerived
  <2>1. at' \in {"over", env.command} /\ code' \in {code, 1, 0} BY <1>5 DEF KeyDerived
  <2>2. at = "key" /\ UNCHANGED <<known, file>> BY <1>5, Zenon DEF KeyDerived
  <2>3. Is("pubkey") => at' = "over" BY <1>5 DEF KeyDerived
  <2>4. did' \subseteq did \cup {"key"} BY <1>5 DEF KeyDerived
  <2>5. env.command \in {"pubkey", "verify", "restore", "backup"} BY <2>2 DEF Phase
  <2>6. code' \in {-1, 0, 1, 2, 130} BY <2>1
  <2>7. at' \in {"over", "verify", "restore", "backup"} BY <2>1, <2>3, <2>5
  <2> QED BY <2>2, <2>4, <2>6, <2>7
<1>6. CASE VerifyExits BY <1>6 DEF VerifyExits
<1>7. CASE RestoreExits BY <1>7 DEF RestoreExits
<1>8. CASE Baked BY <1>8 DEF Baked
<1>9. CASE BakeExits BY <1>9 DEF BakeExits
<1>10. CASE BackupStarted BY <1>10 DEF BackupStarted
<1>17. CASE BackupRuns BY <1>17 DEF BackupRuns
<1>11. CASE Served BY <1>11 DEF Served
<1>12. CASE Polled
  <2>1. at' \in {"over", "start"} /\ code' \in {code, 1} BY <1>12 DEF Polled
  <2>2. known' \in {env.network, "unknown"} /\ UNCHANGED <<did, file>> BY <1>12, Zenon DEF Polled
  <2>3. code' \in {-1, 0, 1, 2, 130} BY <2>1
  <2>4. known' \in Networks \cup {"none"} BY <2>2, <1>0 DEF Networks
  <2> QED BY <2>1, <2>2, <2>3, <2>4, Zenon
<1>13. CASE MonitorStarts BY <1>13 DEF MonitorStarts
<1>14. CASE Serves(RoutesNext) BY <1>14 DEF Serves
<1>15. CASE Signal BY <1>15 DEF Signal
<1>16. CASE UNCHANGED allVars BY <1>16, Zenon DEF allVars, program
<1> QED BY <1>1, <1>2, <1>3, <1>4, <1>5, <1>6, <1>7, <1>8, <1>9, <1>10, <1>11, <1>12, <1>13,
           <1>14, <1>15, <1>16, <1>17
        DEF Next, Advances

\* The constructor of RelaySet makes entries.
LEMMA InitialType == InitialList \subseteq Entry
<1>1. \A u \in Configured : [url |-> u, enabled |-> TRUE, session |-> FALSE] \in Entry
  BY RelaySetAssumption DEF Entry
<1> QED BY <1>1 DEF InitialList

\* The end of a process leaves well-formed values.
LEMMA GoneType == ASSUME RoutesTypeOK, Signal PROVE RoutesTypeOK'
<1>1. Gone BY Zenon DEF Signal
<1>2. list' \subseteq Entry BY <1>1, InitialType DEF Gone
<1>3. request' \in [Client -> Waiting] BY <1>1 DEF Gone, Waiting
<1>4. job' \in [for : Client \cup Others \cup {"nobody"}, targets : SUBSET Url] BY <1>1
     DEF Gone, NoJob
<1>5. test' \in [Tester -> Test] BY <1>1 DEF Gone, NoTest, Test, Answers
<1>6. queue' \in Seq(Client \cup Others) BY <1>1 DEF Gone
<1>7. held' \subseteq Url /\ missed' \subseteq Url
  <2>1. job.targets \subseteq Url BY DEF RoutesTypeOK
  <2> QED BY <2>1 DEF Signal, RoutesTypeOK
<1>8. /\ monitored' = FALSE /\ relayTestBusy' = FALSE /\ retryTimer' = FALSE
      /\ confirmed' = {} /\ UNCHANGED <<workload, sent, faults>>
  BY <1>1, Zenon DEF Gone
<1>9. monitored' \in BOOLEAN /\ relayTestBusy' \in BOOLEAN /\ retryTimer' \in BOOLEAN
  BY <1>8
<1>10. confirmed' \subseteq Url BY <1>8
<1> QED BY <1>2, <1>3, <1>4, <1>5, <1>6, <1>7, <1>8, <1>9, <1>10, Zenon DEF RoutesTypeOK

\* Every step of the programs keeps the types of the routes' variables.
LEMMA RoutesStep == ASSUME RoutesTypeOK, [Next]_allVars PROVE RoutesTypeOK'
<1>1. CASE RoutesNext BY <1>1, RoutesType
<1>2. CASE Signal BY <1>2, GoneType
<1>3. CASE UNCHANGED <<setting, requests, relays, service, copies, faults>> /\ Advances
  <2>1. test' \in [Tester -> Test]
    <3>1. "cli" \in Tester BY ProgramsAssumption
    <3>2. test \in [Tester -> Test] BY DEF RoutesTypeOK
    <3>3. \/ test' = test \/ BeginTest("cli") \/ TestStep("cli")
      BY <1>3, Zenon DEF Advances, Begin, TestGoesOn, TestExit, Info, KeyDerived, VerifyExits,
                         RestoreExits, Baked, BakeExits, BackupStarted, BackupRuns, Served,
                         Polled, MonitorStarts, routeVars
    <3> QED BY <3>1, <3>2, <3>3, TestStepType
  <2> QED BY <1>3, <2>1, Zenon DEF RoutesTypeOK, setting, requests, relays, service, copies
<1>4. CASE UNCHANGED allVars BY <1>4, Zenon DEF allVars, routeVars, RoutesTypeOK, setting,
                                                requests, relays, service, copies
<1> QED BY <1>1, <1>2, <1>3, <1>4, Frame

\* The initial values are well-formed.
LEMMA InitType == Init => RoutesTypeOK /\ ValuesOK /\ EnvOK /\ Phase
<1> SUFFICES ASSUME Init PROVE RoutesTypeOK /\ ValuesOK /\ EnvOK /\ Phase OBVIOUS
<1>1. EnvOK BY Zenon DEF Init, EnvOK
<1>2. ValuesOK BY DEF Init, ValuesOK
<1>3. Phase BY DEF Init, Phase
<1>4. RoutesTypeOK
  <2>0. RoutesInit BY Zenon DEF Init
  <2>1. list \subseteq Entry BY <2>0, InitialType DEF RoutesInit
  <2>2. request \in [Client -> Waiting] BY <2>0 DEF RoutesInit, Waiting
  <2>3. job \in [for : Client \cup Others \cup {"nobody"}, targets : SUBSET Url] BY <2>0
       DEF RoutesInit, NoJob
  <2>4. test \in [Tester -> Test] BY <2>0 DEF RoutesInit, TestInit, NoTest, Test, Answers
  <2>5. queue \in Seq(Client \cup Others)
    <3>1. queue = <<>> \/ queue = <<"start">> BY <2>0, Zenon DEF RoutesInit
    <3>2. "start" \in Client \cup Others BY DEF Others
    <3>3. <<"start">> \in Seq(Client \cup Others) BY <3>2, Single
    <3> QED BY <3>1, <3>3, Empty
  <2>6. /\ monitored \in BOOLEAN /\ workload \in Workloads
        /\ relayTestBusy = FALSE /\ retryTimer = FALSE /\ confirmed = {}
        /\ held = {} /\ missed = {} /\ sent = 0 /\ faults = 0
    BY <2>0, Zenon DEF RoutesInit
  <2>7. /\ relayTestBusy \in BOOLEAN /\ retryTimer \in BOOLEAN
        /\ confirmed \subseteq Url /\ held \subseteq Url /\ missed \subseteq Url
        /\ sent \in Nat /\ faults \in Nat
    BY <2>6
  <2> QED BY <2>1, <2>2, <2>3, <2>4, <2>5, <2>6, <2>7, Zenon DEF RoutesTypeOK
<1> QED BY <1>1, <1>2, <1>3, <1>4

\* The inductive form of type correctness: it also says which command awaits what.
TypeInv == RoutesTypeOK /\ ValuesOK /\ EnvOK /\ Phase

\* It holds always.
LEMMA Typed == Spec => []TypeInv
<1>1. Init => TypeInv BY InitType DEF TypeInv
<1>2. TypeInv /\ [Next]_allVars => TypeInv'
  <2> SUFFICES ASSUME TypeInv, [Next]_allVars PROVE TypeInv' OBVIOUS
  <2>1. EnvOK' BY EnvKept DEF EnvOK, TypeInv
  <2> QED BY <2>1, RoutesStep, ValuesStep, PhaseStep DEF TypeInv
<1> QED BY <1>1, <1>2, PTL DEF Spec, Safety

\* Every variable of the programs and of the routes keeps its type.
THEOREM TypeCorrect == Spec => []ProgramsTypeOK
<1>1. TypeInv => ProgramsTypeOK BY Zenon DEF TypeInv, ProgramsTypeOK, ValuesOK, EnvOK
<1> QED BY <1>1, Typed, PTL

-----------------------------------------------------------------------------
(* The set of relays *)

\* Three routes change the set of relays and no other step of the routes does.
LEMMA SetEdits == RoutesNext =>
      UNCHANGED relays \/ \E c \in Client : AddRelay(c) \/ RemoveRelay(c) \/ SwitchRelay(c)
  BY Zenon DEF RoutesNext, GoesOn, ServiceGoesOn, Arrives, BodyRefused, ProbeRelay, CheckEnds,
               TestRelay, Testing, RelayTested, ExportFails, Publishes, Published, Retry,
               Refresh, Forgets

\* A relay that is not on this machine is in the set only if it is configured or was confirmed
\* (createApp's action "add").
THEOREM PublicConfirmed == Spec => []PublicIsConfirmed
<1>1. Init => PublicIsConfirmed
  BY DEF Init, RoutesInit, InitialList, PublicIsConfirmed, Urls
<1>2. TypeInv /\ PublicIsConfirmed /\ [Next]_allVars => PublicIsConfirmed'
  <2> SUFFICES ASSUME TypeInv, PublicIsConfirmed, [Next]_allVars PROVE PublicIsConfirmed' OBVIOUS
  <2> USE DEF PublicIsConfirmed, Urls
  <2>1. ASSUME NEW c \in Client, AddRelay(c) PROVE PublicIsConfirmed'
    BY <2>1 DEF AddRelay, Added
  <2>2. ASSUME NEW c \in Client, RemoveRelay(c) PROVE PublicIsConfirmed'
    BY <2>2 DEF RemoveRelay
  <2>3. ASSUME NEW c \in Client, SwitchRelay(c) PROVE PublicIsConfirmed'
    <3>1. PICK e \in list : list' = Switched(list, e) /\ UNCHANGED confirmed
      BY <2>3 DEF SwitchRelay, Found
    <3>2. [e EXCEPT !.enabled = ~@].url = e.url BY DEF TypeInv, RoutesTypeOK, Entry
    <3> QED BY <3>1, <3>2 DEF Switched
  <2>4. CASE Gone BY <2>4 DEF Gone, InitialList
  <2>5. CASE UNCHANGED relays BY <2>5 DEF relays
  <2> QED BY <2>1, <2>2, <2>3, <2>4, <2>5, SetEdits, Frame, Zenon DEF Signal, allVars, routeVars
<1> QED BY <1>1, <1>2, Typed, PTL DEF Spec, Safety

\* The constructor's set is no larger than RELAYS, of which several parts may name one relay.
LEMMA InitialSize == IsFiniteSet(InitialList) /\ Cardinality(InitialList) <= MaxRelays
<1> DEFINE f == [u \in Configured |-> [url |-> u, enabled |-> TRUE, session |-> FALSE]]
<1>1. f \in Surjection(Configured, InitialList)
  BY DEF Surjection, InitialList
<1>2. IsFiniteSet(InitialList) /\ Cardinality(InitialList) <= Cardinality(Configured)
  BY <1>1, FS_Surjection, RelaySetAssumption
<1>3. Cardinality(InitialList) \in Nat /\ Cardinality(Configured) \in Nat
  BY <1>2, FS_CardinalityType, RelaySetAssumption
<1> QED BY <1>2, <1>3, RelaySetAssumption

\* What RelaySet keeps true of its entries.
Usable(l) ==
    /\ IsFiniteSet(l) /\ Cardinality(l) <= MaxRelays
    /\ Enabled(l) # {}
    /\ \A e, f \in l : e.url = f.url => e = f

\* The constructor makes it true.
LEMMA InitialUsable == Usable(InitialList)
<1> DEFINE f(u) == [url |-> u, enabled |-> TRUE, session |-> FALSE]
<1>1. InitialList = {f(u) : u \in Configured} BY Zenon DEF InitialList
<1>2. \A u : f(u).url = u /\ f(u).enabled OBVIOUS
<1> HIDE DEF f
<1>3. InitialList # {} /\ \A e \in InitialList : e.enabled
  BY <1>1, <1>2, RelaySetAssumption
<1>4. \A d, e \in InitialList : d.url = e.url => d = e
  BY <1>1, <1>2
<1> QED BY <1>3, <1>4, InitialSize DEF Usable, Enabled

\* A set with room for one more element.
LEMMA Larger ==
    ASSUME NEW S, NEW x, IsFiniteSet(S), Cardinality(S) < MaxRelays
    PROVE  IsFiniteSet(S \cup {x}) /\ Cardinality(S \cup {x}) <= MaxRelays
<1>1. Cardinality(S) \in Nat BY FS_CardinalityType
<1>2. /\ IsFiniteSet(S \cup {x})
      /\ Cardinality(S \cup {x}) = IF x \in S THEN Cardinality(S) ELSE Cardinality(S) + 1
  BY FS_AddElement
<1> QED BY <1>1, <1>2, RelaySetAssumption

\* A new relay that is enabled, where there is room for it.
LEMMA EntryAdded ==
    ASSUME NEW l, Usable(l), NEW x, x.enabled, \A e \in l : e.url # x.url,
           Cardinality(l) < MaxRelays
    PROVE  Usable(l \cup {x})
<1>1. IsFiniteSet(l \cup {x}) /\ Cardinality(l \cup {x}) <= MaxRelays
  BY Larger DEF Usable
<1>2. x \in Enabled(l \cup {x})
  BY DEF Enabled
<1>3. \A d, e \in l \cup {x} : d.url = e.url => d = e
  BY DEF Usable
<1> QED BY <1>1, <1>2, <1>3 DEF Usable

\* RelaySet.add
LEMMA AddedUsable ==
    ASSUME NEW l, Usable(l), NEW input, CanAdd(l, input)
    PROVE  Usable(Added(l, input))
<1>1. PICK x : x = [url |-> Norm(input), enabled |-> TRUE, session |-> TRUE] OBVIOUS
<1>2. x.enabled /\ x.url = Norm(input) BY <1>1
<1>3. \A e \in l : e.url # x.url BY <1>2 DEF CanAdd, Urls
<1>4. Usable(l \cup {x}) BY <1>2, <1>3, EntryAdded DEF CanAdd
<1> QED BY <1>1, <1>4 DEF Added

\* RelaySet.remove
LEMMA RemovedUsable ==
    ASSUME NEW l, Usable(l), NEW e \in l, MayDrop(l, e)
    PROVE  Usable(l \ {e}) /\ Cardinality(l \ {e}) < MaxRelays
<1>1. IsFiniteSet(l \ {e}) /\ Cardinality(l \ {e}) = Cardinality(l) - 1
  BY FS_RemoveElement DEF Usable
<1>2. Cardinality(l) \in Nat
  BY FS_CardinalityType DEF Usable
<1>3. Cardinality(l \ {e}) < MaxRelays /\ Cardinality(l \ {e}) <= MaxRelays
  BY <1>1, <1>2, RelaySetAssumption DEF Usable
<1>4. Enabled(l \ {e}) # {}
  BY DEF Enabled, MayDrop, LastEnabled, Usable
<1>5. \A c, d \in l \ {e} : c.url = d.url => c = d
  BY DEF Usable
<1> QED BY <1>1, <1>3, <1>4, <1>5 DEF Usable

\* RelaySet.setEnabled
LEMMA SwitchedUsable ==
    ASSUME NEW l \in SUBSET Entry, Usable(l), NEW e \in l, MayDrop(l, e)
    PROVE  Usable(Switched(l, e))
<1>1. PICK x : x = [e EXCEPT !.enabled = ~@] OBVIOUS
<1>2. x.url = e.url BY <1>1 DEF Entry
<1>3. Usable(l \ {e}) /\ Cardinality(l \ {e}) < MaxRelays BY RemovedUsable
<1>4. IsFiniteSet((l \ {e}) \cup {x}) /\ Cardinality((l \ {e}) \cup {x}) <= MaxRelays
  <2>1. IsFiniteSet(l \ {e}) BY <1>3 DEF Usable
  <2> QED BY <2>1, <1>3, Larger
<1>5. Enabled((l \ {e}) \cup {x}) # {}
  <2>1. Enabled(l \ {e}) \subseteq Enabled((l \ {e}) \cup {x}) BY DEF Enabled
  <2> QED BY <2>1, <1>3 DEF Usable
<1>6. \A c, d \in (l \ {e}) \cup {x} : c.url = d.url => c = d
  BY <1>2 DEF Usable
<1>7. Usable((l \ {e}) \cup {x}) BY <1>4, <1>5, <1>6 DEF Usable
<1> QED BY <1>1, <1>7 DEF Switched

\* Whatever is added, removed and switched in whatever order, one relay stays enabled, none is
\* there twice and the cap holds (RelaySet).
THEOREM SetUsable == Spec => []SetStaysUsable
<1>1. Init => Usable(list)
  BY InitialUsable DEF Init, RoutesInit
<1>2. TypeInv /\ Usable(list) /\ [Next]_allVars => Usable(list)'
  <2> SUFFICES ASSUME TypeInv, Usable(list), [Next]_allVars PROVE Usable(list') OBVIOUS
  <2>0. list \in SUBSET Entry BY DEF TypeInv, RoutesTypeOK
  <2>1. ASSUME NEW c \in Client, AddRelay(c) PROVE Usable(list')
    <3>1. PICK input \in Inputs : CanAdd(list, input) /\ list' = Added(list, input)
      BY <2>1, Zenon DEF AddRelay
    <3> QED BY <3>1, <2>0, AddedUsable
  <2>2. ASSUME NEW c \in Client, RemoveRelay(c) PROVE Usable(list')
    <3>1. PICK e \in list : MayDrop(list, e) /\ list' = list \ {e}
      BY <2>2 DEF RemoveRelay, Found
    <3> QED BY <3>1, <2>0, RemovedUsable
  <2>3. ASSUME NEW c \in Client, SwitchRelay(c) PROVE Usable(list')
    <3>1. PICK e \in list : MayDrop(list, e) /\ list' = Switched(list, e)
      BY <2>3 DEF SwitchRelay, Found
    <3> QED BY <3>1, <2>0, SwitchedUsable
  <2>4. CASE Gone BY <2>4, InitialUsable DEF Gone
  <2>5. CASE UNCHANGED relays BY <2>5 DEF relays
  <2> QED BY <2>1, <2>2, <2>3, <2>4, <2>5, SetEdits, Frame, Zenon DEF Signal, allVars, routeVars
<1>3. Usable(list) => SetStaysUsable
  BY DEF Usable, SetStaysUsable, Active, Urls
<1> QED BY <1>1, <1>2, <1>3, Typed, PTL DEF Spec, Safety

-----------------------------------------------------------------------------
(* The backup reaches the set *)

\* Why every enabled relay gets the backup: it has it or missed it, is being published to, or
\* there is a job or a timer that will publish to the set as it is then.
OnTheWay ==
    monitored => \A r \in Active(list) :
        \/ r \in held \cup missed \/ r \in job.targets
        \/ queue # <<>>
        \/ retryTimer /\ job = NoJob

\* A queue to which a job was appended is not empty.
LEMMA NotEmpty == ASSUME NEW S, NEW s \in Seq(S), NEW e \in S PROVE Append(s, e) # <<>>
<1>1. Len(Append(s, e)) = Len(s) + 1 /\ Len(s) \in Nat /\ Len(<<>>) = 0
  OBVIOUS
<1>2. Len(s) + 1 # 0 BY <1>1
<1> QED BY <1>1, <1>2, Zenon

\* No step forgets a relay: a change of the set appends a job, also while one is at work.
LEMMA OnTheWayStep == ASSUME TypeInv, OnTheWay, [Next]_allVars PROVE OnTheWay'
<1> USE DEF OnTheWay, setting, requests, relays, service, copies
<1>0. \A e \in Client \cup Others : Append(queue, e) # <<>>
  <2>1. queue \in Seq(Client \cup Others) BY DEF TypeInv, RoutesTypeOK
  <2> QED BY <2>1, NotEmpty
<1>1. CASE queue' # <<>>
  BY <1>1
<1>2. CASE UNCHANGED <<monitored, list, queue, job, retryTimer, held, missed>>
  BY <1>2
<1>3. CASE ExportFails BY <1>3 DEF ExportFails
<1>4. CASE Publishes BY <1>4 DEF Publishes
<1>5. CASE Published
  <2>1. /\ held \cup missed \subseteq held' \cup missed'
        /\ job.targets \subseteq held' \cup missed'
        /\ job # NoJob /\ UNCHANGED <<monitored, list, queue>>
    BY <1>5 DEF Published
  <2> QED BY <2>1
<1>6. CASE Forgets
  <2>1. /\ held \cup missed \subseteq held' \cup missed'
        /\ UNCHANGED <<monitored, list, queue, job, retryTimer>>
    BY <1>6 DEF Forgets
  <2> QED BY <2>1
<1>7. CASE Signal BY <1>7 DEF Signal, Gone
<1>8. CASE Retry \/ Refresh BY <1>8, <1>0, <1>1 DEF Retry, Refresh, Others
<1>9. ASSUME NEW c \in Client, Arrives(c) PROVE OnTheWay'
  <2>1. UNCHANGED <<monitored, list, job, retryTimer, held, missed>> BY <1>9, Zenon DEF Arrives
  <2>2. queue' = queue \/ queue' = Append(queue, c) BY <1>9, Zenon DEF Arrives
  <2> QED BY <1>0, <1>1, <1>2, <2>1, <2>2
<1>10. ASSUME NEW c \in Client, GoesOn(c) PROVE OnTheWay'
  <2>1. CASE AddRelay(c) \/ RemoveRelay(c) \/ SwitchRelay(c)
    <3>1. Changed BY <2>1, Zenon DEF AddRelay, RemoveRelay, SwitchRelay
    <3> QED BY <3>1, <1>0, <1>1 DEF Changed, Others
  <2>2. CASE UNCHANGED <<monitored, list, queue, job, retryTimer, held, missed>> BY <1>2, <2>2
  <2> QED BY <1>10, <2>1, <2>2, Zenon DEF GoesOn, BodyRefused, ProbeRelay, CheckEnds, TestRelay,
                                          Testing, RelayTested
<1> QED BY <1>2, <1>3, <1>4, <1>5, <1>6, <1>7, <1>8, <1>9, <1>10, Frame, Zenon
     DEF RoutesNext, ServiceGoesOn, allVars, routeVars

\* When the service has come to rest, every enabled relay holds the backup, but for those a
\* publish did not reach or that lost it (Monitor's listener, BackupService).
THEOREM EveryActiveIsServed == Spec => []ActiveIsServed
<1>1. Init => OnTheWay
  <2> SUFFICES ASSUME Init PROVE OnTheWay OBVIOUS
  <2>1. monitored => queue = <<"start">> BY Zenon DEF Init, RoutesInit
  <2> QED BY <2>1 DEF OnTheWay
<1>2. TypeInv /\ OnTheWay /\ [Next]_allVars => OnTheWay'
  BY OnTheWayStep
<1>3. OnTheWay => ActiveIsServed
  BY DEF OnTheWay, ActiveIsServed, NoJob
<1> QED BY <1>1, <1>2, <1>3, Typed, PTL DEF Spec, Safety

-----------------------------------------------------------------------------
(* The tests take turns *)

\* A job that a client asked for has that client waiting for it, and for no other.
Asked(q, who, req) ==
    /\ \A i \in DOMAIN q : q[i] \in Client => req[q[i]] = "publish" /\ q[i] # who
    /\ \A i, j \in DOMAIN q : q[i] = q[j] /\ q[i] \in Client => i = j
    /\ who \in Client => req[who] = "publish"

\* The service's queue.
QueueType == Seq(Client \cup Others)

\* A job of the service's own.
LEMMA AskedByNone ==
    ASSUME NEW q \in QueueType, NEW who, NEW req, Asked(q, who, req), NEW e \in Others
    PROVE  Asked(Append(q, e), who, req)
<1>0. e \notin Client BY RoutesAssumption DEF Others
<1>1. DOMAIN q = 1 .. Len(q) /\ Len(q) \in Nat /\ DOMAIN Append(q, e) = 1 .. Len(q) + 1
  BY DEF QueueType
<1>2. \A i \in 1 .. Len(q) : Append(q, e)[i] = q[i] BY DEF QueueType
<1>3. Append(q, e)[Len(q) + 1] = e BY DEF QueueType
<1>4. \A i \in DOMAIN Append(q, e) : Append(q, e)[i] \in Client =>
            i \in DOMAIN q /\ Append(q, e)[i] = q[i]
  BY <1>0, <1>1, <1>2, <1>3
<1> HIDE DEF QueueType
<1> QED BY <1>4, Zenon DEF Asked

\* publishNow() of a request that has just come.
LEMMA AskedByClient ==
    ASSUME NEW q \in QueueType, NEW who, NEW req \in [Client -> Waiting],
           Asked(q, who, req), NEW c \in Client, req[c] # "publish"
    PROVE  Asked(Append(q, c), who, [req EXCEPT ![c] = "publish"])
<1>1. DOMAIN q = 1 .. Len(q) /\ Len(q) \in Nat /\ DOMAIN Append(q, c) = 1 .. Len(q) + 1
  BY DEF QueueType
<1>2. \A i \in 1 .. Len(q) : Append(q, c)[i] = q[i] BY DEF QueueType
<1>3. Append(q, c)[Len(q) + 1] = c BY DEF QueueType
<1>4. \A i \in DOMAIN q : q[i] # c BY DEF Asked
<1>5. who # c BY DEF Asked
<1> DEFINE new == [req EXCEPT ![c] = "publish"]
<1>6. \A d \in Client : new[d] = IF d = c THEN "publish" ELSE req[d] OBVIOUS
<1>7. \A i \in DOMAIN Append(q, c) : \/ i \in DOMAIN q /\ Append(q, c)[i] = q[i]
                                     \/ i = Len(q) + 1 /\ Append(q, c)[i] = c
  <2> SUFFICES ASSUME NEW i \in 1 .. Len(q) + 1
              PROVE  \/ i \in DOMAIN q /\ Append(q, c)[i] = q[i]
                     \/ i = Len(q) + 1 /\ Append(q, c)[i] = c
    BY <1>1
  <2>1. i \in 1 .. Len(q) \/ i = Len(q) + 1 BY <1>1
  <2>2. CASE i \in 1 .. Len(q)
    <3>1. i \in DOMAIN q BY <1>1, <2>2
    <3>2. Append(q, c)[i] = q[i] BY <1>2, <2>2, Zenon
    <3> QED BY <3>1, <3>2, Zenon
  <2>3. CASE i = Len(q) + 1 BY <1>3, <2>3, Zenon
  <2> QED BY <2>1, <2>2, <2>3
<1> HIDE DEF new
<1> QED BY <1>4, <1>5, <1>6, <1>7 DEF Asked

\* A request that waits for something else goes on.
LEMMA AskedMoved ==
    ASSUME NEW q, NEW who, NEW req \in [Client -> Waiting], Asked(q, who, req), NEW c \in Client,
           req[c] # "publish", NEW to
    PROVE  Asked(q, who, [req EXCEPT ![c] = to])
<1>1. \A d \in Client : req[d] = "publish" => [req EXCEPT ![c] = to][d] = "publish" OBVIOUS
<1> QED BY <1>1, Zenon DEF Asked

\* The job at the head begins.
LEMMA AskedTaken ==
    ASSUME NEW q \in QueueType, q # <<>>, NEW req, Asked(q, "nobody", req)
    PROVE  Asked(Tail(q), Head(q), req)
<1>1. /\ DOMAIN q = 1 .. Len(q) /\ Len(q) \in Nat \ {0} /\ DOMAIN Tail(q) = 1 .. Len(q) - 1
      /\ Head(q) = q[1]
  BY DEF QueueType
<1>2. \A i \in DOMAIN Tail(q) : i + 1 \in DOMAIN q /\ i + 1 # 1 /\ Tail(q)[i] = q[i + 1] BY <1>1
     DEF QueueType
<1>3. 1 \in DOMAIN q BY <1>1
<1>4. \A i, j \in DOMAIN Tail(q) : i + 1 = j + 1 => i = j BY <1>1
<1> QED BY <1>1, <1>2, <1>3, <1>4 DEF Asked

\* A job ends and its request is answered.
LEMMA AskedAnswered ==
    ASSUME NEW q, NEW who, NEW req, Asked(q, who, req)
    PROVE  Asked(q, "nobody", [c \in Client |-> IF c = who THEN "none" ELSE req[c]])
<1>0. "nobody" \notin Client BY RoutesAssumption
<1> QED BY <1>0 DEF Asked

\* The flag is set while, and only while, one request is testing.  That an answer to a publish
\* never ends another request's test is what the first part is for.
TakesTurns ==
    /\ Asked(queue, job.for, request)
    /\ \A c, d \in Client : request[c] = "testing" /\ request[d] = "testing" => c = d
    /\ relayTestBusy <=> \E c \in Client : request[c] = "testing"

\* A step of the abstract resource or none.
TurnStep == [Tests!Next]_(Tests!held)

\* Steps that leave the tests alone.
LEMMA TurnUnchanged ==
    ASSUME TakesTurns, Asked(queue', job.for', request'),
           \A c \in Client : request'[c] = "testing" <=> request[c] = "testing",
           relayTestBusy' = relayTestBusy
    PROVE  TakesTurns' /\ TurnStep
<1>1. {c \in Client : request'[c] = "testing"} = {c \in Client : request[c] = "testing"}
  OBVIOUS
<1>2. TurnStep BY <1>1 DEF TurnStep, Tests!held
<1>3. TakesTurns' BY DEF TakesTurns
<1> QED BY <1>2, <1>3

\* The route that begins a test, or answers 409.
LEMMA TurnTaken ==
    ASSUME TypeInv, TakesTurns, NEW c \in Client, TestRelay(c)
    PROVE  TakesTurns' /\ TurnStep
<1>0. request \in [Client -> Waiting] /\ relayTestBusy \in BOOLEAN BY DEF TypeInv, RoutesTypeOK
<1>1. UNCHANGED <<queue, job>> BY Zenon DEF TestRelay, service
<1>2. PICK to \in {"none", "testing"} :
        /\ request[c] = "test body" /\ request' = [request EXCEPT ![c] = to]
        /\ IF relayTestBusy
           THEN to = "none" /\ UNCHANGED relayTestBusy
           ELSE to = "testing" /\ relayTestBusy' = TRUE
  BY DEF TestRelay, Moves
<1>3. Asked(queue', job.for', request')
  BY <1>0, <1>1, <1>2, AskedMoved DEF TakesTurns
<1>4. \A d \in Client : request'[d] = IF d = c THEN to ELSE request[d]
  BY <1>0, <1>2
<1>5. CASE relayTestBusy
  <2>1. \A d \in Client : request'[d] = "testing" <=> request[d] = "testing"
    BY <1>2, <1>4, <1>5
  <2> QED BY <1>2, <1>3, <1>5, <2>1, TurnUnchanged
<1>6. CASE ~relayTestBusy
  <2>1. to = "testing" /\ relayTestBusy' = TRUE BY <1>2, <1>6
  <2>2. \A d \in Client : request'[d] = "testing" <=> d = c
    BY <1>4, <1>6, <2>1 DEF TakesTurns
  <2>3. TakesTurns' BY <1>3, <2>1, <2>2 DEF TakesTurns
  <2>4. {d \in Client : request'[d] = "testing"} = {c} BY <2>2
  <2>5. TurnStep BY <1>6, <2>1, <2>4 DEF TurnStep, Tests!Next, Tests!Acquire
  <2> QED BY <2>3, <2>5
<1> QED BY <1>5, <1>6

\* The end of a test, however it ended.
LEMMA TurnEnds ==
    ASSUME TypeInv, TakesTurns, NEW c \in Client, RelayTested(c)
    PROVE  TakesTurns' /\ TurnStep
<1>0. request \in [Client -> Waiting] BY DEF TypeInv, RoutesTypeOK
<1>1. UNCHANGED <<queue, job>> /\ relayTestBusy' = FALSE BY Zenon DEF RelayTested, service
<1>2. request[c] = "testing" /\ request' = [request EXCEPT ![c] = "none"]
  BY Zenon DEF RelayTested, Moves
<1>3. Asked(queue', job.for', request')
  BY <1>0, <1>1, <1>2, AskedMoved DEF TakesTurns
<1>4. \A d \in Client : request'[d] = IF d = c THEN "none" ELSE request[d]
  BY <1>0, <1>2
<1>5. \A d \in Client : request'[d] # "testing"
  BY <1>2, <1>4 DEF TakesTurns
<1>6. TakesTurns' BY <1>1, <1>3, <1>5 DEF TakesTurns
<1>7. {d \in Client : request'[d] = "testing"} = {} /\ {d \in Client : request[d] = "testing"} # {}
  BY <1>2, <1>5
<1>8. TurnStep BY <1>1, <1>7 DEF TurnStep, Tests!Next, Tests!Release
<1> QED BY <1>6, <1>8

\* The end of the process.
LEMMA TurnGone == ASSUME TakesTurns, Gone PROVE TakesTurns' /\ TurnStep
<1>1. /\ request' = [c \in Client |-> "none"] /\ relayTestBusy' = FALSE
      /\ queue' = <<>> /\ job' = NoJob
  BY Zenon DEF Gone
<1>2. "nobody" \notin Client BY RoutesAssumption
<1>3. Asked(queue', job'.for, request') BY <1>1, <1>2 DEF Asked, NoJob
<1>4. \A d \in Client : request'[d] # "testing" BY <1>1
<1>5. TakesTurns' BY <1>1, <1>3, <1>4 DEF TakesTurns
<1>6. {d \in Client : request'[d] = "testing"} = {} BY <1>4
<1>7. CASE relayTestBusy
  <2>1. {d \in Client : request[d] = "testing"} # {} BY <1>7 DEF TakesTurns
  <2> QED BY <1>1, <1>5, <1>6, <2>1 DEF TurnStep, Tests!Next, Tests!Release
<1>8. CASE ~relayTestBusy
  <2>1. {d \in Client : request[d] = "testing"} = {} BY <1>8 DEF TakesTurns
  <2> QED BY <1>1, <1>5, <1>6, <1>8, <2>1 DEF TurnStep, Tests!held
<1> QED BY <1>7, <1>8

\* Requests.
LEMMA TurnRequest ==
    ASSUME TypeInv, TakesTurns, NEW c \in Client, Arrives(c) \/ GoesOn(c)
    PROVE  TakesTurns' /\ TurnStep
<1>0. request \in [Client -> Waiting] /\ queue \in QueueType BY
     DEF TypeInv, RoutesTypeOK, QueueType
<1>1. CASE Arrives(c)
  <2>1. PICK kind \in {"test body", "relays", "check", "publish"} :
           /\ Moves(c, "none", kind)
           /\ queue' = IF kind = "publish" THEN Append(queue, c) ELSE queue
    BY <1>1, Zenon DEF Arrives
  <2>2. UNCHANGED <<relayTestBusy, job>> BY <1>1, Zenon DEF Arrives
  <2>3. Asked(queue', job.for', request')
    BY <1>0, <2>1, <2>2, AskedMoved, AskedByClient DEF Moves, TakesTurns
  <2>4. \A d \in Client : request'[d] = "testing" <=> request[d] = "testing"
    BY <1>0, <2>1 DEF Moves
  <2> QED BY <2>2, <2>3, <2>4, TurnUnchanged
<1>2. CASE AddRelay(c) \/ RemoveRelay(c) \/ SwitchRelay(c)
  <2>1. Moves(c, "relays", "none") /\ Changed /\ UNCHANGED <<relayTestBusy, job>>
    BY <1>2, Zenon DEF AddRelay, RemoveRelay, SwitchRelay, Edits
  <2>2. Asked(queue, job.for, request')
    BY <1>0, <2>1, AskedMoved DEF Moves, TakesTurns
  <2>3. Asked(queue', job.for', request')
    BY <1>0, <2>1, <2>2, AskedByNone DEF Changed, Others
  <2>4. \A d \in Client : request'[d] = "testing" <=> request[d] = "testing"
    BY <1>0, <2>1 DEF Moves
  <2> QED BY <2>1, <2>3, <2>4, TurnUnchanged
<1>3. CASE BodyRefused(c) \/ ProbeRelay(c) \/ CheckEnds(c)
  <2>1. PICK from \in {"relays", "test body", "check"}, to \in {"none", "check"} :
            Moves(c, from, to)
    BY <1>3 DEF BodyRefused, ProbeRelay, CheckEnds
  <2>2. UNCHANGED <<relayTestBusy, job, queue>>
    BY <1>3, Zenon DEF BodyRefused, ProbeRelay, CheckEnds, service
  <2>3. Asked(queue', job.for', request')
    BY <1>0, <2>1, <2>2, AskedMoved DEF Moves, TakesTurns
  <2>4. \A d \in Client : request'[d] = "testing" <=> request[d] = "testing"
    BY <1>0, <2>1 DEF Moves
  <2> QED BY <2>2, <2>3, <2>4, TurnUnchanged
<1>4. CASE Testing(c)
  <2>1. UNCHANGED <<request, relayTestBusy, queue, job>> BY <1>4, Zenon
       DEF Testing, requests, service
  <2>2. Asked(queue', job.for', request') BY <2>1 DEF TakesTurns
  <2> QED BY <2>1, <2>2, TurnUnchanged
<1> QED BY <1>1, <1>2, <1>3, <1>4, TurnTaken, TurnEnds, Zenon DEF GoesOn

\* Jobs, and the answers to those who asked for them.
LEMMA TurnJobs ==
    ASSUME TypeInv, TakesTurns, ServiceGoesOn
    PROVE  TakesTurns' /\ TurnStep
<1>0. request \in [Client -> Waiting] /\ queue \in QueueType BY
     DEF TypeInv, RoutesTypeOK, QueueType
<1>1. CASE ExportFails \/ Published
  <2>1. PICK who : AnswerFor(who) /\ (who \in Client => request[who] = "publish")
                   /\ Asked(queue', job.for', request')
    <3>1. CASE ExportFails
      <4>1. /\ Asked(queue, "nobody", request) /\ queue # <<>>
            /\ queue' = Tail(queue) /\ AnswerFor(Head(queue)) /\ UNCHANGED job /\ job.for = "nobody"
        BY <3>1 DEF ExportFails, NoJob, TakesTurns
      <4>2. Asked(Tail(queue), Head(queue), request) BY <1>0, <4>1, AskedTaken
      <4>3. Asked(queue', job.for', request') BY <4>1, <4>2, AskedAnswered DEF AnswerFor
      <4>4. Head(queue) \in Client => request[Head(queue)] = "publish" BY <4>2 DEF Asked
      <4> QED BY <4>1, <4>3, <4>4
    <3>2. CASE Published
      <4>1. AnswerFor(job.for) /\ UNCHANGED queue /\ job' = NoJob BY <3>2, Zenon DEF Published
      <4>2. job.for \in Client => request[job.for] = "publish" BY DEF TakesTurns, Asked
      <4>3. Asked(queue, "nobody", request') BY <4>1, AskedAnswered DEF AnswerFor, TakesTurns
      <4>4. Asked(queue', job.for', request') BY <4>1, <4>3 DEF NoJob
      <4> QED BY <4>1, <4>2, <4>4
    <3> QED BY <1>1, <3>1, <3>2
  <2>2. \A d \in Client : request'[d] = "testing" <=> request[d] = "testing"
    BY <2>1 DEF AnswerFor
  <2>3. UNCHANGED relayTestBusy BY <1>1, Zenon DEF ExportFails, Published
  <2> QED BY <2>1, <2>2, <2>3, TurnUnchanged
<1>2. CASE Publishes
  <2>1. UNCHANGED <<request, relayTestBusy>> BY <1>2, Zenon DEF Publishes, requests
  <2>2. Asked(queue', job.for', request')
    BY <1>0, <1>2, <2>1, AskedTaken DEF Publishes, NoJob, TakesTurns
  <2> QED BY <2>1, <2>2, TurnUnchanged
<1>3. CASE Retry \/ Refresh
  <2>1. UNCHANGED <<request, relayTestBusy, job>> BY <1>3, Zenon DEF Retry, Refresh, requests
  <2>2. PICK e \in Others : queue' = Append(queue, e) BY <1>3 DEF Retry, Refresh, Others
  <2>3. Asked(queue', job.for', request')
    BY <1>0, <2>1, <2>2, AskedByNone DEF TakesTurns
  <2> QED BY <2>1, <2>3, TurnUnchanged
<1> QED BY <1>1, <1>2, <1>3 DEF ServiceGoesOn

\* All steps.
LEMMA TurnKept == ASSUME TypeInv, TakesTurns, [Next]_allVars PROVE TakesTurns' /\ TurnStep
<1>1. CASE UNCHANGED <<request, relayTestBusy, queue, job>>
  <2>1. Asked(queue', job.for', request') BY <1>1 DEF TakesTurns
  <2> QED BY <1>1, <2>1, TurnUnchanged
<1>2. CASE RoutesNext
  <2>1. CASE Forgets BY <1>1, <2>1, Zenon DEF Forgets, requests, service
  <2> QED BY <1>2, <2>1, TurnRequest, TurnJobs, Zenon DEF RoutesNext
<1>3. CASE Signal BY <1>3, TurnGone, Zenon DEF Signal
<1> QED BY <1>1, <1>2, <1>3, Frame, Zenon DEF requests, service, allVars, routeVars

\* The console's relay tests implement, step by step, a resource that one user at a time may
\* hold (relayTestBusy); that each one is given back in time is checked by TLC.
THEOREM TurnsAreTaken == Spec => Tests!Safe
<1>1. Init => TakesTurns /\ Tests!Init
  <2> SUFFICES ASSUME Init PROVE TakesTurns /\ Tests!Init OBVIOUS
  <2>1. /\ request = [c \in Client |-> "none"] /\ relayTestBusy = FALSE /\ job = NoJob
        /\ queue = <<>> \/ queue = <<"start">>
    BY Zenon DEF Init, RoutesInit
  <2>2. "nobody" \notin Client /\ "start" \notin Client BY RoutesAssumption
  <2>3. Asked(queue, job.for, request) BY <2>1, <2>2 DEF Asked, NoJob
  <2>4. \A d \in Client : request[d] # "testing" BY <2>1
  <2>5. {d \in Client : request[d] = "testing"} = {} BY <2>4
  <2> QED BY <2>1, <2>3, <2>4, <2>5 DEF TakesTurns, Tests!Init
<1>2. TypeInv /\ TakesTurns /\ [Next]_allVars => TakesTurns' /\ [Tests!Next]_(Tests!held)
  BY TurnKept DEF TurnStep
<1> QED BY <1>1, <1>2, Typed, PTL DEF Spec, Safety, Tests!Safe

-----------------------------------------------------------------------------
(* The network *)

\* The operator meant this network, as far as the program can know.
Meant ==
    /\ env.expect \in {"any", env.network}
    /\ env.network = "mainnet" => env.allow \/ (Is("serve") /\ known = "unknown")

\* What assertNetworkAllowed lets pass is meant.
LEMMA AllowedMeansMeant ==
    ASSUME EnvOK, NEW network \in {env.network, "unknown"}, Allowed(network),
           network # env.network => Is("serve"), known' = network, UNCHANGED env
    PROVE  Meant'
<1>1. env.expect \in {"any", "mainnet", "test"}
  BY ProgramsAssumption DEF EnvOK, Environment
<1>2. CASE network = env.network BY <1>1, <1>2 DEF Allowed, Meant
<1>3. CASE network = "unknown" BY <1>1, <1>2, <1>3 DEF Allowed, Meant
<1> QED BY <1>2, <1>3

\* Apart from the two steps that ask for the network, nothing about it changes.
LEMMA MeantKept == ASSUME Meant, [Next]_allVars, at \notin {"info", "poll"} PROVE Meant'
<1>1. UNCHANGED <<env, known>>
 BY Zenon DEF Next, Advances, Begin, TestGoesOn, TestExit, Info, KeyDerived, VerifyExits,
              RestoreExits, Baked, BakeExits, BackupStarted, BackupRuns, Served, Polled,
              MonitorStarts, Serves, Signal, allVars, program
<1> QED BY <1>1 DEF Meant

\* A console without a monitor, and a program that does not serve, publishes nothing.
IdleUnmonitored ==
    /\ monitored => env.node
    /\ at # "serving" => job = NoJob
    /\ ~monitored => /\ queue = <<>> /\ job = NoJob /\ ~retryTimer
                     /\ \A c \in Client : request[c] \notin {"relays", "check", "publish"}

\* No request can make it.
LEMMA IdleStep == ASSUME TypeInv, IdleUnmonitored, [Next]_allVars PROVE IdleUnmonitored'
<1>0. UNCHANGED env /\ request \in [Client -> Waiting]
  BY EnvKept DEF TypeInv, RoutesTypeOK
<1>1. CASE at = "serving" /\ RoutesNext /\ UNCHANGED <<env, at, code, known, file>>
  <2>1. UNCHANGED monitored
    BY <1>1, Zenon DEF RoutesNext, GoesOn, ServiceGoesOn, Arrives, BodyRefused, ProbeRelay,
                       CheckEnds, TestRelay, Testing, RelayTested, ExportFails, Publishes,
                       Published, Retry, Refresh, Forgets, AddRelay, RemoveRelay, SwitchRelay,
                       Edits, setting
  <2>2. CASE monitored BY <1>0, <1>1, <2>1, <2>2 DEF IdleUnmonitored
  <2>3. CASE ~monitored
    <3>1. /\ queue = <<>> /\ job = NoJob /\ ~retryTimer
          /\ \A c \in Client : request[c] \notin {"relays", "check", "publish"}
      BY <2>3 DEF IdleUnmonitored
    <3>2. CASE Forgets
      BY <2>1, <2>3, <3>1, <3>2, <1>0, <1>1 DEF Forgets, IdleUnmonitored, requests, service
    <3>3. ~ServiceGoesOn
      BY <2>3, <3>1 DEF ServiceGoesOn, ExportFails, Publishes, Published, Retry, Refresh
    <3>4. ASSUME NEW c \in Client, NEW to \in {"none", "test body", "testing"},
                 Moves(c, request[c], to) \/ UNCHANGED request, UNCHANGED <<queue, job, retryTimer>>
          PROVE  IdleUnmonitored'
      BY <1>0, <1>1, <2>1, <2>3, <3>1, <3>4 DEF Moves, IdleUnmonitored
    <3>5. ASSUME NEW c \in Client, Arrives(c) PROVE IdleUnmonitored'
      <4>1. Moves(c, request[c], "test body") /\ UNCHANGED <<queue, job, retryTimer>>
        BY <2>3, <3>5 DEF Arrives, Moves
      <4> QED BY <3>4, <4>1
    <3>6. ASSUME NEW c \in Client, GoesOn(c) PROVE IdleUnmonitored'
      <4>1. BodyRefused(c) \/ TestRelay(c) \/ Testing(c) \/ RelayTested(c)
        BY <3>1, <3>6, Zenon DEF GoesOn, CheckEnds, ProbeRelay, AddRelay, RemoveRelay,
                                 SwitchRelay, Edits, Moves
      <4>2. UNCHANGED <<queue, job, retryTimer>>
        BY <4>1, Zenon DEF BodyRefused, TestRelay, Testing, RelayTested, service
      <4>3. \E to \in {"none", "testing"} : Moves(c, request[c], to) \/ UNCHANGED request
        BY <4>1 DEF BodyRefused, TestRelay, Testing, RelayTested, Moves, requests
      <4> QED BY <3>4, <4>2, <4>3
    <3> QED BY <1>1, <3>2, <3>3, <3>5, <3>6, Zenon DEF RoutesNext
  <2> QED BY <2>2, <2>3
<1>2. CASE Signal BY <1>0, <1>2 DEF Signal, Gone, IdleUnmonitored
<1>3. CASE UNCHANGED <<setting, requests, relays, service, copies, faults>> /\ Advances
  <2>1. at # "serving"
    BY <1>3 DEF Advances, Begin, TestGoesOn, TestExit, Info, KeyDerived, VerifyExits,
                RestoreExits, Baked, BakeExits, BackupStarted, BackupRuns, Served, Polled,
                MonitorStarts
  <2> QED BY <1>0, <1>3, <2>1 DEF IdleUnmonitored, setting, requests, service
<1>4. CASE UNCHANGED allVars BY <1>4, Zenon DEF IdleUnmonitored, allVars, program, routeVars,
                                                setting, requests, service
<1> QED BY <1>1, <1>2, <1>3, <1>4, Frame

\* Only a job reaches relays.
LEMMA OnlyJobsPublish ==
    ASSUME RoutesNext, ~(held' \subseteq held) PROVE job # NoJob
<1>1. Published \/ Forgets \/ UNCHANGED held
  BY Zenon DEF RoutesNext, GoesOn, ServiceGoesOn, Arrives, BodyRefused, ProbeRelay, CheckEnds,
               TestRelay, Testing, RelayTested, ExportFails, Publishes, Retry, Refresh,
               AddRelay, RemoveRelay, SwitchRelay, Edits, copies
<1> QED BY <1>1 DEF Published, Forgets

\* Nothing is done before the network is known to be meant, and what is done later is done there.
Cautious ==
    /\ at \in {"begin", "test", "info", "poll"} => did = {}
    /\ at \in {"key", "verify", "restore", "bake", "confirm", "backup", "running", "start"} => Meant
    /\ at = "serving" /\ monitored => Meant
    /\ did # {} => Meant

\* Every step of every program keeps to it.
LEMMA CautiousStep == ASSUME TypeInv, IdleUnmonitored, Cautious, [Next]_allVars PROVE Cautious'
<1>0. UNCHANGED env /\ EnvOK
  BY EnvKept DEF TypeInv
<1>1. CASE Begin
  <2>1. at' \in {"test", "info", "over"} /\ did' = {} BY <1>1 DEF Begin, Cautious
  <2> QED BY <2>1 DEF Cautious
<1>2. CASE TestGoesOn \/ TestExit
  <2>1. at' \in {"test", "over"} /\ did' = {} BY <1>2 DEF TestGoesOn, TestExit, program, Cautious
  <2> QED BY <2>1 DEF Cautious
<1>3. CASE Info
  <2>1. at' \in {"over", "bake", "key"} /\ did' = {} BY <1>3 DEF Info, Cautious
  <2>2. at' # "over" => Allowed(env.network) /\ known' = env.network BY <1>3 DEF Info
  <2>3. at' # "over" => Meant' BY <1>0, <2>2, AllowedMeansMeant
  <2> QED BY <2>1, <2>3 DEF Cautious
<1>4. CASE KeyDerived \/ VerifyExits \/ RestoreExits \/ Baked \/ BakeExits
           \/ BackupStarted \/ BackupRuns \/ MonitorStarts
  <2>1. at \in {"key", "verify", "restore", "bake", "confirm", "backup", "running", "start"}
    BY <1>4 DEF KeyDerived, VerifyExits, RestoreExits, Baked, BakeExits, BackupStarted,
                BackupRuns, MonitorStarts
  <2>2. Meant' BY <2>1, MeantKept DEF Cautious
  <2>3. at' \notin {"begin", "test", "info", "poll"}
    <3>1. KeyDerived => at' = env.command \/ at' = "over" BY DEF KeyDerived
    <3>2. at = "key" => env.command \in {"pubkey", "verify", "restore", "backup"}
      BY DEF TypeInv, Phase
    <3> QED BY <1>4, <2>1, <3>1, <3>2 DEF KeyDerived, VerifyExits, RestoreExits, Baked,
                                          BakeExits, BackupStarted, BackupRuns, MonitorStarts
  <2> QED BY <2>2, <2>3 DEF Cautious
<1>5. CASE Served
  <2>1. at' \in {"over", "poll", "serving"} /\ did' = {} BY <1>5 DEF Served, Cautious
  <2>2. at' = "serving" => ~monitored' BY <1>5 DEF Served, IdleUnmonitored, routeVars, setting
  <2> QED BY <2>1, <2>2 DEF Cautious
<1>6. CASE Polled
  <2>1. at' \in {"over", "start"} /\ did' = {} BY <1>6 DEF Polled, Cautious
  <2>2. at' # "over" => Allowed(known') /\ known' \in {env.network, "unknown"} BY <1>6 DEF Polled
  <2>3. Is("serve") BY <1>6 DEF Polled, TypeInv, Phase
  <2>4. at' # "over" => Meant' BY <1>0, <2>2, <2>3, AllowedMeansMeant
  <2> QED BY <2>1, <2>4 DEF Cautious
<1>7. CASE Serves(RoutesNext)
  <2>1. /\ at = "serving" /\ at' = at /\ RoutesNext
        /\ did' = IF held' \subseteq held THEN did ELSE did \cup {"published"}
    BY <1>7, Zenon DEF Serves
  <2>2. UNCHANGED monitored
    BY <2>1, Zenon DEF RoutesNext, GoesOn, ServiceGoesOn, Arrives, BodyRefused, ProbeRelay,
                       CheckEnds, TestRelay, Testing, RelayTested, ExportFails, Publishes,
                       Published, Retry, Refresh, Forgets, AddRelay, RemoveRelay, SwitchRelay,
                       Edits, setting
  <2>3. did' # did => Meant
    BY <2>1, OnlyJobsPublish DEF IdleUnmonitored, Cautious
  <2>4. Meant => Meant' BY <2>1, MeantKept
  <2> QED BY <2>1, <2>2, <2>3, <2>4 DEF Cautious
<1>8. CASE Signal
  <2>1. /\ at' = "over"
        /\ \E acks \in SUBSET job.targets : held' = held \cup acks
        /\ did' = IF held' \subseteq held THEN did ELSE did \cup {"published"}
        /\ UNCHANGED <<env, known>>
    BY <1>8, Zenon DEF Signal
  <2>2. did' # did => job # NoJob BY <2>1 DEF NoJob
  <2>3. did' # did => Meant BY <2>2 DEF IdleUnmonitored, Cautious
  <2>4. Meant => Meant' BY <2>1 DEF Meant
  <2> QED BY <2>1, <2>3, <2>4 DEF Cautious
<1>9. CASE UNCHANGED allVars
  <2>1. UNCHANGED <<env, known, at, did, monitored>> BY <1>9, Zenon
       DEF allVars, program, routeVars, setting
  <2> QED BY <2>1 DEF Cautious, Meant
<1> QED BY <1>1, <1>2, <1>3, <1>4, <1>5, <1>6, <1>7, <1>8, <1>9 DEF Next, Advances

\* A program that has touched the node or the relays is on a network the operator meant
\* (assertNetworkAllowed, main, Monitor.begin).
THEOREM NetworkMeant == Spec => []NetworkIsMeant
<1>1. Init => IdleUnmonitored /\ Cautious
  <2> SUFFICES ASSUME Init PROVE IdleUnmonitored /\ Cautious OBVIOUS
  <2>1. /\ at = "begin" /\ did = {} /\ job = NoJob /\ retryTimer = FALSE
        /\ monitored <=> Is("serve") /\ env.node
        /\ request = [c \in Client |-> "none"] /\ (~monitored => queue = <<>>)
    BY DEF Init, RoutesInit
  <2> QED BY <2>1 DEF IdleUnmonitored, Cautious
<1>2. TypeInv /\ IdleUnmonitored /\ Cautious /\ [Next]_allVars => IdleUnmonitored' /\ Cautious'
  BY IdleStep, CautiousStep
<1>3. Cautious => NetworkIsMeant
  BY DEF Cautious, NetworkIsMeant, Meant
<1> QED BY <1>1, <1>2, <1>3, Typed, PTL DEF Spec, Safety

-----------------------------------------------------------------------------
(* The public relay test *)

\* A test that is over and has left its event tells so.
Honest(to) == to.at = "done" /\ to.kept => to.errors \/ to.honored = "no" \/ to.blind

\* One test moves, and the others stay as they are.
LEMMA HonestStep ==
    ASSUME test \in [Tester -> Test], LeftoverIsReported, NEW t \in Tester, NEW from, NEW to,
           Steps(t, from, to), Honest(to)
    PROVE  LeftoverIsReported'
<1>1. \A u \in Tester : test'[u] = IF u = t THEN to ELSE test[u]
  BY DEF Steps
<1> QED BY <1>1 DEF LeftoverIsReported, Honest

\* The records that the steps of a test make of one are honest.
LEMMA HonestTests ==
    ASSUME NEW x \in Test, NEW k, NEW r, NEW b
    PROVE  /\ Honest([x EXCEPT !.at = "retrieve", !.kept = k, !.published = TRUE])
           /\ Honest([x EXCEPT !.at = "done", !.kept = k, !.errors = TRUE])
           /\ Honest([x EXCEPT !.at = "delete", !.answer = r, !.errors = b])
           /\ Honest([x EXCEPT !.at = "recheck", !.kept = k, !.requested = TRUE])
           /\ Honest([x EXCEPT !.at = "done", !.blind = b,
                               !.honored = IF x.kept /\ ~b THEN "no" ELSE "yes"])
  BY DEF Honest, Test

\* So is every step of publicRelayTest.
LEMMA LeftoverStep ==
    ASSUME test \in [Tester -> Test], LeftoverIsReported, NEW t \in Tester,
           TestStep(t) \/ BeginTest(t) \/ TestOver(t)
    PROVE  LeftoverIsReported'
<1>0. test[t] \in Test OBVIOUS
<1>1. CASE TestPublished(t) BY <1>0, <1>1, HonestTests, HonestStep DEF TestPublished
<1>2. CASE TestRetrieved(t)
  <2>1. PICK r, b :
            Steps(t, "retrieve", [test[t] EXCEPT !.at = "delete", !.answer = r, !.errors = b])
    BY <1>2, Zenon DEF TestRetrieved
  <2> QED BY <1>0, <2>1, HonestTests, HonestStep, Zenon
<1>3. CASE TestDeleted(t) BY <1>0, <1>3, HonestTests, HonestStep DEF TestDeleted
<1>4. CASE TestRechecked(t) BY <1>0, <1>4, HonestTests, HonestStep DEF TestRechecked
<1>5. CASE BeginTest(t) \/ TestOver(t)
  <2>1. Honest(NoTest) /\ Honest([NoTest EXCEPT !.at = "publish"]) BY DEF Honest, NoTest
  <2> QED BY <1>5, <2>1, HonestStep DEF BeginTest, TestOver
<1> QED BY <1>1, <1>2, <1>3, <1>4, <1>5 DEF TestStep

\* A test that leaves its event on a relay reports it, unless the relay did not answer the last
\* look (publicRelayTest).
THEOREM LeftoversAreReported == Spec => []LeftoverIsReported
<1>1. Init => LeftoverIsReported
  BY DEF Init, RoutesInit, TestInit, NoTest, LeftoverIsReported
<1>2. TypeInv /\ LeftoverIsReported /\ [Next]_allVars => LeftoverIsReported'
  <2> SUFFICES ASSUME TypeInv, LeftoverIsReported, [Next]_allVars PROVE LeftoverIsReported' OBVIOUS
  <2>1. test \in [Tester -> Test] /\ Client \subseteq Tester /\ "cli" \in Tester
    BY RoutesAssumption, ProgramsAssumption DEF TypeInv, RoutesTypeOK
  <2>2. \/ UNCHANGED test \/ Gone
        \/ \E t \in Tester : TestStep(t) \/ BeginTest(t) \/ TestOver(t)
    <3>1. Advances => UNCHANGED test \/ BeginTest("cli") \/ TestStep("cli")
      BY Zenon DEF Advances, Begin, TestGoesOn, TestExit, Info, KeyDerived, VerifyExits,
                   RestoreExits, Baked, BakeExits, BackupStarted, BackupRuns, Served, Polled,
                   MonitorStarts, routeVars
    <3>2. RoutesNext =>
              UNCHANGED test \/ \E c \in Client : BeginTest(c) \/ TestStep(c) \/ TestOver(c)
      BY Zenon DEF RoutesNext, GoesOn, ServiceGoesOn, Arrives, BodyRefused, ProbeRelay,
                   CheckEnds, TestRelay, Testing, RelayTested, ExportFails, Publishes,
                   Published, Retry, Refresh, Forgets, AddRelay, RemoveRelay, SwitchRelay, Edits
    <3> QED BY <2>1, <3>1, <3>2, Frame, Zenon DEF Signal, allVars, routeVars
  <2>3. CASE UNCHANGED test BY <2>3 DEF LeftoverIsReported
  <2>4. CASE Gone BY <2>4 DEF Gone, NoTest, LeftoverIsReported
  <2> QED BY <2>1, <2>2, <2>3, <2>4, LeftoverStep
<1> QED BY <1>1, <1>2, Typed, PTL DEF Spec, Safety
===============================================================================

------------------------------- MODULE Programs -------------------------------
(***************************************************************************)
(* The programs: the commands of src/cli.ts and the console of             *)
(* src/serve.ts, from the first look at their environment to their exit,   *)
(* with the guard of src/config.ts that keeps them off a network the       *)
(* operator did not mean.  While the console is serving, its routes are    *)
(* those of Routes; the test of a relay is the same from either.           *)
(*                                                                         *)
(* A program awaits one thing at a time; what it awaits of lnd, of the     *)
(* relays or of the file system may fail every time.  The components a     *)
(* program starts are seen here by what they touch; what they do is the    *)
(* subject of their own modules.                                           *)
(***************************************************************************)
EXTENDS Routes

CONSTANT Environments  \* the settings and nodes the programs are run with

Networks == {"mainnet", "test", "unknown"}

\* The command is "serve" or one of the command line; args: they are complete (--yes, --out,
\* --restore's choice of permissions decides nothing here); config: validateConfig finds no
\* error; expect and allow: LIFEBOAT_NETWORK and LIFEBOAT_ALLOW_MAINNET; network (external): the
\* node's; node: the console is given a node.
Environment ==
    [command : {"serve", "relay-test", "pubkey", "bake", "verify", "restore", "backup"},
     args : BOOLEAN, config : BOOLEAN, expect : {"any", "mainnet", "test"}, allow : BOOLEAN,
     network : Networks, node : BOOLEAN]

ASSUME ProgramsAssumption == Environments \subseteq Environment /\ "cli" \in Tester \ Client

VARIABLES
    env,
    at,      \* what the program awaits
    code,    \* its exit code, -1 while it runs
    known,   \* the network it takes the node to be on, "none" before it has asked
    did,     \* history: what it has brought about at the node or the relays
    file     \* external: the file that bake writes: "absent", somebody's "other", "empty", "macaroon"

program == <<env, at, code, known, did, file>>
allVars == <<program, routeVars>>

Init ==
    /\ env \in Environments
    /\ at = "begin" /\ code = -1 /\ known = "none" /\ did = {}
    /\ file \in {"absent", "other"} /\ (env.command # "bake" => file = "absent")
    /\ RoutesInit /\ monitored = (env.command = "serve" /\ env.node)

-----------------------------------------------------------------------------
(* Building blocks *)

Is(command) == env.command = command

\* The program goes on to its next await, or it exits.
To(next) == at' = next /\ UNCHANGED code

Exit(status) == at' = "over" /\ code' = status

Rest == UNCHANGED <<env, routeVars>>

\* Mutation: a network that is not known passes for the one that is expected.
AllowedUnlessOther(network) ==
    /\ env.expect = "any" \/ network \in {env.expect, "unknown"}
    /\ network = "mainnet" => env.allow

\* assertNetworkAllowed
Allowed(network) ==
    /\ env.expect = "any" \/ network = env.expect
    /\ network = "mainnet" => env.allow

-----------------------------------------------------------------------------
(* The command line *)

\* Usage, the arguments of relay-test, and validateConfig.
Begin ==
    /\ at = "begin" /\ ~Is("serve")
    /\ IF Is("relay-test")
       THEN /\ \/ ~env.args /\ Exit(2) /\ UNCHANGED test
               \/ ~env.config /\ Exit(1) /\ UNCHANGED test
               \/ env.config /\ env.args /\ To("test") /\ BeginTest("cli")
       ELSE /\ IF env.config THEN To("info") ELSE Exit(2)
            /\ UNCHANGED test
    /\ UNCHANGED <<env, known, did, file, setting, requests, relays, service, copies,
                   faults>>

TestGoesOn ==
    /\ at = "test" /\ TestStep("cli")
    /\ UNCHANGED <<program, setting, requests, relays, service, copies, faults>>

\* The result is printed.
TestExit ==
    /\ at = "test" /\ test["cli"].at = "done"
    /\ Exit(IF test["cli"].published /\ Retrieved("cli") /\ SignatureValid("cli") THEN 0 ELSE 1)
    /\ UNCHANGED <<env, known, did, file, routeVars>>

\* getInfo and assertNetworkAllowed; bake without --out fails only then.
Info ==
    /\ at = "info" /\ ~Is("serve")
    /\ \/ Exit(1) /\ UNCHANGED known
       \/ /\ known' = env.network
          /\ CASE ~Allowed(env.network)      -> Exit(1)
               [] Allowed(env.network) /\ Is("bake") ->
                    IF env.args THEN To("bake") ELSE Exit(1)
               [] OTHER                      -> To("key")
    /\ UNCHANGED <<did, file>> /\ Rest

\* deriveNostrKey, by which backup's start and restore begin, too.
KeyDerived ==
    /\ at = "key" /\ ~Is("serve")
    /\ \/ Exit(1) /\ UNCHANGED did
       \/ /\ did' = did \cup {"key"}
          /\ IF Is("pubkey") THEN Exit(0) ELSE To(env.command)
    /\ UNCHANGED <<known, file>> /\ Rest

\* verifyBackup has a result, which is ok or not, or throws.
VerifyExits ==
    /\ at = "verify"
    /\ \/ Exit(1) /\ UNCHANGED did
       \/ Exit(0) /\ did' = did \cup {"verified"}
    /\ UNCHANGED <<known, file>> /\ Rest

\* restoreFromNostr, which fails before lnd has confirmed the import (Restore): lnd may have taken
\* the backup all the same, if the answer was lost.
RestoreExits ==
    /\ at = "restore"
    /\ \/ Exit(1) /\ (UNCHANGED did \/ did' = did \cup {"imported"})
       \/ Exit(0) /\ did' = did \cup {"imported"}
    /\ UNCHANGED <<known, file>> /\ Rest

\* bakeMacaroon, and the file, which is created or the command fails; writing it may fail, too.
Baked ==
    /\ at = "bake"
    /\ \/ Exit(1) /\ UNCHANGED <<did, file>>
       \/ /\ did' = did \cup {"baked"}
          /\ \/ file # "absent" /\ Exit(1) /\ UNCHANGED file
             \/ file = "absent" /\ Exit(1) /\ file' \in {"absent", "empty"}
             \/ file = "absent" /\ To("confirm") /\ file' = "macaroon"
    /\ UNCHANGED <<known>> /\ Rest

\* canSpendOnchain, asked with the new macaroon: yes, no, or it is not known.
BakeExits ==
    /\ at = "confirm"
    /\ \/ Exit(1) /\ did' = did \cup {"can spend"}
       \/ Exit(0) /\ UNCHANGED did
    /\ UNCHANGED <<known, file>> /\ Rest

\* start() has ended: the service runs, and the handlers of signals are there.
BackupStarted ==
    /\ at = "backup"
    /\ Exit(1) \/ To("running")
    /\ UNCHANGED <<known, did, file>> /\ Rest

\* The service publishes, from its startup job on.
BackupRuns ==
    /\ at = "running" /\ did' = did \cup {"published"}
    /\ UNCHANGED <<at, code, known, file>> /\ Rest

-----------------------------------------------------------------------------
(* The console *)

\* validateConfig, of a console that is given a node; without one there is no monitor.
Served ==
    /\ at = "begin" /\ Is("serve")
    /\ CASE ~env.config             -> Exit(1)
         [] env.config /\ env.node  -> To("poll")
         [] env.config /\ ~env.node -> To("serving")
    /\ UNCHANGED <<known, did, file>> /\ Rest

\* Monitor.start: pollInfo never fails, but may leave the network unknown.
Polled ==
    /\ at = "poll"
    /\ known' \in {env.network, "unknown"}
    /\ IF Allowed(known') THEN To("start") ELSE Exit(1)
    /\ UNCHANGED <<did, file>> /\ Rest

\* The service's start() derives the key or fails, and the monitor with it.
MonitorStarts ==
    /\ at = "start"
    /\ \/ Exit(1) /\ UNCHANGED did
       \/ To("serving") /\ did' = did \cup {"key"}
    /\ UNCHANGED <<known, file>> /\ Rest

\* A step of the routes while they are served; what the service publishes is done.
Serves(Step) ==
    /\ at = "serving" /\ Step
    /\ did' = IF held' \subseteq held THEN did ELSE did \cup {"published"}
    /\ UNCHANGED <<env, at, code, known, file>>

\* What a process had in memory is gone with it.
Gone ==
    /\ monitored' = FALSE /\ list' = InitialList /\ confirmed' = {}
    /\ request' = [c \in Client |-> "none"] /\ relayTestBusy' = FALSE
    /\ queue' = <<>> /\ job' = NoJob /\ retryTimer' = FALSE
    /\ test' = [t \in Tester |-> NoTest]
    /\ UNCHANGED <<workload, sent, faults>>

\* SIGINT and SIGTERM: a program that runs its service exits, and connections are closed; before
\* there is a handler they kill it.  The publish that is under way may still reach relays.
Signal ==
    /\ code = -1
    /\ Exit(IF at \in {"running", "serving"} THEN 0 ELSE 130)
    /\ Gone
    /\ \E acks \in SUBSET job.targets : held' = held \cup acks /\ missed' = missed \ acks
    /\ did' = IF held' \subseteq held THEN did ELSE did \cup {"published"}
    /\ UNCHANGED <<env, known, file>>

-----------------------------------------------------------------------------
\* What a program does by itself.
Advances ==
    \/ Begin \/ TestGoesOn \/ TestExit \/ Info \/ KeyDerived
    \/ VerifyExits \/ RestoreExits \/ Baked \/ BakeExits \/ BackupStarted \/ BackupRuns
    \/ Served \/ Polled \/ MonitorStarts

Next == Advances \/ Serves(RoutesNext) \/ Signal

\* Every call of lnd, every probe, publish and request has a time limit, and timers fire; nobody
\* has to send a request or a signal.  That some request goes on is enough for all of them.
Fairness ==
    /\ WF_allVars(Advances \/ Serves(\E c \in Client : GoesOn(c)))
    /\ WF_allVars(Serves(ServiceGoesOn))

Safety == Init /\ [][Next]_allVars

Spec == Safety /\ Fairness

-----------------------------------------------------------------------------
(* Properties *)

ProgramsTypeOK ==
    /\ env \in Environments
    /\ at \in {"begin", "test", "info", "key", "verify", "restore", "bake", "confirm", "backup",
              "running", "poll", "start", "serving", "over"}
    /\ code \in {-1, 0, 1, 2, 130} /\ known \in Networks \cup {"none"}
    /\ did \subseteq {"key", "verified", "imported", "baked", "can spend", "published"}
    /\ file \in {"absent", "other", "empty", "macaroon"}
    /\ RoutesTypeOK

\* Every program that touches a node is on the network the operator named, and on mainnet only
\* if that was allowed; the console's monitor, when its first poll fails, does not know that it
\* is on mainnet.  A refused program leaves no trace, at the node or at the relays.
NetworkIsMeant ==
    did # {} =>
        /\ env.expect \in {"any", env.network}
        /\ env.network = "mainnet" => env.allow \/ (Is("serve") /\ known = "unknown")

\* "Touching mainnet must be a deliberate act, never an accident."
MainnetIsDeliberate == did # {} /\ env.network = "mainnet" => env.allow

\* A relay that stays enabled gets the backup, also one that a publish did not reach or that lost
\* it: if no change, no retry and no verification brings it there, the refresh does.
RelaysCatchUp ==
    monitored =>
        \A r \in Url : <>[](at = "serving" /\ r \in Active(list)) => <>[](r \in held)

\* "A public relay test is already running": the console's tests take turns, whoever asks for
\* them and however they end; and every one gives its place back, if only with the program's end.
Tests == INSTANCE Exclusive WITH
            User <- Client, users <- {c \in Client : request[c] = "testing"}, free <- ~relayTestBusy

TestsTakeTurns == Tests!Spec
=============================================================================

-------------------------------- MODULE Security --------------------------------
(***************************************************************************)
(* What the console says about the safety of the backup: assess of         *)
(* src/security.ts, over the states of Monitor.  Every check has a status, *)
(* and the worst of them is what /healthz answers.                         *)
(*                                                                         *)
(* What the monitor's state says is taken from there; the rest, how lnd    *)
(* and the relays are set up and what time it is, is an environment.       *)
(***************************************************************************)
EXTENDS Monitor

CONSTANT Environments  \* the environments in which a state is assessed

Answer == {"yes", "no", "unknown"}

Environment ==
    [connected : Answer,                          \* the last poll of lnd
     network   : {"mainnet", "test", "unknown"},
     canSpend  : Answer, loose : Answer,          \* of the macaroon and of its file
     inUse     : Nat, reachable : Nat,            \* relays; the second as of the last verification
     cleartext : BOOLEAN, foreign : BOOLEAN,      \* of some relay
     channels  : BOOLEAN,                         \* lnd has reported some
     stale     : BOOLEAN]                         \* the last publish is older than staleAfterSec

ASSUME EnvironmentsAssumption == Environments \subseteq Environment

Statuses == {"pass", "unknown", "warn", "degraded", "fail"}

Rank == [s \in Statuses |->
            CASE s = "pass" -> 0 [] s = "unknown" -> 1 [] s = "warn" -> 2
              [] s = "degraded" -> 3 [] s = "fail" -> 4]

-----------------------------------------------------------------------------
(* The checks of the surroundings. *)

ConnectionCheck(e) ==
    CASE e.connected = "unknown" -> "unknown" [] e.connected = "yes" -> "pass"
      [] e.connected = "no" -> "fail"

NetworkCheck(e) ==
    CASE e.network = "mainnet" -> "warn" [] e.network = "unknown" -> "unknown"
      [] e.network = "test" -> "pass"

MacaroonCheck(e) ==
    CASE e.canSpend = "yes" -> "fail" [] e.canSpend = "no" -> "pass"
      [] e.canSpend = "unknown" -> "unknown"

RelaysCheck(e) ==
    CASE e.inUse < 2                           -> "warn"
      [] e.inUse >= 2 /\ verify = "none"       -> "unknown"
      [] e.inUse >= 2 /\ verify # "none"       ->
            IF e.reachable = 0 THEN "fail" ELSE IF e.reachable < 2 THEN "degraded" ELSE "pass"

(* The checks of the service and of its verification. *)

StateCheck ==
    CASE pipe.invalid > 0 \/ pipe.state = "FAILED"  -> "fail"
      [] pipe.invalid = 0 /\ pipe.state \in {"RECOVERING", "DEGRADED"} -> "degraded"
      [] pipe.invalid = 0 /\ pipe.state = "IDLE"    -> "unknown"
      [] OTHER                                      -> "pass"

PublishedCheck(e) ==
    IF last = NoKey THEN IF e.channels THEN "fail" ELSE "unknown"
    ELSE IF e.stale THEN "warn" ELSE "pass"

VerifiedCheck ==
    CASE verify = "none"     -> "unknown" [] verify = "SUCCESS" -> "pass"
      [] verify = "DEGRADED" -> "degraded"
      [] verify = "behind"   -> "warn" [] verify = "FAILED" -> "fail"

\* Mutation: a failure is only shown by the state it leads to.
NoErrorsCheck == {}

\* lastError: there only after a failure.
ErrorsCheck == IF lastError THEN {IF retryTimer THEN "degraded" ELSE "warn"} ELSE {}

StreamCheck == IF ~streamUp /\ ~stopped THEN {"degraded"} ELSE {}

\* The statuses of all checks; those of TLS and of the console's guards are always "pass".
Checks(e) ==
    {"pass", ConnectionCheck(e), NetworkCheck(e), MacaroonCheck(e), RelaysCheck(e), StateCheck,
     PublishedCheck(e), VerifiedCheck}
    \cup (IF e.loose = "yes" THEN {"warn"} ELSE {})
    \cup (IF e.cleartext THEN {"warn"} ELSE {})
    \cup (IF e.foreign /\ verify # "none" THEN {"warn"} ELSE {})
    \cup ErrorsCheck \cup StreamCheck

Worst(e) == CHOOSE s \in Checks(e) : \A t \in Checks(e) : Rank[t] <= Rank[s]

-----------------------------------------------------------------------------
(* Properties *)

\* No relay holds a backup; if their set has been changed, the publish that follows has ended too,
\* and no stop() or set without a backup has taken it away.
NothingStored ==
    /\ stored = NoVersion
    /\ spent.manuals = 0 \/ (~Busy /\ spent.stops = 0 /\ NoBlob = {})

\* Whatever the surroundings, /healthz answers "degraded" or worse while the service waits to
\* publish again, has no subscription it could wait on, or has nothing on the relays that lnd's
\* channels need; also when another job or a verification has meanwhile changed the state.
TroubleIsShown ==
    \A e \in Environments :
        \/ retryTimer
        \/ Running /\ subs = 0
        \/ NothingStored /\ e.channels
        => Rank[Worst(e)] >= Rank["degraded"]
=============================================================================

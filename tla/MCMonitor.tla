------------------------------- MODULE MCMonitor -------------------------------
(* Instances of Monitor, with the checks of Security, for TLC. *)
EXTENDS Security

\* All channel sets differ.
AllDiffer == [v \in Versions |-> v]

\* Nothing to report, and one thing at a time.
Fine == [connected |-> "yes", network |-> "test", canSpend |-> "no", loose |-> "no",
         inUse |-> 2, reachable |-> 2, cleartext |-> FALSE, foreign |-> FALSE,
         channels |-> TRUE, stale |-> FALSE]

Surroundings ==
    {Fine, [Fine EXCEPT !.channels = FALSE], [Fine EXCEPT !.connected = "unknown"],
     [Fine EXCEPT !.inUse = 1]}

\* The two variables nothing depends on are left out where no property looks at them.
SafetyView == <<vars, mStopped, mStarting, run, waiters, verifyTimer, ticks, healing>>
=============================================================================

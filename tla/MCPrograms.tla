------------------------------ MODULE MCPrograms ------------------------------
(* Instances of Programs: the environments that tell something apart. *)
EXTENDS Programs

CONSTANTS Here, There, Afar, Alice, Bob

MCUrl     == {Here, There, Afar}
MCClient  == {Alice, Bob}
MCTester  == MCClient \cup {"cli"}

\* One address each, and a list.
MCInputs ==
    {[names |-> <<u>>, neat |-> TRUE] : u \in MCUrl}
        \cup {[names |-> <<Afar, There>>, neat |-> FALSE]}

\* Arguments matter to two commands.  A console is given a node it may serve, or one that it must
\* refuse, or none.
MCEnvironments ==
    {e \in Environment :
        /\ e.args \/ e.command \in {"relay-test", "bake"}
        /\ e.node => e.command = "serve"
        /\ e.command = "relay-test" => e.expect = "any" /\ e.allow /\ e.network = "test"
        /\ ~e.config => e.expect = "any" /\ e.allow /\ e.network = "test"
        /\ e.command = "serve" =>
            \/ ~e.allow /\ e.network = "test" /\ e.expect = "any" /\ e.config
            \/ ~e.allow /\ e.network = "mainnet" /\ e.expect = "test" /\ e.node
            \/ ~e.config}

\* A console for a node on mainnet, which nobody has allowed.
MCOnMainnet ==
    {e \in Environment :
        /\ e.command = "serve" /\ e.node /\ e.config /\ e.args
        /\ e.network = "mainnet" /\ e.expect = "any" /\ ~e.allow}
=============================================================================

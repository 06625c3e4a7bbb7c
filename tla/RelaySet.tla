------------------------------- MODULE RelaySet -------------------------------
(***************************************************************************)
(* The relays in use: RelaySet of src/relays.ts and parseRelays of         *)
(* src/config.ts, as operators on a set of entries.  Their order and the   *)
(* time they were added are only shown.                                    *)
(*                                                                         *)
(* An input is what the operator typed, told apart by what the code makes  *)
(* of it: the addresses it names (none, if one of its parts is no ws:// or *)
(* wss:// URL), several of them if it has commas, and whether it is one    *)
(* address without commas and blanks.                                      *)
(***************************************************************************)
EXTENDS Integers, Sequences, FiniteSets

CONSTANTS
    Url,        \* addresses, normalised
    Loopback,   \* those on this machine
    Configured, \* those RELAYS names
    MaxRelays   \* the cap on the number of relays, 10 in the code

ASSUME RelaySetAssumption ==
    /\ Loopback \subseteq Url
    /\ Configured \subseteq Url /\ Configured # {} /\ IsFiniteSet(Configured)
    /\ MaxRelays \in Nat /\ Cardinality(Configured) <= MaxRelays

Entry == [url : Url, enabled : BOOLEAN, session : BOOLEAN]

\* The constructor.
InitialList == {[url |-> u, enabled |-> TRUE, session |-> FALSE] : u \in Configured}

Urls(list) == {e.url : e \in list}

Enabled(list) == {e \in list : e.enabled}

Active(list) == Urls(Enabled(list))

-----------------------------------------------------------------------------
(* Inputs *)

Input == [names : Seq(Url), neat : BOOLEAN]

\* parseRelays accepts it.
Parses(input) ==
    /\ input.names # <<>>
    /\ Cardinality({input.names[i] : i \in DOMAIN input.names}) <= MaxRelays

\* const [norm] = parseRelays(url)
Norm(input) == input.names[1]

-----------------------------------------------------------------------------
(* Operations: each has its conditions and its result. *)

\* Mutation: a relay that is configured is added once more.
CanAddTwice(list, input) ==
    /\ input.neat /\ Parses(input)
    /\ Cardinality(list) < MaxRelays

\* add: the address is alone and new, and there is room for it.
CanAdd(list, input) ==
    /\ input.neat /\ Parses(input)
    /\ Norm(input) \notin Urls(list)
    /\ Cardinality(list) < MaxRelays

Added(list, input) == list \cup {[url |-> Norm(input), enabled |-> TRUE, session |-> TRUE]}

\* find: an input with commas names no entry.
Found(list, input) == {e \in list : Len(input.names) = 1 /\ e.url = input.names[1]}

\* "at least one relay must stay enabled"
LastEnabled(list, e) == Enabled(list) = {e}

\* setEnabled is refused, which also holds of a remove of a relay that is enabled.
MayDrop(list, e) == ~LastEnabled(list, e)

Switched(list, e) == (list \ {e}) \cup {[e EXCEPT !.enabled = ~@]}
=============================================================================

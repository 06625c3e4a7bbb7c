------------------------------ MODULE MCRestore ------------------------------
(* Restore over two relays that may hold an old event or one dated ahead of every clock. *)
EXTENDS Restore

CONSTANTS r1, r2, p1

TwoRelays == {r1, r2}
OnePeer   == {p1}

Old   == [at |-> 1, id |-> 2, version |-> 0]
Ahead == [at |-> 3, id |-> 3, version |-> 0]

OldAndAhead == {Old, Ahead}
=============================================================================

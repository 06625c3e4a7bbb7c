--------------------------- MODULE MCVerification ---------------------------
(* Verification with events that meet every rule: an older and a newer backup, one of the
   same date, one from the future, an unreadable newer one, one at the edge of the skew, a foreign one. *)
EXTENDS Verification

E(id, own, at, usable, set) == [id |-> id, own |-> own, at |-> at, usable |-> usable, set |-> set]

TheSets   == {"old", "new"}

Older      == E(3, TRUE, 1, TRUE, "old")
Newer      == E(2, TRUE, 2, TRUE, "new")
SameDate   == E(4, TRUE, 2, TRUE, "old")
FromFuture == E(5, TRUE, 9, TRUE, "old")
Later      == E(8, TRUE, 10, TRUE, "new")
Unreadable == E(1, TRUE, 3, FALSE, "new")
Edge       == E(7, TRUE, 3, TRUE, "new")
Foreign    == E(6, FALSE, 3, TRUE, "new")

AllEvents  == {Older, Newer, SameDate, FromFuture, Later, Unreadable, Foreign, Edge}
=============================================================================

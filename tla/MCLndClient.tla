------------------------------ MODULE MCLndClient ------------------------------
(* LndClient with the lines TLC checks it with. *)
EXTENDS LndClient

TwoMessages == {"a", "b"}
OneReject   == {"bad"}
=============================================================================

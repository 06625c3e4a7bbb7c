------------------------------- MODULE Exclusive -------------------------------
(***************************************************************************)
(* What a resource that one user at a time may hold promises: nobody gets  *)
(* it before it is given back, it is given back, and it is then free.      *)
(***************************************************************************)
CONSTANT User

VARIABLES
    users,  \* those who hold the resource
    free    \* it is there for the next one

held == <<users, free>>

Init == users = {} /\ free = TRUE

Acquire == free /\ free' = FALSE /\ \E u \in User : users' = {u}

Release == users # {} /\ users' = {} /\ free' = TRUE

Next == Acquire \/ Release

\* The part that says what never happens.
Safe == Init /\ [][Next]_held

Spec == Safe /\ WF_held(Release)
=============================================================================

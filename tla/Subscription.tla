------------------------------ MODULE Subscription ------------------------------
(***************************************************************************)
(* What a subscriber counts on, who subscribes anew when he is told that   *)
(* the stream has ended: messages in their order, none left out before the *)
(* end and none after it, and one end, unless he closes the stream first.  *)
(***************************************************************************)
EXTENDS Naturals, Sequences

CONSTANT Message

VARIABLES
    toCome,  \* what the sender has sent or will send
    handed,  \* what the subscriber has been handed
    state    \* "open", "ended" once he has been told so, or "closed" by himself

subscription == <<toCome, handed, state>>

Init == toCome \in Seq(Message) /\ handed = <<>> /\ state = "open"

HandOn ==
    /\ state = "open"
    /\ \E n \in 1..Len(toCome) :
        /\ handed' = handed \o SubSeq(toCome, 1, n)
        /\ toCome' = SubSeq(toCome, n + 1, Len(toCome))
    /\ UNCHANGED state

\* The sender refuses or falls silent.
Withhold == state = "open" /\ toCome' = <<>> /\ UNCHANGED <<handed, state>>

\* What was in flight is lost.
Over(how) == state = "open" /\ state' = how /\ toCome' = <<>> /\ UNCHANGED handed

Next == HandOn \/ Withhold \/ Over("ended") \/ Over("closed")

Spec == Init /\ [][Next]_subscription
=============================================================================

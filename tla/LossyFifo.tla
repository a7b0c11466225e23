------------------------------- MODULE LossyFifo -------------------------------
(***************************************************************************)
(* What a path of queues and connections promises to the two ends that use *)
(* it: messages are numbered as they are sent, they arrive in that order   *)
(* and none arrives twice; any of them may be lost on the way.             *)
(***************************************************************************)
EXTENDS Naturals

VARIABLES
    sent,         \* number of messages sent
    delivered     \* number of the last message delivered, 0 before the first

vars == <<sent, delivered>>

Init == sent = 0 /\ delivered = 0

Send == sent' = sent + 1 /\ UNCHANGED delivered

Deliver == delivered' \in delivered + 1 .. sent /\ UNCHANGED sent

Next == Send \/ Deliver

Spec == Init /\ [][Next]_vars
=============================================================================

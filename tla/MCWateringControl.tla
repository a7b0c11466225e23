-------------------------- MODULE MCWateringControl --------------------------
(* Small instances of WateringControl for TLC. *)
EXTENDS WateringControl
CONSTANTS n1      \* a notification thread

=============================================================================

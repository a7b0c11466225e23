----------------------------- MODULE MCRemoteNode -----------------------------
(* Small instances of RemoteNode for TLC. *)
EXTENDS RemoteNode

NoTurnMissed == [t \in Periodic |-> 1]
SolenoidMisses == [t \in Periodic |-> IF t = "solenoid" THEN 2 ELSE 1]
=============================================================================

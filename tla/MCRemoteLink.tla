----------------------------- MODULE MCRemoteLink -----------------------------
(* Small instances of RemoteLink for TLC. *)
EXTENDS RemoteLink
=============================================================================

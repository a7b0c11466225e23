------------------------------- MODULE MCLogger -------------------------------
(* Small instances of Logger for TLC. *)
EXTENDS Logger
CONSTANTS k1, k2      \* keys of items
=============================================================================

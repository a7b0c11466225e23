-------------------------------- MODULE Valve --------------------------------
(***************************************************************************)
(* What the remote node promises of its water valve, whoever asks for      *)
(* water: it opens only on request, one request is one watering, a         *)
(* watering lasts Duration and ends soon after.                            *)
(***************************************************************************)
EXTENDS Naturals

CONSTANTS
    Duration,     \* how long a watering lasts
    Slack         \* how much later the valve may close

VARIABLES
    cmd,          \* 1: a watering is asked for
    valve,        \* 1: the valve is open
    openFor       \* how long it has been open

vars == <<cmd, valve, openFor>>

Init == cmd = 0 /\ valve = 0 /\ openFor = 0

\* Requests are not counted: those made before the valve opens are one.
Request == cmd' = 1 /\ UNCHANGED <<valve, openFor>>

Open ==
    /\ cmd = 1 /\ valve = 0
    /\ cmd' = 0 /\ valve' = 1
    /\ UNCHANGED openFor

Close ==
    /\ valve = 1 /\ openFor > Duration
    /\ valve' = 0 /\ openFor' = 0
    /\ UNCHANGED cmd

Elapse ==
    /\ valve = 1 /\ openFor < Duration + Slack
    /\ openFor' = openFor + 1
    /\ UNCHANGED <<cmd, valve>>

Next == Request \/ Open \/ Close \/ Elapse

Safety == Init /\ [][Next]_vars

\* A request is served, and an open valve closes.
Spec == Safety /\ WF_vars(Open) /\ WF_vars(Elapse) /\ WF_vars(Close)
=============================================================================

-------------------------------- MODULE MCText --------------------------------
(* Small instances of Conversion and of LogFile for TLC, side by side: an      *)
(* initial state starts one of them.                                           *)
EXTENDS Conversion, LogFile
vars == <<convVars, fileVars>>

ConvOff ==
    /\ input = 0 /\ base = 2 /\ data = 0 /\ str = <<>> /\ length = 0
    /\ head = 1 /\ tail = 0 /\ pos = 1 /\ value = 0 /\ sign = 1 /\ convPc = "done"

FileOff ==
    /\ withPayload = {} /\ file = <<>> /\ written = 0 /\ torn = {}
    /\ parseState = "done" /\ at = 1 /\ logItem = NoItem /\ printed = <<>>

Init == (ConvInit /\ FileOff) \/ (FileInit /\ ConvOff)

Next == \/ ConvNext /\ UNCHANGED fileVars
        \/ FileNext /\ UNCHANGED convVars

Spec == Init /\ [][Next]_vars
===============================================================================

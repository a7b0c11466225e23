--------------------------- MODULE RemoteNode_proofs ---------------------------
(* Theorems about RemoteNode: its type invariant, the freshness of NOMINAL,  *)
(* and that its valve implements the safety part of Valve.                   *)
EXTENDS RemoteNode, TLAPS

USE DEF Sockets, Control, Periodic, OFF, ON, SystemStates, turn

(***************************************************************************)
(* Where the valve is between two turns of solenoidThread.  The time it    *)
(* has been open is bounded by what it was at the last turn.               *)
(***************************************************************************)
PinIsState == valve = prev_solenoidState /\ solenoidState = prev_solenoidState

ValveInv ==
    /\ PinIsState
    /\ valve = 0 => onTime = 0
    /\ valve = 0 /\ next_solenoidState = ON => solenoidCmd = 1
    /\ valve = 1 /\ next_solenoidState = ON =>
            onTime <= OnDuration + gap["solenoid"]
    /\ valve = 1 /\ next_solenoidState = OFF =>
            /\ onTime > OnDuration
            /\ onTime <= OnDuration + MaxGap["solenoid"] + gap["solenoid"]

\* While the observer reads the flags it holds the mutex, so that the state of
\* the light sensor is what it found when it took it.
FreshInv ==
    observer = "read" /\ lightSensorState = "NOMINAL" => lightAge <= LightLimit

Inv == TypeOK /\ ValveInv /\ FreshInv

LEMMA InvInit == Init => Inv
BY ConstantsAssumption
   DEF Init, Inv, TypeOK, ValveInv, PinIsState, FreshInv, MaxLightAge, Flags

LEMMA TickInv == Inv /\ Tick => Inv'
<1> SUFFICES ASSUME Inv, Tick PROVE Inv'
    OBVIOUS
<1> USE ConstantsAssumption DEF Inv
<1>1. TypeOK'
    BY DEF Tick, TypeOK, MaxLightAge, links, moist, alarms
<1>2. ValveInv'
    <2> DEFINE g == gap["solenoid"]  m == MaxGap["solenoid"]
    <2>1. g \in Nat /\ m \in Nat /\ OnDuration \in Nat /\ onTime \in Nat
        BY DEF TypeOK, Periodic
    <2>2. /\ UNCHANGED <<solenoidCmd, solenoidState, next_solenoidState,
                       prev_solenoidState, valve>>
          /\ onTime' = IF valve = 1 THEN onTime + 1 ELSE onTime
        BY DEF Tick
    <2>3. g' = g + 1
        BY DEF Tick, Periodic
    <2>4. PinIsState' /\ (valve' = 0 => onTime' = 0)
          /\ (valve' = 0 /\ next_solenoidState' = ON => solenoidCmd' = 1)
        BY <2>2 DEF ValveInv, PinIsState
    <2>5. /\ valve = 1 /\ next_solenoidState = ON => onTime <= OnDuration + g
          /\ valve = 1 /\ next_solenoidState = OFF =>
                onTime > OnDuration /\ onTime <= (OnDuration + m) + g
        BY DEF ValveInv
    <2> HIDE DEF g, m, Inv
    <2>6. valve' = 1 /\ next_solenoidState' = ON => onTime' <= OnDuration + g'
        BY <2>1, <2>2, <2>3, <2>5
    <2>7. valve' = 1 /\ next_solenoidState' = OFF =>
              onTime' > OnDuration /\ onTime' <= (OnDuration + m) + g'
        BY <2>1, <2>2, <2>3, <2>5
    <2> QED BY <2>4, <2>6, <2>7 DEF ValveInv, g, m
<1>3. FreshInv'
    BY DEF Tick, HeldTooLong, Decided, FreshInv
<1> QED BY <1>1, <1>2, <1>3

LEMMA SolenoidInv == Inv /\ SolenoidTurn => Inv'
<1> SUFFICES ASSUME Inv, SolenoidTurn PROVE Inv'
    OBVIOUS
<1> USE ConstantsAssumption DEF Inv, SolenoidTurn, Turn
<1>1. CASE SolenoidOff
    <2>1. TypeOK'
        BY <1>1 DEF SolenoidOff, TypeOK, links, moist, light, alarms
    <2>2. ValveInv'
        BY <1>1 DEF SolenoidOff, TypeOK, ValveInv, PinIsState
    <2>3. FreshInv'
        BY <1>1 DEF TypeOK, FreshInv, light
    <2> QED BY <2>1, <2>2, <2>3
<1>2. CASE SolenoidEntry
    <2>1. TypeOK'
        BY <1>2 DEF SolenoidEntry, ClearCmd, TypeOK, links, moist, light, alarms
    <2>2. ValveInv'
        BY <1>2 DEF SolenoidEntry, TypeOK, ValveInv, PinIsState
    <2>3. FreshInv'
        BY <1>2 DEF TypeOK, FreshInv, light
    <2> QED BY <2>1, <2>2, <2>3
<1>3. CASE SolenoidOn
    <2>1. TypeOK'
        BY <1>3 DEF SolenoidOn, TimeIsUp, TypeOK, links, moist, light, alarms
    <2>2. ValveInv'
        BY <1>3 DEF SolenoidOn, TimeIsUp, TypeOK, ValveInv, PinIsState
    <2>3. FreshInv'
        BY <1>3 DEF TypeOK, FreshInv, light
    <2> QED BY <2>1, <2>2, <2>3
<1> QED BY <1>1, <1>2, <1>3

\* Where a flag that is set leads, whichever of the six it is.
LEMMA FlagTypes ==
    ASSUME NEW i \in 1 .. Len(Flags)
    PROVE  Flags[i] \in Sockets /\ StateIfLost[i] \in SystemStates
<1>1. i \in 1..6
    BY DEF Flags
<1>2. i = 1 \/ i = 2 \/ i = 3 \/ i = 4 \/ i = 5 \/ i = 6
    BY <1>1
<1> QED BY <1>2 DEF Flags, StateIfLost

\* NOMINAL is decided over a stale sensor only on a control flag that is set.
LEMMA NominalDecided ==
    ASSUME NEW i \in 1 .. Len(Flags), StateIfLost[i] = "NOMINAL"
    PROVE  Flags[i] \in Control
<1>1. i \in 1..6
    BY DEF Flags
<1>2. i = 1 \/ i = 2 \/ i = 3 \/ i = 4 \/ i = 5 \/ i = 6
    BY <1>1
<1> QED BY <1>2 DEF Flags, StateIfLost, Control

LEMMA ObserverInv == Inv /\ ObserverStep => Inv'
<1> SUFFICES ASSUME Inv, ObserverStep PROVE Inv'
    OBVIOUS
<1> USE ConstantsAssumption DEF Inv
<1>0. Len(Flags) = 6 /\ Len(AlarmFlags) = 4
    BY DEF Flags, AlarmFlags
<1>1. CASE Observe
    <2>1. TypeOK'
        BY <1>1 DEF Observe, LightState, Turn, TypeOK, links, moist, solenoid, alarms
    <2>2. ValveInv'
        BY <1>1 DEF Observe, Turn, TypeOK, ValveInv, PinIsState, solenoid
    <2>3. FreshInv'
        BY <1>1 DEF Observe, LightState, TypeOK, FreshInv
    <2> QED BY <2>1, <2>2, <2>3
<1>2. CASE MissMutex
    BY <1>2 DEF MissMutex, TypeOK, ValveInv, PinIsState, FreshInv, links, moist,
                solenoid, light, alarms
<1>3. CASE ReadFlag
    <2>1. observer' \in {"read"} \cup SystemStates /\ flag' \in 1 .. Len(Flags)
        <3>1. CASE lost[Flags[flag]] /\ Decide(StateIfLost[flag])
            BY <1>0, <3>1, FlagTypes DEF Decide, TypeOK
        <3>2. CASE flag < Len(Flags) /\ ReadNext
            BY <1>0, <1>3, <3>2 DEF ReadFlag, ReadNext, TypeOK
        <3>3. CASE Decide(IF lightSensorState = "NOMINAL" THEN "NOMINAL" ELSE "DEGRADED")
            BY <1>0, <3>3 DEF Decide
        <3> QED BY <1>3, <3>1, <3>2, <3>3 DEF ReadFlag
    <2>2. TypeOK'
        BY <1>3, <2>1 DEF ReadFlag, TypeOK, links, moist, solenoid, light, turn, alarms
    <2>3. ValveInv' /\ FreshInv'
        BY <1>3 DEF ReadFlag, ValveInv, PinIsState, FreshInv, solenoid, light
    <2> QED BY <2>2, <2>3
<1>4. CASE Act
    <2>1. TypeOK'
        BY <1>4 DEF Act, TypeOK, links, moist, solenoid, light
    <2>2. ValveInv'
        BY <1>4 DEF Act, TypeOK, ValveInv, PinIsState, solenoid
    <2>3. FreshInv'
        BY <1>4 DEF Act, FreshInv, light
    <2> QED BY <2>1, <2>2, <2>3
<1>5. CASE CheckConnections
    <2>1. /\ observer' \in {"observe", "alarm"} /\ flag' \in 1 .. Len(Flags)
          /\ alarm' \in 0..1 /\ prev_alarm' \in 0..1 /\ alarmPin' \in 0..1
        BY <1>0, <1>5 DEF CheckConnections, SetAlarm, TypeOK, alarms
    <2>2. TypeOK'
        BY <1>5, <2>1 DEF CheckConnections, TypeOK, links, moist, solenoid, light
    <2>3. ValveInv' /\ FreshInv'
        BY <1>5, <2>1 DEF CheckConnections, ValveInv, PinIsState, FreshInv, solenoid, light
    <2> QED BY <2>2, <2>3
<1> QED BY <1>1, <1>2, <1>3, <1>4, <1>5 DEF ObserverStep

LEMMA SensorInv == Inv /\ (LightReads \/ LightFails \/ MoistureReads) => Inv'
<1> SUFFICES ASSUME Inv, LightReads \/ LightFails \/ MoistureReads PROVE Inv'
    OBVIOUS
<1> USE ConstantsAssumption DEF Inv
<1>1. CASE LightReads
    BY <1>1 DEF LightReads, MutexFree, TypeOK, ValveInv, PinIsState, FreshInv, MaxLightAge,
                links, moist, solenoid, alarms
<1>2. CASE LightFails
    BY <1>2 DEF LightFails, TypeOK, ValveInv, PinIsState, FreshInv,
                links, moist, solenoid, alarms
<1>3. CASE MoistureReads
    BY <1>3 DEF MoistureReads, TypeOK, ValveInv, PinIsState, FreshInv,
                links, light, solenoid, alarms
<1> QED BY <1>1, <1>2, <1>3

LEMMA RemoteInv == Inv /\ RemoteStep => Inv'
<1> SUFFICES ASSUME Inv, RemoteStep PROVE Inv'
    OBVIOUS
<1> USE ConstantsAssumption DEF Inv
<1>1. ASSUME NEW s \in Sockets, Connect(s) \/ Disconnect(s) PROVE Inv'
    <2>1. lost' \in [Sockets -> BOOLEAN]
        BY <1>1 DEF Connect, Disconnect, TypeOK
    <2>2. UNCHANGED <<cmdTask, moist, solenoidCmd, solenoid, light, turn,
                      alarms, gap>>
        BY <1>1 DEF Connect, Disconnect
    <2> QED BY <2>1, <2>2 DEF TypeOK, ValveInv, PinIsState, FreshInv,
                              moist, solenoid, light, turn, alarms
<1>2. CASE StoreCmd
    <2>1. /\ solenoidCmd' \in 0..1 /\ (solenoidCmd' = solenoidCmd \/ solenoidCmd' = 1)
          /\ lowThreshold' \in Nat /\ highThreshold' \in Nat
        <3>1. CASE solenoidCmd' = 1 /\ UNCHANGED <<lowThreshold, highThreshold>>
            BY <3>1 DEF TypeOK
        <3>2. CASE lowThreshold' \in Thresholds /\ UNCHANGED <<solenoidCmd, highThreshold>>
            BY <3>2 DEF TypeOK
        <3>3. CASE highThreshold' \in Thresholds /\ UNCHANGED <<solenoidCmd, lowThreshold>>
            BY <3>3 DEF TypeOK
        <3> QED BY <1>2, <3>1, <3>2, <3>3 DEF StoreCmd
    <2>2. UNCHANGED <<links, moistureLevel, solenoid, light, turn,
                      alarms, gap>>
        BY <1>2 DEF StoreCmd
    <2> QED BY <2>1, <2>2 DEF TypeOK, ValveInv, PinIsState, FreshInv,
                              links, solenoid, light, turn, alarms
<1>3. CASE Hang
    BY <1>3 DEF Hang, TypeOK, ValveInv, PinIsState, FreshInv,
                moist, solenoid, light, turn, alarms
<1> QED BY <1>1, <1>2, <1>3 DEF RemoteStep

LEMMA InvNext == Inv /\ [Next]_vars => Inv'
<1>1. ASSUME Inv, UNCHANGED vars PROVE Inv'
    BY <1>1 DEF Inv, TypeOK, ValveInv, PinIsState, FreshInv,
                vars, links, moist, solenoid, light, turn, alarms
<1> QED BY <1>1, TickInv, SolenoidInv, ObserverInv, SensorInv, RemoteInv DEF Next

LEMMA InvAlways == SafetySpec => []Inv
BY InvInit, InvNext, PTL DEF SafetySpec

-----------------------------------------------------------------------------
\* Every reachable state has the types of TypeOK; in particular
\* remainingOnTime, a uint16, never wraps (solenoidThread.c:150).
THEOREM TypeCorrect == Spec => []TypeOK
BY InvAlways, PTL DEF Inv, Spec

\* NOMINAL is decided over a light sensor older than the limit only while a
\* control socket is lost: in no turn in which the control sockets stay.
THEOREM NominalFresh == Spec => NominalIsFresh
<1>1. Inv /\ [Next]_vars =>
        [observer = "read" /\ observer' = "NOMINAL" =>
            lightAge <= LightLimit \/ \E s \in Control : lost[s]]_vars
    <2> SUFFICES ASSUME Inv, Next, observer = "read", observer' = "NOMINAL"
                 PROVE  lightAge <= LightLimit \/ \E s \in Control : lost[s]
        BY DEF vars, turn
    <2>1. ReadFlag
        <3>1. ~Tick /\ ~SolenoidTurn /\ ~LightReads /\ ~LightFails /\ ~MoistureReads
            BY DEF Tick, HeldTooLong, Decided, SolenoidTurn, LightReads, LightFails,
                   MoistureReads, MutexFree
        <3>2. ~RemoteStep
            BY DEF RemoteStep, Connect, Disconnect, StoreCmd, Hang, turn
        <3>3. ~Observe /\ ~MissMutex /\ ~Act /\ ~CheckConnections
            BY DEF Observe, MissMutex, Act, Decided, CheckConnections
        <3> QED BY <3>1, <3>2, <3>3 DEF Next, ObserverStep
    <2>2. CASE lost[Flags[flag]] /\ Decide(StateIfLost[flag])
        <3>1. StateIfLost[flag] = "NOMINAL" /\ flag \in 1 .. Len(Flags)
            BY <2>2 DEF Decide, Inv, TypeOK
        <3> QED BY <2>2, <3>1, NominalDecided
    <2>3. CASE Decide(IF lightSensorState = "NOMINAL" THEN "NOMINAL" ELSE "DEGRADED")
        BY <2>3 DEF Decide, Inv, FreshInv
    <2> QED BY <2>1, <2>2, <2>3 DEF ReadFlag, ReadNext
<1> QED BY <1>1, InvAlways, PTL DEF Spec, SafetySpec, NominalIsFresh

(***************************************************************************)
(* Refinement of Valve: every step is a step of Valve or leaves it alone.  *)
(***************************************************************************)
LEMMA TickRefines == Inv /\ Tick => [ValveSpec!Next]_(ValveSpec!vars)
<1> SUFFICES ASSUME Inv, Tick PROVE [ValveSpec!Next]_(ValveSpec!vars)
    OBVIOUS
<1> USE ConstantsAssumption DEF Inv, Tick
<1>1. CASE valve = 1
    <2>1. onTime < OnDuration + 2 * MaxGap["solenoid"]
        BY <1>1 DEF TypeOK, ValveInv, PinIsState
    <2> QED BY <1>1, <2>1 DEF ValveSpec!Next, ValveSpec!Elapse
<1>2. CASE valve # 1
    BY <1>2 DEF ValveSpec!vars
<1> QED BY <1>1, <1>2

LEMMA SolenoidRefines == Inv /\ SolenoidTurn => [ValveSpec!Next]_(ValveSpec!vars)
<1> SUFFICES ASSUME Inv, SolenoidTurn PROVE [ValveSpec!Next]_(ValveSpec!vars)
    OBVIOUS
<1> USE ConstantsAssumption DEF Inv, SolenoidTurn
<1>1. CASE SolenoidOff /\ valve = 1
    BY <1>1 DEF SolenoidOff, TypeOK, ValveInv, PinIsState,
                ValveSpec!Next, ValveSpec!Close
<1>2. CASE SolenoidOff /\ valve = 0
    BY <1>2 DEF SolenoidOff, TypeOK, ValveInv, PinIsState, ValveSpec!vars
<1>3. CASE SolenoidEntry
    BY <1>3 DEF SolenoidEntry, ClearCmd, TypeOK, ValveInv, PinIsState,
                ValveSpec!Next, ValveSpec!Open
<1>4. CASE SolenoidOn
    BY <1>4 DEF SolenoidOn, TypeOK, ValveInv, PinIsState, ValveSpec!vars
<1> QED BY <1>1, <1>2, <1>3, <1>4 DEF TypeOK

LEMMA OthersRefine ==
    Inv /\ (\/ ObserverStep \/ LightReads \/ LightFails \/ MoistureReads \/ RemoteStep)
        => [ValveSpec!Next]_(ValveSpec!vars)
<1> USE DEF solenoid, ValveSpec!Next, ValveSpec!Request, ValveSpec!vars
<1>1. ObserverStep => [ValveSpec!Next]_(ValveSpec!vars)
    BY DEF ObserverStep, Observe, MissMutex, ReadFlag, Act, CheckConnections
<1>2. LightReads \/ LightFails \/ MoistureReads => UNCHANGED (ValveSpec!vars)
    BY DEF LightReads, LightFails, MoistureReads
<1>3. RemoteStep => [ValveSpec!Next]_(ValveSpec!vars)
    BY DEF RemoteStep, Connect, Disconnect, StoreCmd, Hang
<1> QED BY <1>1, <1>2, <1>3

\* The valve opens only on request, one watering per request, closes only
\* after OnDuration and at most two gaps of solenoidThread later, in every behaviour: the
\* safety part of ImplementsValve.
THEOREM ValveIsSafe == SafetySpec => ValveSpec!Safety
<1>1. Init => ValveSpec!Init
    BY DEF Init, ValveSpec!Init
<1>2. Inv /\ [Next]_vars => [ValveSpec!Next]_(ValveSpec!vars)
    <2>1. UNCHANGED vars => UNCHANGED (ValveSpec!vars)
        BY DEF vars, solenoid, ValveSpec!vars
    <2> QED BY <2>1, TickRefines, SolenoidRefines, OthersRefine DEF Next
<1> QED BY <1>1, <1>2, InvAlways, PTL DEF SafetySpec, ValveSpec!Safety
=============================================================================

------------------------------ MODULE RemoteNode ------------------------------
(***************************************************************************)
(* The remote node (tiva/src): FreeRTOS tasks around a block of shared     *)
(* memory and its mutex.  solenoidThread drives the valve, observerThread  *)
(* watches the connections and waters by itself once the control node is   *)
(* out of reach, moistureThread and lightThread write the readings, and    *)
(* the tasks of remoteThread hold one socket each.                         *)
(*                                                                         *)
(* The observer prints and logs while it holds the mutex, and reads the    *)
(* flags of the sockets, which no mutex guards, one by one under a         *)
(* preemptive kernel: its turn is split there.  The other tasks hold the   *)
(* mutex for one step.  One unit of time is the delay between two turns of *)
(* a task (500 ms).                                                        *)
(***************************************************************************)
EXTENDS Integers, Sequences

CONSTANTS
    Reachable,            \* sockets whose server can be reached
    MoistureLevels,       \* soil moisture readings
    LowThres, HighThres,  \* SOIL_SATURATION_{LOW,HIGH}_THRES
    Thresholds,           \* the thresholds that the control node sends
    OnDuration,           \* SOLENOID_ON_TIME_DURATION
    LightLimit,           \* age at which the light task is unresponsive
    MaxGap                \* bound: how long a periodic task is without the mutex

Sockets == {"data", "cmd", "log", "status"}
Control == {"data", "cmd"}
Periodic == {"solenoid", "observer"}
OFF == 0
ON == 1

ASSUME ConstantsAssumption ==
    /\ Reachable \subseteq Sockets
    /\ MoistureLevels \subseteq Nat /\ 0 \in MoistureLevels
    /\ Thresholds \subseteq Nat
    /\ LowThres \in Nat /\ HighThres \in Nat
    /\ OnDuration \in Nat /\ LightLimit \in Nat
    /\ MaxGap \in [Periodic -> Nat \ {0}]

VARIABLES
    lost,                 \* g_{data,cmd,log,status}SocketLost
    cmdTask,              \* what remoteCmdTask does
    moistureLevel, lowThreshold, highThreshold,
    solenoidCmd, solenoidState, remainingOnTime,   \* shmem.solenoidData
    next_solenoidState, prev_solenoidState,        \* of updateSolenoidData
    onTime,               \* time since solenoidStartTime, while it is on
    valve,                \* the solenoid's pin
    lightSensorState,
    lightAge,             \* time since lightSensorUpdateTs
    observer,             \* where the observer is in its turn; see Decided
    flag,                 \* the place, in their order, of the flag it reads next
    alarm, prev_alarm, alarmPin,
    gap                   \* time since a periodic task last had the mutex

links == <<lost, cmdTask>>
moist == <<moistureLevel, lowThreshold, highThreshold>>
solenoid == <<solenoidState, remainingOnTime, next_solenoidState,
              prev_solenoidState, onTime, valve>>
light == <<lightSensorState, lightAge>>
turn == <<observer, flag>>
alarms == <<alarm, prev_alarm, alarmPin>>
vars == <<links, moist, solenoidCmd, solenoid, light, turn, alarms, gap>>

SystemStates == {"DEGRADED", "FAULT", "NOMINAL"}

\* The flags in the order in which line 108 and then line 111 read them, and
\* the state that follows from one that is set: at 111 a control flag that
\* was clear at 108 falls through to the else.
Flags == <<"data", "cmd", "data", "cmd", "log", "status">>
StateIfLost ==
    <<"FAULT", "FAULT", "NOMINAL", "NOMINAL", "DEGRADED", "DEGRADED">>

\* the order of lines 148 and 149
AlarmFlags == <<"cmd", "status", "log", "data">>

MaxLightAge == LightLimit + 1      \* lightAge stops counting here

TypeOK ==
    /\ lost \in [Sockets -> BOOLEAN]
    /\ cmdTask \in {"running", "hung"}
    /\ moistureLevel \in MoistureLevels
    /\ lowThreshold \in Nat /\ highThreshold \in Nat
    /\ solenoidCmd \in 0..1 /\ solenoidState \in 0..1
    /\ remainingOnTime \in 0 .. OnDuration
    /\ next_solenoidState \in 0..1 /\ prev_solenoidState \in 0..1
    /\ onTime \in Nat /\ valve \in 0..1
    /\ lightSensorState \in SystemStates /\ lightAge \in 0 .. MaxLightAge
    /\ observer \in {"observe", "read", "alarm"} \cup SystemStates
    /\ flag \in 1 .. Len(Flags)
    /\ alarm \in 0..1 /\ prev_alarm \in 0..1 /\ alarmPin \in 0..1
    /\ gap \in [Periodic -> Nat] /\ \A t \in Periodic : gap[t] <= MaxGap[t]

\* shmem is zeroed; observerTask sets the thresholds before its first turn
Init ==
    /\ lost = [s \in Sockets |-> TRUE] /\ cmdTask = "running"
    /\ moistureLevel = 0 /\ lowThreshold = LowThres /\ highThreshold = HighThres
    /\ solenoidCmd = 0 /\ solenoidState = OFF /\ remainingOnTime = 0
    /\ next_solenoidState = OFF /\ prev_solenoidState = OFF
    /\ onTime = 0 /\ valve = 0
    /\ lightSensorState = "DEGRADED" /\ lightAge = 0
    /\ observer = "observe" /\ flag = 1
    /\ alarm = 0 /\ prev_alarm = 0 /\ alarmPin = 0
    /\ gap = [t \in Periodic |-> 1]

-----------------------------------------------------------------------------
(* The mutex and the delays.                                               *)

\* The observer's systemState is decided anew in every turn that uses it, so
\* that the place it holds from there to the end of that use is its value.
Decided == observer \in SystemStates

MutexFree == observer # "read" /\ ~Decided

\* Outside NOMINAL the observer writes to the serial port, and may wait for
\* the log queue, for longer than the others wait for the mutex.
HeldTooLong == Decided /\ observer # "NOMINAL"

\* vTaskDelay is over for task t, which has its turn.  A turn in which the
\* task misses the mutex changes nothing and only makes the gap longer.
Turn(t) == gap[t] > 0 /\ gap' = [gap EXCEPT ![t] = 0]

\* The observer's time goes by in its delay, in its waits and while it prints;
\* between its reads of the flags it makes no call.
Tick ==
    /\ observer = "observe" \/ HeldTooLong
    /\ \A t \in Periodic : gap[t] < MaxGap[t]
    /\ gap' = [t \in Periodic |-> gap[t] + 1]
    /\ onTime' = IF valve = 1 THEN onTime + 1 ELSE onTime
    /\ lightAge' = IF lightAge < MaxLightAge THEN lightAge + 1 ELSE lightAge
    /\ UNCHANGED <<links, moist, solenoidCmd, solenoidState, remainingOnTime,
                   next_solenoidState, prev_solenoidState, valve,
                   lightSensorState, turn, alarms>>

-----------------------------------------------------------------------------
(* solenoidThread: updateSolenoidData.                                     *)

SolenoidOff ==
    /\ next_solenoidState = OFF
    /\ next_solenoidState' = IF solenoidCmd = ON THEN ON ELSE OFF
    /\ onTime' = 0
    /\ UNCHANGED <<solenoidCmd, remainingOnTime>>

\* [mutant] the command that opened the valve is not cleared
ClearCmdForgotten == UNCHANGED solenoidCmd

ClearCmd == solenoidCmd' = 0

SolenoidEntry ==
    /\ next_solenoidState = ON /\ prev_solenoidState # ON
    /\ onTime' = 0
    /\ remainingOnTime' = OnDuration
    /\ ClearCmd
    /\ UNCHANGED next_solenoidState

\* [mutant] compares with the duration one unit too late
TimeIsUpLate == onTime > OnDuration + 1

TimeIsUp == onTime > OnDuration

SolenoidOn ==
    /\ next_solenoidState = ON /\ prev_solenoidState = ON
    /\ IF TimeIsUp
       THEN remainingOnTime' = 0 /\ next_solenoidState' = OFF
       ELSE /\ remainingOnTime' = OnDuration - onTime
            /\ UNCHANGED next_solenoidState
    /\ UNCHANGED <<solenoidCmd, onTime>>

SolenoidTurn ==
    /\ MutexFree
    /\ Turn("solenoid")
    /\ SolenoidOff \/ SolenoidEntry \/ SolenoidOn
    /\ valve' = IF prev_solenoidState # next_solenoidState
                THEN next_solenoidState ELSE valve
    /\ prev_solenoidState' = next_solenoidState
    /\ solenoidState' = next_solenoidState
    /\ UNCHANGED <<links, moist, light, turn, alarms>>

-----------------------------------------------------------------------------
(* lightThread and moistureThread.                                         *)

LightReads ==
    /\ MutexFree
    /\ lightSensorState' = "NOMINAL" /\ lightAge' = 0
    /\ UNCHANGED <<links, moist, solenoidCmd, solenoid, turn, alarms, gap>>

LightFails ==
    /\ MutexFree
    /\ lightSensorState' = "FAULT"
    /\ UNCHANGED <<links, moist, solenoidCmd, solenoid, lightAge, turn, alarms, gap>>

MoistureReads ==
    /\ MutexFree
    /\ moistureLevel' \in MoistureLevels
    /\ UNCHANGED <<links, lowThreshold, highThreshold, solenoidCmd, solenoid,
                   light, turn, alarms, gap>>

-----------------------------------------------------------------------------
(* observerThread.                                                         *)

\* [mutant] a light task that has stopped is not noticed
LightStateUnchecked == lightSensorState

LightState == IF lightAge > LightLimit THEN "DEGRADED" ELSE lightSensorState

\* the mutex is taken; the light sensor's state is guarded by it
Observe ==
    /\ observer = "observe"
    /\ Turn("observer")
    /\ lightSensorState' = LightState
    /\ observer' = "read"
    /\ UNCHANGED <<links, moist, solenoidCmd, solenoid, lightAge, flag, alarms>>

\* the mutex does not come free in time: only the alarm is looked after
MissMutex ==
    /\ observer = "observe"
    /\ gap["observer"] > 0
    /\ observer' = "alarm"
    /\ UNCHANGED <<links, moist, solenoidCmd, solenoid, light, flag, alarms, gap>>

Decide(systemState) == observer' = systemState /\ flag' = 1

ReadNext == flag' = flag + 1 /\ UNCHANGED observer

ReadFlag ==
    /\ observer = "read"
    /\ \/ lost[Flags[flag]] /\ Decide(StateIfLost[flag])
       \/ ~lost[Flags[flag]] /\ flag < Len(Flags) /\ ReadNext
       \/ /\ ~lost[Flags[flag]] /\ flag = Len(Flags)
          /\ Decide(IF lightSensorState = "NOMINAL" THEN "NOMINAL" ELSE "DEGRADED")
    /\ UNCHANGED <<links, moist, solenoidCmd, solenoid, light, alarms, gap>>

MoistureLow == moistureLevel < lowThreshold

\* [mutant] waters once, when the alarm is raised
OverrideOnce == MoistureLow /\ observer = "FAULT" /\ alarm = 0

Override == MoistureLow /\ observer = "FAULT" /\ solenoidState = 0

\* still under the mutex
Act ==
    /\ Decided
    /\ alarm' = CASE MoistureLow -> 1
                  [] ~MoistureLow /\ moistureLevel > highThreshold -> 0
                  [] OTHER -> alarm
    /\ solenoidCmd' = IF Override THEN 1 ELSE solenoidCmd
    /\ observer' = "alarm"
    /\ UNCHANGED <<links, moist, solenoid, light, flag, prev_alarm,
                   alarmPin, gap>>

\* [mutant] the pin is only written when it is set
PinWrittenOnSet(level) == level = 1

PinWritten(level) == level # prev_alarm

\* the end of the turn
SetAlarm(level) ==
    /\ alarm' = level /\ prev_alarm' = level
    /\ alarmPin' = IF PinWritten(level) THEN level ELSE alarmPin
    /\ observer' = "observe" /\ flag' = 1

CheckConnections ==
    /\ observer = "alarm"
    /\ \/ lost[AlarmFlags[flag]] /\ SetAlarm(1)
       \/ ~lost[AlarmFlags[flag]] /\ flag = Len(AlarmFlags) /\ SetAlarm(alarm)
       \/ /\ ~lost[AlarmFlags[flag]] /\ flag < Len(AlarmFlags)
          /\ flag' = flag + 1
          /\ UNCHANGED <<observer, alarms>>
    /\ UNCHANGED <<links, moist, solenoidCmd, solenoid, light, gap>>

ObserverStep == Observe \/ MissMutex \/ ReadFlag \/ Act \/ CheckConnections

-----------------------------------------------------------------------------
(* remoteThread: the four tasks that hold a socket.                        *)

CanRun(s) == s = "cmd" => cmdTask = "running"

\* the loop over FreeRTOS_connect succeeds
Connect(s) ==
    /\ lost[s] /\ CanRun(s)
    /\ s \in Reachable
    /\ lost' = [lost EXCEPT ![s] = FALSE]
    /\ UNCHANGED <<cmdTask, moist, solenoidCmd, solenoid, light,
                   turn, alarms, gap>>

\* a send or a receive answers ENOTCONN
Disconnect(s) ==
    /\ ~lost[s] /\ CanRun(s)
    /\ lost' = [lost EXCEPT ![s] = TRUE]
    /\ UNCHANGED <<cmdTask, moist, solenoidCmd, solenoid, light,
                   turn, alarms, gap>>

CmdTaskReady == ~lost["cmd"] /\ cmdTask = "running"

\* REMOTE_WATERPLANT and the thresholds; other commands are ignored
StoreCmd ==
    /\ CmdTaskReady
    /\ MutexFree
    /\ \/ solenoidCmd' = 1 /\ UNCHANGED <<lowThreshold, highThreshold>>
       \/ lowThreshold' \in Thresholds /\ UNCHANGED <<solenoidCmd, highThreshold>>
       \/ highThreshold' \in Thresholds /\ UNCHANGED <<solenoidCmd, lowThreshold>>
    /\ UNCHANGED <<links, moistureLevel, solenoid, light, turn,
                   alarms, gap>>

\* a command arrives and the mutex does not come free in time: while(1){}
Hang ==
    /\ CmdTaskReady
    /\ HeldTooLong
    /\ cmdTask' = "hung"
    /\ UNCHANGED <<lost, moist, solenoidCmd, solenoid, light,
                   turn, alarms, gap>>

RemoteStep ==
    \/ \E s \in Sockets : Connect(s) \/ Disconnect(s)
    \/ StoreCmd
    \/ Hang

Next ==
    \/ Tick
    \/ SolenoidTurn
    \/ ObserverStep
    \/ LightReads \/ LightFails \/ MoistureReads
    \/ RemoteStep

SafetySpec == Init /\ [][Next]_vars

\* Time passes, and the tasks that need nobody else have their turns; the
\* observer does not miss the mutex for ever, which nobody keeps from it.
Fairness ==
    /\ WF_vars(Tick) /\ WF_vars(SolenoidTurn)
    /\ WF_vars(ObserverStep) /\ SF_vars(Observe)

Spec == SafetySpec /\ Fairness

-----------------------------------------------------------------------------
(* Properties.                                                             *)

ValveSpec == INSTANCE Valve WITH
    Duration <- OnDuration, Slack <- 2 * MaxGap["solenoid"],
    cmd <- solenoidCmd, openFor <- onTime

\* Whether the control node or the observer asks for water, the valve opens
\* only on request, one watering per request, for the whole duration and not
\* much longer; a request is not lost (updateSolenoidData).
ImplementsValve == ValveSpec!Spec

\* The node does not call itself NOMINAL on the word of a light task that has
\* stopped ("Determine if light task has become unresponsive"), except in a
\* turn in which a control socket is lost while the flags are read
\* (observerThread.c:108-117).
NominalIsFresh ==
    [][observer = "read" /\ observer' = "NOMINAL" =>
            lightAge <= LightLimit \/ \E s \in Control : lost[s]]_vars

\* A plant whose soil stays dry while the data or the command socket stays
\* lost is watered again and again ("water plant autonomously").
DryPlantIsWatered ==
    (\E s \in Control : <>[]lost[s]) /\ <>[]MoistureLow => []<>(valve = 1)

\* The alarm stays on while a connection is missing, and goes out once all of
\* them are there and the soil is wet.
AlarmFollows ==
    /\ (\E s \in Sockets : <>[]lost[s]) => <>[](alarmPin = 1)
    /\ <>[](/\ \A s \in Sockets : ~lost[s]
            /\ ~MoistureLow /\ moistureLevel > highThreshold)
            => <>[](alarmPin = 0)

\* "If unable to receive cmds from Control Node [...], enter Fault state (water
\* plant autonomously)" (observerThread.c:107).
DeafNodeIsInFault == cmdTask = "hung" ~> observer = "FAULT"
=============================================================================

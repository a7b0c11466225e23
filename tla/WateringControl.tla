--------------------------- MODULE WateringControl ---------------------------
(***************************************************************************)
(* The control loop of the BBG control node (bbg/src/main.c).              *)
(*                                                                         *)
(* Two kinds of thread share the globals of main.c without a lock: the     *)
(* main thread, which makes one pass of its loop per second (console       *)
(* command, sensor data, control loop), and the notification threads the   *)
(* C library creates when the watering timer expires (SIGEV_THREAD), which *)
(* run waterDeviceTx.  A step below reads or writes the shared globals     *)
(* once, so that the threads interleave where the compiled code can.       *)
(***************************************************************************)
EXTENDS Naturals, Sequences

CONSTANTS
    Notifiers,            \* notification threads that may be alive at once
    MayOverlap,           \* may a notification thread overlap a loop pass?
    Commands,             \* the numbers the user types as a command
    Numbers,              \* the numbers the user types as a command's data
    MoistureValues,       \* the soil moisture readings, some naturals
    SoilMoistureMax,      \* SOIL_MOISTURE_MAX
    LowThres, HighThres,  \* SOIL_SATURATION_{LOW,HIGH}_THRES
    MaxWaterChecks,       \* SOIL_MAX_WATER_CHECK_COUNT
    MinPeriod,            \* the 8 hours setPeriodicWaterSched asks for
    MaxSeconds,           \* the largest tv_sec that timer_settime accepts
    CmdQueueDepth         \* mq_maxmsg of the command queue

Main == "main"
Threads == {Main} \cup Notifiers

ASSUME ConstantsAssumption ==
    /\ Main \notin Notifiers
    /\ MayOverlap \in BOOLEAN
    /\ Commands \subseteq Nat /\ Numbers \subseteq Nat
    /\ MoistureValues \subseteq Nat
    /\ 0 \in MoistureValues
    /\ SoilMoistureMax \in Nat
    /\ LowThres \in Nat /\ HighThres \in Nat
    /\ LowThres < HighThres
    /\ HighThres <= SoilMoistureMax
    /\ MaxWaterChecks \in Nat
    /\ MinPeriod \in Nat \ {0}
    /\ MaxSeconds \in Nat
    /\ CmdQueueDepth \in Nat \ {0}

\* ConsoleCmd_e
CMD_WATER_PLANT == 1
CMD_SCHED_PERIODIC == 2
CMD_SCHED_ONESHOT == 3
CMD_GET_SENSOR_DATA == 4
CMD_GET_APP_STATE == 5
CMD_EN_DEV2 == 6
CMD_DS_DEV2 == 7
CMD_SETMOISTURE_LOWTHRES == 8
CMD_SETMOISTURE_HIGHTHRES == 9
CMD_SCHED_CANCEL == 10
CMD_MAX_CMDS == 11

\* ControlLoopState_e; main.c never stores DEGRADED in systemState
ControlLoopStates ==
    {"IDLE", "WATER_PERIODIC_SCHED", "WATER_ONESHOT_SCHED", "WATERING_PLANT"}
SystemStates == {"FAULT", "NOMINAL"}

RemoteCmds == {"WATERPLANT", "ENDEV2", "DSDEV2",
               "SETMOISTURE_LOWTHRES", "SETMOISTURE_HIGHTHRES"}
RemoteCmdPackets == [cmd : RemoteCmds, data : Nat]

VARIABLES
    pc,                   \* where each thread is
    gCurrentCmd,          \* the command that waits for its data, or 0
    soilMoistureLow, soilMoistureHigh,
    moistureData,         \* last soil moisture received
    sunny,                \* luxData > LUX_MAX_THRESHOLD
    controlLoopState, systemState,
    checkingSoilMoisture, soilWateringCount,
    countReg,             \* main's register in soilWateringCount++
    nextState,            \* the state main has decided to store
    waterTimer,           \* waterTimerid: seconds left (0: disarmed), interval
    setFailed,            \* history: did the last timer_settime fail?
    ticked,               \* has this pass's second elapsed?
    cmdQueue,             \* cmdMsgQueue
    dryPasses             \* history: dry watering passes since the last success

console   == <<gCurrentCmd, soilMoistureLow, soilMoistureHigh>>
sensors   == <<moistureData, sunny>>
mode      == <<controlLoopState, systemState>>
supervise == <<checkingSoilMoisture, soilWateringCount, countReg, dryPasses>>
timer     == <<waterTimer, setFailed>>
timing    == <<timer, ticked>>
data_vars == <<console, sensors, mode, supervise, nextState, timing, cmdQueue>>
vars == <<pc, data_vars>>

MainLabels == {"console", "scanf", "sched_check", "sched_store", "data",
               "switch", "count_load", "count_store", "count_check", "fault",
               "complete", "finish", "clear_checking", "clear_count", "sleep"}
TxLabels == {"tx_decide", "tx_skip", "tx_idle", "tx_send", "tx_state",
             "tx_checking", "tx_count"}
DataCmds == {CMD_SCHED_PERIODIC, CMD_SCHED_ONESHOT,
             CMD_SETMOISTURE_LOWTHRES, CMD_SETMOISTURE_HIGHTHRES}

TypeOK ==
    /\ pc \in [Threads -> MainLabels \cup TxLabels \cup {"idle"}]
    /\ \A t \in Notifiers : pc[t] \in TxLabels \cup {"idle"}
    /\ pc[Main] # "idle"
    /\ gCurrentCmd \in DataCmds \cup {0}
    /\ soilMoistureLow \in Nat /\ soilMoistureHigh \in Nat
    /\ moistureData \in MoistureValues /\ sunny \in BOOLEAN
    /\ controlLoopState \in ControlLoopStates /\ systemState \in SystemStates
    /\ nextState \in ControlLoopStates
    /\ checkingSoilMoisture \in BOOLEAN
    /\ soilWateringCount \in Nat /\ countReg \in Nat /\ dryPasses \in Nat
    /\ waterTimer \in [left : Nat, interval : Nat] /\ setFailed \in BOOLEAN
    /\ ticked \in BOOLEAN
    /\ cmdQueue \in Seq(RemoteCmdPackets) /\ Len(cmdQueue) <= CmdQueueDepth

Init ==
    /\ pc = [t \in Threads |-> IF t = Main THEN "console" ELSE "idle"]
    /\ gCurrentCmd = 0
    /\ soilMoistureLow = LowThres /\ soilMoistureHigh = HighThres
    /\ moistureData = 0 /\ sunny = FALSE
    /\ controlLoopState = "IDLE" /\ systemState = "NOMINAL"
    /\ nextState = "IDLE"
    /\ checkingSoilMoisture = FALSE
    /\ soilWateringCount = 0 /\ countReg = 0 /\ dryPasses = 0
    /\ waterTimer = [left |-> 0, interval |-> 0] /\ setFailed = FALSE
    /\ ticked = FALSE
    /\ cmdQueue = <<>>

-----------------------------------------------------------------------------
\* Thread t goes from one label to the next.
Goto(t, from, to) == pc[t] = from /\ pc' = [pc EXCEPT ![t] = to]

\* [mutant] a queue that never reports being full
SendCmdUnbounded(cmd, data) ==
    cmdQueue' = Append(cmdQueue, [cmd |-> cmd, data |-> data])

\* mq_send on the O_NONBLOCK command queue; its result is never looked at
SendCmd(cmd, data) ==
    cmdQueue' = IF Len(cmdQueue) < CmdQueueDepth
                THEN Append(cmdQueue, [cmd |-> cmd, data |-> data])
                ELSE cmdQueue

-----------------------------------------------------------------------------
(* waterDeviceTx, run by main for CMD_WATER_PLANT and by a notifier when    *)
(* the timer expires.                                                       *)

AfterTx(t) == IF t = Main THEN "data" ELSE "idle"

WateringRefused ==
    \/ moistureData > soilMoistureHigh
    \/ moistureData > soilMoistureLow /\ sunny

TxDecide(t) ==
    /\ Goto(t, "tx_decide", IF WateringRefused THEN "tx_skip" ELSE "tx_send")
    /\ UNCHANGED data_vars

\* [mutant] a refused one-shot is not taken off the schedule
AfterRefusalNoReset(t) == AfterTx(t)

AfterRefusal(t) == IF controlLoopState = "WATER_ONESHOT_SCHED"
                   THEN "tx_idle" ELSE AfterTx(t)

TxSkip(t) == Goto(t, "tx_skip", AfterRefusal(t)) /\ UNCHANGED data_vars

TxIdle(t) ==
    /\ Goto(t, "tx_idle", AfterTx(t))
    /\ controlLoopState' = "IDLE"
    /\ UNCHANGED <<console, sensors, systemState, supervise, nextState, timing, cmdQueue>>

TxSend(t) ==
    /\ Goto(t, "tx_send", "tx_state")
    /\ SendCmd("WATERPLANT", 0)
    /\ UNCHANGED <<console, sensors, mode, supervise, nextState, timing>>

TxState(t) ==
    /\ Goto(t, "tx_state", "tx_checking")
    /\ controlLoopState' = "WATERING_PLANT"
    /\ UNCHANGED <<console, sensors, systemState, supervise, nextState, timing, cmdQueue>>

\* [mutant] the supervision of the watering is not switched on
StartCheckingForgotten == UNCHANGED checkingSoilMoisture

StartChecking == checkingSoilMoisture' = TRUE

TxChecking(t) ==
    /\ Goto(t, "tx_checking", "tx_count")
    /\ StartChecking
    /\ UNCHANGED <<console, sensors, mode, soilWateringCount, countReg,
                   dryPasses, nextState, timing, cmdQueue>>

TxCount(t) ==
    /\ Goto(t, "tx_count", AfterTx(t))
    /\ soilWateringCount' = 0
    /\ UNCHANGED <<console, sensors, mode, checkingSoilMoisture, countReg,
                   dryPasses, nextState, timing, cmdQueue>>

WaterDeviceTx(t) == TxDecide(t) \/ TxSkip(t) \/ TxIdle(t) \/ TxSend(t)
                        \/ TxState(t) \/ TxChecking(t) \/ TxCount(t)

-----------------------------------------------------------------------------
(* handleConsoleCmd.  While a command waits for its data (gCurrentCmd # 0)  *)
(* the number typed is that data, and zero leaves the command waiting.      *)

\* select: nothing to read, or a line, which may be a bare Enter
NoInput == Goto(Main, "console", "data") /\ UNCHANGED data_vars

Typed == Goto(Main, "console", "scanf") /\ UNCHANGED data_vars

\* Nothing to do but note which command waits for its data.
Dismiss(waiting) ==
    /\ gCurrentCmd' = waiting
    /\ Goto(Main, "scanf", "data")
    /\ UNCHANGED <<soilMoistureLow, soilMoistureHigh, systemState, nextState,
                   timer, cmdQueue>>

\* timer_settime fails on a tv_sec out of range, which nobody notices
SetTimer(seconds, interval) ==
    /\ setFailed' = (seconds > MaxSeconds)
    /\ waterTimer' = IF seconds <= MaxSeconds
                     THEN [left |-> seconds, interval |-> interval]
                     ELSE waterTimer

Schedule(seconds, interval, state) ==
    /\ SetTimer(seconds, interval)
    /\ nextState' = state
    /\ gCurrentCmd' = 0
    /\ Goto(Main, "scanf", "sched_check")
    /\ UNCHANGED <<soilMoistureLow, soilMoistureHigh, systemState, cmdQueue>>

\* [mutant] the low threshold is not compared with the high one
LowThresAcceptedAlone(data) == data <= SoilMoistureMax

LowThresAccepted(data) == data <= SoilMoistureMax /\ data < soilMoistureHigh

LowThresCmd(data) ==
    /\ IF LowThresAccepted(data)
       THEN soilMoistureLow' = data /\ SendCmd("SETMOISTURE_LOWTHRES", data)
       ELSE UNCHANGED <<soilMoistureLow, cmdQueue>>
    /\ gCurrentCmd' = 0
    /\ Goto(Main, "scanf", "data")
    /\ UNCHANGED <<soilMoistureHigh, systemState, nextState, timer>>

HighThresAccepted(data) == data <= SoilMoistureMax /\ data > soilMoistureLow

HighThresCmd(data) ==
    /\ IF HighThresAccepted(data)
       THEN /\ soilMoistureHigh' = data
            /\ SendCmd("SETMOISTURE_HIGHTHRES", data)
            /\ systemState' = IF data < moistureData THEN "NOMINAL" ELSE systemState
       ELSE UNCHANGED <<soilMoistureHigh, cmdQueue, systemState>>
    /\ gCurrentCmd' = 0
    /\ Goto(Main, "scanf", "data")
    /\ UNCHANGED <<soilMoistureLow, nextState, timer>>

\* CMD_EN_DEV2 and CMD_DS_DEV2
DeviceCmd(remoteCmd) ==
    /\ SendCmd(remoteCmd, 0)
    /\ gCurrentCmd' = 0
    /\ Goto(Main, "scanf", "data")
    /\ UNCHANGED <<soilMoistureLow, soilMoistureHigh, systemState, nextState, timer>>

WaterPlantCmd ==
    /\ Goto(Main, "scanf", "tx_decide")
    /\ UNCHANGED <<console, systemState, nextState, timer, cmdQueue>>

HandleConsoleCmd(input) ==
    LET cmd  == IF gCurrentCmd # 0 THEN gCurrentCmd ELSE input
        data == IF gCurrentCmd # 0 THEN input ELSE 0
    IN  /\ \/ cmd >= CMD_MAX_CMDS /\ Dismiss(0)
           \/ cmd \in {0, CMD_GET_SENSOR_DATA, CMD_GET_APP_STATE} /\ Dismiss(0)
           \/ cmd \in DataCmds /\ data = 0 /\ Dismiss(cmd)
           \/ cmd = CMD_WATER_PLANT /\ WaterPlantCmd
           \/ cmd = CMD_SCHED_PERIODIC /\ data # 0 /\ data < MinPeriod /\ Dismiss(0)
           \/ /\ cmd = CMD_SCHED_PERIODIC /\ data >= MinPeriod
              /\ Schedule(data, data, "WATER_PERIODIC_SCHED")
           \/ /\ cmd = CMD_SCHED_ONESHOT /\ data # 0
              /\ Schedule(data, 0, "WATER_ONESHOT_SCHED")
           \/ cmd = CMD_EN_DEV2 /\ DeviceCmd("ENDEV2")
           \/ cmd = CMD_DS_DEV2 /\ DeviceCmd("DSDEV2")
           \/ cmd = CMD_SETMOISTURE_LOWTHRES /\ data # 0 /\ LowThresCmd(data)
           \/ cmd = CMD_SETMOISTURE_HIGHTHRES /\ data # 0 /\ HighThresCmd(data)
           \/ cmd = CMD_SCHED_CANCEL /\ Schedule(0, 0, "IDLE")
        /\ UNCHANGED <<sensors, controlLoopState, supervise, ticked>>

NotifiersIdle == \A t \in Notifiers : pc[t] = "idle"

\* scanf waits until there is a word: after a bare Enter main stays in it.
ReadConsole ==
    /\ MayOverlap \/ NotifiersIdle
    /\ \E input \in IF gCurrentCmd = 0 THEN Commands ELSE Numbers :
          HandleConsoleCmd(input)

\* the last lines of setPeriodicWaterSched, setOneshotWaterSched and
\* cancelWaterSched: store the new state unless the plant is being watered
SchedCheck ==
    /\ Goto(Main, "sched_check", IF controlLoopState = "WATERING_PLANT"
                                 THEN "data" ELSE "sched_store")
    /\ UNCHANGED data_vars

SchedStore ==
    /\ Goto(Main, "sched_store", "data")
    /\ controlLoopState' = nextState
    /\ UNCHANGED <<console, sensors, systemState, supervise, nextState, timing, cmdQueue>>

-----------------------------------------------------------------------------
(* The rest of a pass: take at most one data packet, then the control loop. *)

ReceiveData ==
    /\ Goto(Main, "data", "switch")
    /\ \/ UNCHANGED sensors
       \/ moistureData' \in MoistureValues /\ sunny' \in BOOLEAN
    /\ UNCHANGED <<console, mode, supervise, nextState, timing, cmdQueue>>

Switch ==
    /\ Goto(Main, "switch", IF controlLoopState # "WATERING_PLANT" THEN "sleep"
                            ELSE IF moistureData < soilMoistureHigh THEN "count_load"
                            ELSE "complete")
    /\ UNCHANGED data_vars

CountLoad ==
    /\ Goto(Main, "count_load", "count_store")
    /\ countReg' = soilWateringCount
    /\ UNCHANGED <<console, sensors, mode, checkingSoilMoisture,
                   soilWateringCount, dryPasses, nextState, timing, cmdQueue>>

\* Both counters saturate once they exceed MaxWaterChecks, which is all that
\* is ever asked of them.
Increment(n) == IF n > MaxWaterChecks THEN n ELSE n + 1

CountStore ==
    /\ Goto(Main, "count_store", "count_check")
    /\ soilWateringCount' = Increment(countReg)
    /\ countReg' = 0
    /\ dryPasses' = Increment(dryPasses)
    /\ UNCHANGED <<console, sensors, mode, checkingSoilMoisture, nextState, timing, cmdQueue>>

\* [mutant] off by one
TooManyChecksOffByOne ==
    checkingSoilMoisture /\ soilWateringCount >= MaxWaterChecks

TooManyChecks == checkingSoilMoisture /\ soilWateringCount > MaxWaterChecks

\* [mutant] FAULT is declared but the loop goes on watering
EnterFaultWatering == systemState' = "FAULT" /\ UNCHANGED controlLoopState

EnterFault == systemState' = "FAULT" /\ controlLoopState' = "IDLE"

CountCheck ==
    /\ Goto(Main, "count_check", IF TooManyChecks THEN "fault" ELSE "sleep")
    /\ UNCHANGED data_vars

\* after the print: IDLE overwrites what a notifier has stored meanwhile
Fault ==
    /\ Goto(Main, "fault", "sleep")
    /\ EnterFault
    /\ UNCHANGED <<console, sensors, supervise, nextState, timing, cmdQueue>>

\* [mutant] the timer is not looked at
AfterWateringPeriodic == "WATER_PERIODIC_SCHED"

\* timer_gettime
AfterWatering == IF waterTimer.left = 0 THEN "IDLE" ELSE "WATER_PERIODIC_SCHED"

Complete ==
    /\ Goto(Main, "complete", "finish")
    /\ nextState' = AfterWatering
    /\ UNCHANGED <<console, sensors, mode, supervise, timing, cmdQueue>>

Finish ==
    /\ Goto(Main, "finish", "clear_checking")
    /\ controlLoopState' = nextState /\ systemState' = "NOMINAL"
    /\ UNCHANGED <<console, sensors, supervise, nextState, timing, cmdQueue>>

ClearChecking ==
    /\ Goto(Main, "clear_checking", "clear_count")
    /\ checkingSoilMoisture' = FALSE
    /\ UNCHANGED <<console, sensors, mode, soilWateringCount, countReg,
                   dryPasses, nextState, timing, cmdQueue>>

\* [mutant] the count survives a successful watering
ResetCountForgotten == UNCHANGED soilWateringCount

ResetCount == soilWateringCount' = 0

ClearCount ==
    /\ Goto(Main, "clear_count", "sleep")
    /\ ResetCount
    /\ dryPasses' = 0
    /\ UNCHANGED <<console, sensors, mode, checkingSoilMoisture, countReg,
                   nextState, timing, cmdQueue>>

\* sigwait for the loop timer; nextState is dead between two passes
Sleep ==
    /\ ticked
    /\ MayOverlap \/ NotifiersIdle
    /\ Goto(Main, "sleep", "console")
    /\ ticked' = FALSE
    /\ nextState' = "IDLE"
    /\ UNCHANGED <<console, sensors, mode, supervise, timer, cmdQueue>>

\* What main does by itself, that is all but waiting for the user in scanf.
LoopStep ==
    \/ WaterDeviceTx(Main)
    \/ NoInput \/ Typed \/ SchedCheck \/ SchedStore
    \/ ReceiveData \/ Switch
    \/ CountLoad \/ CountStore \/ CountCheck \/ Fault
    \/ Complete \/ Finish \/ ClearChecking \/ ClearCount
    \/ Sleep

MainStep == LoopStep \/ ReadConsole

-----------------------------------------------------------------------------
(* The environment: time, and remoteCmdThread, which empties the queue.     *)

\* Once in a pass, unless main is held up in scanf.
SecondMayElapse ==
    /\ ~ticked \/ pc[Main] = "scanf"
    /\ MayOverlap \/ pc[Main] \in {"sleep", "scanf"}

CountDown ==
    /\ SecondMayElapse
    /\ waterTimer.left # 1
    /\ waterTimer' = [waterTimer EXCEPT !.left = IF @ = 0 THEN 0 ELSE @ - 1]
    /\ ticked' = TRUE
    /\ UNCHANGED <<pc, console, sensors, mode, supervise, nextState, setFailed, cmdQueue>>

\* the timer expires: reload it and start waterDeviceTx in a new thread
Expire(t) ==
    /\ SecondMayElapse
    /\ waterTimer.left = 1
    /\ Goto(t, "idle", "tx_decide")
    /\ waterTimer' = [waterTimer EXCEPT !.left = waterTimer.interval]
    /\ ticked' = TRUE
    /\ UNCHANGED <<console, sensors, mode, supervise, nextState, setFailed, cmdQueue>>

Elapse == CountDown \/ \E t \in Notifiers : Expire(t)

TakeCmd ==
    /\ cmdQueue # <<>>
    /\ cmdQueue' = Tail(cmdQueue)
    /\ UNCHANGED <<pc, console, sensors, mode, supervise, nextState, timing>>

NotifierStep == \E t \in Notifiers : WaterDeviceTx(t)

Next == MainStep \/ NotifierStep \/ Elapse \/ TakeCmd

Fairness ==
    /\ WF_vars(LoopStep)
    /\ \A t \in Notifiers : WF_vars(WaterDeviceTx(t))
    /\ WF_vars(Elapse)
    /\ WF_vars(TakeCmd)

SafetySpec == Init /\ [][Next]_vars
Spec == SafetySpec /\ Fairness

-----------------------------------------------------------------------------
(* Safety *)

\* The thresholds the user sets one at a time never cross, whatever order
\* they are typed in (the checks of CMD_SETMOISTURE_{LOW,HIGH}THRES).
ThresholdOrder ==
    /\ soilMoistureLow < soilMoistureHigh
    /\ soilMoistureHigh <= SoilMoistureMax

\* The count of dry passes never runs ahead of the dry passes main really saw
\* since the last success, even when a notification thread resets it between
\* the load and the store of soilWateringCount++.
CountIsEvidence ==
    /\ soilWateringCount <= dryPasses
    /\ pc[Main] = "count_store" => countReg <= dryPasses

\* FAULT is declared only after more than SOIL_MAX_WATER_CHECK_COUNT passes
\* that found the soil dry since the last successful watering.
FaultNeedsEvidence ==
    [][systemState = "NOMINAL" /\ systemState' = "FAULT"
         => dryPasses > MaxWaterChecks]_vars

Quiet == pc[Main] = "sleep" /\ NotifiersIdle

\* "Waiting until next one-shot watering cycle": in that state, between two
\* passes, the one-shot timer is running, or timer_settime has refused it.
OneshotIsArmed ==
    Quiet /\ controlLoopState = "WATER_ONESHOT_SCHED" /\ ~setFailed
        => waterTimer.left > 0 /\ waterTimer.interval = 0

\* "Waiting until next periodic watering cycle": in that state, between two
\* passes, the periodic timer is running, or timer_settime has refused it: the
\* user typed a negative interval.
PeriodicIsArmed ==
    Quiet /\ controlLoopState = "WATER_PERIODIC_SCHED" /\ ~setFailed
        => waterTimer.left > 0 /\ waterTimer.interval > 0

\* While the plant is being watered the loop checks that the soil gets wet.
WateringIsSupervised ==
    Quiet /\ controlLoopState = "WATERING_PLANT" => checkingSoilMoisture

-----------------------------------------------------------------------------
(* Liveness *)

\* From some time on the user types nothing, and has not left main in scanf.
UserStops == <>[](pc[Main] # "scanf")

Dry == controlLoopState = "WATERING_PLANT" /\ moistureData < soilMoistureHigh

\* waterDeviceTx runs again before the supervision has made all its checks.
RestartedTooSoon == waterTimer.interval \in 1..MaxWaterChecks

\* Once the user leaves the console alone, watering a plant whose soil stays
\* dry comes to an end: the FAULT state is entered, whether or not the remote
\* node ever heard of the watering.  The one exception is a period so short
\* that each new watering resets the count of the one before.
DryWateringEnds == UserStops => []<>~Dry \/ <>[]RestartedTooSoon

\* Once the user leaves the console alone, a one-shot watering is carried out
\* or refused; it does not stay scheduled for ever, unless timer_settime has
\* refused its delay.
OneshotResolves ==
    UserStops => []<>(controlLoopState # "WATER_ONESHOT_SCHED" \/ setFailed)
=============================================================================

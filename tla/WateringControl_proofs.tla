------------------------ MODULE WateringControl_proofs ------------------------
(***************************************************************************)
(* Theorems about the control loop of WateringControl, for every value of  *)
(* its constants: any number of notification threads, any readings, any    *)
(* console input, with or without overlap of threads and passes.           *)
(***************************************************************************)
EXTENDS WateringControl, TLAPS

LEMMA CommandNumbers ==
    DataCmds = {2, 3, 8, 9} /\ CMD_WATER_PLANT = 1 /\ CMD_MAX_CMDS = 11
BY DEF DataCmds, CMD_SCHED_PERIODIC, CMD_SCHED_ONESHOT, CMD_WATER_PLANT,
       CMD_SETMOISTURE_LOWTHRES, CMD_SETMOISTURE_HIGHTHRES, CMD_MAX_CMDS

-----------------------------------------------------------------------------
(* Type correctness *)

\* Where a thread goes next is always one of its own labels.
PcTyped ==
    /\ pc \in [Threads -> MainLabels \cup TxLabels \cup {"idle"}]
    /\ \A t \in Notifiers : pc[t] \in TxLabels \cup {"idle"}
    /\ pc[Main] # "idle"

LEMMA GotoMainTyped ==
    ASSUME PcTyped, NEW from, NEW to \in MainLabels \cup TxLabels,
           Goto(Main, from, to)
    PROVE  PcTyped'
<1>1. "idle" \notin MainLabels \cup TxLabels
  BY DEF MainLabels, TxLabels
<1>2. Main \in Threads /\ Notifiers \subseteq Threads /\ Main \notin Notifiers
  BY ConstantsAssumption DEF Threads
<1> QED
  BY <1>1, <1>2 DEF PcTyped, Goto

LEMMA GotoNotifierTyped ==
    ASSUME PcTyped, NEW t \in Notifiers, NEW from,
           NEW to \in TxLabels \cup {"idle"}, Goto(t, from, to)
    PROVE  PcTyped'
<1>1. Main \in Threads /\ Notifiers \subseteq Threads /\ Main \notin Notifiers
  BY ConstantsAssumption DEF Threads
<1> QED
  BY <1>1 DEF PcTyped, Goto

\* A command put on a queue with room, or dropped, leaves a legal queue.
QueueTyped ==
    cmdQueue \in Seq(RemoteCmdPackets) /\ Len(cmdQueue) <= CmdQueueDepth

LEMMA SendCmdTyped ==
    ASSUME QueueTyped, NEW cmd \in RemoteCmds, NEW data \in Nat,
           SendCmd(cmd, data)
    PROVE  QueueTyped'
<1> DEFINE packet == [cmd |-> cmd, data |-> data]
<1>1. packet \in RemoteCmdPackets
  BY DEF RemoteCmdPackets
<1>2. CASE Len(cmdQueue) < CmdQueueDepth
  <2>1. cmdQueue' = Append(cmdQueue, packet)
    BY <1>2 DEF SendCmd
  <2>2. /\ Append(cmdQueue, packet) \in Seq(RemoteCmdPackets)
        /\ Len(Append(cmdQueue, packet)) = Len(cmdQueue) + 1
    BY <1>1 DEF QueueTyped
  <2> HIDE DEF packet
  <2> QED
    BY <1>2, <2>1, <2>2, ConstantsAssumption DEF QueueTyped
<1>3. CASE ~(Len(cmdQueue) < CmdQueueDepth)
  BY <1>3 DEF SendCmd, QueueTyped
<1> QED
  BY <1>2, <1>3

\* The rest of TypeOK.
DataTyped ==
    /\ gCurrentCmd \in DataCmds \cup {0}
    /\ soilMoistureLow \in Nat /\ soilMoistureHigh \in Nat
    /\ moistureData \in MoistureValues /\ sunny \in BOOLEAN
    /\ controlLoopState \in ControlLoopStates /\ systemState \in SystemStates
    /\ nextState \in ControlLoopStates
    /\ checkingSoilMoisture \in BOOLEAN
    /\ soilWateringCount \in Nat /\ countReg \in Nat /\ dryPasses \in Nat
    /\ waterTimer \in [left : Nat, interval : Nat] /\ setFailed \in BOOLEAN
    /\ ticked \in BOOLEAN

LEMMA TypeOKParts == TypeOK <=> PcTyped /\ DataTyped /\ QueueTyped
BY DEF TypeOK, PcTyped, DataTyped, QueueTyped

LEMMA TypeOKNext == PcTyped' /\ DataTyped' /\ QueueTyped' => TypeOK'
BY DEF TypeOK, PcTyped, DataTyped, QueueTyped

LEMMA InitTyped == Init => TypeOK
<1> SUFFICES ASSUME Init PROVE TypeOK
  OBVIOUS
<1>1. PcTyped
  BY ConstantsAssumption DEF Init, PcTyped, Threads, MainLabels, TxLabels
<1>2. DataTyped
  BY ConstantsAssumption DEF Init, DataTyped, ControlLoopStates, SystemStates
<1>3. QueueTyped
  BY ConstantsAssumption DEF Init, QueueTyped
<1> QED
  BY <1>1, <1>2, <1>3, TypeOKParts

\* A step that only moves a thread leaves the data alone.
LEMMA DataUnchanged ==
    ASSUME DataTyped, QueueTyped, UNCHANGED data_vars
    PROVE  DataTyped' /\ QueueTyped'
BY DEF DataTyped, QueueTyped, data_vars, console, sensors, mode, supervise,
       timer, timing

LEMMA WaterDeviceTxTyped ==
    ASSUME TypeOK, NEW t \in Threads, WaterDeviceTx(t)
    PROVE  TypeOK'
<1> USE DEF console, sensors, mode, supervise, timer, timing
<1>1. PcTyped /\ DataTyped /\ QueueTyped
  BY TypeOKParts
<1>2. ASSUME NEW from, NEW to \in TxLabels \cup {AfterTx(t)}, Goto(t, from, to)
      PROVE  PcTyped'
  <2>1. CASE t = Main
    <3>1. to \in MainLabels \cup TxLabels
      BY <1>2, <2>1 DEF AfterTx, MainLabels
    <3> QED
      BY <1>1, <1>2, <2>1, <3>1, GotoMainTyped
  <2>2. CASE t # Main
    <3>1. t \in Notifiers /\ to \in TxLabels \cup {"idle"}
      BY <1>2, <2>2 DEF AfterTx, Threads
    <3> QED
      BY <1>1, <1>2, <3>1, GotoNotifierTyped
  <2> QED
    BY <2>1, <2>2
<1>3. CASE TxDecide(t)
  <2>1. PcTyped'
    BY <1>2, <1>3 DEF TxDecide, TxLabels
  <2> QED
    BY <1>1, <1>3, <2>1, DataUnchanged, TypeOKNext DEF TxDecide
<1>4. CASE TxSkip(t)
  <2>1. PcTyped'
    BY <1>2, <1>4 DEF TxSkip, AfterRefusal, TxLabels
  <2> QED
    BY <1>1, <1>4, <2>1, DataUnchanged, TypeOKNext DEF TxSkip
<1>5. CASE TxIdle(t)
  <2>1. PcTyped'
    BY <1>2, <1>5 DEF TxIdle
  <2>2. DataTyped' /\ QueueTyped'
    BY <1>1, <1>5 DEF TxIdle, DataTyped, QueueTyped, ControlLoopStates
  <2> QED
    BY <2>1, <2>2, TypeOKNext
<1>6. CASE TxSend(t)
  <2>1. PcTyped'
    BY <1>2, <1>6 DEF TxSend, TxLabels
  <2>2. DataTyped'
    BY <1>1, <1>6 DEF TxSend, DataTyped
  <2>3. QueueTyped'
    BY <1>1, <1>6, SendCmdTyped DEF TxSend, RemoteCmds
  <2> QED
    BY <2>1, <2>2, <2>3, TypeOKNext
<1>7. CASE TxState(t)
  <2>1. PcTyped'
    BY <1>2, <1>7 DEF TxState, TxLabels
  <2>2. DataTyped' /\ QueueTyped'
    BY <1>1, <1>7 DEF TxState, DataTyped, QueueTyped, ControlLoopStates
  <2> QED
    BY <2>1, <2>2, TypeOKNext
<1>8. CASE TxChecking(t)
  <2>1. PcTyped'
    BY <1>2, <1>8 DEF TxChecking, TxLabels
  <2>2. DataTyped' /\ QueueTyped'
    BY <1>1, <1>8 DEF TxChecking, StartChecking, DataTyped, QueueTyped
  <2> QED
    BY <2>1, <2>2, TypeOKNext
<1>9. CASE TxCount(t)
  <2>1. PcTyped'
    BY <1>2, <1>9 DEF TxCount
  <2>2. DataTyped' /\ QueueTyped'
    BY <1>1, <1>9 DEF TxCount, DataTyped, QueueTyped
  <2> QED
    BY <2>1, <2>2, TypeOKNext
<1> QED
  BY <1>3, <1>4, <1>5, <1>6, <1>7, <1>8, <1>9 DEF WaterDeviceTx

\* The console command: every branch of handleConsoleCmd.
LEMMA ReadConsoleTyped ==
    ASSUME TypeOK, ReadConsole
    PROVE  TypeOK'
<1> USE DEF sensors, supervise, timer
<1>1. PcTyped /\ DataTyped /\ QueueTyped
  BY TypeOKParts
<1>2. PICK input \in Nat : HandleConsoleCmd(input)
  BY ConstantsAssumption DEF ReadConsole
<1> DEFINE cmd  == IF gCurrentCmd # 0 THEN gCurrentCmd ELSE input
           data == IF gCurrentCmd # 0 THEN input ELSE 0
<1>3. cmd \in Nat /\ data \in Nat
  BY <1>1, CommandNumbers DEF DataTyped
<1>4. UNCHANGED <<sensors, controlLoopState, supervise, ticked>>
  BY <1>2 DEF HandleConsoleCmd
<1>5. ASSUME NEW waiting \in DataCmds \cup {0}, Dismiss(waiting)
      PROVE  TypeOK'
  <2>1. PcTyped'
    BY <1>1, <1>5, GotoMainTyped DEF Dismiss, MainLabels
  <2>2. DataTyped' /\ QueueTyped'
    BY <1>1, <1>4, <1>5 DEF Dismiss, DataTyped, QueueTyped
  <2> QED
    BY <2>1, <2>2, TypeOKNext
<1>6. ASSUME NEW s \in Nat, NEW i \in Nat, NEW st \in ControlLoopStates,
             Schedule(s, i, st)
      PROVE  TypeOK'
  <2>1. PcTyped'
    BY <1>1, <1>6, GotoMainTyped DEF Schedule, MainLabels
  <2>2. DataTyped' /\ QueueTyped'
    BY <1>1, <1>4, <1>6 DEF Schedule, SetTimer, DataTyped, QueueTyped
  <2> QED
    BY <2>1, <2>2, TypeOKNext
<1>7. CASE LowThresCmd(data)
  <2>1. PcTyped'
    BY <1>1, <1>7, GotoMainTyped DEF LowThresCmd, MainLabels
  <2>2. DataTyped'
    BY <1>1, <1>3, <1>4, <1>7 DEF LowThresCmd, DataTyped
  <2>3. QueueTyped'
    <3>1. CASE LowThresAccepted(data)
      BY <1>1, <1>3, <1>7, <3>1, SendCmdTyped DEF LowThresCmd, RemoteCmds
    <3>2. CASE ~LowThresAccepted(data)
      BY <1>1, <1>7, <3>2 DEF LowThresCmd, QueueTyped
    <3> QED
      BY <3>1, <3>2
  <2> QED
    BY <2>1, <2>2, <2>3, TypeOKNext
<1>8. CASE HighThresCmd(data)
  <2>1. PcTyped'
    BY <1>1, <1>8, GotoMainTyped DEF HighThresCmd, MainLabels
  <2>2. DataTyped'
    BY <1>1, <1>3, <1>4, <1>8 DEF HighThresCmd, DataTyped, SystemStates
  <2>3. QueueTyped'
    <3>1. CASE HighThresAccepted(data)
      BY <1>1, <1>3, <1>8, <3>1, SendCmdTyped DEF HighThresCmd, RemoteCmds
    <3>2. CASE ~HighThresAccepted(data)
      BY <1>1, <1>8, <3>2 DEF HighThresCmd, QueueTyped
    <3> QED
      BY <3>1, <3>2
  <2> QED
    BY <2>1, <2>2, <2>3, TypeOKNext
<1>9. ASSUME NEW rc \in RemoteCmds, DeviceCmd(rc)
      PROVE  TypeOK'
  <2>1. PcTyped'
    BY <1>1, <1>9, GotoMainTyped DEF DeviceCmd, MainLabels
  <2>2. DataTyped'
    BY <1>1, <1>4, <1>9 DEF DeviceCmd, DataTyped
  <2>3. QueueTyped'
    BY <1>1, <1>9, SendCmdTyped DEF DeviceCmd
  <2> QED
    BY <2>1, <2>2, <2>3, TypeOKNext
<1>10. CASE WaterPlantCmd
  <2>1. PcTyped'
    BY <1>1, <1>10, GotoMainTyped DEF WaterPlantCmd, TxLabels
  <2>2. DataTyped' /\ QueueTyped'
    BY <1>1, <1>4, <1>10 DEF WaterPlantCmd, DataTyped, QueueTyped, console
  <2> QED
    BY <2>1, <2>2, TypeOKNext
<1>11. \/ \E w \in {0, cmd} : w \in DataCmds \cup {0} /\ Dismiss(w)
       \/ \E s, i \in {0, data}, st \in ControlLoopStates : Schedule(s, i, st)
       \/ LowThresCmd(data) \/ HighThresCmd(data)
       \/ \E rc \in RemoteCmds : DeviceCmd(rc)
       \/ WaterPlantCmd
  BY <1>2 DEF HandleConsoleCmd, ControlLoopStates, RemoteCmds
<1> HIDE DEF cmd, data
<1> QED
  BY <1>3, <1>5, <1>6, <1>7, <1>8, <1>9, <1>10, <1>11

\* The steps of a pass that neither read the console nor run waterDeviceTx.
PassStep ==
    \/ NoInput \/ Typed \/ SchedCheck \/ SchedStore \/ ReceiveData \/ Switch
    \/ CountLoad \/ CountStore \/ CountCheck \/ Fault
    \/ Complete \/ Finish \/ ClearChecking \/ ClearCount \/ Sleep

LEMMA PassStepTyped ==
    ASSUME TypeOK, PassStep
    PROVE  TypeOK'
<1> USE DEF console, sensors, mode, supervise, timer, timing
<1>1. PcTyped /\ DataTyped /\ QueueTyped
  BY TypeOKParts
<1>2. PcTyped'
  <2>1. PICK from, to \in MainLabels : Goto(Main, from, to)
    BY DEF PassStep, NoInput, Typed, SchedCheck, SchedStore, ReceiveData, Switch,
           CountLoad, CountStore, CountCheck, Fault, Complete, Finish, ClearChecking,
           ClearCount, Sleep, MainLabels
  <2> QED
    BY <1>1, <2>1, GotoMainTyped
<1>3. CASE NoInput \/ Typed \/ SchedCheck \/ CountCheck \/ Switch
  BY <1>1, <1>2, <1>3, DataUnchanged, TypeOKNext
  DEF NoInput, Typed, SchedCheck, CountCheck, Switch
<1>4. CASE SchedStore
  <2>1. DataTyped' /\ QueueTyped'
    BY <1>1, <1>4 DEF SchedStore, DataTyped, QueueTyped
  <2> QED
    BY <1>2, <2>1, TypeOKNext
<1>5. CASE ReceiveData
  <2>1. DataTyped' /\ QueueTyped'
    BY <1>1, <1>5 DEF ReceiveData, DataTyped, QueueTyped
  <2> QED
    BY <1>2, <2>1, TypeOKNext
<1>6. CASE CountLoad \/ CountStore \/ ClearCount
  <2>1. DataTyped' /\ QueueTyped'
    <3>1. CASE CountLoad
      BY <1>1, <3>1 DEF CountLoad, DataTyped, QueueTyped
    <3>2. CASE CountStore
      BY <1>1, <3>2, ConstantsAssumption DEF CountStore, Increment, DataTyped, QueueTyped
    <3>3. CASE ClearCount
      BY <1>1, <3>3, ConstantsAssumption DEF ClearCount, ResetCount, DataTyped, QueueTyped
    <3> QED
      BY <1>6, <3>1, <3>2, <3>3
  <2> QED
    BY <1>2, <2>1, TypeOKNext
<1>7. CASE Fault \/ Finish
  <2>1. DataTyped' /\ QueueTyped'
    BY <1>1, <1>7 DEF Fault, Finish, EnterFault, DataTyped, QueueTyped,
                      ControlLoopStates, SystemStates
  <2> QED
    BY <1>2, <2>1, TypeOKNext
<1>8. CASE Complete \/ ClearChecking \/ Sleep
  <2>1. DataTyped' /\ QueueTyped'
    BY <1>1, <1>8 DEF Complete, AfterWatering, ClearChecking, Sleep, DataTyped,
                      QueueTyped, ControlLoopStates
  <2> QED
    BY <1>2, <2>1, TypeOKNext
<1> QED
  BY <1>3, <1>4, <1>5, <1>6, <1>7, <1>8 DEF PassStep

LEMMA EnvironmentTyped ==
    ASSUME TypeOK, Elapse \/ TakeCmd
    PROVE  TypeOK'
<1> USE DEF console, sensors, mode, supervise, timer, timing
<1>1. PcTyped /\ DataTyped /\ QueueTyped
  BY TypeOKParts
<1>2. CASE CountDown
  <2>1. PcTyped' /\ QueueTyped'
    BY <1>1, <1>2 DEF CountDown, PcTyped, QueueTyped
  <2>2. DataTyped'
    BY <1>1, <1>2 DEF CountDown, DataTyped
  <2> QED
    BY <2>1, <2>2, TypeOKNext
<1>3. ASSUME NEW t \in Notifiers, Expire(t)
      PROVE  TypeOK'
  <2>1. PcTyped'
    BY <1>1, <1>3, GotoNotifierTyped DEF Expire, TxLabels
  <2>2. DataTyped' /\ QueueTyped'
    BY <1>1, <1>3 DEF Expire, DataTyped, QueueTyped
  <2> QED
    BY <2>1, <2>2, TypeOKNext
<1>4. CASE TakeCmd
  <2>1. PcTyped' /\ DataTyped'
    BY <1>1, <1>4 DEF TakeCmd, PcTyped, DataTyped
  <2>2. QueueTyped'
    <3>1. cmdQueue \in Seq(RemoteCmdPackets) /\ cmdQueue # <<>>
      BY <1>1, <1>4 DEF TakeCmd, QueueTyped
    <3>2. /\ Tail(cmdQueue) \in Seq(RemoteCmdPackets)
          /\ Len(Tail(cmdQueue)) = Len(cmdQueue) - 1
          /\ Len(cmdQueue) \in Nat
      BY <3>1
    <3> QED
      BY <1>1, <1>4, <3>2, ConstantsAssumption DEF TakeCmd, QueueTyped
  <2> QED
    BY <2>1, <2>2, TypeOKNext
<1> QED
  BY <1>2, <1>3, <1>4 DEF Elapse

\* Every step is one of four kinds.
LEMMA NextKinds ==
    ASSUME Next
    PROVE  \/ \E t \in Threads : WaterDeviceTx(t)
           \/ ReadConsole \/ PassStep \/ Elapse \/ TakeCmd
BY DEF Next, MainStep, LoopStep, NotifierStep, PassStep, Threads

\* Every reachable state of the control loop is well typed; in particular the
\* command queue never holds more than mq_maxmsg packets.
THEOREM TypeCorrect == SafetySpec => []TypeOK
<1>1. Init => TypeOK
  BY InitTyped
<1>2. TypeOK /\ [Next]_vars => TypeOK'
  <2> SUFFICES ASSUME TypeOK, [Next]_vars PROVE TypeOK'
    OBVIOUS
  <2>1. CASE Next
    BY <2>1, NextKinds, WaterDeviceTxTyped, ReadConsoleTyped, PassStepTyped,
       EnvironmentTyped
  <2>2. CASE UNCHANGED vars
    <3>1. PcTyped /\ DataTyped /\ QueueTyped
      BY TypeOKParts
    <3>2. PcTyped' /\ DataTyped' /\ QueueTyped'
      BY <2>2, <3>1, DataUnchanged DEF vars, PcTyped
    <3> QED
      BY <3>2, TypeOKNext
  <2> QED
    BY <2>1, <2>2
<1> QED
  BY <1>1, <1>2, PTL DEF SafetySpec

-----------------------------------------------------------------------------
(* The thresholds *)

\* Only the two threshold commands write the thresholds.
LEMMA ThresholdWriters ==
    ASSUME [Next]_vars
    PROVE  \/ UNCHANGED <<soilMoistureLow, soilMoistureHigh>>
           \/ \E data \in Nat : LowThresCmd(data) \/ HighThresCmd(data)
<1> USE DEF console, timer, data_vars
<1>1. ASSUME NEW t \in Threads, WaterDeviceTx(t)
      PROVE  UNCHANGED <<soilMoistureLow, soilMoistureHigh>>
  BY <1>1 DEF WaterDeviceTx, TxDecide, TxSkip, TxIdle, TxSend, TxState,
              TxChecking, TxCount
<1>2. CASE PassStep
  BY <1>2 DEF PassStep, NoInput, Typed, SchedCheck, SchedStore, ReceiveData, Switch,
              CountLoad, CountStore, CountCheck, Fault, Complete, Finish,
              ClearChecking, ClearCount, Sleep
<1>3. CASE Elapse \/ TakeCmd
  BY <1>3 DEF Elapse, CountDown, Expire, TakeCmd
<1>4. CASE ReadConsole
  <2>1. PICK input \in Commands \cup Numbers : HandleConsoleCmd(input)
    BY <1>4 DEF ReadConsole
  <2> DEFINE data == IF gCurrentCmd # 0 THEN input ELSE 0
  <2>2. \/ UNCHANGED <<soilMoistureLow, soilMoistureHigh>>
        \/ LowThresCmd(data) \/ HighThresCmd(data)
    BY <2>1 DEF HandleConsoleCmd, Dismiss, Schedule, DeviceCmd, WaterPlantCmd
  <2>3. data \in Nat
    BY ConstantsAssumption
  <2> QED
    BY <2>2, <2>3
<1>5. CASE UNCHANGED vars
  BY <1>5 DEF vars
<1> QED
  BY <1>1, <1>2, <1>3, <1>4, <1>5, NextKinds

\* Whatever numbers are typed, in whatever order and interleaving, the low
\* threshold stays below the high one and both within SOIL_MOISTURE_MAX.
THEOREM ThresholdsOrdered == SafetySpec => []ThresholdOrder
<1>1. Init => ThresholdOrder
  BY ConstantsAssumption DEF Init, ThresholdOrder
<1>2. TypeOK /\ ThresholdOrder /\ [Next]_vars => ThresholdOrder'
  <2> SUFFICES ASSUME TypeOK, ThresholdOrder, [Next]_vars PROVE ThresholdOrder'
    OBVIOUS
  <2>1. soilMoistureLow \in Nat /\ soilMoistureHigh \in Nat
    BY DEF TypeOK
  <2>2. CASE UNCHANGED <<soilMoistureLow, soilMoistureHigh>>
    BY <2>2 DEF ThresholdOrder
  <2>3. ASSUME NEW data \in Nat, LowThresCmd(data)
        PROVE  ThresholdOrder'
    BY <2>1, <2>3 DEF LowThresCmd, LowThresAccepted, ThresholdOrder
  <2>4. ASSUME NEW data \in Nat, HighThresCmd(data)
        PROVE  ThresholdOrder'
    BY <2>1, <2>4 DEF HighThresCmd, HighThresAccepted, ThresholdOrder
  <2> QED
    BY <2>2, <2>3, <2>4, ThresholdWriters
<1> QED
  BY <1>1, <1>2, TypeCorrect, PTL DEF SafetySpec

-----------------------------------------------------------------------------
(* The evidence for a FAULT *)

\* Steps that leave the supervision of the watering alone, or only reset the
\* count, keep the evidence.
LEMMA EvidenceKept ==
    ASSUME TypeOK, CountIsEvidence,
           UNCHANGED <<countReg, dryPasses>>,
           soilWateringCount' \in {soilWateringCount, 0},
           pc[Main] # "count_store" => pc'[Main] # "count_store"
    PROVE  CountIsEvidence'
BY DEF TypeOK, CountIsEvidence

LEMMA MainIsThread == Main \in Threads /\ \A t \in Notifiers : t # Main
BY ConstantsAssumption DEF Threads

LEMMA CountIsEvidenceStep ==
    ASSUME TypeOK, CountIsEvidence, [Next]_vars
    PROVE  CountIsEvidence'
<1> USE DEF console, sensors, mode, supervise, timer, timing, data_vars
<1>1. pc \in [Threads -> MainLabels \cup TxLabels \cup {"idle"}]
  BY DEF TypeOK
<1>2. ASSUME NEW t \in Threads, WaterDeviceTx(t)
      PROVE  CountIsEvidence'
  <2>1. pc'[Main] # "count_store" \/ pc'[Main] = pc[Main]
    BY <1>1, <1>2, MainIsThread
    DEF WaterDeviceTx, TxDecide, TxSkip, AfterRefusal, AfterTx, TxIdle, TxSend,
        TxState, TxChecking, TxCount, Goto
  <2>2. /\ UNCHANGED <<countReg, dryPasses>>
        /\ soilWateringCount' \in {soilWateringCount, 0}
    BY <1>2 DEF WaterDeviceTx, TxDecide, TxSkip, TxIdle, TxSend, TxState,
                TxChecking, TxCount
  <2> QED
    BY <2>1, <2>2, EvidenceKept
<1>3. CASE ReadConsole
  <2>1. pc'[Main] \in {"data", "sched_check", "tx_decide"}
    BY <1>1, <1>3, MainIsThread
    DEF ReadConsole, HandleConsoleCmd, Dismiss, Schedule, LowThresCmd,
        HighThresCmd, DeviceCmd, WaterPlantCmd, Goto
  <2>2. UNCHANGED supervise
    BY <1>3 DEF ReadConsole, HandleConsoleCmd
  <2> QED
    BY <2>1, <2>2, EvidenceKept
<1>4. CASE CountLoad
  BY <1>1, <1>4, MainIsThread DEF CountLoad, CountIsEvidence, Goto
<1>5. CASE CountStore
  <2>1. soilWateringCount' <= dryPasses'
    BY <1>5, ConstantsAssumption
    DEF CountStore, Increment, CountIsEvidence, Goto, TypeOK
  <2>2. pc'[Main] = "count_check"
    BY <1>1, <1>5, MainIsThread DEF CountStore, Goto
  <2> QED
    BY <2>1, <2>2 DEF CountIsEvidence
<1>6. CASE ClearCount
  <2>1. pc'[Main] = "sleep"
    BY <1>1, <1>6, MainIsThread DEF ClearCount, Goto
  <2> QED
    BY <1>6, <2>1 DEF ClearCount, ResetCount, CountIsEvidence
<1>7. CASE NoInput \/ SchedCheck \/ SchedStore \/ ReceiveData \/ Switch
           \/ CountCheck \/ Fault \/ Complete \/ Finish \/ ClearChecking \/ Sleep
           \/ Typed
  <2>1. pc'[Main] # "count_store"
    BY <1>1, <1>7, MainIsThread
    DEF NoInput, Typed, SchedCheck, SchedStore, ReceiveData, Switch, CountCheck,
        Fault, Complete, Finish, ClearChecking, Sleep, Goto
  <2>2. UNCHANGED <<soilWateringCount, countReg, dryPasses>>
    BY <1>7 DEF NoInput, Typed, SchedCheck, SchedStore, ReceiveData, Switch,
                CountCheck, Fault, Complete, Finish, ClearChecking, Sleep
  <2> QED
    BY <2>1, <2>2, EvidenceKept
<1>8. CASE Elapse \/ TakeCmd
  <2>1. pc'[Main] = pc[Main]
    BY <1>1, <1>8, MainIsThread DEF Elapse, CountDown, Expire, TakeCmd, Goto
  <2>2. UNCHANGED supervise
    BY <1>8 DEF Elapse, CountDown, Expire, TakeCmd
  <2> QED
    BY <2>1, <2>2, EvidenceKept
<1>9. CASE UNCHANGED vars
  BY <1>9, EvidenceKept DEF vars
<1> QED
  BY <1>2, <1>3, <1>4, <1>5, <1>6, <1>7, <1>8, <1>9, NextKinds DEF PassStep

\* The count main compares with SOIL_MAX_WATER_CHECK_COUNT never exceeds the
\* number of dry passes it made, however a notification thread's reset falls
\* into its unlocked read-modify-write.
THEOREM CountNeverAhead == SafetySpec => []CountIsEvidence
<1>1. Init => CountIsEvidence
  BY DEF Init, CountIsEvidence
<1> QED
  BY <1>1, CountIsEvidenceStep, TypeCorrect, PTL DEF SafetySpec

\* Main on its way to FAULT has the evidence.
FaultEvidence == pc[Main] = "fault" => dryPasses > MaxWaterChecks

LEMMA FaultEvidenceStep ==
    ASSUME TypeOK, CountIsEvidence, FaultEvidence, [Next]_vars
    PROVE  FaultEvidence'
<1> USE DEF console, sensors, mode, supervise, timer, timing, data_vars
<1>1. pc \in [Threads -> MainLabels \cup TxLabels \cup {"idle"}]
  BY DEF TypeOK
<1>2. CASE CountCheck
  <2>1. /\ pc'[Main] = IF TooManyChecks THEN "fault" ELSE "sleep"
        /\ dryPasses' = dryPasses
    BY <1>1, <1>2, MainIsThread DEF CountCheck, Goto
  <2>2. TooManyChecks => dryPasses > MaxWaterChecks
    BY ConstantsAssumption DEF TooManyChecks, CountIsEvidence, TypeOK
  <2> QED
    BY <2>1, <2>2 DEF FaultEvidence
<1>3. ASSUME UNCHANGED dryPasses, pc'[Main] = "fault" => pc[Main] = "fault"
      PROVE  FaultEvidence'
  BY <1>3 DEF FaultEvidence
<1>4. ASSUME pc'[Main] # "fault" PROVE FaultEvidence'
  BY <1>4 DEF FaultEvidence
<1>5. ASSUME NEW t \in Threads, WaterDeviceTx(t) PROVE FaultEvidence'
  <2>1. pc'[Main] = pc[Main] \/ pc'[Main] # "fault"
    BY <1>1, <1>5, MainIsThread
    DEF WaterDeviceTx, TxDecide, TxSkip, AfterRefusal, AfterTx, TxIdle, TxSend,
        TxState, TxChecking, TxCount, Goto
  <2>2. UNCHANGED dryPasses
    BY <1>5 DEF WaterDeviceTx, TxDecide, TxSkip, TxIdle, TxSend, TxState,
                TxChecking, TxCount
  <2> QED
    BY <2>1, <2>2, <1>3, <1>4
<1>6. CASE ReadConsole
  <2>1. pc'[Main] \in {"data", "sched_check", "tx_decide"}
    BY <1>1, <1>6, MainIsThread
    DEF ReadConsole, HandleConsoleCmd, Dismiss, Schedule, LowThresCmd,
        HighThresCmd, DeviceCmd, WaterPlantCmd, Goto
  <2> QED
    BY <2>1, <1>4
<1>7. CASE PassStep /\ ~CountCheck
  <2>1. pc'[Main] # "fault"
    BY <1>1, <1>7, MainIsThread
    DEF PassStep, NoInput, Typed, SchedCheck, SchedStore, ReceiveData, Switch,
        CountLoad, CountStore, Fault, Complete, Finish, ClearChecking,
        ClearCount, Sleep, Goto
  <2> QED
    BY <2>1, <1>4
<1>8. CASE Elapse \/ TakeCmd
  <2>1. pc'[Main] = pc[Main] /\ UNCHANGED dryPasses
    BY <1>1, <1>8, MainIsThread DEF Elapse, CountDown, Expire, TakeCmd, Goto
  <2> QED
    BY <2>1, <1>3
<1>9. CASE UNCHANGED vars
  BY <1>9, <1>3 DEF vars
<1> QED
  BY <1>2, <1>5, <1>6, <1>7, <1>8, <1>9, NextKinds

\* No FAULT without more than SOIL_MAX_WATER_CHECK_COUNT dry passes.
THEOREM FaultIsJustified == SafetySpec => FaultNeedsEvidence
<1> DEFINE Justified == systemState = "NOMINAL" /\ systemState' = "FAULT"
                            => dryPasses > MaxWaterChecks
<1>1. FaultEvidence /\ [Next]_vars => [Justified]_vars
  <2> SUFFICES ASSUME FaultEvidence, Next,
                      systemState = "NOMINAL", systemState' = "FAULT"
               PROVE  dryPasses > MaxWaterChecks
    OBVIOUS
  <2> USE DEF console, sensors, mode, supervise, timer, timing, data_vars
  <2>1. ~ \E t \in Threads : WaterDeviceTx(t)
    BY DEF WaterDeviceTx, TxDecide, TxSkip, TxIdle, TxSend, TxState,
           TxChecking, TxCount
  <2>2. ~ ReadConsole
    BY DEF ReadConsole, HandleConsoleCmd, Dismiss, Schedule, LowThresCmd,
           HighThresCmd, DeviceCmd, WaterPlantCmd
  <2>3. ~(Elapse \/ TakeCmd)
    BY DEF Elapse, CountDown, Expire, TakeCmd
  <2>4. Fault
    BY <2>1, <2>2, <2>3, NextKinds
    DEF PassStep, NoInput, Typed, SchedCheck, SchedStore, ReceiveData, Switch,
        CountLoad, CountStore, CountCheck, Complete, Finish, ClearChecking,
        ClearCount, Sleep
  <2> QED
    BY <2>4 DEF Fault, Goto, FaultEvidence
<1>2. Init => FaultEvidence
  BY MainIsThread DEF Init, FaultEvidence
<1>3. TypeOK /\ CountIsEvidence /\ FaultEvidence /\ [Next]_vars => FaultEvidence'
  BY FaultEvidenceStep
<1> QED
  BY <1>1, <1>2, <1>3, TypeCorrect, CountNeverAhead, PTL DEF SafetySpec, FaultNeedsEvidence

-----------------------------------------------------------------------------
(* One-shot watering *)

\* A one-shot delay outlasts the pass that sets it.
OneshotsAreSane == \A n \in Numbers : n = 0 \/ n >= 2

OneshotTimerRuns == waterTimer.left > 0 /\ waterTimer.interval = 0

\* A notifier that has yet to take the loop out of WATER_ONESHOT_SCHED.
OneshotBeingServed ==
    \E t \in Notifiers :
        pc[t] \in {"tx_decide", "tx_skip", "tx_idle", "tx_send", "tx_state"}

Scheduling == pc[Main] \in {"sched_check", "sched_store"}

\* The inductive strengthening of OneshotIsArmed: unless it was refused, the
\* timer is running from the moment main decides on the state until a notifier
\* serves it.
OneshotInv ==
    /\ Scheduling /\ nextState = "WATER_ONESHOT_SCHED" /\ ~setFailed
         => OneshotTimerRuns /\ (~ticked => waterTimer.left > 1)
    /\ pc[Main] = "finish" => nextState # "WATER_ONESHOT_SCHED"
    /\ ~Scheduling /\ controlLoopState = "WATER_ONESHOT_SCHED" /\ ~setFailed
         => OneshotTimerRuns \/ OneshotBeingServed

\* Steps of main that touch neither the timer nor the control loop state.
LEMMA OneshotInvKept ==
    ASSUME TypeOK, OneshotInv, NEW from, NEW to, Goto(Main, from, to),
           UNCHANGED <<timer, controlLoopState>>,
           to \notin {"sched_check", "sched_store", "finish"},
           from \notin {"sched_check", "sched_store"}
    PROVE  OneshotInv'
<1>1. pc'[Main] = to /\ pc[Main] = from /\ \A t \in Notifiers : pc'[t] = pc[t]
  BY MainIsThread DEF Goto, TypeOK
<1> QED
  BY <1>1 DEF timer, OneshotInv, Scheduling, OneshotTimerRuns, OneshotBeingServed

LEMMA OneshotInvTx ==
    ASSUME TypeOK, OneshotInv, NEW t \in Threads, WaterDeviceTx(t)
    PROVE  OneshotInv'
<1> USE DEF console, sensors, mode, supervise, timer, timing, data_vars
<1>1. pc \in [Threads -> MainLabels \cup TxLabels \cup {"idle"}]
  BY DEF TypeOK
<1>2. UNCHANGED <<timer, ticked, nextState>>
  BY DEF WaterDeviceTx, TxDecide, TxSkip, TxIdle, TxSend, TxState,
         TxChecking, TxCount
<1>3. CASE t = Main
  <2>1. ~Scheduling /\ pc[Main] # "finish"
    BY <1>3 DEF WaterDeviceTx, TxDecide, TxSkip, TxIdle, TxSend, TxState,
                TxChecking, TxCount, Goto, Scheduling
  <2>2. pc'[Main] \notin {"sched_check", "sched_store", "finish"}
    BY <1>1, <1>3, MainIsThread
    DEF WaterDeviceTx, TxDecide, TxSkip, AfterRefusal, AfterTx, TxIdle,
        TxSend, TxState, TxChecking, TxCount, Goto
  <2>3. \A n \in Notifiers : pc'[n] = pc[n]
    <3>1. PICK from, to : Goto(Main, from, to)
      BY <1>3 DEF WaterDeviceTx, TxDecide, TxSkip, TxIdle, TxSend, TxState,
                  TxChecking, TxCount
    <3> QED
      BY <1>1, <3>1, MainIsThread DEF Goto
  <2>4. controlLoopState' \in {controlLoopState, "IDLE", "WATERING_PLANT"}
    BY DEF WaterDeviceTx, TxDecide, TxSkip, TxIdle, TxSend, TxState,
           TxChecking, TxCount
  <2> QED
    BY <1>2, <2>1, <2>2, <2>3, <2>4
    DEF OneshotInv, Scheduling, OneshotTimerRuns, OneshotBeingServed
<1>4. CASE t # Main
  <2>1. t \in Notifiers /\ pc'[Main] = pc[Main]
    BY <1>1, <1>4, MainIsThread
    DEF WaterDeviceTx, TxDecide, TxSkip, TxIdle, TxSend, TxState, TxChecking,
        TxCount, Goto, Threads
  <2>2. controlLoopState' = "WATER_ONESHOT_SCHED"
          => /\ controlLoopState = "WATER_ONESHOT_SCHED"
             /\ OneshotBeingServed => OneshotBeingServed'
    <3> SUFFICES ASSUME controlLoopState' = "WATER_ONESHOT_SCHED"
                 PROVE  /\ controlLoopState = "WATER_ONESHOT_SCHED"
                        /\ OneshotBeingServed => OneshotBeingServed'
      OBVIOUS
    <3>1. CASE TxDecide(t)
      BY <1>1, <2>1, <3>1 DEF TxDecide, Goto, OneshotBeingServed, Threads
    <3>2. CASE TxSkip(t)
      BY <1>1, <2>1, <3>2 DEF TxSkip, AfterRefusal, Goto, OneshotBeingServed,
                              Threads
    <3>3. CASE TxIdle(t) \/ TxState(t)
      BY <3>3 DEF TxIdle, TxState
    <3>4. CASE TxSend(t)
      BY <1>1, <2>1, <3>4 DEF TxSend, Goto, OneshotBeingServed, Threads
    <3>5. CASE TxChecking(t) \/ TxCount(t)
      BY <1>1, <2>1, <3>5 DEF TxChecking, TxCount, Goto, OneshotBeingServed,
                              Threads
    <3> QED
      BY <3>1, <3>2, <3>3, <3>4, <3>5 DEF WaterDeviceTx
  <2> QED
    BY <1>2, <2>1, <2>2 DEF OneshotInv, Scheduling, OneshotTimerRuns
<1> QED
  BY <1>3, <1>4

\* timer_settime takes what it is given, or says that it does not.
LEMMA SetTimerResult ==
    ASSUME NEW seconds \in Nat, NEW interval, SetTimer(seconds, interval)
    PROVE  \/ waterTimer' = [left |-> seconds, interval |-> interval]
           \/ setFailed' /\ waterTimer' = waterTimer
<1>1. CASE seconds <= MaxSeconds
  BY <1>1 DEF SetTimer
<1>2. CASE ~(seconds <= MaxSeconds)
  <2>1. waterTimer' = waterTimer
    BY <1>2 DEF SetTimer
  <2>2. seconds > MaxSeconds
    BY <1>2, ConstantsAssumption
  <2>3. setFailed' = (seconds > MaxSeconds)
    BY DEF SetTimer
  <2>4. setFailed'
    BY ONLY <2>2, <2>3, Zenon
  <2> QED
    BY <2>1, <2>4
<1> QED
  BY <1>1, <1>2

LEMMA OneshotInvConsole ==
    ASSUME OneshotsAreSane, TypeOK, OneshotInv, ReadConsole
    PROVE  OneshotInv'
<1> USE DEF console, supervise, timer
<1>1. PICK input \in IF gCurrentCmd = 0 THEN Commands ELSE Numbers :
          HandleConsoleCmd(input)
  BY DEF ReadConsole
<1> DEFINE cmd  == IF gCurrentCmd # 0 THEN gCurrentCmd ELSE input
           data == IF gCurrentCmd # 0 THEN input ELSE 0
<1>2. pc[Main] = "scanf" /\ UNCHANGED controlLoopState
  BY <1>1 DEF HandleConsoleCmd, Dismiss, Schedule, LowThresCmd, HighThresCmd,
              DeviceCmd, WaterPlantCmd, Goto
<1>3. data \in Nat /\ (data = 0 \/ data >= 2)
  BY ConstantsAssumption DEF OneshotsAreSane
<1>4. \/ Schedule(data, data, "WATER_PERIODIC_SCHED")
      \/ data # 0 /\ Schedule(data, 0, "WATER_ONESHOT_SCHED")
      \/ Schedule(0, 0, "IDLE")
      \/ /\ \E to \in {"data", "tx_decide"} : Goto(Main, "scanf", to)
         /\ UNCHANGED timer
  BY <1>1 DEF HandleConsoleCmd, Dismiss, LowThresCmd, HighThresCmd, DeviceCmd,
              WaterPlantCmd
<1> HIDE DEF data
<1>5. ASSUME NEW s, NEW i, NEW st, Schedule(s, i, st)
      PROVE  Scheduling' /\ pc'[Main] # "finish" /\ nextState' = st
  BY <1>5, MainIsThread DEF Schedule, Goto, Scheduling, TypeOK
<1>6. CASE data # 0 /\ Schedule(data, 0, "WATER_ONESHOT_SCHED")
  <2>1. setFailed' \/ waterTimer' = [left |-> data, interval |-> 0]
    BY <1>3, <1>6, SetTimerResult DEF Schedule
  <2>2. Scheduling' /\ pc'[Main] # "finish"
    BY <1>5, <1>6
  <2> QED
    BY <1>3, <1>6, <2>1, <2>2 DEF OneshotInv, OneshotTimerRuns
<1>7. CASE \/ Schedule(data, data, "WATER_PERIODIC_SCHED")
           \/ Schedule(0, 0, "IDLE")
  <2>1. Scheduling' /\ pc'[Main] # "finish" /\ nextState' # "WATER_ONESHOT_SCHED"
    BY <1>5, <1>7
  <2> QED
    BY <2>1 DEF OneshotInv
<1>8. CASE /\ \E to \in {"data", "tx_decide"} : Goto(Main, "scanf", to)
           /\ UNCHANGED timer
  BY <1>2, <1>8, OneshotInvKept
<1> QED
  BY <1>4, <1>6, <1>7, <1>8

LEMMA OneshotInvPass ==
    ASSUME TypeOK, OneshotInv, PassStep
    PROVE  OneshotInv'
<1> USE DEF console, sensors, mode, supervise, timer, timing, data_vars
<1>1. pc \in [Threads -> MainLabels \cup TxLabels \cup {"idle"}]
  BY DEF TypeOK
<1>2. CASE SchedCheck
  <2>1. /\ pc'[Main] = IF controlLoopState = "WATERING_PLANT" THEN "data"
                       ELSE "sched_store"
        /\ pc[Main] = "sched_check"
    BY <1>1, <1>2, MainIsThread DEF SchedCheck, Goto
  <2> QED
    BY <1>2, <2>1 DEF SchedCheck, OneshotInv, Scheduling, OneshotTimerRuns
<1>3. CASE SchedStore
  <2>1. pc'[Main] = "data" /\ pc[Main] = "sched_store"
    BY <1>1, <1>3, MainIsThread DEF SchedStore, Goto
  <2> QED
    BY <1>3, <2>1 DEF SchedStore, OneshotInv, Scheduling, OneshotTimerRuns
<1>4. CASE Fault
  <2>1. /\ pc'[Main] = "sleep" /\ pc[Main] = "fault"
        /\ \A t \in Notifiers : pc'[t] = pc[t]
    BY <1>1, <1>4, MainIsThread DEF Fault, Goto
  <2> QED
    BY <1>4, <2>1 DEF Fault, EnterFault, OneshotInv, Scheduling,
                      OneshotTimerRuns, OneshotBeingServed
<1>5. CASE Complete
  <2>1. /\ pc'[Main] = "finish" /\ pc[Main] = "complete"
        /\ \A t \in Notifiers : pc'[t] = pc[t]
    BY <1>1, <1>5, MainIsThread DEF Complete, Goto
  <2> QED
    BY <1>5, <2>1 DEF Complete, AfterWatering, OneshotInv, Scheduling,
                      OneshotTimerRuns, OneshotBeingServed
<1>6. CASE Finish
  <2>1. pc'[Main] = "clear_checking" /\ pc[Main] = "finish"
    BY <1>1, <1>6, MainIsThread DEF Finish, Goto
  <2> QED
    BY <1>6, <2>1 DEF Finish, OneshotInv, Scheduling
<1>7. CASE NoInput \/ Typed \/ ReceiveData \/ CountLoad \/ CountStore
           \/ ClearChecking \/ ClearCount \/ Sleep
  BY <1>7, OneshotInvKept
  DEF NoInput, Typed, ReceiveData, CountLoad, CountStore, ClearChecking, ClearCount,
      Sleep
<1>8. CASE Switch \/ CountCheck
  BY <1>8, OneshotInvKept DEF Switch, CountCheck
<1> QED
  BY <1>2, <1>3, <1>4, <1>5, <1>6, <1>7, <1>8 DEF PassStep

LEMMA OneshotInvEnvironment ==
    ASSUME TypeOK, OneshotInv, Elapse \/ TakeCmd
    PROVE  OneshotInv'
<1> USE DEF mode, timer, timing
<1>1. /\ pc \in [Threads -> MainLabels \cup TxLabels \cup {"idle"}]
      /\ waterTimer \in [left : Nat, interval : Nat]
  BY DEF TypeOK
<1>2. CASE CountDown
  <2>1. CASE waterTimer.left = 0
    BY <1>1, <1>2, <2>1 DEF CountDown, OneshotInv, Scheduling,
                            OneshotTimerRuns, OneshotBeingServed
  <2>2. CASE waterTimer.left # 0
    <3>1. waterTimer'.left > 0 /\ waterTimer'.interval = waterTimer.interval
      BY <1>1, <1>2, <2>2 DEF CountDown
    <3> QED
      BY <1>1, <1>2, <2>2, <3>1 DEF CountDown, OneshotInv, Scheduling,
                            OneshotTimerRuns, OneshotBeingServed
  <2> QED
    BY <2>1, <2>2
<1>3. ASSUME NEW t \in Notifiers, Expire(t)
      PROVE  OneshotInv'
  <2>1. pc'[Main] = pc[Main] /\ pc'[t] = "tx_decide"
    BY <1>1, <1>3, MainIsThread DEF Expire, Goto, Threads
  <2> QED
    BY <1>1, <1>3, <2>1 DEF Expire, SecondMayElapse, OneshotInv, Scheduling,
                            OneshotTimerRuns, OneshotBeingServed
<1>4. CASE TakeCmd
  BY <1>4 DEF TakeCmd, OneshotInv, Scheduling, OneshotTimerRuns,
              OneshotBeingServed
<1> QED
  BY <1>2, <1>3, <1>4 DEF Elapse

\* Between two passes a loop that waits for its one-shot watering has a
\* running one-shot timer, or timer_settime has refused it, as long as every
\* delay typed lasts at least two seconds, with any number of overlapping
\* notifiers.
THEOREM OneshotArmed == OneshotsAreSane /\ SafetySpec => []OneshotIsArmed
<1> SUFFICES ASSUME OneshotsAreSane PROVE SafetySpec => []OneshotIsArmed
  OBVIOUS
<1>1. Init => OneshotInv
  BY MainIsThread DEF Init, OneshotInv, Scheduling
<1>2. TypeOK /\ OneshotInv /\ [Next]_vars => OneshotInv'
  <2> SUFFICES ASSUME TypeOK, OneshotInv, [Next]_vars PROVE OneshotInv'
    OBVIOUS
  <2>1. CASE Next
    BY <2>1, NextKinds, OneshotInvTx, OneshotInvConsole, OneshotInvPass,
       OneshotInvEnvironment
  <2>2. CASE UNCHANGED vars
    BY <2>2 DEF vars, data_vars, mode, timer, timing, OneshotInv, Scheduling,
                OneshotTimerRuns, OneshotBeingServed
  <2> QED
    BY <2>1, <2>2
<1>3. TypeOK /\ OneshotInv => OneshotIsArmed
  BY DEF OneshotInv, Scheduling, OneshotTimerRuns, OneshotBeingServed,
         OneshotIsArmed, Quiet, NotifiersIdle
<1> QED
  BY <1>1, <1>2, <1>3, TypeCorrect, PTL DEF SafetySpec
=============================================================================

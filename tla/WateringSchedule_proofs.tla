------------------------ MODULE WateringSchedule_proofs ------------------------
(***************************************************************************)
(* Two properties of WateringControl that hold under a condition only: the *)
(* runs refute both without it.  The theorems say that nothing else is     *)
(* needed, for any number of notification threads and any other input.     *)
(***************************************************************************)
EXTENDS WateringControl_proofs

ThreadsTyped == pc \in [Threads -> MainLabels \cup TxLabels \cup {"idle"}]

LEMMA ThreadsAreTyped == TypeOK => ThreadsTyped
BY DEF TypeOK, ThreadsTyped

\* A step of waterDeviceTx changes the place of its own thread only, and neither
\* the timer nor what main has decided.
LEMMA TxFrame ==
    ASSUME ThreadsTyped, NEW t \in Threads, WaterDeviceTx(t)
    PROVE  /\ pc[t] \in TxLabels /\ pc'[t] \in TxLabels \cup {AfterTx(t)}
           /\ pc' = [pc EXCEPT ![t] = pc'[t]]
           /\ UNCHANGED <<gCurrentCmd, timer, ticked, nextState>>
           /\ controlLoopState' \in {controlLoopState, "IDLE", "WATERING_PLANT"}
<1> USE DEF console, sensors, mode, supervise, timer, timing, data_vars
<1>1. PICK from \in TxLabels, to \in TxLabels \cup {AfterTx(t)} : Goto(t, from, to)
  BY DEF WaterDeviceTx, TxDecide, TxSkip, AfterRefusal, TxIdle, TxSend, TxState,
         TxChecking, TxCount, TxLabels
<1>2. /\ pc[t] \in TxLabels /\ pc'[t] \in TxLabels \cup {AfterTx(t)}
      /\ pc' = [pc EXCEPT ![t] = pc'[t]]
  BY <1>1 DEF Goto, ThreadsTyped
<1>3. UNCHANGED <<gCurrentCmd, timer, ticked, nextState>>
  BY DEF WaterDeviceTx, TxDecide, TxSkip, TxIdle, TxSend, TxState, TxChecking, TxCount
<1>4. controlLoopState' \in {controlLoopState, "IDLE", "WATERING_PLANT"}
  BY DEF WaterDeviceTx, TxDecide, TxSkip, TxIdle, TxSend, TxState, TxChecking, TxCount
<1> QED
  BY <1>2, <1>3, <1>4

\* The other threads stay where they are.
LEMMA OthersStay ==
    ASSUME ThreadsTyped, NEW t \in Threads, NEW to, pc' = [pc EXCEPT ![t] = to]
    PROVE  pc'[t] = to /\ \A u \in Threads : u # t => pc'[u] = pc[u]
BY DEF ThreadsTyped

-----------------------------------------------------------------------------
(* The periodic schedule *)

\* No one-shot watering is asked for.
OnlyPeriods == CMD_SCHED_ONESHOT \notin Commands

\* Main has decided on nextState and has yet to store it.
Storing == pc[Main] \in {"sched_check", "sched_store", "finish"}

\* The inductive strengthening of PeriodicIsArmed: a timer that runs reloads
\* itself, so that it runs until main stops it, and main stores what it decided
\* when it set the timer or looked at it.
PeriodicInv ==
    /\ gCurrentCmd # CMD_SCHED_ONESHOT
    /\ waterTimer.left > 0 <=> waterTimer.interval > 0
    /\ Storing /\ nextState = "WATER_PERIODIC_SCHED" /\ ~setFailed => waterTimer.left > 0
    /\ ~Scheduling /\ controlLoopState = "WATER_PERIODIC_SCHED" /\ ~setFailed
           => waterTimer.left > 0

LEMMA PeriodicInvTx ==
    ASSUME TypeOK, PeriodicInv, NEW t \in Threads, WaterDeviceTx(t)
    PROVE  PeriodicInv'
<1>1. ThreadsTyped
  BY ThreadsAreTyped
<1>2. \/ pc'[Main] = pc[Main]
      \/ pc[Main] \in TxLabels /\ pc'[Main] \in TxLabels \cup {"data"}
  <2>1. CASE t = Main
    BY <1>1, <2>1, TxFrame DEF AfterTx
  <2>2. CASE t # Main
    BY <1>1, <2>2, TxFrame, OthersStay, MainIsThread
  <2> QED
    BY <2>1, <2>2
<1>3. (Scheduling' <=> Scheduling) /\ (Storing' <=> Storing)
  BY <1>2 DEF Scheduling, Storing, TxLabels
<1>4. /\ UNCHANGED <<gCurrentCmd, timer, nextState>>
      /\ controlLoopState' \in {controlLoopState, "IDLE", "WATERING_PLANT"}
  BY <1>1, TxFrame
<1> QED
  BY <1>3, <1>4 DEF PeriodicInv, timer

LEMMA PeriodicInvConsole ==
    ASSUME OnlyPeriods, TypeOK, PeriodicInv, ReadConsole
    PROVE  PeriodicInv'
<1> USE DEF console, supervise, timer
<1>1. PICK input \in IF gCurrentCmd = 0 THEN Commands ELSE Numbers :
          HandleConsoleCmd(input)
  BY DEF ReadConsole
<1> DEFINE cmd  == IF gCurrentCmd # 0 THEN gCurrentCmd ELSE input
           data == IF gCurrentCmd # 0 THEN input ELSE 0
<1>2. cmd # CMD_SCHED_ONESHOT
  BY DEF OnlyPeriods, PeriodicInv
<1>3. data \in Nat /\ CMD_SCHED_ONESHOT # 0
  BY ConstantsAssumption DEF OnlyPeriods, CMD_SCHED_ONESHOT
<1>4. pc[Main] = "scanf" /\ UNCHANGED controlLoopState
  BY <1>1 DEF HandleConsoleCmd, Dismiss, Schedule, LowThresCmd, HighThresCmd,
              DeviceCmd, WaterPlantCmd, Goto
<1>5. \/ data >= MinPeriod /\ Schedule(data, data, "WATER_PERIODIC_SCHED")
      \/ Schedule(0, 0, "IDLE")
      \/ /\ \E to \in {"data", "tx_decide"} : Goto(Main, "scanf", to)
         /\ UNCHANGED timer
         /\ gCurrentCmd' \in {0, cmd, gCurrentCmd}
  BY <1>1, <1>2 DEF HandleConsoleCmd, Dismiss, LowThresCmd, HighThresCmd, DeviceCmd,
                    WaterPlantCmd
<1> HIDE DEF cmd, data
<1>6. ASSUME NEW seconds \in Nat, NEW state, Schedule(seconds, seconds, state),
             state = "WATER_PERIODIC_SCHED" => seconds > 0
      PROVE  PeriodicInv'
  <2>1. /\ \/ waterTimer' = [left |-> seconds, interval |-> seconds]
           \/ waterTimer' = waterTimer /\ setFailed'
        /\ nextState' = state /\ gCurrentCmd' = 0
    BY <1>6, SetTimerResult DEF Schedule
  <2>2. Scheduling'
    BY <1>6, ThreadsAreTyped, OthersStay, MainIsThread
    DEF Schedule, Goto, Scheduling
  <2> QED
    BY <1>3, <1>6, <2>1, <2>2 DEF PeriodicInv
<1>7. CASE data >= MinPeriod /\ Schedule(data, data, "WATER_PERIODIC_SCHED")
  <2>1. data > 0
    BY <1>3, <1>7, ConstantsAssumption
  <2> QED
    BY <1>3, <1>6, <1>7, <2>1
<1>8. CASE Schedule(0, 0, "IDLE")
  BY <1>6, <1>8
<1>9. CASE /\ \E to \in {"data", "tx_decide"} : Goto(Main, "scanf", to)
           /\ UNCHANGED timer
           /\ gCurrentCmd' \in {0, cmd, gCurrentCmd}
  <2>1. pc'[Main] \in {"data", "tx_decide"}
    BY <1>9, ThreadsAreTyped, OthersStay, MainIsThread DEF Goto
  <2>2. gCurrentCmd' # CMD_SCHED_ONESHOT
    BY <1>2, <1>3, <1>9 DEF PeriodicInv
  <2> QED
    BY <1>4, <1>9, <2>1, <2>2 DEF PeriodicInv, Scheduling, Storing
<1> QED
  BY <1>5, <1>7, <1>8, <1>9

LEMMA PeriodicInvPass ==
    ASSUME TypeOK, PeriodicInv, PassStep
    PROVE  PeriodicInv'
<1> USE DEF console, sensors, mode, supervise, timer, timing, data_vars
<1>1. UNCHANGED <<gCurrentCmd, timer>> /\ waterTimer.left \in Nat
  BY DEF TypeOK, PassStep, NoInput, Typed, SchedCheck, SchedStore, ReceiveData, Switch,
         CountLoad, CountStore, CountCheck, Fault, Complete, Finish, ClearChecking,
         ClearCount, Sleep
<1>2. ASSUME NEW from, NEW to, Goto(Main, from, to)
      PROVE  pc[Main] = from /\ pc'[Main] = to
  BY <1>2, ThreadsAreTyped, OthersStay, MainIsThread DEF Goto
<1>3. CASE SchedCheck
  <2>1. /\ pc[Main] = "sched_check" /\ UNCHANGED <<controlLoopState, nextState>>
        /\ pc'[Main] = IF controlLoopState = "WATERING_PLANT" THEN "data"
                       ELSE "sched_store"
    BY <1>2, <1>3 DEF SchedCheck
  <2> QED
    BY <1>1, <2>1 DEF PeriodicInv, Scheduling, Storing
<1>4. CASE SchedStore
  <2>1. /\ pc[Main] = "sched_store" /\ pc'[Main] = "data"
        /\ controlLoopState' = nextState
    BY <1>2, <1>4 DEF SchedStore
  <2> QED
    BY <1>1, <2>1 DEF PeriodicInv, Scheduling, Storing
<1>5. CASE Complete
  <2>1. /\ pc[Main] = "complete" /\ pc'[Main] = "finish"
        /\ nextState' = AfterWatering /\ UNCHANGED controlLoopState
    BY <1>2, <1>5 DEF Complete
  <2> QED
    BY <1>1, <2>1 DEF AfterWatering, PeriodicInv, Scheduling, Storing
<1>6. CASE Finish
  <2>1. /\ pc[Main] = "finish" /\ pc'[Main] = "clear_checking"
        /\ controlLoopState' = nextState
    BY <1>2, <1>6 DEF Finish
  <2> QED
    BY <1>1, <2>1 DEF PeriodicInv, Scheduling, Storing
<1>7. CASE NoInput \/ Typed \/ ReceiveData \/ Switch \/ CountLoad \/ CountStore
           \/ CountCheck \/ Fault \/ ClearChecking \/ ClearCount \/ Sleep
  <2>1. PICK from \in MainLabels \ {"sched_check", "sched_store", "finish"},
             to \in MainLabels \ {"sched_check", "sched_store", "finish"} :
                 Goto(Main, from, to)
    BY <1>7 DEF NoInput, Typed, ReceiveData, Switch, CountLoad, CountStore, CountCheck, Fault,
                ClearChecking, ClearCount, Sleep, MainLabels
  <2>2. ~Storing' /\ ~Scheduling' /\ ~Scheduling
    BY <1>2, <2>1 DEF Storing, Scheduling
  <2>3. controlLoopState' \in {controlLoopState, "IDLE"}
    BY <1>7 DEF NoInput, Typed, ReceiveData, Switch, CountLoad, CountStore, CountCheck, Fault,
                EnterFault, ClearChecking, ClearCount, Sleep
  <2> QED
    BY <1>1, <2>2, <2>3 DEF PeriodicInv
<1> QED
  BY <1>3, <1>4, <1>5, <1>6, <1>7 DEF PassStep

LEMMA PeriodicInvEnvironment ==
    ASSUME TypeOK, PeriodicInv, Elapse \/ TakeCmd
    PROVE  PeriodicInv'
<1> USE DEF console, mode, timer, timing
<1>1. waterTimer \in [left : Nat, interval : Nat]
  BY DEF TypeOK
<1>2. /\ UNCHANGED <<gCurrentCmd, nextState, controlLoopState, setFailed>>
      /\ pc'[Main] = pc[Main]
  <2>1. CASE CountDown \/ TakeCmd
    BY <2>1 DEF CountDown, TakeCmd
  <2>2. ASSUME NEW t \in Notifiers, Expire(t)
        PROVE  /\ UNCHANGED <<gCurrentCmd, nextState, controlLoopState, setFailed>>
               /\ pc'[Main] = pc[Main]
    BY <2>2, ThreadsAreTyped, OthersStay, MainIsThread DEF Expire, Goto, Threads
  <2> QED
    BY <2>1, <2>2 DEF Elapse
<1>3. /\ waterTimer'.interval = waterTimer.interval
      /\ PeriodicInv => (waterTimer'.left > 0 <=> waterTimer.left > 0)
  <2>1. CASE TakeCmd
    BY <2>1 DEF TakeCmd, timer, timing
  <2>2. CASE CountDown
    BY <1>1, <2>2 DEF CountDown
  <2>3. CASE \E t \in Notifiers : Expire(t)
    BY <1>1, <2>3 DEF Expire, PeriodicInv
  <2> QED
    BY <2>1, <2>2, <2>3 DEF Elapse
<1> QED
  BY <1>2, <1>3 DEF PeriodicInv, Scheduling, Storing

\* Between two passes a loop that waits for its next periodic watering has a
\* running periodic timer, or timer_settime has refused it, unless a one-shot
\* watering was asked for: overlapping notifiers cannot break it.
THEOREM PeriodicArmed == OnlyPeriods /\ SafetySpec => []PeriodicIsArmed
<1> SUFFICES ASSUME OnlyPeriods PROVE SafetySpec => []PeriodicIsArmed
  OBVIOUS
<1>1. Init => PeriodicInv
  BY MainIsThread DEF Init, PeriodicInv, Scheduling, Storing, CMD_SCHED_ONESHOT
<1>2. TypeOK /\ PeriodicInv /\ [Next]_vars => PeriodicInv'
  <2> SUFFICES ASSUME TypeOK, PeriodicInv, [Next]_vars PROVE PeriodicInv'
    OBVIOUS
  <2>1. CASE Next
    BY <2>1, NextKinds, PeriodicInvTx, PeriodicInvConsole, PeriodicInvPass,
       PeriodicInvEnvironment
  <2>2. CASE UNCHANGED vars
    BY <2>2 DEF vars, data_vars, console, mode, timer, timing, PeriodicInv, Scheduling, Storing
  <2> QED
    BY <2>1, <2>2
<1>3. PeriodicInv => PeriodicIsArmed
  BY DEF PeriodicInv, PeriodicIsArmed, Quiet, Scheduling
<1> QED
  BY <1>1, <1>2, <1>3, TypeCorrect, PTL DEF SafetySpec

-----------------------------------------------------------------------------
(* The supervision of the watering *)

\* The inductive strengthening of WateringIsSupervised: main switches the
\* supervision off only once it has left WATERING_PLANT, and no notifier runs
\* during a pass that could enter it again.
SupervisedInv ==
    /\ nextState # "WATERING_PLANT"
    /\ pc[Main] = "clear_checking" => controlLoopState # "WATERING_PLANT"
    /\ pc[Main] \notin {"sleep", "scanf"} => NotifiersIdle
    /\ controlLoopState = "WATERING_PLANT" =>
           checkingSoilMoisture \/ \E t \in Threads : pc[t] = "tx_checking"

LEMMA SupervisedInvTx ==
    ASSUME TypeOK, SupervisedInv, NEW t \in Threads, WaterDeviceTx(t)
    PROVE  SupervisedInv'
<1> USE DEF console, sensors, mode, supervise, timer, timing, data_vars
<1>1. ThreadsTyped
  BY ThreadsAreTyped
<1>2. /\ pc[t] \in TxLabels /\ pc'[t] \in TxLabels \cup {AfterTx(t)}
      /\ \A u \in Threads : u # t => pc'[u] = pc[u]
      /\ nextState' = nextState
  BY <1>1, TxFrame, OthersStay
<1>3. /\ pc'[Main] # "clear_checking"
      /\ pc'[Main] \notin {"sleep", "scanf"} => NotifiersIdle'
  <2>1. CASE t = Main
    <3>1. pc[Main] \notin {"sleep", "scanf"} /\ pc'[Main] # "clear_checking"
      BY <1>2, <2>1 DEF TxLabels, AfterTx
    <3>2. NotifiersIdle'
      BY <1>2, <2>1, <3>1, MainIsThread DEF SupervisedInv, NotifiersIdle, Threads
    <3> QED
      BY <3>1, <3>2
  <2>2. CASE t # Main
    <3>1. t \in Notifiers /\ pc[t] # "idle" /\ pc'[Main] = pc[Main]
      BY <1>2, <2>2, MainIsThread DEF Threads, TxLabels
    <3>2. pc[Main] \in {"sleep", "scanf"}
      BY <3>1 DEF SupervisedInv, NotifiersIdle
    <3> QED
      BY <3>1, <3>2
  <2> QED
    BY <2>1, <2>2
<1>4. controlLoopState' = "WATERING_PLANT" =>
          checkingSoilMoisture' \/ \E u \in Threads : pc'[u] = "tx_checking"
  <2>1. CASE TxState(t)
    <3>1. pc'[t] = "tx_checking"
      BY <1>1, <2>1 DEF TxState, Goto, ThreadsTyped
    <3> QED
      BY <3>1
  <2>2. CASE TxChecking(t)
    BY <2>2 DEF TxChecking, StartChecking
  <2>3. CASE TxDecide(t) \/ TxSkip(t) \/ TxIdle(t) \/ TxSend(t) \/ TxCount(t)
    <3>1. /\ pc[t] # "tx_checking" /\ UNCHANGED checkingSoilMoisture
          /\ controlLoopState' \in {controlLoopState, "IDLE"}
      BY <2>3 DEF TxDecide, TxSkip, TxIdle, TxSend, TxCount, Goto
    <3>2. ASSUME NEW u \in Threads, pc[u] = "tx_checking"
          PROVE  pc'[u] = "tx_checking"
      BY <1>2, <3>1, <3>2
    <3> QED
      BY <3>1, <3>2 DEF SupervisedInv
  <2> QED
    BY <2>1, <2>2, <2>3 DEF WaterDeviceTx
<1> QED
  BY <1>2, <1>3, <1>4 DEF SupervisedInv

\* A step of main that runs neither waterDeviceTx nor one of its entries.
LEMMA SupervisedInvMain ==
    ASSUME TypeOK, SupervisedInv, NEW from \in MainLabels, NEW to,
           Goto(Main, from, to), from \notin {"sleep", "scanf"} \/ NotifiersIdle,
           to # "clear_checking" \/ controlLoopState' # "WATERING_PLANT",
           nextState' # "WATERING_PLANT",
           controlLoopState' = "WATERING_PLANT" =>
               controlLoopState = "WATERING_PLANT" /\ UNCHANGED checkingSoilMoisture
    PROVE  SupervisedInv'
<1>1. /\ pc[Main] = from /\ pc'[Main] = to
      /\ \A u \in Threads : u # Main => pc'[u] = pc[u]
  BY ThreadsAreTyped, OthersStay, MainIsThread DEF Goto
<1>2. NotifiersIdle /\ NotifiersIdle'
  BY <1>1, MainIsThread DEF SupervisedInv, NotifiersIdle, Threads
<1>3. ASSUME NEW u \in Threads, pc[u] = "tx_checking"
      PROVE  pc'[u] = "tx_checking"
  <2>1. u # Main
    BY <1>1, <1>3 DEF MainLabels
  <2> QED
    BY <1>1, <1>3, <2>1
<1> QED
  BY <1>1, <1>2, <1>3 DEF SupervisedInv

LEMMA SupervisedInvConsole ==
    ASSUME ~MayOverlap, TypeOK, SupervisedInv, ReadConsole
    PROVE  SupervisedInv'
<1> USE DEF console, supervise, timer
<1>1. PICK input : HandleConsoleCmd(input)
  BY DEF ReadConsole
<1>2. /\ \E to \in {"data", "sched_check", "tx_decide"} : Goto(Main, "scanf", to)
      /\ UNCHANGED <<controlLoopState, checkingSoilMoisture>>
      /\ nextState' \in {nextState, "IDLE", "WATER_PERIODIC_SCHED", "WATER_ONESHOT_SCHED"}
  BY <1>1 DEF HandleConsoleCmd, Dismiss, Schedule, LowThresCmd, HighThresCmd,
              DeviceCmd, WaterPlantCmd
<1>3. "scanf" \in MainLabels /\ NotifiersIdle /\ nextState' # "WATERING_PLANT"
  BY <1>2 DEF MainLabels, SupervisedInv, ReadConsole
<1> QED
  BY <1>2, <1>3, SupervisedInvMain

LEMMA SupervisedInvPass ==
    ASSUME ~MayOverlap, TypeOK, SupervisedInv, PassStep
    PROVE  SupervisedInv'
<1> USE DEF console, sensors, mode, supervise, timer, timing, data_vars
<1>1. MainLabels = {"console", "scanf", "sched_check", "sched_store", "data",
                    "switch", "count_load", "count_store", "count_check", "fault",
                    "complete", "finish", "clear_checking", "clear_count", "sleep"}
  BY DEF MainLabels
<1>2. nextState # "WATERING_PLANT"
  BY DEF SupervisedInv
<1>3. CASE NoInput \/ Typed \/ ReceiveData \/ CountLoad \/ CountStore \/ ClearCount
  BY <1>1, <1>2, <1>3, SupervisedInvMain
  DEF NoInput, Typed, ReceiveData, CountLoad, CountStore, ClearCount
<1>4. CASE SchedCheck \/ Switch \/ CountCheck
  BY <1>1, <1>2, <1>4, SupervisedInvMain DEF SchedCheck, Switch, CountCheck
<1>5. CASE SchedStore \/ Finish
  BY <1>1, <1>2, <1>5, SupervisedInvMain DEF SchedStore, Finish
<1>6. CASE Fault
  BY <1>1, <1>2, <1>6, SupervisedInvMain DEF Fault, EnterFault
<1>7. CASE Complete
  BY <1>1, <1>7, SupervisedInvMain DEF Complete, AfterWatering
<1>8. CASE ClearChecking
  <2>1. /\ Goto(Main, "clear_checking", "clear_count") /\ pc[Main] = "clear_checking"
        /\ UNCHANGED <<controlLoopState, nextState>>
    BY <1>8 DEF ClearChecking, Goto
  <2>2. controlLoopState' # "WATERING_PLANT"
    BY <2>1 DEF SupervisedInv
  <2> QED
    BY <1>1, <1>2, <2>1, <2>2, SupervisedInvMain
<1>9. CASE Sleep
  BY <1>1, <1>9, SupervisedInvMain DEF Sleep
<1> QED
  BY <1>3, <1>4, <1>5, <1>6, <1>7, <1>8, <1>9 DEF PassStep

LEMMA SupervisedInvEnvironment ==
    ASSUME ~MayOverlap, TypeOK, SupervisedInv, Elapse \/ TakeCmd
    PROVE  SupervisedInv'
<1> USE DEF mode, supervise
<1>1. CASE CountDown \/ TakeCmd
  BY <1>1 DEF CountDown, TakeCmd, SupervisedInv, NotifiersIdle
<1>2. ASSUME NEW t \in Notifiers, Expire(t)
      PROVE  SupervisedInv'
  <2>1. /\ t \in Threads /\ pc[Main] \in {"sleep", "scanf"} /\ pc[t] = "idle"
        /\ UNCHANGED <<nextState, controlLoopState, checkingSoilMoisture>>
    BY <1>2 DEF Expire, SecondMayElapse, Goto, Threads
  <2>2. \A u \in Threads : u # t => pc'[u] = pc[u]
    BY <1>2, <2>1, ThreadsAreTyped, OthersStay DEF Expire, Goto
  <2>3. pc'[Main] \in {"sleep", "scanf"}
    BY <2>1, <2>2, MainIsThread
  <2>4. \A u \in Threads : pc[u] = "tx_checking" => pc'[u] = "tx_checking"
    BY <2>1, <2>2
  <2> QED
    BY <2>1, <2>3, <2>4 DEF SupervisedInv
<1> QED
  BY <1>1, <1>2 DEF Elapse

\* Whenever the loop is between two passes and the plant is being watered, the
\* watering is supervised, provided that notifiers do not overlap the passes.
THEOREM WateringSupervised == ~MayOverlap /\ SafetySpec => []WateringIsSupervised
<1> SUFFICES ASSUME ~MayOverlap PROVE SafetySpec => []WateringIsSupervised
  OBVIOUS
<1>1. Init => SupervisedInv
  BY MainIsThread DEF Init, SupervisedInv, NotifiersIdle, Threads
<1>2. TypeOK /\ SupervisedInv /\ [Next]_vars => SupervisedInv'
  <2> SUFFICES ASSUME TypeOK, SupervisedInv, [Next]_vars PROVE SupervisedInv'
    OBVIOUS
  <2>1. CASE Next
    BY <2>1, NextKinds, SupervisedInvTx, SupervisedInvConsole, SupervisedInvPass,
       SupervisedInvEnvironment
  <2>2. CASE UNCHANGED vars
    BY <2>2 DEF vars, data_vars, mode, supervise, SupervisedInv, NotifiersIdle
  <2> QED
    BY <2>1, <2>2
<1>3. TypeOK /\ SupervisedInv => WateringIsSupervised
  BY DEF TypeOK, SupervisedInv, WateringIsSupervised, Quiet, NotifiersIdle, Threads
<1> QED
  BY <1>1, <1>2, <1>3, TypeCorrect, PTL DEF SafetySpec
=============================================================================

# Verification of the plant watering system (ECEN 5013 project 2)

TLA+ modules of the two nodes of the watering system, the TLC runs that check
them on small instances, and TLAPS proofs of what holds for every value of the
constants. All paths are relative to the root of the repository.

## 1. The system

The **control node** (`src/bbg`, Linux on a BeagleBone) talks to the user over a
serial console, decides when to water and logs. The **remote node** (`src/tiva`,
FreeRTOS on a Tiva board) reads the sensors and drives the valve. Four TCP
connections join them: commands, data, status and log. The control node is the
server of each.

### 1.1 Inventory

| Component | State | Operations | Interacts through | What makes it hard | What makes it correct |
|---|---|---|---|---|---|
| Control loop, console, watering timer (`bbg/src/main.c`) | `controlLoopState`, `systemState`, thresholds, last readings, `checkingSoilMoisture`, `soilWateringCount`, `gCurrentCmd`, `waterTimerid` | `handleConsoleCmd`, `set*WaterSched`, `cancelWaterSched`, `waterDeviceTx`, one pass of the loop per second | command and data queues; `waterDeviceTx` also runs in the threads of `SIGEV_THREAD` notifications, which share the globals without a lock | interleavings of passes and notifications, a schedule changed while the plant is watered, a timer that fires during a watering | a watering is supervised and ends; a FAULT has evidence; a scheduled state has its timer; thresholds do not cross |
| Health monitor (`healthMonitor.c`) and shutdown (`main.c`) | heartbeat queue, missing flags and counts, `gExit`, `aliveFlag` of each child | `monitorHealth`, the arbiters, `processAction`, `threadKiller`, `sigintHandler`, the end of `main` | heartbeats of all children, signals, `pthread_join` | a queue shared by all, a limit on the messages of a pass, blocking senders, signals at any time | who is blamed was silent; who is silent is blamed; fatal errors are acted on; the program ends |
| Logger (`loggingThread.c`, `logger_queue.c`, `logger_helper.c`) | log queue, file, last item | `log_queue_item`, `log_dequeue_item`, `log_write_item`, the loop and its exit | every thread queues, blocking | it queues into the queue it empties; messages left at exit; duplicates dropped | order kept, no loss before exit but the named ones |
| TCP servers (`remote{Cmd,Data,Status,Log}Thread.c`) | client socket, connected or not | accept, receive, forward to a queue; send commands | TCP, the queues of `main`, heartbeats | a lost client, a packet in pieces, commands dropped while unconnected | nothing is taken for what it is not; a reconnect is found |
| Remote node tasks (`tiva/src/{solenoid,observer,moisture,light}Thread.c`) | shared memory (readings, thresholds, solenoid data), valve and alarm pins, system state | one turn of each task every 500 ms | shared memory under a mutex with a 10 ms timeout, the flags of the sockets without one | turns in any order, missed turns, lost connections | one request is one watering of the right length; a dry plant without its control node is watered; alarms and states are honest |
| Remote node TCP clients (`tiva/src/remoteThread.c`) | the four lost flags | connect, send, receive, store a command | sockets, shared memory, status and log queues | reconnection, the mutex timeout | a command is carried out or the node knows that it is deaf |
| Conversions (`conversion.c`) | none | `my_itoa`, `my_atoi` | none | bases, signs, limits | they are inverse on their domain |
| Log parser (`bbg/scripts/log_parser.py`) | position, the item being read | one state per field | the log file | frames of which a write has failed | what it prints was logged |
| Drivers, superseded threads, test clients, set-up of the remote node, vendored code | | | | | not modelled, see section 10 |

The list of hazards, each at its line, is in `PROJECT.json`.

### 1.2 Modules

In the order of importance to the plant:

| Module | Models | Proofs |
|---|---|---|
| `WateringControl` | the control loop, its console and its timer | `WateringControl_proofs`, `WateringSchedule_proofs` |
| `HealthMonitor` | heartbeats, errors and shutdown of the control node | `HealthMonitor_proofs` |
| `Valve` | abstract: what the remote node promises of its valve | |
| `RemoteNode` | the tasks of the remote node around their shared memory; implements `Valve` | `RemoteNode_proofs` |
| `LossyFifo` | abstract: what the log and the links promise of order and loss | |
| `Logger` | the log queue and its thread, with the end of main; implements `LossyFifo` | `Logger_proofs` |
| `RemoteLink` | one connection with its server, its client, and the two copies of the thresholds; implements `LossyFifo` | `RemoteLink_proofs` |
| `Conversion` | `my_itoa` and `my_atoi` | `Conversion_proofs` |
| `LogFile` | the frames of the log file and the parser that reads them | |

`MC*` are the instances for TLC. `RemoteLink` composes what the two nodes do with
one connection; the control loop (`WateringControl`) and the tasks behind the
connection (`RemoteNode`) meet it in a queue each, so that their own modules take
what may come out of that queue as an input.

## 2. WateringControl

`WateringControl.tla` models `bbg/src/main.c` from the console to the end of a
pass. `pc` says where each thread is: `main`, and `Notifiers`, the threads that
the C library makes when the watering timer expires. One step of the model reads
or writes shared globals once, so that a label lies wherever another thread can
come between: `waterDeviceTx` is `TxDecide`, `TxSkip`, `TxIdle` (the refused
branch) and `TxSend`, `TxState`, `TxChecking`, `TxCount` (the accepted one);
`soilWateringCount++` is a load and a store; the end of a watering is `Complete`
(read the timer), `Finish`, `ClearChecking` and `ClearCount`; FAULT is declared in
`CountCheck` (the test) and, a print later, `Fault` (the store). Globals that only
main touches change in the step of `HandleConsoleCmd`.

The console is `select` (main.c:288) and then a `scanf` that blocks: a bare Enter
satisfies the first and not the second. `Typed` is the first, `ReadConsole` the
end of the second; in between main is at the label `scanf`, perhaps for ever, while
time and notifications go on. (After a Ctrl-C, whose handler does not restart calls,
`scanf` returns without a word and the last one is handled again; the shutdown is
the subject of `HealthMonitor`.)

Correspondence: `gCurrentCmd`, the thresholds, `controlLoopState`, `systemState`,
`checkingSoilMoisture` and `soilWateringCount` are the globals of the same name;
`waterTimer` is the kernel's timer (time left and interval), `cmdQueue` the POSIX
queue `remoteCmdThread` empties (`TakeCmd`); `sunny` is `luxData >
LUX_MAX_THRESHOLD`, all the code asks of it; `nextState` and `countReg` are
values main holds in registers. `dryPasses` is a history variable: passes of
`WATERING_PLANT` that found the soil dry since the last success; `setFailed` another:
the last `timer_settime` was refused, which the code does not look at. A negative
number typed is a huge unsigned one in the code: a member of `Numbers` beyond
`MaxSeconds` stands for those.

**Runs.** A second of the timer is a unit. `MoistureValues` holds a dry, a middle
and a wet reading, enough for every comparison with the two thresholds. One
notification thread is enough as timers are at least `MinPeriod` apart while a
notification runs for microseconds. The command queue has one place, so that it is
often full.

- `watering_overlap`: `MayOverlap = TRUE`, so a notification may come between any
  two steps of main and a second may elapse at any time. One-shot, periodic and
  cancelled schedules, of which some are refused. It shows that the supervision is
  never ahead of the evidence since the last success (`CountIsEvidence`,
  `FaultNeedsEvidence`; that evidence may be of an earlier watering if the reset in
  `waterDeviceTx` is lost in main's `soilWateringCount++`), that a scheduled one-shot
  has its timer or was refused one (`OneshotIsArmed`), and that it is carried out or
  refused (`OneshotResolves`). Two dry passes are too many (`MaxWaterChecks = 1`),
  which is enough for a lost reset and for FAULT.
- `watering_periodic`: every command but the one-shot, with notifications between
  two passes (`MayOverlap = FALSE`). Of the periods one is within the supervision
  (2, where 3 dry passes are too many), one beyond it, and one is refused. It shows
  that thresholds do not cross, that a periodic state has its timer unless it was
  refused one (`PeriodicIsArmed`), that a watering is supervised, and that one that
  stays dry ends once the user leaves the console alone (`DryWateringEnds`), with the
  exception the property names (`RestartedTooSoon`): a period within the supervision
  restarts the count at each firing, as 8 hours do against 15 checks while
  `HOUR_TO_SEC` is 1.
- `watering_v_oneshot` (violation of `PeriodicIsArmed`): a one-shot scheduled
  during a watering is taken for a periodic schedule when the watering ends
  (main.c:344), and once it is refused the loop waits for ever.
- `watering_v_race` (violation of `WateringIsSupervised`): with a notification
  inside the end of a watering, `checkingSoilMoisture = false` (355) undoes
  what `waterDeviceTx` has just set (751): the new watering may never end.

**Fairness.** `LoopStep` (all that main does by itself), a notification that has
started, `remoteCmdThread` and time go on: weak fairness of each is what a running
Linux system gives. `ReadConsole` has none, as main may be left in `scanf` after a
bare Enter, and then watches over nothing. The liveness properties therefore assume
`UserStops`: from some time on main is not in `scanf`. A command typed again and
again may also put off any resolution.

**Bounds.** Both counts stop at `MaxWaterChecks + 1`, as the code only asks whether
they exceed `MaxWaterChecks`. All else is bounded by the constants.

## 3. HealthMonitor

`HealthMonitor.tla` models `monitorHealth` and what surrounds it: the children's
loops as far as they send heartbeats (`StartChild`, `Loop`, `Report`, `Forward`,
`Connection`), one pass of the monitor (`StartPass`, `Receive`, `Drained`,
`Check`), the arbiters (`Arbitrate`), the kills (`ProcessAction`), Ctrl-C
(`Sigint`) and the end of main (`LeaveLoop`, `KillLogger`, `Join`).

- The logger opens the heartbeat queue non-blocking and drops what does not fit;
  the others block (`Send`).
- A signal sent with `sigqueue` to the process is delivered to main, which does not
  block it: it sets the child's flag but does not interrupt a child that is
  blocked in `mq_send`. Ctrl-C uses `pthread_kill`, which does interrupt it.
- A `TERM_THREAD` for a process of the remote node raises a real-time signal for
  which no handler is set, which ends the program (`killed`).
- `Check` touches nothing others read, and no step of theirs comes between it
  and the drain: this loses no behaviour and saves states.
- main creates the logger before the heartbeat queue (main.c:186 and 214): a logger
  that comes first does not find the queue and returns without a word to the
  monitor, where one that cannot open its file asks for the end (`StartChild`).
- A Ctrl-C interrupts whichever children are in `mq_send` on the full queue; one that
  has tested `aliveFlag` and is not there yet (healthMonitor.h:64) goes on and blocks
  (`Sigint` interrupts any subset of them).
- `late` and `gap` are history variables: who queued a message since the drain
  began, and for how many passes a process has been silent. `sent` bounds the
  messages of a child in a pass (`PerPass`): the children's loops take 499 ms, main's
  about 998 ms.
- Packets with a process id the monitor does not expect are not modelled.

**Runs.** Two children (the logger and `remoteStatusThread`, the two that differ)
and up to one process of the remote node.

- `health_messages`: a queue of two, a limit of one message beyond the first, and
  three senders, so that messages are often left in the queue or refused; a logger that
  fails to start, with a message or without, and errors that end the program. `BlameIsFair`: whoever is
  reported was silent for `MissingCount` passes, whatever the limit left behind.
  `SilenceIsNoticed`: whoever was silent for one more is reported. A
  `remoteStatusThread` without a client *is* silent, as its `continue` skips the
  heartbeat; its comment (remoteStatusThread.c:168) wants it otherwise.
  `FatalErrorsEnd`: an error that asks for the end of the program is acted on.
  `DeadThreadIsNoticed`: a child that has returned is reported or the program ends.
  The last two take it that main goes on with its passes, that is, that it is not
  left in `scanf` (section 2).
- `health_shutdown`: after Ctrl-C, with a queue of two that fills, all children return
  and are joined (`ShutdownCompletes`), but for the exception the property names
  (`BlockedForEver`): a child that came to `mq_send` after the signal waits on a full
  queue that main has stopped reading, and main for it. No other error ends this run.
- `health_v_terminate` (violation of `ShutdownCompletes`): terminate-all signals
  processes 0 to `NUM_THREADS - 2` (healthMonitor.c:233) and main then waits for
  the last child for ever.

**Fairness.** Main and each child are scheduled. Signals and connections owe
nothing. Deadlock is not checked, as the program ends.

## 4. RemoteNode and Valve

`RemoteNode.tla` models the tasks of the remote node around the shared memory.
`xSemaphoreTake(shmemMutex)` with a timeout of 10 ticks guards every access. The
critical sections of all tasks but the observer are a few assignments, so the whole
turn of such a task is one step. The observer reads the flags of the sockets, which no
mutex guards, under a kernel that may run another task between any two reads, and
prints to an unbuffered serial port and queues a log event (up to 100 ms) *while it
holds the mutex*. Its turn is therefore

- `Observe`: take the mutex, judge the light task by its age;
- `ReadFlag`, once per flag, in the order of lines 108 and 111 (`Flags`): the control
  flags are read at 108 and, being clear, again at 111, where one that has been set in
  between falls through to the `else` and gives NOMINAL (`StateIfLost`);
- `Act`: the override and the release. From the decision to there `observer` *is* the
  state decided (`Decided`), which the code decides anew in each turn;
- `CheckConnections`: the four flags of lines 148 and 149, one by one, then the alarm.

A turn that misses the mutex goes straight to the last (`MissMutex`). `HeldTooLong`
says that the observer may hold the mutex for longer than the others wait: it prints
in every state but NOMINAL.

A task that misses the mutex does nothing else in that turn: this is a longer gap
between two of its turns, bounded for each periodic task by `MaxGap`.
`remoteCmdTask` is the exception: it goes into `while(1){}` (`Hang`,
remoteThread.c:539). `Tick` is the kernel's tick counter as the tasks see it
(`FreeRTOS/Source/tasks.c`); time goes by in the observer's delay and while it prints,
and not between its reads, which take microseconds of a unit of 500 ms.

Correspondence: `solenoidCmd`, `solenoidState`, `remainingOnTime` are
`shmem.solenoidData`; `next_`/`prev_solenoidState` the statics of
`updateSolenoidData`; `onTime` the time since `solenoidStartTime` while the valve
is open; `valve` and `alarmPin` the two pins; `lost` the four flags. Time is
counted in turns' delays (500 ms): `OnDuration` stands for 3000 ms,
`LightLimit` for the 3000 ms of observerThread.c:103. Tick counters do not wrap
here; the code's wrap after 49 days.

`Valve.tla` is what the node promises of its valve, whoever asks: it opens only on
request, requests made before it opens are one watering, it closes after
`Duration` and within `Slack` of it, and requests are served. `ImplementsValve`
instantiates it with `cmd <- solenoidCmd`, `openFor <- onTime`,
`Slack <- 2 * MaxGap["solenoid"]`: time is noticed at a turn, and the pin is written in the
next one.

**Runs.** Moisture levels below and above the thresholds, which commands may change.

- `node`: all four sockets come and go, between the reads of the flags too, both the
  control node and the observer ask for water, `solenoidThread` may miss a turn
  (`MaxGap` is 2 for it and 1 for the observer), the light task may fail or stop. The
  two thresholds are equal: nothing asked here depends on the range between them.
  `ImplementsValve` and `TypeOK` are about the valve. `NominalIsFresh`: NOMINAL is never
  decided on the word of a light task that has stopped, except in a turn in which a
  control socket is lost while the flags are read (the `else` above).
  `DryPlantIsWatered`: while the data or the command socket stays lost, a dry plant is
  watered again and again. `AlarmFollows`: the alarm stays on while a connection stays
  lost, and goes out when all are there and the soil is wet. (Losses that move from
  socket to socket may escape reads that are made one by one.)
- `node_v_deaf` (violation of `DeafNodeIsInFault`): a command meets the observer in
  its printing; `remoteCmdTask` stops for good with its socket marked as connected,
  and the node neither enters FAULT nor ever obeys a command again.

**Fairness.** Time, `solenoidThread` and the observer, which need nobody else. The
observer takes the mutex again and again if it is free again and again (strong
fairness of `Observe`): the tasks all have the same priority (tiva/src/main.c:151) and
no other holds it for long. Nothing is assumed of connections, commands, readings or
the light task.

## 5. Logger and LossyFifo

`LossyFifo.tla` is what a path promises to its two ends: messages are delivered in
the order in which they were sent and none twice; any may be lost.

`Logger.tla` models the log queue, `loggingThread` and the end of `main`. Items are
numbered as they are queued (`queued` is the history of their keys), so that the
queue is a sequence of numbers, and the log implements `LossyFifo` with
`sent <- Len(queued)` and `delivered <-` the last item of the file
(`ImplementsLog`). A key stands for what the filter of repeats compares: id, time
and checksum (loggingThread.c:163).

- `QueueItem` blocks while the queue is full, for whoever writes: other threads
  (`OthersQueue`), main (`Halt`), and the logger itself (`LoggerQueues`).
- One turn of the logger is `Wake`, then `Dequeue` and `WriteItem` until the queue is
  empty (`NoItem`) or the limit is reached (`AfterItem`). A write may fail, which
  leaves the frame torn and mostly makes the logger queue an event of its own
  (`ReportFailure`).
- At its start it may find that main has not created the heartbeat queue yet, or fail to
  open the file: it queues an event and returns (`OpenFile`, `StartLogger`).
- An empty queue ends a turn (`NoItem`). The branch for other errors of
  `log_dequeue_item` (loggingThread.c:151) needs a queue that is closed or a message
  of another size, which nobody makes.
- Told to exit (`aliveFlag`), it queues a last event behind the others and takes one
  more item from the front (`SeeExit`). The comment at loggingThread.c:133 gives that
  event "2nd highest priority"; all items are queued with the same (logger_queue.c:124),
  and the order of the log rests on it.
- `Leave`, `Halt`, `KillLogger` and `Join` are the end of main. Its wait (main.c:378) is
  one of 3.1 s of wall clock, while the file is opened `O_SYNC` and written nearly byte
  by byte: how much is written in it depends on the disk, so that `KillLogger` may
  come at any time. `takenAtKill` is a history variable: the last item the logger
  had taken by then.

**Run** `logger`: a queue of 3, 3 items in a turn, two keys. The file is the queue with
only the named losses (`ImplementsLog`, `OnlyRepeatsAreDropped`). After Ctrl-C the end
of the program is in the log if, when main's wait ended, it had been taken or was next
in the queue (`HaltedIsLogged`): one more item is what the logger takes, and neither
later items nor failing writes of others change that. The program ends unless the
log queue is full and has lost its reader (`ProgramEnds`, `Stuck`): the logger that
queues into its own full queue waits for itself, and main, at `LOG_SYSTEM_HALTED`,
for it. The depth of 135 makes that rare in the code. After terminate-all the logger
has been signalled already when main logs its end: `ExitMessagesAreLogged`, which
asks for `LOG_SYSTEM_HALTED` in the log however the program ends, is defined and does
not hold.

**Fairness.** The logger and main are scheduled. Nobody need queue anything.

## 6. RemoteLink

`RemoteLink.tla` models one connection. `link` says which: on a *telemetry* link
(status, log, data) a task of the remote node sends and a thread of the control
node receives; on the *command* link it is the other way round, and the messages
are the two commands that set a threshold, so that the two copies of the
thresholds (`control`, main's; `remote`, the one in shared memory) can be compared.

TCP is external and modelled from its use: `wire[c]` is what connection `c` carries,
in halves of packets, as `recv` returns what has arrived (`Reads`) and the code only
looks at the number of bytes (`ReceiveFrom`). `Break` ends a connection and loses
what it carries from some byte on; `Learn` is the control node's kernel hearing of it
(`peer`: an orderly end, or a reset, which one call reports and which then is
`gone`); `Restart` is the remote node starting again, with its default thresholds.
`Serve` is accept and recv of the server, `TakeCmd` the dequeueing of a command,
sent or dropped; `Connect`, `ClientSend` and `ClientReceive` are the task of the remote
node. The data link sends a fresh reading each time, which is a queue of one. `Report` is all
that queue something for a telemetry link: the heartbeats of the tasks
(healthMonitor.h:67), their log events, and the readings.

**Run** `link`: three messages, two connections, one read or write of half a packet,
one restart, three threshold values around the defaults 1 and 2 and one beyond
`SoilMoistureMax`.

- `ImplementsLink`: the receiver is handed messages in order, none twice, whatever is
  lost.
- `GarbledOnlyAfterSplit`: bytes nobody sent as a packet are taken for one only on a
  connection on which half a packet was read or written, as a new connection starts
  in step. (Once that has happened the rest of the connection *is* garbled: the
  header of packet.h:56 is never used.)
- `ThresholdsCrossOnlyByLoss`: the remote node's low threshold reaches its high one
  only if a command was lost or garbled, or the node has restarted. Without loss
  the order of the commands protects it.
- `LastingLinkWorks`: if a connection lasts, the server ends up serving it, however
  many resets it has to read first, and reads all that is sent; or a command sent
  between the two reports of a reset (remoteCmdThread.c:209 keeps the client) has
  ended the program with SIGPIPE. `DisconnectIsNoticed` says that this never
  happens; it is defined and does not hold.

**Bounds.** Each count of messages, connections, halves and restarts is bounded by a
constant in the guard of the action that raises it. Two connections are needed for
an old one to be reset by a new one, three messages for a lost one between two that
arrive.

**Fairness.** The task and the thread are scheduled; the network owes nothing.

## 7. Conversion and LogFile

`Conversion.tla` models `my_itoa`, digit by digit with `my_reverse`, and `my_atoi` on
what it wrote. `Half` stands for 2^31: data is a signed integer of that width and is
unsigned wherever the code mixes it with `base`. `RoundTrip`: `my_atoi` returns what
`my_itoa` was given, in every base, the least integer included. `WritesNumeral`: what
is written is the numeral, its digits read from the front (`Prefix`) giving the
magnitude, without leading zeros. The base-10 sign is not counted in
the length returned, though the comment at conversion.c:25 says so; `my_atoi` takes
digits that are not of its base, and never looks at its limit.

`LogFile.tla` has a file of tokens (marks, terminators and texts of fields).
`WriteFrame` appends the frame of `log_write_item` or any torn one: what was written
before a failing write, or everything but the payload, since a failing write of the
payload goes unnoticed where `ssize_t` has 32 bits (logger_queue.c:285 compares -1
with an unsigned length). The rest is `log_parser.py`, a state per field.
`clear_log_item` leaves the source of the last item (`Cleared`), which is always read
anew. `print_message` converts the payload as well; that cannot fail on a payload read
whole, as the enums of the parser have every value that those of the C code have.
`PrintedWasWritten`: wherever writes fail, the parser never joins pieces of two items
into one. `StopsOnlyAtTorn`: it prints in order and prints every whole item, up to
the first torn frame that makes it raise `ValueError`, which ends it and hides
all that follows.

**Run** `text` runs the two side by side (an initial state starts one of them): all
integers of eight bits in ten bases, two of which are refused at either end, and three
items of which two are torn.

## 8. Seen while modelling, without a run

- A notification that is refused may store IDLE over the schedule that the user has just
  made (main.c:735 and 741): the timer runs and waters all the same.
- While main is left in `scanf` (a bare Enter) nothing supervises a watering and nobody
  reads the heartbeats.
- The event logged for an unresponsive process is
  `MAIN_EVENT_LIGHT_THREAD_UNRESPONSIVE + pid`, but the events are not in the order
  of the pids.
- At start-up the moisture is 0 and all sockets are lost, so that the observer may
  water a wet plant if its first turn comes before the first reading; the control
  loop accepts any watering before its first reading, for the same reason.
- main takes one reading in a pass from a queue of 135: after a stall it decides on
  old ones.
- `log_get_time` goes through a float of microseconds: its resolution becomes coarser
  as time goes by, and items of one thread may then be equal for the filter of
  repeats without being repeats.
- The servers never close the socket of a lost client.

## 9. What is proved

| Theorem | States |
|---|---|
| `WateringControl_proofs!TypeCorrect` | `TypeOK` always |
| `WateringControl_proofs!ThresholdsOrdered` | `ThresholdOrder` always |
| `WateringControl_proofs!CountNeverAhead` | `CountIsEvidence` always |
| `WateringControl_proofs!FaultIsJustified` | `FaultNeedsEvidence` |
| `WateringControl_proofs!OneshotArmed` | `OneshotIsArmed` always, if every delay typed is at least 2 |
| `WateringSchedule_proofs!PeriodicArmed` | `PeriodicIsArmed` always, if no one-shot is asked for |
| `WateringSchedule_proofs!WateringSupervised` | `WateringIsSupervised` always, if no notifier overlaps a pass |
| `HealthMonitor_proofs!TypeCorrect` | `TypeOK` always |
| `HealthMonitor_proofs!BlameFair` | `BlameIsFair` |
| `HealthMonitor_proofs!SilenceNoticed` | `SilenceIsNoticed` |
| `RemoteNode_proofs!TypeCorrect` | `TypeOK` always |
| `RemoteNode_proofs!NominalFresh` | `NominalIsFresh` |
| `RemoteNode_proofs!ValveIsSafe` | every behaviour satisfies the safety part of `Valve` |
| `Logger_proofs!TypeCorrect` | `TypeOK` always |
| `Logger_proofs!RepeatsOnly` | `OnlyRepeatsAreDropped` always |
| `Logger_proofs!LogInOrder` | `ImplementsLog` |
| `Logger_proofs!LastWordLogged` | `HaltedIsLogged` always |
| `RemoteLink_proofs!TypeCorrect` | `TypeOK` always |
| `RemoteLink_proofs!StartsInStep` | `GarbledOnlyAfterSplit` always |
| `RemoteLink_proofs!ThresholdsOrdered` | `ThresholdsCrossOnlyByLoss` always |
| `RemoteLink_proofs!LinkInOrder` | `ImplementsLink` |
| `Conversion_proofs!TypeCorrect` | `ConvTypeOK` always |
| `Conversion_proofs!NumeralOfTheNumber` | `WritesNumeral` always |
| `Conversion_proofs!ReadsWhatWasWritten` | `RoundTrip` always |
| `LogFile_proofs!TypeCorrect` | `FileTypeOK` always |
| `LogFile_proofs!NothingIsJoined` | `PrintedWasWritten` always |
| `LogFile_proofs!AllBeforeTheTear` | `StopsOnlyAtTorn` always |

They hold for every value of the constants that satisfies the module's named
assumptions, whatever the interleaving and the numbers of threads, messages,
failures and connections, unless the table names a condition. The assumptions are that default thresholds are ordered and
within the range, that bounds are natural numbers, that queues and gaps are not
zero, and, of the health monitor, that the limit of a pass is not below the depth of
the queue (36 and 102 in the code).

*CountNeverAhead.* The property is nearly inductive: a count that main has loaded
must be bounded as well, since a notification may reset the count before main
stores it; and between `ClearChecking` and the end of `ClearCount` both go to zero
together. *FaultIsJustified* then needs that what `CountCheck` saw still holds at
`Fault`, whatever notifiers do in between (`FaultEvidence`). *OneshotArmed* is not inductive: `OneshotIsArmed` speaks of the end of a
pass. The invariant follows a schedule from the setting of the timer
(`Schedule`) to the store of the state (`SchedStore`), and a notification from the
expiry of the timer to the step that takes the one-shot off the schedule.

*PeriodicArmed, WateringSupervised.* Both properties are refuted by a run, and the
theorems say what the refutation depends on. `PeriodicInv`: a timer that runs reloads
itself, and what main stores it decided when it set the timer or looked at it; this
needs neither `~MayOverlap` nor any bound on notifiers. Without one-shots, then,
overlap does no harm to the schedule. `SupervisedInv`: outside `sleep` no notifier
runs, so that nobody enters `WATERING_PLANT` between `Finish` and `ClearChecking`;
this holds for every input, one-shots included.

*BlameFair, SilenceNoticed.* `threadMissingCount` and `gap`, the passes since a
process queued its last message, differ only while a message of it is in the queue.
`CountInv` says where: at the top of a pass a process that counts more than its gap has
a message in the queue; during the drain that message is within what the limit still
lets main read, which is where the depth and the limit come in; when the flags are
looked at there is none. In the other direction the count is at most one behind the
gap, or at its limit, for whoever did not queue during the drain.

*ValveIsSafe.* The invariant `ValveInv` says that pin, state and
`prev_solenoidState` agree, that a valve about to open has its request, and bounds
`onTime` by what it was at the last turn plus the gap since: `OnDuration + gap`
while the solenoid is on, `OnDuration + MaxGap + gap` once it has decided to
close. `gap <= MaxGap` gives the slack of two gaps. Each action is then a step of
`Valve` or leaves its variables alone.

*NominalFresh.* `FreshInv`: while the observer reads the flags, a light state of NOMINAL
is one of a reading within the limit. Nobody writes the light state then, as the observer
has the mutex, and no time goes by. NOMINAL then comes from the end of the flags, or from
a flag at line 111 that is set.

*RepeatsOnly, LogInOrder.* `QueueInv`: the queue holds exactly the numbers after the
last item taken, in order. `FileInv`: the file is increasing and, while an item is
being written, below it. `FilterInv`: the key the filter compares with is always that
of the last item taken.

*LastWordLogged.* `EndingInv`: `LOG_SYSTEM_HALTED` is queued once (`QueuedOnce`), after a
Ctrl-C before the logger is told to exit (`EndInv`); and a logger that has seen the
signal has taken an item beyond `takenAtKill` when it returns, as its own event keeps
the queue from being empty until then (`LeavingInv`). `LOG_SYSTEM_HALTED` has thus been
taken, and no other key is equal to its own, so that the filter cannot have dropped it
(`OnlyRepeatsAreDropped`).

*LinkInOrder.* `WireOrder`, `QueueOrder` and `ReadOrder` order everything between the two
ends: what was delivered, before what is on the connection being read, before what
is on the later ones, before what is queued. Order alone does not make a packet
whole: `Aligned` says that the halves on a connection come in pairs unless it is in
`split`, which is also *StartsInStep*. *ThresholdsOrdered* needs `ThresholdHistory`:
while nothing was lost the remote thresholds are those after the commands delivered so
far, every prefix of which leaves them ordered.

*Conversion_proofs.* `ConvTypeOK` becomes inductive with `BeforeNul`: my_atoi has the
terminator before it until it stops. `SignedRange` and `QuotientRange` are what keeps
the arithmetic in 32 bits, for every `Half`. The other two theorems relate the string to
the number through a function no variable holds, `q[i]` being what is left of the
magnitude after `i` digits: `TextInv` says that there is one, that the string holds the
last digits of its values, reversed as far as `my_reverse` has come, and that the value
of `my_atoi` is the `q[i]` whose digits it has read. The value is compared modulo
`2 * Half`, so that the least integer, whose magnitude is no `int32_t`, is no case of
its own.

*LogFile_proofs.* The variables do not say where in the file the frame of an item is;
`Layout` says that there is a function `start` that does: from `start[n]` to before
`start[n + 1]` the file holds the frame of item `n` or the beginning of one, all of it
unless the item is torn (or, in `silent`, lacks its payload only). `Parsing` puts the
parser in a frame: it is between two of them (`Between`), at the text of a field and
has read the earlier ones as they were written (`InStep`), or in a torn frame and about
to find what is not a number (`Lost`). That a string runs on into later frames is where
it could go wrong: the first terminator after a tear ends the event of a later item
(`AfterFirstNul`), so that what the parser takes for a number next is the name of a
file or a mark.

Inductions over digits and over the items of a file are done with the least element of a
set of naturals (`LeastElement`), since the library's induction theorems have an
operator as a parameter and no installed prover can instantiate them.

Only model-checked: all liveness (`DryWateringEnds`, `OneshotResolves`,
`FatalErrorsEnd`, `DeadThreadIsNoticed`, `ShutdownCompletes`, `DryPlantIsWatered`,
`AlarmFollows`, `ProgramEnds`, `LastingLinkWorks` and the liveness part of
`ImplementsValve`), since TLAPS has no rules for fairness here. Every safety property
of a passing run is a theorem.

## 10. What is not modelled

- Drivers (`lightSensor.c`, `tempSensor.c`, `lu_iic.c`, `bbgLeds.c`, `cmn_timer.c`,
  `tiva_i2c.c`): register and file accesses with no protocol of their own.
- `bbg/src/{tempThread,lightThread,remoteThread,logger_block,simpleServer,
  simpleClient,remoteClient,remoteCmdClient,remoteDataClient}.c`: not part of the
  application.
- `tiva/src/main.c`: straight-line code that runs once, before the scheduler. The set-up
  of `bbg/src/main.c`: what may interleave with it is the logger, created before the
  heartbeat queue, which `HealthMonitor` and `Logger` have as a logger that returns at
  once.
- The functions of `memory.c` other than `my_reverse`: only the unit tests call them.
- FreeRTOS, FreeRTOS+TCP, DriverLib, `uartstdio.c`, and their headers and register
  maps: vendored, and more than nine tenths of the lines of the repository, which is
  why the modules map a small share of them. What the application needs of them
  (queues, mutexes, ticks, sockets) is modelled from how it uses it.

## 11. Running the checks

In `tla/`: `tlc -config <run>.cfg <MC module>`, the pairs being listed in
`PROJECT.json`, and `tlapm <module>.tla` for each of the modules `*_proofs`.
Definitions marked `[mutant]` are plausible errors that are put in place of the
definition after them to see that a property fails.

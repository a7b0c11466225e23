--------------------------------- MODULE Logger ---------------------------------
(***************************************************************************)
(* The log of the control node: every thread queues items with             *)
(* log_queue_item (bbg/src/logger_queue.c), loggingThread takes them off   *)
(* the queue and writes them to the file, and the end of main              *)
(* (bbg/src/main.c) logs LOG_SYSTEM_HALTED, waits, and tells the logger to *)
(* exit.  That wait is one of wall-clock time, the file is written byte by *)
(* byte and synchronously: how much the logger gets done in it is open.    *)
(*                                                                         *)
(* The queue blocks whoever writes to it while it is full, the logger      *)
(* itself among them.  An item is known by its number in the order of      *)
(* queueing and by its key: what the filter of repeated items compares     *)
(* (id, time and checksum).                                                *)
(***************************************************************************)
EXTENDS Naturals, Sequences, FiniteSets

CONSTANTS
    Keys,             \* keys of the items of the other threads
    QueueDepth,       \* LOG_MSG_QUEUE_DEPTH
    ProcessLimit,     \* items written in one turn
    MaxItems,         \* bound: items queued by the other threads
    MaxFailures       \* bound: writes that fail

\* Keys of items that no other item has: main's LOG_SYSTEM_HALTED and the
\* events that the logger queues once
HALTED == "halted"
OnceKeys == {HALTED, "started", "shmem_error", "file_open", "bist_complete",
             "open_error", "exiting"}
ItemKeys == Keys \cup OnceKeys

ASSUME ConstantsAssumption ==
    /\ Keys \cap OnceKeys = {} /\ "none" \notin ItemKeys
    /\ QueueDepth \in Nat \ {0}
    /\ ProcessLimit \in Nat
    /\ MaxItems \in Nat /\ MaxFailures \in Nat

VARIABLES
    queue,            \* logMsgQueue: the numbers of the items in it
    queued,           \* history: the keys of all items, item n has queued[n]
    logItem,          \* the last item taken off the queue, 0 before the first
    prevLogItem,      \* key of the last item that was not a repeat
    logMsgCount,      \* items that were not repeats, in this turn
    exitFlag,         \* 0 once the logger has seen that it has to exit
    aliveFlag,        \* 0 once its signal handler has run
    logPc,            \* where the logger is
    file,             \* the items whose frame is whole, in the order of the file
    torn,             \* the items whose frame is missing or torn
    mainPc,           \* where main is
    exit,             \* how the program was told to end
    takenAtKill,      \* history: the logItem when main told the logger to exit
    others            \* items queued by other threads (bound only)

loggerVars == <<prevLogItem, logMsgCount, exitFlag, logPc, file, torn>>
mainVars == <<mainPc, exit, aliveFlag, takenAtKill>>
vars == <<queue, queued, logItem, loggerVars, mainVars, others>>

LogLabels == {"start", "open", "no_queue", "open_failed", "opened", "bist",
              "dequeue", "exiting", "write", "write_failed", "pause", "exited"}

TypeOK ==
    /\ queued \in Seq(ItemKeys)
    /\ queue \in Seq(DOMAIN queued) /\ Len(queue) <= QueueDepth
    /\ logItem \in 0 .. Len(queued)
    /\ prevLogItem \in ItemKeys \cup {"none"}
    /\ logMsgCount \in 0 .. ProcessLimit + 1
    /\ exitFlag \in 0..1 /\ aliveFlag \in 0..1
    /\ logPc \in LogLabels
    /\ file \in Seq(DOMAIN queued)
    /\ torn \subseteq DOMAIN queued
    /\ mainPc \in {"run", "halt", "wait", "join", "done"}
    /\ exit \in {"none", "sigint", "terminate_all"}
    /\ takenAtKill \in Nat
    /\ others \in 0 .. MaxItems

Init ==
    /\ queue = <<>> /\ queued = <<>> /\ logItem = 0
    /\ prevLogItem = "none" /\ logMsgCount = 0
    /\ exitFlag = 1 /\ aliveFlag = 1
    /\ logPc = "start"
    /\ file = <<>> /\ torn = {}
    /\ mainPc = "run" /\ exit = "none"
    /\ takenAtKill = 0 /\ others = 0

-----------------------------------------------------------------------------
(* log_queue_item: mq_send waits while the queue is full, and all messages *)
(* have the same priority.                                                 *)

Full == Len(queue) = QueueDepth

\* [mutant] LOG_SYSTEM_HALTED overtakes the items in the queue
QueueWithPriority(key) ==
    /\ ~Full
    /\ queued' = Append(queued, key)
    /\ queue' = IF key = HALTED THEN <<Len(queued) + 1>> \o queue
                ELSE Append(queue, Len(queued) + 1)

QueueItem(key) ==
    /\ ~Full
    /\ queued' = Append(queued, key)
    /\ queue' = Append(queue, Len(queued) + 1)

\* Any other thread, main in its loop included.
OthersQueue ==
    /\ mainPc # "done"
    /\ others < MaxItems
    /\ others' = others + 1
    /\ \E key \in Keys : QueueItem(key)
    /\ UNCHANGED <<logItem, loggerVars, mainVars>>

-----------------------------------------------------------------------------
(* loggingThread.                                                          *)

\* at label `from' the logger queues an event of its own, and goes on at `to'
LoggerQueues(from, key, to) ==
    /\ logPc = from
    /\ QueueItem(key)
    /\ logPc' = to
    /\ UNCHANGED <<logItem, prevLogItem, logMsgCount, file, torn, mainVars, others>>

StartLogger ==
    /\ \/ LoggerQueues("start", "started", "open")
       \/ LoggerQueues("no_queue", "shmem_error", "exited")
       \/ LoggerQueues("open_failed", "open_error", "exited")
       \/ LoggerQueues("opened", "file_open", "bist")
       \/ LoggerQueues("bist", "bist_complete", "dequeue")
    /\ UNCHANGED exitFlag

\* the status queue, which main may not have created yet, and the file
OpenFile ==
    /\ logPc = "open"
    /\ logPc' \in {"opened", "no_queue", "open_failed"}
    /\ UNCHANGED <<queue, queued, logItem, prevLogItem, logMsgCount, exitFlag, file, torn,
                   mainVars, others>>

\* The logger has been told to exit: it queues a last event, behind what is
\* there, and takes one more item.
\* [mutant] it does not take one more
SeeExitAtOnce ==
    /\ aliveFlag = 0
    /\ LoggerQueues("dequeue", "exiting", "pause")
    /\ exitFlag' = 0

SeeExit ==
    /\ aliveFlag = 0
    /\ LoggerQueues("dequeue", "exiting", "exiting")
    /\ exitFlag' = 0

MayDequeue == logPc = "exiting" \/ (logPc = "dequeue" /\ aliveFlag = 1)

\* log_dequeue_item, with a time that has passed: an empty queue ends the turn.
\* Its other errors need a closed queue or a message of another size.
NoItem ==
    /\ MayDequeue
    /\ queue = <<>>
    /\ logPc' = "pause"
    /\ UNCHANGED <<queue, queued, logItem, prevLogItem, logMsgCount, exitFlag, file, torn,
                   mainVars, others>>

\* [mutant] no limit on the items of a turn
AfterItemNoLimit == IF exitFlag = 0 THEN "pause" ELSE "dequeue"

\* where the loop over the messages goes after one of them
AfterItem ==
    IF logMsgCount > ProcessLimit \/ exitFlag = 0 THEN "pause" ELSE "dequeue"

\* [mutant] only the first item of a turn is remembered
RememberFirst(key) == prevLogItem' = IF logMsgCount = 0 THEN key ELSE prevLogItem

Remember(key) == prevLogItem' = key

\* "verify msg is unique"
Dequeue ==
    /\ MayDequeue
    /\ queue # <<>>
    /\ logItem' = Head(queue) /\ queue' = Tail(queue)
    /\ LET key == queued[Head(queue)]
       IN IF key = prevLogItem
          THEN /\ logPc' = AfterItem
               /\ UNCHANGED <<prevLogItem, logMsgCount>>
          ELSE /\ logPc' = "write"
               /\ logMsgCount' = logMsgCount + 1
               /\ Remember(key)
    /\ UNCHANGED <<queued, exitFlag, file, torn, mainVars, others>>

\* log_write_item.  A write that fails leaves the frame torn and is reported,
\* but for that of the payload, whose -1 is not less than an unsigned length
\* where ssize_t has 32 bits.
WriteItem ==
    /\ logPc = "write"
    /\ \/ /\ file' = Append(file, logItem)
          /\ logPc' = AfterItem
          /\ UNCHANGED torn
       \/ /\ Cardinality(torn) < MaxFailures
          /\ torn' = torn \cup {logItem}
          /\ logPc' \in {"write_failed", AfterItem}
          /\ UNCHANGED file
    /\ UNCHANGED <<queue, queued, logItem, prevLogItem, logMsgCount, exitFlag, mainVars,
                   others>>

\* LOG_EVENT_WRITE_LOGFILE_ERROR goes to the logger's own queue
ReportFailure ==
    /\ \E key \in Keys : LoggerQueues("write_failed", key, AfterItem)
    /\ UNCHANGED exitFlag

\* sigwait, once more also after the last turn
Wake ==
    /\ logPc = "pause"
    /\ IF exitFlag = 1
       THEN logPc' = "dequeue" /\ logMsgCount' = 0
       ELSE logPc' = "exited" /\ UNCHANGED logMsgCount
    /\ UNCHANGED <<queue, queued, logItem, prevLogItem, exitFlag, file, torn, mainVars,
                   others>>

LoggerStep ==
    \/ StartLogger \/ OpenFile
    \/ SeeExit \/ NoItem \/ Dequeue \/ WriteItem \/ ReportFailure \/ Wake

\* Nobody empties the queue any more: its only reader has returned, or waits
\* for room in it.
Stuck ==
    /\ Full
    /\ \/ logPc \in {"start", "no_queue", "open_failed", "opened", "bist",
                     "write_failed", "exited"}
       \/ logPc = "dequeue" /\ aliveFlag = 0

-----------------------------------------------------------------------------
(* The end of main.                                                        *)

\* Ctrl-C signals the other children; terminate-all the logger as well, at
\* once.
Leave ==
    /\ mainPc = "run"
    /\ exit' \in {"sigint", "terminate_all"}
    /\ aliveFlag' = IF exit' = "terminate_all" THEN 0 ELSE aliveFlag
    /\ mainPc' = "halt"
    /\ UNCHANGED <<queue, queued, logItem, loggerVars, takenAtKill, others>>

Halt ==
    /\ mainPc = "halt"
    /\ QueueItem(HALTED)
    /\ mainPc' = "wait"
    /\ UNCHANGED <<logItem, loggerVars, exit, aliveFlag, takenAtKill, others>>

\* [mutant] the signal goes to another thread
SignalOther == UNCHANGED aliveFlag

SignalLogger == aliveFlag' = 0

\* "wait to kill log so exit msgs get logged": the wait may be over at any time
KillLogger ==
    /\ mainPc = "wait"
    /\ SignalLogger
    /\ takenAtKill' = logItem
    /\ mainPc' = "join"
    /\ UNCHANGED <<queue, queued, logItem, loggerVars, exit, others>>

Join ==
    /\ mainPc = "join"
    /\ logPc = "exited"
    /\ mainPc' = "done"
    /\ UNCHANGED <<queue, queued, logItem, loggerVars, exit, aliveFlag, takenAtKill,
                   others>>

MainEnds == Halt \/ KillLogger \/ Join

Next == OthersQueue \/ LoggerStep \/ Leave \/ MainEnds

SafetySpec == Init /\ [][Next]_vars

\* Both threads are scheduled; nobody need queue anything or end the program.
Spec == SafetySpec /\ WF_vars(LoggerStep) /\ WF_vars(MainEnds)

-----------------------------------------------------------------------------
(* Properties.                                                             *)

Written(n) == n \in torn \/ \E i \in DOMAIN file : file[i] = n

\* An item that has been taken off the queue and has no frame in the file is a
\* repeat of the one queued before it: the filter drops nothing else, whatever
\* was queued between two items of one thread.
OnlyRepeatsAreDropped ==
    \A n \in 1 .. logItem :
        \/ Written(n)
        \/ n = logItem /\ logPc = "write"
        \/ n > 1 /\ queued[n] = queued[n - 1]

LastInFile == IF file = <<>> THEN 0 ELSE file[Len(file)]

Log == INSTANCE LossyFifo WITH sent <- Len(queued), delivered <- LastInFile

\* The file holds items in the order in which they were queued, none twice.
ImplementsLog == Log!Spec

\* After a Ctrl-C the end of main is in the log when the logger has returned,
\* unless another item was still ahead of it in the queue when main's wait was
\* over: the logger takes one more item, and neither what others go on queueing
\* nor writes of other items that fail push it out (main.c:375-383,
\* loggingThread.c:135-206).
HaltedIsLogged ==
    exit = "sigint" /\ logPc = "exited" /\ exitFlag = 0 =>
        \E n \in DOMAIN queued : /\ queued[n] = HALTED
                                 /\ n <= takenAtKill + 1 => Written(n)

\* A program told to end does end, as far as the log is concerned: main gets
\* to log it and to join the logger, which returns however much is queued; but
\* a full queue that nobody empties stops them both.
ProgramEnds == exit # "none" ~> (mainPc = "done" \/ Stuck)

\* "wait to kill log so exit msgs get logged" (main.c:377), however the program
\* is ended.
ExitMessagesAreLogged ==
    logPc = "exited" /\ exitFlag = 0 =>
        \E n \in DOMAIN queued : queued[n] = HALTED /\ Written(n)
=============================================================================

----------------------------- MODULE Logger_proofs -----------------------------
(***************************************************************************)
(* Theorems about Logger, for every depth of the queue, every limit of a   *)
(* turn and any number of items and of failing writes: its type invariant, *)
(* what the filter of repeated items drops, that the log file implements   *)
(* LossyFifo, and when LOG_SYSTEM_HALTED is in the log after a Ctrl-C.     *)
(***************************************************************************)
EXTENDS Logger, SequenceTheorems, TLAPS

-----------------------------------------------------------------------------
(* The inductive invariant.                                                *)

\* The queue holds the items after the last one taken off it.
QueueInv ==
    /\ queued \in Seq(ItemKeys)
    /\ queue \in Seq(Nat) /\ Len(queue) <= QueueDepth
    /\ logItem \in Nat /\ Len(queued) = logItem + Len(queue)
    /\ \A i \in 1 .. Len(queue) : queue[i] = logItem + i

\* The file holds items in increasing order, of those taken off the queue; the
\* item that is being written is not in it.
FileInv ==
    /\ file \in Seq(Nat)
    /\ \A i \in 1 .. Len(file) : file[i] \in 1 .. logItem
    /\ \A i, j \in 1 .. Len(file) : i < j => file[i] < file[j]
    /\ torn \subseteq 1 .. logItem
    /\ logPc = "write" =>
           /\ logItem > 0
           /\ \A i \in 1 .. Len(file) : file[i] < logItem

\* The key that the filter compares with is that of the last item taken, be it
\* a repeat or not.
FilterInv ==
    /\ prevLogItem = IF logItem = 0 THEN "none" ELSE queued[logItem]
    /\ OnlyRepeatsAreDropped

\* Where the logger may take an item, there is room for it in the turn.
ControlInv ==
    /\ logMsgCount \in 0 .. ProcessLimit + 1
    /\ logPc \notin {"write", "write_failed", "pause", "exited"} =>
           logMsgCount <= ProcessLimit
    /\ exitFlag \in 0..1 /\ aliveFlag \in 0..1
    /\ logPc \in LogLabels
    /\ mainPc \in {"run", "halt", "wait", "join", "done"}
    /\ exit \in {"none", "sigint", "terminate_all"}
    /\ takenAtKill \in Nat
    /\ others \in 0 .. MaxItems

Inv == QueueInv /\ FileInv /\ FilterInv /\ ControlInv

USE ConstantsAssumption

LEMMA SeqOfElements ==
    ASSUME NEW S, NEW s \in Seq(S), NEW E, \A i \in 1 .. Len(s) : s[i] \in E
    PROVE  s \in Seq(E)
<1>1. Len(s) \in Nat /\ s \in [1 .. Len(s) -> S]
    BY LenProperties
<1>2. s \in [1 .. Len(s) -> E]
    BY <1>1
<1> QED BY <1>1, <1>2, SeqDef

LEMMA InvInit == Init => Inv
BY DEF Init, Inv, QueueInv, FileInv, FilterInv, ControlInv, OnlyRepeatsAreDropped,
       LogLabels

-----------------------------------------------------------------------------
(* Items are queued, or nothing happens to them.                           *)

LEMMA QueueItemInv ==
    ASSUME QueueInv, FileInv, FilterInv, NEW key \in ItemKeys, QueueItem(key),
           UNCHANGED <<logItem, prevLogItem, file, torn>>,
           logPc' = logPc \/ (logPc # "write" /\ logPc' # "write")
    PROVE  QueueInv' /\ FileInv' /\ FilterInv'
<1>1. /\ queued' \in Seq(ItemKeys) /\ Len(queued') = Len(queued) + 1
      /\ \A n \in 1 .. Len(queued) : queued'[n] = queued[n]
    BY AppendProperties DEF QueueItem, QueueInv
<1>2. /\ queue' \in Seq(Nat) /\ Len(queue') = Len(queue) + 1
      /\ \A i \in 1 .. Len(queue) : queue'[i] = queue[i]
      /\ queue'[Len(queue) + 1] = Len(queued) + 1
    <2>1. queue \in Seq(Nat) /\ Len(queued) + 1 \in Nat
        BY DEF QueueInv
    <2> QED BY <2>1, AppendProperties DEF QueueItem
<1>3. QueueInv'
    <2>1. Len(queue') <= QueueDepth
        BY <1>2 DEF QueueItem, Full, QueueInv
    <2>2. ASSUME NEW i \in 1 .. Len(queue') PROVE queue'[i] = logItem + i
        <3>1. Len(queue) \in Nat /\ (i \in 1 .. Len(queue) \/ i = Len(queue) + 1)
            BY <1>2 DEF QueueInv
        <3>2. CASE i \in 1 .. Len(queue)
            BY <1>2, <3>2 DEF QueueInv
        <3>3. CASE i = Len(queue) + 1
            BY <1>2, <3>1, <3>3 DEF QueueInv
        <3> QED BY <3>1, <3>2, <3>3
    <2> QED BY <1>1, <1>2, <2>1, <2>2 DEF QueueInv
<1>4. FileInv'
    BY DEF FileInv
<1>5. FilterInv'
    <2>1. logItem \in 0 .. Len(queued)
        BY DEF QueueInv
    <2>2. \A n \in 1 .. logItem : queued'[n] = queued[n]
        BY <1>1, <2>1
    <2>3. prevLogItem' = IF logItem' = 0 THEN "none" ELSE queued'[logItem']
        BY <2>1, <2>2 DEF FilterInv
    <2>4. ASSUME NEW n \in 1 .. logItem
          PROVE  \/ Written(n)
                 \/ n = logItem /\ logPc' = "write"
                 \/ n > 1 /\ queued'[n] = queued'[n - 1]
        <3>1. n > 1 => n - 1 \in 1 .. logItem
            BY <2>1
        <3> QED BY <2>2, <3>1 DEF FilterInv, OnlyRepeatsAreDropped
    <2>5. \A n \in 1 .. logItem : Written(n)' <=> Written(n)
        BY DEF Written
    <2> QED BY <2>3, <2>4, <2>5 DEF FilterInv, OnlyRepeatsAreDropped
<1> QED BY <1>3, <1>4, <1>5

LEMMA ItemsUnchanged ==
    ASSUME QueueInv, FileInv, FilterInv,
           UNCHANGED <<queue, queued, logItem, prevLogItem, file, torn>>,
           logPc' = logPc \/ (logPc # "write" /\ logPc' # "write")
    PROVE  QueueInv' /\ FileInv' /\ FilterInv'
<1>1. QueueInv' /\ FileInv'
    BY DEF QueueInv, FileInv
<1>2. FilterInv'
    BY DEF FilterInv, OnlyRepeatsAreDropped, Written
<1> QED BY <1>1, <1>2

LEMMA AfterItemLabel == AfterItem \in {"pause", "dequeue"}
BY DEF AfterItem

LEMMA LoggerQueuesInv ==
    ASSUME Inv, NEW from \in LogLabels \ {"write"}, NEW key \in ItemKeys,
           NEW to \in LogLabels \ {"write"}, LoggerQueues(from, key, to),
           exitFlag' \in 0..1,
           to \in {"pause", "exited"} \/ logMsgCount <= ProcessLimit
    PROVE  Inv'
<1>1. QueueInv' /\ FileInv' /\ FilterInv'
    <2>1. /\ QueueItem(key) /\ logPc # "write" /\ logPc' # "write"
          /\ UNCHANGED <<logItem, prevLogItem, file, torn>>
        BY DEF LoggerQueues
    <2> QED BY <2>1, QueueItemInv DEF Inv
<1>2. ControlInv'
    BY DEF Inv, ControlInv, LoggerQueues, mainVars
<1> QED BY <1>1, <1>2 DEF Inv

-----------------------------------------------------------------------------
(* The logger.                                                             *)

LEMMA StartLoggerInv == Inv /\ StartLogger => Inv'
<1> SUFFICES ASSUME Inv, StartLogger PROVE Inv'
    OBVIOUS
<1>1. /\ logPc \in {"start", "no_queue", "open_failed", "opened", "bist"}
      /\ exitFlag' \in 0..1 /\ logMsgCount <= ProcessLimit
    BY DEF StartLogger, LoggerQueues, Inv, ControlInv
<1>2. {"started", "shmem_error", "open_error", "file_open", "bist_complete"} \subseteq ItemKeys
    BY DEF ItemKeys, OnceKeys
<1> QED BY <1>1, <1>2, LoggerQueuesInv DEF StartLogger, LogLabels

LEMMA SeeExitInv == Inv /\ SeeExit => Inv'
<1> SUFFICES ASSUME Inv, SeeExit PROVE Inv'
    OBVIOUS
<1>1. exitFlag' \in 0..1 /\ logMsgCount <= ProcessLimit
    BY DEF SeeExit, LoggerQueues, Inv, ControlInv
<1>2. "exiting" \in ItemKeys
    BY DEF ItemKeys, OnceKeys
<1> QED BY <1>1, <1>2, LoggerQueuesInv DEF SeeExit, LogLabels

LEMMA ReportFailureInv == Inv /\ ReportFailure => Inv'
<1> SUFFICES ASSUME Inv, ReportFailure PROVE Inv'
    OBVIOUS
<1>1. /\ AfterItem \in LogLabels \ {"write"} /\ exitFlag' \in 0..1
      /\ AfterItem = "pause" \/ logMsgCount <= ProcessLimit
    BY DEF ReportFailure, AfterItem, LogLabels, Inv, ControlInv
<1>2. PICK key \in Keys : LoggerQueues("write_failed", key, AfterItem)
    BY DEF ReportFailure
<1> QED BY <1>1, <1>2, LoggerQueuesInv DEF ItemKeys, LogLabels

\* The logger moves on and no item is touched.
LEMMA PausesInv == Inv /\ (OpenFile \/ NoItem \/ Wake) => Inv'
<1> SUFFICES ASSUME Inv, OpenFile \/ NoItem \/ Wake PROVE Inv'
    OBVIOUS
<1>1. QueueInv' /\ FileInv' /\ FilterInv'
    <2>1. /\ UNCHANGED <<queue, queued, logItem, prevLogItem, file, torn>>
          /\ logPc # "write" /\ logPc' # "write"
        BY DEF OpenFile, NoItem, MayDequeue, Wake
    <2> QED BY <2>1, ItemsUnchanged DEF Inv
<1>2. ControlInv'
    BY DEF Inv, ControlInv, OpenFile, NoItem, MayDequeue, Wake, mainVars, LogLabels
<1> QED BY <1>1, <1>2 DEF Inv

LEMMA DequeueInv == Inv /\ Dequeue => Inv'
<1> SUFFICES ASSUME Inv, Dequeue PROVE Inv'
    OBVIOUS
<1> DEFINE key == queued[Head(queue)]
<1>1. /\ logItem \in Nat /\ logItem' = logItem + 1 /\ logItem' \in 1 .. Len(queued)
      /\ Len(queue') = Len(queue) - 1 /\ queue' \in Seq(Nat)
      /\ \A i \in 1 .. Len(queue') : queue'[i] = queue[i + 1]
    <2>1. queue \in Seq(Nat) /\ queue # <<>> /\ Len(queue) \in Nat \ {0}
        BY EmptySeq DEF Inv, QueueInv, Dequeue
    <2>2. Head(queue) = logItem + 1
        BY <2>1 DEF Inv, QueueInv
    <2>3. Len(queued) \in Nat /\ Len(queued) = logItem + Len(queue) /\ logItem \in Nat
        BY DEF Inv, QueueInv
    <2> QED BY <2>1, <2>2, <2>3, HeadTailProperties DEF Dequeue
<1>2. QueueInv'
    <2>1. UNCHANGED queued
        BY DEF Dequeue
    <2>2. /\ queued \in Seq(ItemKeys) /\ Len(queue) \in Nat /\ Len(queue) <= QueueDepth
          /\ Len(queued) = logItem + Len(queue)
          /\ \A i \in 1 .. Len(queue) : queue[i] = logItem + i
        BY DEF Inv, QueueInv
    <2>3. \A i \in 1 .. Len(queue') : queue'[i] = logItem' + i
        BY <1>1, <2>2
    <2> QED BY <1>1, <2>1, <2>2, <2>3 DEF QueueInv
<1>3. /\ key \in ItemKeys
      /\ prevLogItem' = queued[logItem']
      /\ logPc # "write"
      /\ \/ logPc' = AfterItem /\ key = prevLogItem
         \/ logPc' = "write" /\ logMsgCount' = logMsgCount + 1
    <2>1. key \in ItemKeys
        BY <1>1, ElementOfSeq DEF Inv, QueueInv, Dequeue
    <2> QED BY <2>1 DEF Dequeue, Remember, MayDequeue
<1>4. FileInv'
    <2>1. UNCHANGED <<file, torn>> /\ logItem \in Nat /\ logItem' = logItem + 1
        BY <1>1 DEF Inv, QueueInv, Dequeue
    <2>2. /\ \A i \in 1 .. Len(file) : file[i] \in 1 .. logItem
          /\ torn \subseteq 1 .. logItem
        BY DEF Inv, FileInv
    <2>3. \A i \in 1 .. Len(file) : file[i] \in 1 .. logItem' /\ file[i] < logItem'
        BY <2>1, <2>2
    <2>4. torn \subseteq 1 .. logItem' /\ logItem' > 0
        BY <2>1, <2>2
    <2> QED BY <2>1, <2>3, <2>4 DEF Inv, FileInv
<1>5. FilterInv'
    <2>1. ASSUME NEW n \in 1 .. logItem'
          PROVE  \/ Written(n)
                 \/ n = logItem' /\ logPc' = "write"
                 \/ n > 1 /\ queued[n] = queued[n - 1]
        <3>1. CASE n = logItem'
            <4>1. CASE logPc' = "write"
                BY <3>1, <4>1
            <4>2. CASE key = prevLogItem
                <5>1. logItem # 0
                    BY <1>3, <4>2 DEF Inv, FilterInv
                <5>2. queued[n] = queued[n - 1]
                    BY <1>1, <3>1, <4>2, <5>1 DEF Inv, FilterInv, Dequeue
                <5> QED BY <1>1, <3>1, <5>1, <5>2
            <4> QED BY <1>3, <4>1, <4>2
        <3>2. CASE n # logItem'
            <4>1. n \in 1 .. logItem
                BY <1>1, <3>2
            <4> QED BY <1>3, <4>1 DEF Inv, FilterInv, OnlyRepeatsAreDropped
        <3> QED BY <3>1, <3>2
    <2>2. UNCHANGED <<queued, file, torn>> /\ \A n : Written(n)' <=> Written(n)
        BY DEF Dequeue, Written
    <2>3. OnlyRepeatsAreDropped'
        BY <2>1, <2>2 DEF OnlyRepeatsAreDropped
    <2> QED BY <1>1, <1>3, <2>2, <2>3 DEF FilterInv
<1>6. ControlInv'
    BY <1>3 DEF Inv, ControlInv, Dequeue, MayDequeue, AfterItem, mainVars, LogLabels
<1> QED BY <1>2, <1>4, <1>5, <1>6 DEF Inv

LEMMA WriteItemInv == Inv /\ WriteItem => Inv'
<1> SUFFICES ASSUME Inv, WriteItem PROVE Inv'
    OBVIOUS
<1>1. /\ logPc = "write" /\ logPc' \in {"pause", "dequeue", "write_failed"}
      /\ UNCHANGED <<queue, queued, logItem, prevLogItem>>
    BY AfterItemLabel DEF WriteItem
<1>2. \/ file' = Append(file, logItem) /\ UNCHANGED torn
      \/ torn' = torn \cup {logItem} /\ UNCHANGED file
    BY DEF WriteItem
<1>3. logItem \in Nat /\ logItem > 0
    BY <1>1 DEF Inv, QueueInv, FileInv
<1>4. ASSUME file' = Append(file, logItem) /\ UNCHANGED torn
      PROVE  FileInv' /\ Written(logItem)' /\ \A n : Written(n) => Written(n)'
    <2>1. /\ file' \in Seq(Nat) /\ Len(file') = Len(file) + 1 /\ Len(file) \in Nat
          /\ \A i \in 1 .. Len(file) : file'[i] = file[i]
          /\ file'[Len(file) + 1] = logItem
        BY <1>3, <1>4, AppendProperties DEF Inv, FileInv
    <2>2. \A i \in 1 .. Len(file') : i \in 1 .. Len(file) \/ i = Len(file) + 1
        BY <2>1
    <2>3. \A i \in 1 .. Len(file) : file'[i] \in 1 .. logItem /\ file'[i] < logItem
        BY <1>1, <2>1 DEF Inv, FileInv
    <2>4. \A i \in 1 .. Len(file') : file'[i] \in 1 .. logItem
        BY <1>3, <2>1, <2>2, <2>3
    <2>5. ASSUME NEW i \in 1 .. Len(file'), NEW j \in 1 .. Len(file'), i < j
          PROVE  file'[i] < file'[j]
        <3>1. i \in 1 .. Len(file)
            BY <2>1, <2>5
        <3>2. CASE j \in 1 .. Len(file)
            BY <2>1, <2>5, <3>1, <3>2 DEF Inv, FileInv
        <3>3. CASE j = Len(file) + 1
            BY <2>1, <2>3, <3>1, <3>3
        <3> QED BY <2>2, <3>2, <3>3
    <2>6. FileInv'
        BY <1>1, <1>4, <2>1, <2>4, <2>5 DEF Inv, FileInv
    <2>7. Written(logItem)' /\ \A n : Written(n) => Written(n)'
        <3>1. DOMAIN file' = 1 .. Len(file') /\ DOMAIN file = 1 .. Len(file)
            BY <2>1 DEF Inv, FileInv
        <3> QED BY <1>1, <1>4, <2>1, <3>1 DEF Written
    <2> QED BY <2>6, <2>7
<1>5. ASSUME torn' = torn \cup {logItem} /\ UNCHANGED file
      PROVE  FileInv' /\ Written(logItem)' /\ \A n : Written(n) => Written(n)'
    <2>1. FileInv'
        BY <1>1, <1>3, <1>5 DEF Inv, FileInv
    <2>2. Written(logItem)' /\ \A n : Written(n) => Written(n)'
        BY <1>1, <1>5 DEF Written
    <2> QED BY <2>1, <2>2
<1>6. FileInv' /\ Written(logItem)' /\ \A n : Written(n) => Written(n)'
    BY <1>2, <1>4, <1>5
<1>7. QueueInv'
    BY <1>1 DEF Inv, QueueInv
<1>8. FilterInv'
    BY <1>1, <1>6 DEF Inv, FilterInv, OnlyRepeatsAreDropped
<1>9. ControlInv'
    BY DEF Inv, ControlInv, WriteItem, AfterItem, mainVars, LogLabels
<1> QED BY <1>6, <1>7, <1>8, <1>9 DEF Inv

-----------------------------------------------------------------------------
(* The other threads and main.                                             *)

LEMMA OthersQueueInv == Inv /\ OthersQueue => Inv'
<1> SUFFICES ASSUME Inv, OthersQueue PROVE Inv'
    OBVIOUS
<1>1. PICK key \in Keys : QueueItem(key)
    BY DEF OthersQueue
<1>2. QueueInv' /\ FileInv' /\ FilterInv'
    BY <1>1, QueueItemInv DEF OthersQueue, loggerVars, ItemKeys, Inv
<1>3. ControlInv'
    BY DEF Inv, ControlInv, OthersQueue, loggerVars, mainVars
<1> QED BY <1>2, <1>3 DEF Inv

LEMMA HaltInv == Inv /\ Halt => Inv'
<1> SUFFICES ASSUME Inv, Halt PROVE Inv'
    OBVIOUS
<1>1. HALTED \in ItemKeys
    BY DEF ItemKeys, OnceKeys
<1>2. QueueInv' /\ FileInv' /\ FilterInv'
    BY <1>1, QueueItemInv DEF Halt, loggerVars, Inv
<1>3. ControlInv'
    BY DEF Inv, ControlInv, Halt, loggerVars
<1> QED BY <1>2, <1>3 DEF Inv

LEMMA MainInv == Inv /\ (Leave \/ KillLogger \/ Join) => Inv'
<1> SUFFICES ASSUME Inv, Leave \/ KillLogger \/ Join PROVE Inv'
    OBVIOUS
<1>1. QueueInv' /\ FileInv' /\ FilterInv'
    BY ItemsUnchanged DEF Leave, KillLogger, Join, loggerVars, Inv
<1>2. ControlInv'
    BY DEF Inv, ControlInv, QueueInv, Leave, KillLogger, SignalLogger, Join, loggerVars
<1> QED BY <1>1, <1>2 DEF Inv

LEMMA InvNext == Inv /\ [Next]_vars => Inv'
<1>1. Inv /\ UNCHANGED vars => Inv'
    BY ItemsUnchanged DEF Inv, ControlInv, vars, loggerVars, mainVars
<1>2. Inv /\ LoggerStep => Inv'
    BY StartLoggerInv, PausesInv, SeeExitInv, DequeueInv, WriteItemInv, ReportFailureInv
       DEF LoggerStep
<1> QED BY <1>1, <1>2, OthersQueueInv, HaltInv, MainInv DEF Next, MainEnds

LEMMA InvAlways == SafetySpec => []Inv
BY InvInit, InvNext, PTL DEF SafetySpec

-----------------------------------------------------------------------------
\* Every reachable state has the types of TypeOK: the queue never holds more than
\* its depth, and a turn takes one item more than its limit at most
\* (loggingThread.c:200).
THEOREM TypeCorrect == Spec => []TypeOK
<1>1. Inv => TypeOK
    <2> SUFFICES ASSUME Inv PROVE TypeOK
        OBVIOUS
    <2>1. /\ DOMAIN queued = 1 .. Len(queued) /\ Len(queued) \in Nat
          /\ logItem \in 0 .. Len(queued) /\ Len(queue) \in Nat
        BY DEF Inv, QueueInv
    <2>2. queue \in Seq(DOMAIN queued)
        <3>1. \A i \in 1 .. Len(queue) : queue[i] \in DOMAIN queued
            BY <2>1 DEF Inv, QueueInv
        <3> QED BY <3>1, SeqOfElements DEF Inv, QueueInv
    <2>3. file \in Seq(DOMAIN queued)
        <3>1. \A i \in 1 .. Len(file) : file[i] \in DOMAIN queued
            BY <2>1 DEF Inv, FileInv
        <3> QED BY <3>1, SeqOfElements DEF Inv, FileInv
    <2>4. prevLogItem \in ItemKeys \cup {"none"} /\ torn \subseteq DOMAIN queued
        BY <2>1 DEF Inv, QueueInv, FilterInv, FileInv
    <2> QED BY <2>1, <2>2, <2>3, <2>4 DEF Inv, QueueInv, ControlInv, TypeOK
<1> QED BY <1>1, InvAlways, PTL DEF Spec

\* The filter of repeated items (loggingThread.c:163) drops nothing but an item
\* equal to the one queued just before it.
THEOREM RepeatsOnly == Spec => []OnlyRepeatsAreDropped
<1>1. Inv => OnlyRepeatsAreDropped
    BY DEF Inv, FilterInv
<1> QED BY <1>1, InvAlways, PTL DEF Spec

(***************************************************************************)
(* Refinement of LossyFifo: queueing an item sends it, a whole frame       *)
(* delivers it, and no other step concerns the two ends.                   *)
(***************************************************************************)
LEMMA LastTyped == Inv => LastInFile \in 0 .. logItem
BY EmptySeq DEF Inv, QueueInv, FileInv, LastInFile

LEMMA QueueItemSends ==
    ASSUME Inv, NEW key, QueueItem(key), UNCHANGED file
    PROVE  Log!Send
BY DEF Inv, QueueInv, QueueItem, LastInFile, Log!Send

LEMMA WriteItemDelivers ==
    ASSUME Inv, WriteItem
    PROVE  [Log!Next]_(Log!vars)
<1>1. CASE file' = Append(file, logItem)
    <2>1. logPc = "write" /\ Len(queued') = Len(queued)
        BY DEF WriteItem
    <2>2. Len(queue) \in Nat /\ Len(queued) = logItem + Len(queue)
        BY DEF Inv, QueueInv
    <2>3. /\ logItem \in 1 .. Len(queued)
          /\ \A i \in 1 .. Len(file) : file[i] < logItem
        BY <2>1, <2>2 DEF Inv, QueueInv, FileInv
    <2>4. LastInFile' = logItem
        BY <1>1, <2>3, AppendProperties DEF Inv, FileInv, LastInFile
    <2>5. LastInFile \in Nat /\ LastInFile < logItem
        BY <2>3, EmptySeq DEF Inv, FileInv, LastInFile
    <2> QED BY <2>1, <2>3, <2>4, <2>5 DEF Log!Next, Log!Deliver
<1>2. CASE UNCHANGED file
    BY <1>2 DEF WriteItem, LastInFile, Log!vars
<1> QED BY <1>1, <1>2 DEF WriteItem

\* The file holds items in the order in which they were queued, none twice:
\* whatever is dropped or torn on the way, every step of the log is a step of
\* LossyFifo or leaves both its ends alone.
THEOREM LogInOrder == Spec => ImplementsLog
<1>1. Init => Log!Init
    BY DEF Init, Log!Init, LastInFile
<1>2. Inv /\ [Next]_vars => [Log!Next]_(Log!vars)
    <2> SUFFICES ASSUME Inv, [Next]_vars PROVE [Log!Next]_(Log!vars)
        OBVIOUS
    <2>1. CASE WriteItem
        BY <2>1, WriteItemDelivers
    <2>2. ASSUME NEW key, QueueItem(key), UNCHANGED file PROVE [Log!Next]_(Log!vars)
        BY <2>2, QueueItemSends DEF Log!Next
    <2>3. CASE UNCHANGED <<queued, file>>
        BY <2>3 DEF LastInFile, Log!vars
    <2>4. CASE LoggerStep /\ ~WriteItem
        BY <2>2, <2>3, <2>4
           DEF LoggerStep, StartLogger, OpenFile, SeeExit, LoggerQueues, NoItem, Dequeue,
               ReportFailure, Wake
    <2>5. CASE OthersQueue \/ Leave \/ MainEnds
        BY <2>2, <2>3, <2>5
           DEF OthersQueue, Leave, MainEnds, Halt, KillLogger, Join, loggerVars
    <2> QED BY <2>1, <2>3, <2>4, <2>5 DEF Next, vars, loggerVars
<1> QED BY <1>1, <1>2, InvAlways, PTL DEF Spec, SafetySpec, ImplementsLog, Log!Spec
-----------------------------------------------------------------------------
(* The last word of main: once the logger has seen that it has to exit, it *)
(* has taken, or is about to take, an item more than when it was told.     *)

Halteds == {n \in 1 .. Len(queued) : queued[n] = HALTED}

\* LOG_SYSTEM_HALTED is queued once, before the wait.
QueuedOnce ==
    /\ \A m, n \in Halteds : m = n
    /\ Halteds # {} <=> mainPc \in {"wait", "join", "done"}

\* The order of the steps of main: until its wait is over, after a Ctrl-C, the
\* logger has not been told to exit.
EndInv ==
    /\ mainPc = "run" <=> exit = "none"
    /\ exit # "terminate_all" /\ mainPc \in {"run", "halt", "wait"} => aliveFlag = 1
    /\ exitFlag = 0 => aliveFlag = 0

\* What the logger does once it has seen the exit: its own event is in the
\* queue until it has taken one more item.
LeavingInv ==
    /\ takenAtKill \in Nat /\ takenAtKill <= logItem
    /\ logPc = "exiting" => exitFlag = 0 /\ Len(queue) > 0
    /\ exitFlag = 0 =>
           /\ logPc \in {"exiting", "write", "write_failed", "pause", "exited"}
           /\ logPc # "exiting" /\ exit = "sigint" => logItem > takenAtKill

EndingInv == QueuedOnce /\ EndInv /\ LeavingInv

LEMMA EndingInit == Init => EndingInv
BY DEF Init, EndingInv, QueuedOnce, EndInv, LeavingInv, Halteds

\* An item with another key does not touch LOG_SYSTEM_HALTED.
LEMMA HaltedsKept ==
    ASSUME Inv, NEW key \in ItemKeys, key # HALTED, QueueItem(key)
    PROVE  Halteds' = Halteds
<1>1. /\ queued \in Seq(ItemKeys) /\ queued' = Append(queued, key)
    BY DEF Inv, QueueInv, QueueItem
<1>2. /\ Len(queued) \in Nat /\ Len(queued') = Len(queued) + 1
      /\ \A i \in 1 .. Len(queued) : queued'[i] = queued[i]
      /\ queued'[Len(queued) + 1] = key
    BY <1>1, AppendProperties
<1> QED BY <1>2 DEF Halteds

LEMMA UnqueuedKept == UNCHANGED queued => Halteds' = Halteds
BY DEF Halteds

LEMMA Longer ==
    ASSUME Inv, NEW key, QueueItem(key)
    PROVE  Len(queue') = Len(queue) + 1 /\ Len(queue) \in Nat
BY AppendProperties, LenProperties DEF Inv, QueueInv, QueueItem

LEMMA OtherKeys == Keys \subseteq ItemKeys /\ HALTED \notin Keys /\ HALTED \in ItemKeys
BY DEF ItemKeys, OnceKeys

LEMMA OthersQueueEnding == Inv /\ EndingInv /\ OthersQueue => EndingInv'
<1> SUFFICES ASSUME Inv, EndingInv, OthersQueue PROVE EndingInv'
    OBVIOUS
<1>1. PICK key \in Keys : QueueItem(key)
    BY DEF OthersQueue
<1>2. Halteds' = Halteds
    BY <1>1, HaltedsKept, OtherKeys
<1>3. Len(queue') = Len(queue) + 1 /\ Len(queue) \in Nat
    BY <1>1, Longer
<1> QED BY <1>2, <1>3 DEF OthersQueue, loggerVars, mainVars, EndingInv, QueuedOnce,
                          EndInv, LeavingInv

\* An event of the logger's own, at a place where it has not seen the exit, or
\* after a write.
LEMMA LoggerQueuesEnding ==
    ASSUME Inv, EndingInv, NEW from \in LogLabels \ {"exiting"},
           NEW key \in ItemKeys \ {HALTED}, NEW to \in LogLabels \ {"exiting"},
           LoggerQueues(from, key, to), UNCHANGED exitFlag,
           exitFlag = 0 => to \in {"pause", "exited"}
    PROVE  EndingInv'
<1>1. QueueItem(key) /\ logPc = from /\ logPc' = to /\ UNCHANGED <<logItem, mainVars>>
    BY DEF LoggerQueues
<1>2. Halteds' = Halteds
    BY <1>1, HaltedsKept
<1> QED BY <1>1, <1>2 DEF mainVars, EndingInv, QueuedOnce, EndInv, LeavingInv

LEMMA StartLoggerEnding == Inv /\ EndingInv /\ StartLogger => EndingInv'
<1> SUFFICES ASSUME Inv, EndingInv, StartLogger PROVE EndingInv'
    OBVIOUS
<1>1. {"started", "shmem_error", "open_error", "file_open", "bist_complete"}
        \subseteq ItemKeys \ {HALTED}
    BY DEF ItemKeys, OnceKeys, HALTED
<1>2. logPc \in {"start", "no_queue", "open_failed", "opened", "bist"} /\ UNCHANGED exitFlag
    BY DEF StartLogger, LoggerQueues
<1>3. exitFlag # 0
    BY <1>2 DEF EndingInv, LeavingInv
<1> QED BY <1>1, <1>2, <1>3, LoggerQueuesEnding DEF StartLogger, LogLabels

LEMMA ReportFailureEnding == Inv /\ EndingInv /\ ReportFailure => EndingInv'
<1> SUFFICES ASSUME Inv, EndingInv, ReportFailure PROVE EndingInv'
    OBVIOUS
<1>1. PICK key \in Keys : LoggerQueues("write_failed", key, AfterItem)
    BY DEF ReportFailure
<1>2. /\ AfterItem \in LogLabels \ {"exiting"} /\ UNCHANGED exitFlag
      /\ exitFlag = 0 => AfterItem \in {"pause", "exited"}
    BY DEF ReportFailure, AfterItem, LogLabels
<1>3. key \in ItemKeys \ {HALTED} /\ "write_failed" \in LogLabels \ {"exiting"}
    BY OtherKeys DEF LogLabels
<1> QED BY <1>1, <1>2, <1>3, LoggerQueuesEnding

\* The logger sees the exit: its event is behind what was in the queue.
LEMMA SeeExitEnding == Inv /\ EndingInv /\ SeeExit => EndingInv'
<1> SUFFICES ASSUME Inv, EndingInv, SeeExit PROVE EndingInv'
    OBVIOUS
<1>1. /\ QueueItem("exiting") /\ logPc' = "exiting" /\ exitFlag' = 0 /\ aliveFlag = 0
      /\ UNCHANGED <<logItem, mainVars>>
    BY DEF SeeExit, LoggerQueues
<1>2. "exiting" \in ItemKeys /\ "exiting" # HALTED
    BY DEF ItemKeys, OnceKeys, HALTED
<1>3. Halteds' = Halteds
    BY <1>1, <1>2, HaltedsKept
<1>4. Len(queue') > 0
    BY <1>1, Longer
<1> QED BY <1>1, <1>3, <1>4 DEF mainVars, EndingInv, QueuedOnce, EndInv, LeavingInv

\* After it, it takes one more item, which is there.
LEMMA DequeueEnding == Inv /\ EndingInv /\ Dequeue => EndingInv'
<1> SUFFICES ASSUME Inv, EndingInv, Dequeue PROVE EndingInv'
    OBVIOUS
<1>1. /\ UNCHANGED <<mainVars, exitFlag, queued>>
      /\ logPc' = "write" \/ logPc' = AfterItem
      /\ logPc \in {"exiting", "dequeue"}
    BY DEF Dequeue, MayDequeue
<1>2. logItem' = logItem + 1
    <2>1. logItem' = queue[1] /\ Len(queue) \in Nat /\ Len(queue) # 0
        BY EmptySeq, LenProperties DEF Dequeue, Inv, QueueInv
    <2> QED BY <2>1 DEF Inv, QueueInv
<1>3. logPc' # "exiting" /\ (exitFlag = 0 => logPc' \in {"write", "pause"})
    BY <1>1 DEF AfterItem
<1>4. QueuedOnce' /\ EndInv'
    BY <1>1, UnqueuedKept DEF mainVars, EndingInv, QueuedOnce, EndInv
<1>5. LeavingInv'
    BY <1>1, <1>2, <1>3 DEF mainVars, EndingInv, LeavingInv, Inv, QueueInv
<1> QED BY <1>4, <1>5 DEF EndingInv

\* The logger moves on, and takes nothing.
LEMMA MovesEnding ==
    Inv /\ EndingInv /\ (OpenFile \/ NoItem \/ WriteItem \/ Wake) => EndingInv'
<1> SUFFICES ASSUME Inv, EndingInv, OpenFile \/ NoItem \/ WriteItem \/ Wake
             PROVE  EndingInv'
    OBVIOUS
<1>1. /\ UNCHANGED <<mainVars, exitFlag, queue, queued, logItem>>
      /\ logPc' # "exiting"
      /\ exitFlag = 0 => logPc' \in {"write_failed", "pause", "exited"}
    <2>1. CASE OpenFile
        BY <2>1 DEF OpenFile, EndingInv, LeavingInv
    <2>2. CASE NoItem
        BY <2>2 DEF NoItem
    <2>3. CASE WriteItem
        BY <2>3 DEF WriteItem, AfterItem
    <2>4. CASE Wake
        BY <2>4 DEF Wake
    <2> QED BY <2>1, <2>2, <2>3, <2>4
<1>2. logPc # "exiting"
    <2>1. ~NoItem => logPc # "exiting"
        BY DEF OpenFile, WriteItem, Wake
    <2>2. NoItem => logPc # "exiting"
        BY EmptySeq DEF NoItem, EndingInv, LeavingInv
    <2> QED BY <2>1, <2>2
<1>3. QueuedOnce' /\ EndInv'
    BY <1>1, UnqueuedKept DEF mainVars, EndingInv, QueuedOnce, EndInv
<1>4. LeavingInv'
    BY <1>1, <1>2 DEF mainVars, EndingInv, LeavingInv
<1> QED BY <1>3, <1>4 DEF EndingInv

LEMMA LeaveEnding == Inv /\ EndingInv /\ Leave => EndingInv'
<1> SUFFICES ASSUME Inv, EndingInv, Leave PROVE EndingInv'
    OBVIOUS
<1>1. exitFlag = 1
    BY DEF Leave, EndingInv, EndInv, Inv, ControlInv
<1>2. Halteds' = Halteds
    BY UnqueuedKept DEF Leave
<1> QED BY <1>1, <1>2 DEF Leave, loggerVars, EndingInv, QueuedOnce, EndInv, LeavingInv

LEMMA HaltEnding == Inv /\ EndingInv /\ Halt => EndingInv'
<1> SUFFICES ASSUME Inv, EndingInv, Halt PROVE EndingInv'
    OBVIOUS
<1>1. /\ mainPc = "halt" /\ mainPc' = "wait" /\ QueueItem(HALTED)
      /\ UNCHANGED <<loggerVars, logItem, exit, aliveFlag, takenAtKill>>
    BY DEF Halt
<1>2. Halteds' = {Len(queued) + 1}
    <2>1. /\ queued \in Seq(ItemKeys) /\ queued' = Append(queued, HALTED)
        BY <1>1 DEF Inv, QueueInv, QueueItem
    <2>2. /\ Len(queued) \in Nat /\ Len(queued') = Len(queued) + 1
          /\ \A i \in 1 .. Len(queued) : queued'[i] = queued[i]
          /\ queued'[Len(queued) + 1] = HALTED
        BY <2>1, AppendProperties, LenProperties, OtherKeys
    <2>3. \A i \in 1 .. Len(queued) : queued[i] # HALTED
        BY <1>1 DEF EndingInv, QueuedOnce, Halteds
    <2> QED BY <2>2, <2>3 DEF Halteds
<1>3. Len(queue') = Len(queue) + 1 /\ Len(queue) \in Nat
    BY <1>1, Longer
<1> QED BY <1>1, <1>2, <1>3 DEF loggerVars, EndingInv, QueuedOnce, EndInv, LeavingInv

\* The wait is over: a logger that main tells to exit has not seen it before.
LEMMA KillLoggerEnding == Inv /\ EndingInv /\ KillLogger => EndingInv'
<1> SUFFICES ASSUME Inv, EndingInv, KillLogger PROVE EndingInv'
    OBVIOUS
<1>1. /\ mainPc = "wait" /\ mainPc' = "join" /\ aliveFlag' = 0 /\ takenAtKill' = logItem
      /\ UNCHANGED <<queue, queued, logItem, loggerVars, exit>>
    BY DEF KillLogger, SignalLogger
<1>2. exit = "sigint" => exitFlag = 1
    BY <1>1 DEF EndingInv, EndInv, Inv, ControlInv
<1>3. QueuedOnce' /\ EndInv'
    BY <1>1, UnqueuedKept DEF loggerVars, EndingInv, QueuedOnce, EndInv
<1>4. LeavingInv'
    BY <1>1, <1>2 DEF loggerVars, EndingInv, LeavingInv, Inv, QueueInv
<1> QED BY <1>3, <1>4 DEF EndingInv

LEMMA JoinEnding == Inv /\ EndingInv /\ Join => EndingInv'
<1> SUFFICES ASSUME Inv, EndingInv, Join PROVE EndingInv'
    OBVIOUS
<1>1. Halteds' = Halteds
    BY UnqueuedKept DEF Join
<1> QED BY <1>1 DEF Join, loggerVars, EndingInv, QueuedOnce, EndInv, LeavingInv

LEMMA StutterEnding == Inv /\ EndingInv /\ UNCHANGED vars => EndingInv'
<1> SUFFICES ASSUME Inv, EndingInv, UNCHANGED vars PROVE EndingInv'
    OBVIOUS
<1>1. Halteds' = Halteds
    BY UnqueuedKept DEF vars
<1> QED BY <1>1 DEF vars, loggerVars, mainVars, EndingInv, QueuedOnce, EndInv, LeavingInv

\* After a Ctrl-C "system halted" is written before the logger returns, if the
\* logger had taken it, or had it next in the queue, when main's wait was over
\* (main.c:377): whatever the depth of the queue, the limit of a turn, the items
\* that others go on queueing and the writes that fail.
THEOREM LastWordLogged == Spec => []HaltedIsLogged
<1>1. Inv /\ EndingInv /\ [Next]_vars => EndingInv'
    <2>1. Inv /\ EndingInv /\ LoggerStep => EndingInv'
        BY StartLoggerEnding, SeeExitEnding, DequeueEnding, MovesEnding,
           ReportFailureEnding DEF LoggerStep
    <2> QED BY <2>1, OthersQueueEnding, LeaveEnding, HaltEnding, KillLoggerEnding,
               JoinEnding, StutterEnding DEF Next, MainEnds
<1>2. Inv /\ EndingInv => HaltedIsLogged
    <2> SUFFICES ASSUME Inv, EndingInv, exit = "sigint", logPc = "exited", exitFlag = 0
                 PROVE  \E n \in DOMAIN queued :
                            queued[n] = HALTED /\ (n <= takenAtKill + 1 => Written(n))
        BY DEF HaltedIsLogged
    <2>1. mainPc \in {"join", "done"} /\ takenAtKill + 1 <= logItem
        BY DEF EndingInv, EndInv, LeavingInv, Inv, ControlInv, QueueInv
    <2>2. PICK n \in Halteds : TRUE
        BY <2>1 DEF EndingInv, QueuedOnce
    <2>3. /\ n \in 1 .. Len(queued) /\ queued[n] = HALTED
          /\ Len(queued) \in Nat /\ DOMAIN queued = 1 .. Len(queued)
        BY <2>2 DEF Halteds, Inv, QueueInv
    <2>4. ~(n > 1 /\ queued[n] = queued[n - 1])
        <3> SUFFICES ASSUME n > 1, queued[n] = queued[n - 1] PROVE FALSE
            OBVIOUS
        <3>1. n - 1 \in 1 .. Len(queued) /\ n - 1 # n
            BY <2>3
        <3>2. n - 1 \in Halteds
            BY <2>3, <3>1 DEF Halteds
        <3> QED BY <2>2, <3>1, <3>2 DEF EndingInv, QueuedOnce
    <2>5. n <= takenAtKill + 1 => n \in 1 .. logItem
        BY <2>1, <2>3 DEF EndingInv, LeavingInv, Inv, QueueInv
    <2>6. n <= takenAtKill + 1 => Written(n)
        BY <2>4, <2>5 DEF Inv, FilterInv, OnlyRepeatsAreDropped
    <2> QED BY <2>3, <2>6
<1> QED BY <1>1, <1>2, EndingInit, InvAlways, PTL DEF Spec, SafetySpec
================================================================================

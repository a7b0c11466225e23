---------------------------- MODULE HealthMonitor ----------------------------
(***************************************************************************)
(* The heartbeats of the BBG control node and what main does with them     *)
(* (bbg/src/healthMonitor.c), together with the shutdown of the node       *)
(* (bbg/src/main.c: sigintHandler and the end of main).                    *)
(*                                                                         *)
(* Every child thread queues status messages for main; remoteStatusThread  *)
(* also forwards those of the remote node's tasks.  Once per pass of its   *)
(* loop main drains the queue, acts on reported errors, and counts, for    *)
(* each process it expects to hear of, the passes without a message.       *)
(***************************************************************************)
EXTENDS Naturals, Sequences

CONSTANTS
    NumThreads,       \* NUM_THREADS: the children have pids 0..NumThreads-1
    StatusPid,        \* PID_REMOTE_STATUS
    RemotePids,       \* processes of the remote node that report
    RemoteStatus,     \* the statuses that arrive from the remote node
    StartFailures,    \* children that may fail to start (log file, ports)
    QueueDepth,       \* STATUS_MSG_QUEUE_DEPTH
    ProcessLimit,     \* STATUS_MSG_PROCESS_LIMIT
    MissingCount,     \* THREAD_MISSING_COUNT
    PerPass,          \* bound: messages a child queues in one pass of main
    GapLimit          \* bound: the history variable `gap' stops counting here

PID_LOGGING == 0
Children == 0 .. NumThreads - 1
Monitored == Children \cup RemotePids

\* STATUS_OK, and STATUS_ERROR with an error code of each class the arbiters
\* tell apart ("other": a code of none of the classes)
Statuses == {"ok", "none", "notify", "term_thread", "term_all", "other"}

ASSUME ConstantsAssumption ==
    /\ NumThreads \in Nat \ {0}
    /\ StatusPid \in Children \ {PID_LOGGING}
    /\ RemotePids \subseteq Nat /\ RemotePids \cap Children = {}
    /\ RemoteStatus \subseteq Statuses
    /\ StartFailures \subseteq Children
    /\ QueueDepth \in Nat \ {0}
    /\ ProcessLimit \in Nat /\ MissingCount \in Nat
    /\ PerPass \in Nat \ {0}
    /\ GapLimit \in Nat /\ MissingCount <= GapLimit

\* A pass handles as many messages as the queue holds: 36 and 102 in the code.
ASSUME LimitAssumption == QueueDepth <= ProcessLimit + 1

Packets == [processId : Monitored, status : Statuses]

VARIABLES
    hbQueue,              \* heartbeatMsgQueue
    missingFlag,          \* no message in this pass, for each process
    threadMissingCount,   \* passes without a message, for each process
    msgCount,             \* messages handled in this pass
    mainPc,               \* where main is
    gExit,                \* 0 once main has to leave its loop
    joined,               \* children main has joined
    aliveFlag,            \* of each child; its signal handler clears it
    childPc,              \* where each child is
    sent,                 \* messages of each child in this pass (bound only)
    connected,            \* has remoteStatusThread a client?
    blamed,               \* processes reported unresponsive by the last pass
    late,                 \* history: processes that queued during this drain
    gap                   \* history: passes since the last message was queued

mainVars == <<missingFlag, threadMissingCount, msgCount, mainPc, joined, blamed>>
queueVars == <<hbQueue, late, gap>>
vars == <<queueVars, mainVars, gExit, aliveFlag, childPc, sent, connected>>

MainLabels == {"top", "drain", "check", "halt", "join", "done", "killed"}
ChildLabels == {"start", "report", "wait", "exited"}

TypeOK ==
    /\ hbQueue \in Seq(Packets) /\ Len(hbQueue) <= QueueDepth
    /\ missingFlag \in [Monitored -> 0..1]
    /\ threadMissingCount \in [Monitored -> 0 .. MissingCount]
    /\ msgCount \in 0 .. ProcessLimit + 1
    /\ mainPc \in MainLabels
    /\ gExit \in 0..1
    /\ joined \in 0 .. NumThreads
    /\ aliveFlag \in [Children -> 0..1]
    /\ childPc \in [Children -> ChildLabels]
    /\ sent \in [Children -> 0 .. PerPass]
    /\ connected \in BOOLEAN
    /\ blamed \subseteq Monitored
    /\ late \subseteq Monitored
    /\ gap \in [Monitored -> 0 .. GapLimit]

Init ==
    /\ hbQueue = <<>>
    /\ missingFlag = [p \in Monitored |-> 0]
    /\ threadMissingCount = [p \in Monitored |-> 0]
    /\ msgCount = 0
    /\ mainPc = "top"
    /\ gExit = 1
    /\ joined = 0
    /\ aliveFlag = [c \in Children |-> 1]
    /\ childPc = [c \in Children |-> "start"]
    /\ sent = [c \in Children |-> 0]
    /\ connected = FALSE
    /\ blamed = {}
    /\ late = {}
    /\ gap = [p \in Monitored |-> 0]

-----------------------------------------------------------------------------
(* The senders.  The logger's queue descriptor does not block, those of    *)
(* the other children do.                                                  *)

QueueFull == Len(hbQueue) = QueueDepth

\* mq_send by child c, in SEND_STATUS_MSG
Send(c, p, status) ==
    IF ~QueueFull
    THEN /\ hbQueue' = Append(hbQueue, [processId |-> p, status |-> status])
         /\ IF mainPc = "drain"
            THEN late' = late \cup {p} /\ UNCHANGED gap
            ELSE gap' = [gap EXCEPT ![p] = 0] /\ UNCHANGED late
    ELSE /\ c = PID_LOGGING
         /\ UNCHANGED queueVars

GoTo(c, label) == childPc' = [childPc EXCEPT ![c] = label]

\* The thread opens its queues, log file or server socket.  Only the logger
\* says that it failed, and only if it was the log file: when main has not yet
\* created the heartbeat queue (it creates the logger first) it just returns.
StartChild(c) ==
    /\ childPc[c] = "start"
    /\ \/ GoTo(c, "wait") /\ UNCHANGED queueVars
       \/ /\ c \in StartFailures
          /\ GoTo(c, "exited")
          /\ \/ c = PID_LOGGING /\ Send(c, c, "term_all")
             \/ UNCHANGED queueVars
    /\ UNCHANGED <<mainVars, gExit, aliveFlag, sent, connected>>

\* while(aliveFlag): the loops wait for their timer, at most PerPass times in
\* one pass of main's slower loop.
Loop(c) ==
    /\ childPc[c] = "wait"
    /\ IF aliveFlag[c] = 1
       THEN /\ sent[c] < PerPass
            /\ sent' = [sent EXCEPT ![c] = @ + 1]
            /\ GoTo(c, "report")
       ELSE GoTo(c, "exited") /\ UNCHANGED sent
    /\ UNCHANGED <<queueVars, mainVars, gExit, aliveFlag, connected>>

\* remoteStatusThread sends nothing of its own before it has a client: its
\* `continue' after accept skips the rest of the loop.
MaySend(c) == c = StatusPid => connected

\* The logger also reports an error of its queue or of its file.
Report(c) ==
    /\ childPc[c] = "report"
    /\ IF MaySend(c)
       THEN \E status \in IF c = PID_LOGGING THEN {"ok", "notify"} ELSE {"ok"} :
               Send(c, c, status)
       ELSE UNCHANGED queueVars
    /\ GoTo(c, "wait")
    /\ UNCHANGED <<mainVars, gExit, aliveFlag, sent, connected>>

\* remoteStatusThread passes a packet of the remote node on; its own message
\* is not due in that turn of its loop.
Forward ==
    /\ childPc[StatusPid] = "report"
    /\ connected
    /\ \E p \in RemotePids, status \in RemoteStatus : Send(StatusPid, p, status)
    /\ GoTo(StatusPid, "wait")
    /\ UNCHANGED <<mainVars, gExit, aliveFlag, sent, connected>>

\* The client of remoteStatusThread connects, or its connection is lost.
Connection ==
    /\ connected' = ~connected
    /\ UNCHANGED <<queueVars, mainVars, gExit, aliveFlag, childPc, sent>>

Child(c) == StartChild(c) \/ Loop(c) \/ Report(c)

-----------------------------------------------------------------------------
(* monitorHealth, one pass of main's loop.                                 *)

\* [mutant] the missing flags are not set before the queue is read
KeepFlags == UNCHANGED missingFlag

\* every process is missing until a message of it is read
SetFlags == missingFlag' = [p \in Monitored |-> 1]

StartPass ==
    /\ mainPc = "top"
    /\ gExit = 1
    /\ SetFlags
    /\ msgCount' = 0
    /\ sent' = [c \in Children |-> 0]
    /\ mainPc' = "drain"
    /\ UNCHANGED <<queueVars, threadMissingCount, gExit, joined, aliveFlag,
                   childPc, connected, blamed>>

\* [mutant] an error code of no class is not acted on
ArbitrateNoDefault(status) ==
    CASE status = "notify" -> "notify_user_only"
      [] status = "term_thread" -> "terminate_thread"
      [] status = "term_all" -> "terminate_all"
      [] OTHER -> "none"

\* callArbitor: the arbiters of the three groups of processes decide alike
Arbitrate(status) ==
    CASE status \in {"ok", "none"} -> "none"
      [] status = "notify" -> "notify_user_only"
      [] status = "term_thread" -> "terminate_thread"
      [] OTHER -> "terminate_all"

\* threadKiller(PID_END)
KilledByAll == 0 .. NumThreads - 2

\* processAction: signals to the process, which Linux delivers to main since
\* main does not block them; a signal no handler is set for ends the process.
ProcessAction(p, action) ==
    /\ gExit' = IF action = "terminate_all" THEN 0 ELSE gExit
    /\ aliveFlag' = [c \in Children |->
            IF \/ action = "terminate_all" /\ c \in KilledByAll
               \/ action = "terminate_thread" /\ c = p
            THEN 0 ELSE aliveFlag[c]]

EndsProcess(p, action) == action = "terminate_thread" /\ p \notin Children

\* [mutant] no limit on the messages of a pass
AfterMessageNoLimit == IF gExit' = 0 THEN "top" ELSE "drain"

\* where the loop over the messages goes after one of them
AfterMessage ==
    IF msgCount' > ProcessLimit THEN "check"
    ELSE IF gExit' = 0 THEN "top" ELSE "drain"

\* [mutant] a message leaves the count of its process as it is
KeepMissing(p) == UNCHANGED threadMissingCount

ClearMissing(p) ==
    threadMissingCount' = [threadMissingCount EXCEPT ![p] = 0]

Receive ==
    /\ mainPc = "drain"
    /\ hbQueue # <<>>
    /\ LET p == Head(hbQueue).processId
           action == Arbitrate(Head(hbQueue).status)
       IN /\ missingFlag' = [missingFlag EXCEPT ![p] = 0]
          /\ ClearMissing(p)
          /\ ProcessAction(p, action)
          /\ msgCount' = msgCount + 1
          /\ mainPc' = IF EndsProcess(p, action) THEN "killed" ELSE AfterMessage
    /\ hbQueue' = Tail(hbQueue)
    /\ UNCHANGED <<joined, childPc, sent, connected, blamed, late, gap>>

\* getStatusMsg finds the queue empty
Drained ==
    /\ mainPc = "drain"
    /\ hbQueue = <<>>
    /\ mainPc' = IF gExit = 0 THEN "top" ELSE "check"
    /\ UNCHANGED <<queueVars, missingFlag, threadMissingCount, msgCount, joined,
                   blamed, gExit, aliveFlag, childPc, sent, connected>>

\* The timeout of an unresponsive process is an error of class "notify": it is
\* logged, and nothing is done about the process.
Check ==
    /\ mainPc = "check"
    /\ blamed' = {p \in Monitored : threadMissingCount[p] >= MissingCount}
    /\ threadMissingCount' = [p \in Monitored |->
            IF p \in blamed' THEN MissingCount
            ELSE threadMissingCount[p] + missingFlag[p]]
    /\ gap' = [p \in Monitored |->
            IF p \in late THEN 0
            ELSE IF gap[p] < GapLimit THEN gap[p] + 1 ELSE gap[p]]
    /\ late' = {}
    /\ missingFlag' = [p \in Monitored |-> 0] /\ msgCount' = 0   \* its locals
    /\ mainPc' = "top"
    /\ UNCHANGED <<hbQueue, joined, gExit, aliveFlag, childPc, sent, connected>>

-----------------------------------------------------------------------------
(* Shutdown.                                                               *)

\* [mutant] the handler forgets the last child
SignalledButOne == Children \ {PID_LOGGING, NumThreads - 1}

SignalledByCtrlC == Children \ {PID_LOGGING}

\* sigintHandler, while main is in its loop.  pthread_kill interrupts a child
\* that is blocked in mq_send, which then gives up its message; one that has
\* tested aliveFlag but has not come to mq_send yet goes on and blocks there.
Sigint ==
    /\ mainPc \in {"top", "drain"}
    /\ gExit' = 0
    /\ aliveFlag' = [c \in Children |->
            IF c \in SignalledByCtrlC THEN 0 ELSE aliveFlag[c]]
    /\ \E interrupted \in SUBSET {c \in SignalledByCtrlC :
                                      childPc[c] = "report" /\ QueueFull} :
          childPc' = [c \in Children |->
                         IF c \in interrupted THEN "wait" ELSE childPc[c]]
    /\ UNCHANGED <<queueVars, mainVars, sent, connected>>

LeaveLoop ==
    /\ mainPc = "top"
    /\ gExit = 0
    /\ mainPc' = "halt"
    /\ UNCHANGED <<queueVars, missingFlag, threadMissingCount, msgCount, joined,
                   blamed, gExit, aliveFlag, childPc, sent, connected>>

\* the logger is told to exit last
KillLogger ==
    /\ mainPc = "halt"
    /\ aliveFlag' = [aliveFlag EXCEPT ![PID_LOGGING] = 0]
    /\ mainPc' = "join"
    /\ UNCHANGED <<queueVars, missingFlag, threadMissingCount, msgCount, joined,
                   blamed, gExit, childPc, sent, connected>>

\* pthread_join, child after child
Join ==
    /\ mainPc = "join"
    /\ IF joined < NumThreads
       THEN /\ childPc[joined] = "exited"
            /\ joined' = joined + 1
            /\ UNCHANGED mainPc
       ELSE mainPc' = "done" /\ UNCHANGED joined
    /\ UNCHANGED <<queueVars, missingFlag, threadMissingCount, msgCount, blamed,
                   gExit, aliveFlag, childPc, sent, connected>>

MainStep ==
    StartPass \/ Receive \/ Drained \/ Check \/ LeaveLoop \/ KillLogger \/ Join

\* The end of the process ends its threads.  Check touches nothing that other
\* threads read or write: no step of theirs need come between it and the drain.
OthersRun == mainPc \notin {"check", "done", "killed"}

Next ==
    \/ MainStep
    \/ OthersRun /\ \/ Sigint
                    \/ \E c \in Children : Child(c)
                    \/ Forward
                    \/ Connection

SafetySpec == Init /\ [][Next]_vars

\* Every thread is scheduled; signals and connections need not happen.
Fairness ==
    /\ WF_vars(MainStep)
    /\ \A c \in Children : WF_vars(OthersRun /\ Child(c))

Spec == SafetySpec /\ Fairness

-----------------------------------------------------------------------------
(* Properties.                                                             *)

\* A process is reported unresponsive only if it queued nothing from the start
\* of the drain MissingCount passes ago to the start of this one: the limit on
\* the messages handled in a pass never leaves such a message in the queue, and
\* the passes counted before it are not held against its sender.
BlameIsFair ==
    [][mainPc = "check" /\ mainPc' = "top" =>
            \A p \in blamed' : gap[p] >= MissingCount]_vars

\* A process that has queued nothing for MissingCount + 1 passes, nor in this
\* one, is reported, whatever the other processes send meanwhile.
SilenceIsNoticed ==
    [][mainPc = "check" /\ mainPc' = "top" =>
            \A p \in Monitored \ late : gap[p] >= MissingCount + 1 => p \in blamed']_vars

\* An error that asks for the end of the program is acted on, whatever other
\* messages are queued with it and however often the limit ends the drain.
FatalErrorsEnd ==
    (\E i \in 1 .. Len(hbQueue) : hbQueue[i].status \in {"term_all", "other"})
        ~> (gExit = 0 \/ mainPc = "killed")

\* A child that has returned is reported sooner or later, as long as main
\* stays in its loop.
DeadThreadIsNoticed ==
    \A c \in Children :
        childPc[c] = "exited" ~> (c \in blamed \/ gExit = 0 \/ mainPc = "killed")

\* A child has been told to exit, but waits for room in a queue that main has
\* stopped reading.
BlockedForEver ==
    /\ mainPc = "join" /\ QueueFull
    /\ \E c \in Children \ {PID_LOGGING} : aliveFlag[c] = 0 /\ childPc[c] = "report"

\* Once main has been told to exit, all children return, main joins them and
\* the program ends ("join to clean up children", main.c:388), unless one was
\* caught on its way to mq_send with the heartbeat queue full.
ShutdownCompletes ==
    gExit = 0 ~> (mainPc \in {"done", "killed"} \/ BlockedForEver)
=============================================================================

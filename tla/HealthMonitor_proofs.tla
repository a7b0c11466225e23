-------------------------- MODULE HealthMonitor_proofs --------------------------
(***************************************************************************)
(* Theorems about HealthMonitor, for any number of children and of remote  *)
(* processes, every depth and every missing count: its type invariant, and *)
(* that exactly those who were silent are reported.                        *)
(***************************************************************************)
EXTENDS HealthMonitor, SequenceTheorems, TLAPS

-----------------------------------------------------------------------------
(* The inductive invariant.                                                *)

InQueue(p) == \E i \in 1 .. Len(hbQueue) : hbQueue[i].processId = p

\* A message of p is queued that the limit still lets this pass handle.
WillBeRead(p) ==
    \E i \in 1 .. Len(hbQueue) :
        hbQueue[i].processId = p /\ msgCount + i <= ProcessLimit + 1

WasRead(p) == missingFlag[p] = 0 /\ threadMissingCount[p] = 0

\* The count of p differs from the passes it was silent, in either direction.
Ahead(p) == threadMissingCount[p] > gap[p]
Behind(p) == threadMissingCount[p] < MissingCount /\ threadMissingCount[p] + 1 < gap[p]

\* Before a pass a count is ahead only of a message in the queue, and all that
\* is there was queued since the last pass.
TopInv ==
    /\ late = {}
    /\ \A p \in Monitored :
           /\ Ahead(p) => InQueue(p)
           /\ InQueue(p) => gap[p] = 0
           /\ ~Behind(p)

\* During the drain such a message will be handled.
DrainInv ==
    /\ msgCount <= ProcessLimit
    /\ \A i \in 1 .. Len(hbQueue) :
           LET p == hbQueue[i].processId
           IN p \in late \/ (gap[p] = 0 /\ msgCount + i <= ProcessLimit + 1)
    /\ \A p \in Monitored :
           /\ Ahead(p) => WillBeRead(p)
           /\ p \in late => InQueue(p) \/ WasRead(p)
           /\ p \notin late => ~Behind(p)
           /\ p \notin late /\ missingFlag[p] = 0 => gap[p] = 0

\* After it, what is left in the queue came during the drain.
CheckInv ==
    \A p \in Monitored :
        /\ ~Ahead(p)
        /\ InQueue(p) => p \in late
        /\ p \in late => InQueue(p) \/ WasRead(p)
        /\ p \notin late => ~Behind(p)
        /\ p \notin late /\ missingFlag[p] = 0 => gap[p] = 0

CountInv ==
    /\ mainPc = "top" /\ gExit = 1 => TopInv
    /\ mainPc = "drain" => DrainInv
    /\ mainPc = "check" => CheckInv

Inv == TypeOK /\ CountInv

USE ConstantsAssumption, LimitAssumption

LEMMA InvInit == Init => Inv
<1> SUFFICES ASSUME Init PROVE Inv
    OBVIOUS
<1>1. TypeOK
    <2>1. hbQueue \in Seq(Packets) /\ Len(hbQueue) <= QueueDepth
        BY EmptySeq DEF Init
    <2>2. /\ missingFlag \in [Monitored -> 0..1]
          /\ threadMissingCount \in [Monitored -> 0 .. MissingCount]
          /\ gap \in [Monitored -> 0 .. GapLimit]
        BY DEF Init
    <2>3. /\ aliveFlag \in [Children -> 0..1] /\ childPc \in [Children -> ChildLabels]
          /\ sent \in [Children -> 0 .. PerPass]
        BY DEF Init, ChildLabels
    <2>4. /\ msgCount \in 0 .. ProcessLimit + 1 /\ gExit \in 0..1
          /\ joined \in 0 .. NumThreads
        BY DEF Init
    <2>5. mainPc \in MainLabels /\ blamed \subseteq Monitored /\ late \subseteq Monitored
        BY DEF Init, MainLabels
    <2>6. connected \in BOOLEAN
        BY Zenon DEF Init
    <2> QED BY <2>1, <2>2, <2>3, <2>4, <2>5, <2>6 DEF TypeOK
<1>2. CountInv
    BY DEF Init, CountInv, TopInv, Ahead, Behind, InQueue
<1> QED BY <1>1, <1>2 DEF Inv

-----------------------------------------------------------------------------
(* The senders.                                                            *)

\* What the queue is after a message has been appended.
LEMMA Appended ==
    ASSUME TypeOK, NEW p \in Monitored, NEW status \in Statuses,
           hbQueue' = Append(hbQueue, [processId |-> p, status |-> status])
    PROVE  /\ hbQueue' \in Seq(Packets) /\ Len(hbQueue') = Len(hbQueue) + 1
           /\ Len(hbQueue) \in Nat
           /\ \A i \in 1 .. Len(hbQueue) : hbQueue'[i] = hbQueue[i]
           /\ hbQueue'[Len(hbQueue) + 1].processId = p
<1>1. [processId |-> p, status |-> status] \in Packets /\ hbQueue \in Seq(Packets)
    BY DEF TypeOK, Packets
<1> QED BY <1>1, AppendProperties

\* Send keeps the types, and the invariant in the states in which children run.
LEMMA SendKeeps ==
    ASSUME Inv, mainPc # "check", NEW c, NEW p \in Monitored, NEW status \in Statuses,
           Send(c, p, status), UNCHANGED <<mainVars, gExit>>
    PROVE  /\ hbQueue' \in Seq(Packets) /\ Len(hbQueue') <= QueueDepth
           /\ late' \subseteq Monitored /\ gap' \in [Monitored -> 0 .. GapLimit]
           /\ CountInv'
<1>1. CASE UNCHANGED queueVars
    BY <1>1 DEF Inv, TypeOK, CountInv, TopInv, DrainInv, CheckInv, Ahead, Behind, InQueue,
                WillBeRead, WasRead, queueVars, mainVars
<1>2. CASE /\ ~QueueFull
           /\ hbQueue' = Append(hbQueue, [processId |-> p, status |-> status])
           /\ IF mainPc = "drain"
              THEN late' = late \cup {p} /\ UNCHANGED gap
              ELSE gap' = [gap EXCEPT ![p] = 0] /\ UNCHANGED late
    <2> DEFINE n == Len(hbQueue) + 1
    <2>1. /\ hbQueue' \in Seq(Packets) /\ Len(hbQueue') = n /\ Len(hbQueue) \in Nat
          /\ \A i \in 1 .. Len(hbQueue) : hbQueue'[i] = hbQueue[i]
          /\ hbQueue'[n].processId = p
        BY <1>2, Appended DEF Inv
    <2>2. Len(hbQueue') <= QueueDepth
        BY <1>2, <2>1 DEF Inv, TypeOK, QueueFull
    <2>3. late' \subseteq Monitored /\ gap' \in [Monitored -> 0 .. GapLimit]
        BY <1>2 DEF Inv, TypeOK
    <2>4. \A q \in Monitored : InQueue(q)' <=> InQueue(q) \/ q = p
        BY <2>1 DEF InQueue
    <2>5. UNCHANGED <<missingFlag, threadMissingCount, msgCount, mainPc, gExit>>
        BY DEF mainVars
    <2>6. CASE mainPc = "drain"
        <3>1. DrainInv
            BY <2>6 DEF Inv, CountInv
        <3>2. late' = late \cup {p} /\ UNCHANGED gap
            BY <1>2, <2>6
        <3>3. \A q \in Monitored : WillBeRead(q) => WillBeRead(q)'
            BY <2>1, <2>5 DEF WillBeRead
        <3>4. \A q \in Monitored : Ahead(q)' <=> Ahead(q)
            BY <2>5, <3>2 DEF Ahead
        <3>5. \A q \in Monitored : (Behind(q)' <=> Behind(q)) /\ (WasRead(q)' <=> WasRead(q))
            BY <2>5, <3>2 DEF Behind, WasRead
        <3>6. ASSUME NEW i \in 1 .. Len(hbQueue')
              PROVE  \/ hbQueue'[i].processId \in late'
                     \/ /\ gap'[hbQueue'[i].processId] = 0
                        /\ msgCount' + i <= ProcessLimit + 1
            <4>1. CASE i = n
                BY <2>1, <3>2, <4>1
            <4>2. CASE i \in 1 .. Len(hbQueue)
                BY <2>1, <2>5, <3>1, <3>2, <4>2 DEF DrainInv
            <4> QED BY <2>1, <4>1, <4>2
        <3>7. msgCount' <= ProcessLimit
            BY <2>5, <3>1 DEF DrainInv
        <3>8. ASSUME NEW q \in Monitored
              PROVE  /\ Ahead(q)' => WillBeRead(q)'
                     /\ q \in late' => InQueue(q)' \/ WasRead(q)'
                     /\ q \notin late' => ~Behind(q)'
                     /\ q \notin late' /\ missingFlag'[q] = 0 => gap'[q] = 0
            BY <2>4, <2>5, <3>1, <3>2, <3>3, <3>4, <3>5 DEF DrainInv
        <3> HIDE DEF n
        <3>9. DrainInv'
            BY <3>6, <3>7, <3>8 DEF DrainInv
        <3> QED BY <2>2, <2>1, <2>3, <2>5, <2>6, <3>9 DEF CountInv
    <2>7. CASE mainPc = "top" /\ gExit = 1
        <3>1. TopInv
            BY <2>7 DEF Inv, CountInv
        <3>2. gap' = [gap EXCEPT ![p] = 0] /\ UNCHANGED late
            BY <1>2, <2>7
        <3>3. ASSUME NEW q \in Monitored
              PROVE  /\ Ahead(q)' => InQueue(q)'
                     /\ InQueue(q)' => gap'[q] = 0
                     /\ ~Behind(q)'
            <4>1. CASE q = p
                <5>1. gap'[q] = 0
                    BY <3>2, <4>1 DEF Inv, TypeOK
                <5>2. InQueue(q)'
                    BY <2>4, <4>1
                <5> QED BY <2>5, <5>1, <5>2 DEF Behind, Inv, TypeOK
            <4>2. CASE q # p
                <5>1. gap'[q] = gap[q]
                    BY <3>2, <4>2 DEF Inv, TypeOK
                <5> QED BY <2>4, <2>5, <3>1, <4>2, <5>1 DEF TopInv, Ahead, Behind
            <4> QED BY <4>1, <4>2
        <3>4. TopInv'
            BY <3>1, <3>2, <3>3 DEF TopInv
        <3> QED BY <2>1, <2>2, <2>3, <2>5, <2>7, <3>4 DEF CountInv
    <2> QED BY <2>1, <2>2, <2>3, <2>5, <2>6, <2>7 DEF CountInv
<1> QED BY <1>1, <1>2 DEF Send

\* Main and the queue are left alone, but that main may be told to exit.
LEMMA QuietKeeps ==
    ASSUME CountInv, UNCHANGED <<queueVars, mainVars>>, gExit' = gExit \/ gExit' = 0
    PROVE  CountInv'
<1>1. UNCHANGED <<hbQueue, late, gap, missingFlag, threadMissingCount, msgCount, mainPc>>
    BY DEF queueVars, mainVars
<1>2. (TopInv => TopInv') /\ (DrainInv => DrainInv') /\ (CheckInv => CheckInv')
    BY <1>1 DEF TopInv, DrainInv, CheckInv, Ahead, Behind, InQueue, WillBeRead, WasRead
<1> QED BY <1>1, <1>2 DEF CountInv

LEMMA ChildInv == ASSUME NEW c \in Children, Inv, OthersRun, Child(c) PROVE Inv'
<1> USE DEF PID_LOGGING
<1>0. c \in Monitored /\ mainPc # "check" /\ PID_LOGGING \in Children
    BY DEF Monitored, OthersRun, Children
<1>1. CASE StartChild(c)
    <2>1. UNCHANGED <<mainVars, gExit, aliveFlag, sent, connected>>
        BY <1>1 DEF StartChild
    <2>2. childPc' \in [Children -> ChildLabels]
        BY <1>1 DEF StartChild, GoTo, Inv, TypeOK, ChildLabels
    <2>3. CASE UNCHANGED queueVars
        BY <2>1, <2>2, <2>3, QuietKeeps DEF Inv, TypeOK, queueVars, mainVars
    <2>4. CASE c = PID_LOGGING /\ Send(c, c, "term_all")
        <3>1. "term_all" \in Statuses
            BY DEF Statuses
        <3>2. /\ hbQueue' \in Seq(Packets) /\ Len(hbQueue') <= QueueDepth
              /\ late' \subseteq Monitored /\ gap' \in [Monitored -> 0 .. GapLimit]
              /\ CountInv'
            BY <1>0, <2>1, <2>4, <3>1, SendKeeps
        <3> QED BY <2>1, <2>2, <3>2 DEF Inv, TypeOK, mainVars
    <2> QED BY <1>1, <2>3, <2>4 DEF StartChild
<1>2. CASE Loop(c)
    <2>1. UNCHANGED <<queueVars, mainVars, gExit, aliveFlag, connected>>
        BY <1>2 DEF Loop
    <2>2. childPc' \in [Children -> ChildLabels]
        BY <1>2 DEF Loop, GoTo, Inv, TypeOK, ChildLabels
    <2>3. sent' \in [Children -> 0 .. PerPass]
        <3>1. CASE UNCHANGED sent
            BY <3>1 DEF Inv, TypeOK
        <3>2. CASE sent[c] < PerPass /\ sent' = [sent EXCEPT ![c] = @ + 1]
            BY <3>2 DEF Inv, TypeOK
        <3> QED BY <1>2, <3>1, <3>2 DEF Loop
    <2> QED BY <2>1, <2>2, <2>3, QuietKeeps DEF Inv, TypeOK, queueVars, mainVars
<1>3. CASE Report(c)
    <2>1. UNCHANGED <<mainVars, gExit, aliveFlag, sent, connected>>
        BY <1>3 DEF Report
    <2>2. childPc' \in [Children -> ChildLabels]
        BY <1>3 DEF Report, GoTo, Inv, TypeOK, ChildLabels
    <2>3. CASE UNCHANGED queueVars
        BY <2>1, <2>2, <2>3, QuietKeeps DEF Inv, TypeOK, queueVars, mainVars
    <2>4. CASE \E status \in {"ok", "notify"} : Send(c, c, status)
        <3>1. PICK status \in Statuses : Send(c, c, status)
            BY <2>4 DEF Statuses
        <3>2. /\ hbQueue' \in Seq(Packets) /\ Len(hbQueue') <= QueueDepth
              /\ late' \subseteq Monitored /\ gap' \in [Monitored -> 0 .. GapLimit]
              /\ CountInv'
            BY <1>0, <2>1, <3>1, SendKeeps
        <3> QED BY <2>1, <2>2, <3>2 DEF Inv, TypeOK, mainVars
    <2> QED BY <1>3, <2>3, <2>4 DEF Report
<1> QED BY <1>1, <1>2, <1>3 DEF Child

LEMMA ForwardInv == Inv /\ OthersRun /\ Forward => Inv'
<1> SUFFICES ASSUME Inv, OthersRun, Forward PROVE Inv'
    OBVIOUS
<1>1. PICK p \in RemotePids, status \in RemoteStatus : Send(StatusPid, p, status)
    BY DEF Forward
<1>2. p \in Monitored /\ status \in Statuses /\ mainPc # "check"
    BY DEF Monitored, OthersRun
<1>3. UNCHANGED <<mainVars, gExit, aliveFlag, sent, connected>>
    BY DEF Forward
<1>4. childPc' \in [Children -> ChildLabels]
    BY DEF Forward, GoTo, Inv, TypeOK, ChildLabels
<1>5. /\ hbQueue' \in Seq(Packets) /\ Len(hbQueue') <= QueueDepth
      /\ late' \subseteq Monitored /\ gap' \in [Monitored -> 0 .. GapLimit]
      /\ CountInv'
    BY <1>1, <1>2, <1>3, SendKeeps
<1> QED BY <1>3, <1>4, <1>5 DEF Inv, TypeOK, mainVars

\* The connection, and the actions of main and of the user that neither read the
\* queue nor look at the flags.
LEMMA QuietInv ==
    Inv /\ (Connection \/ Sigint \/ LeaveLoop \/ KillLogger \/ Join) => Inv'
<1> SUFFICES ASSUME Inv, Connection \/ Sigint \/ LeaveLoop \/ KillLogger \/ Join
             PROVE  Inv'
    OBVIOUS
<1>1. CASE Connection
    <2>1. connected' \in BOOLEAN
        BY <1>1, Zenon DEF Connection
    <2>2. UNCHANGED <<queueVars, mainVars, gExit, aliveFlag, childPc, sent>>
        BY <1>1 DEF Connection
    <2> QED BY <2>1, <2>2, QuietKeeps DEF Inv, TypeOK, queueVars, mainVars
<1>2. CASE Sigint
    <2>1. /\ gExit' = 0 /\ aliveFlag' \in [Children -> 0..1]
          /\ childPc' \in [Children -> ChildLabels]
        BY <1>2 DEF Sigint, Inv, TypeOK, ChildLabels
    <2>2. UNCHANGED <<queueVars, mainVars, sent, connected>>
        BY <1>2 DEF Sigint
    <2> QED BY <2>1, <2>2, QuietKeeps DEF Inv, TypeOK, queueVars, mainVars
<1>3. CASE LeaveLoop
    BY <1>3 DEF LeaveLoop, Inv, TypeOK, CountInv, queueVars, MainLabels
<1>4. CASE KillLogger
    <2>1. aliveFlag' \in [Children -> 0..1] /\ mainPc' = "join"
        <3>1. /\ aliveFlag \in [Children -> 0..1]
              /\ aliveFlag' = [aliveFlag EXCEPT ![PID_LOGGING] = 0]
              /\ mainPc' = "join"
            BY <1>4 DEF KillLogger, Inv, TypeOK
        <3>2. 0 \in 0..1
            OBVIOUS
        <3> QED BY <3>1, <3>2
    <2>2. UNCHANGED <<queueVars, missingFlag, threadMissingCount, msgCount, joined, blamed,
                      gExit, childPc, sent, connected>>
        BY <1>4 DEF KillLogger
    <2> QED BY <2>1, <2>2 DEF Inv, TypeOK, CountInv, queueVars, MainLabels
<1>5. CASE Join
    BY <1>5 DEF Join, Inv, TypeOK, CountInv, queueVars, MainLabels
<1> QED BY <1>1, <1>2, <1>3, <1>4, <1>5

-----------------------------------------------------------------------------
(* The pass of main.                                                       *)

LEMMA StartPassInv == Inv /\ StartPass => Inv'
<1> SUFFICES ASSUME Inv, StartPass PROVE Inv'
    OBVIOUS
<1>1. /\ missingFlag' = [p \in Monitored |-> 1] /\ msgCount' = 0 /\ mainPc' = "drain"
      /\ UNCHANGED <<hbQueue, late, gap, threadMissingCount, gExit>>
    BY DEF StartPass, SetFlags, queueVars
<1>2. TypeOK'
    BY DEF StartPass, SetFlags, Inv, TypeOK, queueVars, MainLabels
<1>3. TopInv
    BY DEF Inv, CountInv, StartPass
<1>4. /\ hbQueue \in Seq(Packets) /\ Len(hbQueue) \in Nat
      /\ \A i \in 1 .. Len(hbQueue) : 0 + i <= ProcessLimit + 1
    BY DEF Inv, TypeOK
<1>5. ASSUME NEW i \in 1 .. Len(hbQueue) PROVE gap[hbQueue[i].processId] = 0
    <2>1. hbQueue[i] \in Packets
        BY <1>4, ElementOfSeq
    <2>2. hbQueue[i].processId \in Monitored /\ InQueue(hbQueue[i].processId)
        BY <2>1 DEF Packets, InQueue
    <2> QED BY <1>3, <2>2 DEF TopInv
<1>6. \A p \in Monitored : Ahead(p)' => WillBeRead(p)'
    BY <1>1, <1>3, <1>4 DEF TopInv, Ahead, InQueue, WillBeRead
<1>7. \A p \in Monitored : ~Behind(p)'
    BY <1>1, <1>3 DEF TopInv, Behind
<1>8. DrainInv'
    BY <1>1, <1>3, <1>4, <1>5, <1>6, <1>7 DEF DrainInv, TopInv
<1> QED BY <1>1, <1>2, <1>8 DEF Inv, CountInv

LEMMA DrainedInv == Inv /\ Drained => Inv'
<1> SUFFICES ASSUME Inv, Drained PROVE Inv'
    OBVIOUS
<1>1. /\ hbQueue = <<>> /\ Len(hbQueue) = 0 /\ DrainInv
      /\ UNCHANGED <<hbQueue, late, gap, missingFlag, threadMissingCount, gExit>>
      /\ \/ mainPc' = "top" /\ gExit' = 0
         \/ mainPc' = "check"
    BY DEF Drained, queueVars, Inv, CountInv
<1>2. TypeOK'
    BY DEF Drained, Inv, TypeOK, queueVars, MainLabels
<1>3. \A p \in Monitored : ~InQueue(p) /\ ~WillBeRead(p)
    BY <1>1 DEF InQueue, WillBeRead
<1>4. CheckInv'
    BY <1>1, <1>3 DEF DrainInv, CheckInv, Ahead, Behind, InQueue, WasRead
<1> QED BY <1>1, <1>2, <1>4 DEF Inv, CountInv

LEMMA ReceiveInv == Inv /\ Receive => Inv'
<1> SUFFICES ASSUME Inv, Receive PROVE Inv'
    OBVIOUS
<1> DEFINE r == Head(hbQueue).processId
<1>1. /\ hbQueue \in Seq(Packets) /\ hbQueue # <<>> /\ Len(hbQueue) \in Nat \ {0}
      /\ Head(hbQueue) = hbQueue[1]
    BY EmptySeq DEF Receive, Inv, TypeOK
<1>2. r \in Monitored /\ r = hbQueue[1].processId
    <2>1. Head(hbQueue) \in Packets
        BY <1>1, HeadTailProperties
    <2> QED BY <1>1, <2>1 DEF Packets
<1>3. /\ hbQueue' \in Seq(Packets) /\ Len(hbQueue') = Len(hbQueue) - 1
      /\ \A i \in 1 .. Len(hbQueue') : hbQueue'[i] = hbQueue[i + 1]
    BY <1>1, HeadTailProperties DEF Receive
<1>4. /\ missingFlag' = [missingFlag EXCEPT ![r] = 0]
      /\ threadMissingCount' = [threadMissingCount EXCEPT ![r] = 0]
      /\ msgCount' = msgCount + 1
      /\ UNCHANGED <<joined, childPc, sent, connected, blamed, late, gap>>
    BY DEF Receive, ClearMissing
<1>5. gExit' \in {gExit, 0} /\ aliveFlag' \in [Children -> 0..1]
    <2>1. PICK action : ProcessAction(r, action)
        BY DEF Receive
    <2> QED BY <2>1 DEF ProcessAction, Inv, TypeOK
<1>6. /\ mainPc = "drain" /\ DrainInv
      /\ \/ mainPc' = "killed"
         \/ mainPc' = "check" /\ msgCount' > ProcessLimit
         \/ mainPc' = "top" /\ gExit' = 0
         \/ mainPc' = "drain" /\ ~(msgCount' > ProcessLimit)
    BY DEF Receive, AfterMessage, Inv, CountInv
<1>7. TypeOK'
    <2>1. msgCount \in Nat /\ msgCount' \in 0 .. ProcessLimit + 1
        BY <1>4, <1>6 DEF DrainInv, Inv, TypeOK
    <2>2. /\ missingFlag' \in [Monitored -> 0..1]
          /\ threadMissingCount' \in [Monitored -> 0 .. MissingCount]
        BY <1>2, <1>4 DEF Inv, TypeOK
    <2>3. Len(hbQueue') <= QueueDepth
        BY <1>1, <1>3 DEF Inv, TypeOK
    <2>4. mainPc' \in MainLabels /\ gExit' \in 0..1
        BY <1>5, <1>6 DEF MainLabels, Inv, TypeOK
    <2> QED BY <1>3, <1>4, <1>5, <2>1, <2>2, <2>3, <2>4 DEF Inv, TypeOK
<1> HIDE DEF r
<1>8. /\ missingFlag'[r] = 0 /\ threadMissingCount'[r] = 0
      /\ \A p \in Monitored \ {r} : /\ missingFlag'[p] = missingFlag[p]
                                    /\ threadMissingCount'[p] = threadMissingCount[p]
      /\ gap' = gap /\ late' = late /\ gap \in [Monitored -> Nat]
    BY <1>2, <1>4 DEF Inv, TypeOK
<1>9. r \in late \/ gap[r] = 0
    BY <1>1, <1>2, <1>6 DEF DrainInv
\* a message of another process is one place further to the front
<1>10. ASSUME NEW p \in Monitored, p # r, NEW i \in 1 .. Len(hbQueue),
              hbQueue[i].processId = p
       PROVE  i - 1 \in 1 .. Len(hbQueue') /\ hbQueue'[i - 1].processId = p
    <2>1. i # 1
        BY <1>2, <1>10
    <2>2. i - 1 \in 1 .. Len(hbQueue') /\ (i - 1) + 1 = i
        BY <1>1, <1>3, <2>1
    <2> QED BY <1>3, <1>10, <2>2
<1>11. ASSUME NEW p \in Monitored, Ahead(p)' PROVE WillBeRead(p)'
    <2>1. p # r
        BY <1>8, <1>11 DEF Ahead
    <2>2. Ahead(p)
        BY <1>8, <1>11, <2>1 DEF Ahead
    <2>3. PICK i \in 1 .. Len(hbQueue) :
              hbQueue[i].processId = p /\ msgCount + i <= ProcessLimit + 1
        BY <1>6, <2>2 DEF DrainInv, WillBeRead
    <2>4. i - 1 \in 1 .. Len(hbQueue') /\ hbQueue'[i - 1].processId = p
        BY <1>10, <2>1, <2>3
    <2>5. msgCount' + (i - 1) <= ProcessLimit + 1
        BY <1>4, <2>3 DEF Inv, TypeOK
    <2> QED BY <2>4, <2>5 DEF WillBeRead
<1>12. ASSUME NEW p \in Monitored, p \in late PROVE InQueue(p)' \/ WasRead(p)'
    <2>1. CASE p = r
        BY <1>8, <2>1 DEF WasRead
    <2>2. CASE p # r /\ WasRead(p)
        BY <1>8, <2>2 DEF WasRead
    <2>3. CASE p # r /\ InQueue(p)
        <3>1. PICK i \in 1 .. Len(hbQueue) : hbQueue[i].processId = p
            BY <2>3 DEF InQueue
        <3> QED BY <1>10, <2>3, <3>1 DEF InQueue
    <2> QED BY <1>6, <1>12, <2>1, <2>2, <2>3 DEF DrainInv
<1>13. ASSUME NEW p \in Monitored, p \notin late
       PROVE  ~Behind(p)' /\ (missingFlag'[p] = 0 => gap'[p] = 0)
    <2>1. CASE p = r
        BY <1>8, <1>9, <1>13, <2>1 DEF Behind
    <2>2. CASE p # r
        BY <1>6, <1>8, <1>13, <2>2 DEF DrainInv, Behind
    <2> QED BY <2>1, <2>2
<1>14. ASSUME NEW i \in 1 .. Len(hbQueue')
       PROVE  /\ hbQueue'[i].processId \in Monitored
              /\ \/ hbQueue'[i].processId \in late
                 \/ gap[hbQueue'[i].processId] = 0 /\ msgCount' + i <= ProcessLimit + 1
    <2>1. i + 1 \in 1 .. Len(hbQueue) /\ hbQueue'[i] = hbQueue[i + 1]
        BY <1>1, <1>3
    <2>2. hbQueue'[i] \in Packets
        BY <1>3, ElementOfSeq
    <2>3. msgCount + (i + 1) = msgCount' + i
        BY <1>4 DEF Inv, TypeOK
    <2> QED BY <1>6, <2>1, <2>2, <2>3 DEF DrainInv, Packets
<1>15. CASE mainPc' = "drain" /\ ~(msgCount' > ProcessLimit)
    <2>1. msgCount' <= ProcessLimit
        BY <1>7, <1>15 DEF TypeOK
    <2>2. DrainInv'
        BY <1>8, <1>11, <1>12, <1>13, <1>14, <2>1 DEF DrainInv
    <2> QED BY <1>7, <1>15, <2>2 DEF Inv, CountInv
<1>16. CASE mainPc' = "check" /\ msgCount' > ProcessLimit
    <2>1. \A i \in 1 .. Len(hbQueue') : ~(msgCount' + i <= ProcessLimit + 1)
        BY <1>3, <1>7, <1>16 DEF TypeOK
    <2>2. \A p \in Monitored : ~Ahead(p)'
        BY <1>11, <2>1 DEF WillBeRead
    <2>3. \A p \in Monitored : InQueue(p)' => p \in late'
        BY <1>8, <1>14, <2>1 DEF InQueue
    <2>4. CheckInv'
        BY <1>8, <1>12, <1>13, <2>2, <2>3 DEF CheckInv
    <2> QED BY <1>7, <1>16, <2>4 DEF Inv, CountInv
<1> QED BY <1>6, <1>7, <1>15, <1>16 DEF Inv, CountInv

LEMMA CheckStepInv == Inv /\ Check => Inv'
<1> SUFFICES ASSUME Inv, Check PROVE Inv'
    OBVIOUS
<1>1. /\ CheckInv /\ late' = {} /\ hbQueue' = hbQueue /\ mainPc' = "top"
      /\ blamed' = {p \in Monitored : threadMissingCount[p] >= MissingCount}
    BY DEF Check, Inv, CountInv
<1>2. ASSUME NEW p \in Monitored
      PROVE  /\ threadMissingCount[p] \in 0 .. MissingCount /\ missingFlag[p] \in 0..1
             /\ gap[p] \in 0 .. GapLimit
             /\ threadMissingCount[p] >= MissingCount =>
                    threadMissingCount'[p] = MissingCount
             /\ threadMissingCount[p] < MissingCount =>
                    threadMissingCount'[p] = threadMissingCount[p] + missingFlag[p]
             /\ p \in late => gap'[p] = 0
             /\ p \notin late /\ gap[p] < GapLimit => gap'[p] = gap[p] + 1
             /\ p \notin late /\ gap[p] = GapLimit => gap'[p] = gap[p]
    <2>1. /\ threadMissingCount[p] \in 0 .. MissingCount /\ missingFlag[p] \in 0..1
          /\ gap[p] \in 0 .. GapLimit
        BY DEF Inv, TypeOK
    <2>2. threadMissingCount'[p] = IF p \in blamed' THEN MissingCount
                                   ELSE threadMissingCount[p] + missingFlag[p]
        BY DEF Check
    <2>3. p \in blamed' <=> threadMissingCount[p] >= MissingCount
        BY <1>1
    <2>4. gap'[p] = IF p \in late THEN 0
                    ELSE IF gap[p] < GapLimit THEN gap[p] + 1 ELSE gap[p]
        BY DEF Check
    <2>5. /\ threadMissingCount[p] >= MissingCount => threadMissingCount'[p] = MissingCount
          /\ threadMissingCount[p] < MissingCount =>
                 threadMissingCount'[p] = threadMissingCount[p] + missingFlag[p]
        BY <2>1, <2>2, <2>3
    <2>6. /\ p \in late => gap'[p] = 0
          /\ p \notin late /\ gap[p] < GapLimit => gap'[p] = gap[p] + 1
          /\ p \notin late /\ gap[p] = GapLimit => gap'[p] = gap[p]
        <3>1. CASE p \in late
            BY <2>4, <3>1
        <3>2. CASE p \notin late /\ gap[p] < GapLimit
            BY <2>1, <2>4, <3>2
        <3>3. CASE p \notin late /\ ~(gap[p] < GapLimit)
            BY <2>1, <2>4, <3>3
        <3> QED BY <2>1, <3>1, <3>2, <3>3
    <2> QED BY <2>1, <2>5, <2>6
<1>3. TypeOK'
    <2>1. /\ threadMissingCount' \in [Monitored -> 0 .. MissingCount]
          /\ gap' \in [Monitored -> 0 .. GapLimit]
        <3>1. /\ threadMissingCount' = [p \in Monitored |-> threadMissingCount'[p]]
              /\ gap' = [p \in Monitored |-> gap'[p]]
            BY DEF Check
        <3>2. \A p \in Monitored : /\ threadMissingCount'[p] \in 0 .. MissingCount
                                   /\ gap'[p] \in 0 .. GapLimit
            BY <1>2
        <3> QED BY <3>1, <3>2
    <2>2. missingFlag' \in [Monitored -> 0..1] /\ msgCount' \in 0 .. ProcessLimit + 1
        BY DEF Check
    <2>3. blamed' \subseteq Monitored /\ late' \subseteq Monitored
        BY <1>1
    <2>4. UNCHANGED <<hbQueue, joined, gExit, aliveFlag, childPc, sent, connected>>
        BY DEF Check
    <2> QED BY <1>1, <2>1, <2>2, <2>3, <2>4 DEF Inv, TypeOK, MainLabels
<1>4. \A p \in Monitored : InQueue(p)' <=> InQueue(p)
    BY <1>1 DEF InQueue
<1>5. ASSUME NEW p \in Monitored
      PROVE  (Ahead(p)' => InQueue(p)) /\ ~Behind(p)' /\ (InQueue(p) => gap'[p] = 0)
    <2>1. CASE p \in late
        BY <1>1, <1>2, <2>1 DEF CheckInv, WasRead, Ahead, Behind
    <2>2. CASE p \notin late
        BY <1>1, <1>2, <2>2 DEF CheckInv, Ahead, Behind
    <2> QED BY <2>1, <2>2
<1>6. TopInv'
    BY <1>1, <1>4, <1>5 DEF TopInv
<1> QED BY <1>1, <1>3, <1>6 DEF Inv, CountInv

LEMMA InvNext == Inv /\ [Next]_vars => Inv'
<1>1. ASSUME Inv, UNCHANGED vars PROVE Inv'
    <2>1. TypeOK'
        BY <1>1 DEF Inv, TypeOK, vars, queueVars, mainVars
    <2> QED BY <1>1, <2>1, QuietKeeps DEF Inv, vars
<1> QED BY <1>1, StartPassInv, ReceiveInv, DrainedInv, CheckStepInv, QuietInv, ChildInv,
           ForwardInv DEF Next, MainStep

LEMMA InvAlways == SafetySpec => []Inv
BY InvInit, InvNext, PTL DEF SafetySpec

-----------------------------------------------------------------------------
\* Every reachable state has the types of TypeOK: in particular the queue keeps
\* its depth and a pass handles at most ProcessLimit + 1 messages.
THEOREM TypeCorrect == Spec => []TypeOK
BY InvAlways, PTL DEF Inv, Spec

LEMMA CheckOnly == mainPc = "check" /\ mainPc' = "top" /\ [Next]_vars => Check
<1> SUFFICES ASSUME mainPc = "check", mainPc' = "top", [Next]_vars PROVE Check
    OBVIOUS
<1> QED BY DEF Next, MainStep, OthersRun, StartPass, Receive, Drained, LeaveLoop,
               KillLogger, Join, vars, mainVars

\* Nobody is reported who queued a message within the last MissingCount passes.
THEOREM BlameFair == Spec => BlameIsFair
<1>1. Inv /\ [Next]_vars =>
          (mainPc = "check" /\ mainPc' = "top" =>
              \A p \in blamed' : gap[p] >= MissingCount)
    <2> SUFFICES ASSUME Inv, Check, NEW p \in blamed' PROVE gap[p] >= MissingCount
        BY CheckOnly
    <2>1. p \in Monitored /\ threadMissingCount[p] >= MissingCount
        BY DEF Check
    <2>2. ~Ahead(p)
        BY <2>1 DEF Inv, CountInv, CheckInv, Check
    <2> QED BY <2>1, <2>2 DEF Inv, TypeOK, Ahead
<1> QED BY <1>1, InvAlways, PTL DEF BlameIsFair, Spec, SafetySpec

\* Whoever was silent for longer, and in this drain, is reported.
THEOREM SilenceNoticed == Spec => SilenceIsNoticed
<1>1. Inv /\ [Next]_vars =>
          (mainPc = "check" /\ mainPc' = "top" =>
              \A p \in Monitored \ late : gap[p] >= MissingCount + 1 => p \in blamed')
    <2> SUFFICES ASSUME Inv, Check, NEW p \in Monitored \ late, gap[p] >= MissingCount + 1
                 PROVE  p \in blamed'
        BY CheckOnly
    <2>1. ~Behind(p)
        BY DEF Inv, CountInv, CheckInv, Check
    <2>2. threadMissingCount[p] >= MissingCount
        BY <2>1 DEF Inv, TypeOK, Behind
    <2> QED BY <2>2 DEF Check
<1> QED BY <1>1, InvAlways, PTL DEF SilenceIsNoticed, Spec, SafetySpec
=================================================================================

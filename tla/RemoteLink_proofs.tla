--------------------------- MODULE RemoteLink_proofs ---------------------------
(***************************************************************************)
(* Theorems about RemoteLink, for any depth of its queue and any number of *)
(* messages, connections, half packets and restarts: its type invariant,   *)
(* that it implements LossyFifo, that a new connection starts in step, and *)
(* when the thresholds may cross.                                          *)
(***************************************************************************)
EXTENDS RemoteLink, SequenceTheorems, TLAPS

-----------------------------------------------------------------------------
(* The inductive invariant.                                                *)

Before(h, k) == h.n < k.n \/ (h.n = k.n /\ h.part = 1 /\ k.part = 2)

\* What is on its way is in the order in which it was sent, from one connection
\* to the next.
WireOrder ==
    /\ \A c \in Conns : \A i \in 1 .. Len(wire[c]) : wire[c][i].n \in 1 .. Len(sent)
    /\ \A c \in Conns : \A i, j \in 1 .. Len(wire[c]) :
           i < j => Before(wire[c][i], wire[c][j])
    /\ \A c, d \in Conns :
           c < d => \A i \in 1 .. Len(wire[c]), j \in 1 .. Len(wire[d]) :
                        wire[c][i].n < wire[d][j].n
    /\ \A c \in Conns : c > conns => wire[c] = <<>>

\* The queue follows, with messages later than any that has left it.
QueueOrder ==
    /\ \A i \in 1 .. Len(queue) : queue[i] \in 1 .. Len(sent) /\ delivered < queue[i]
    /\ \A i, j \in 1 .. Len(queue) : i < j => queue[i] < queue[j]
    /\ \A i \in 1 .. Len(queue), c \in Conns :
           \A j \in 1 .. Len(wire[c]) : wire[c][j].n < queue[i]

\* connections of which the receiver may still read
Readable(c) ==
    IF link = "telemetry" THEN c > srvConn \/ (c = srvConn /\ clientResponse)
    ELSE c = conns

ReadOrder ==
    \A c \in Conns :
        Readable(c) => \A i \in 1 .. Len(wire[c]) : delivered < wire[c][i].n

\* Where no half packet was read or written, a half is followed by its other
\* half or by the next packet, and an open connection ends with a whole one.
Aligned ==
    \A c \in Conns \ split :
        /\ Len(wire[c]) > 0 => wire[c][1].part = 1
        /\ \A i \in 1 .. Len(wire[c]) - 1 :
               \/ /\ wire[c][i].part = 1 /\ wire[c][i + 1].part = 2
                  /\ wire[c][i].n = wire[c][i + 1].n
               \/ wire[c][i].part = 2 /\ wire[c][i + 1].part = 1
        /\ c = conns /\ end = "open" /\ Len(wire[c]) > 0 => wire[c][Len(wire[c])].part = 2

Apply(t, message) ==
    IF message.field \in {"low", "high"} THEN [t EXCEPT ![message.field] = message.data]
    ELSE t

\* The thresholds went through ordered values on the way from the defaults to
\* those of the control node; those of the remote node are as old as the last
\* message it obeyed, if it has obeyed them all.
ThresholdHistory ==
    \E h \in [0 .. Len(sent) -> Thresholds] :
        /\ h[0] = Defaults
        /\ \A i \in 1 .. Len(sent) : h[i] = Apply(h[i - 1], sent[i])
        /\ \A i \in 0 .. Len(sent) : h[i].low < h[i].high
        /\ h[Len(sent)] = control
        /\ skipped \/ remote = h[delivered]

MessagesInv ==
    \A i \in 1 .. Len(sent) :
        sent[i].field \in IF link = "command" THEN {"low", "high"} ELSE {"report"}

ConnInv == end # "none" => conns > 0

Inv ==
    /\ TypeOK /\ ConnInv
    /\ WireOrder /\ QueueOrder /\ ReadOrder
    /\ Aligned /\ GarbledOnlyAfterSplit
    /\ MessagesInv /\ ThresholdHistory

LEMMA InvInit == Init => Inv
<1> SUFFICES ASSUME Init PROVE Inv
    OBVIOUS
<1>1. Defaults \in Thresholds /\ Defaults.low < Defaults.high
    BY ConstantsAssumption DEF Defaults, Thresholds, ThresholdValues
<1>2. wire \in [Conns -> Seq(Halves)] /\ \A c \in Conns : wire[c] = <<>>
    BY DEF Init
<1>3. TypeOK /\ ConnInv
    <2>1. peer \in [Conns -> {"open", "fin", "reset", "gone"}]
        BY DEF Init
    <2>2. srvPc \in {"take", "serve", "killed"} /\ link \in {"telemetry", "command"}
        BY DEF Init, NextPass
    <2>3. /\ sent \in Seq(Messages) /\ Len(sent) = 0
          /\ queue \in Seq(DOMAIN sent) /\ Len(queue) = 0
          /\ delivered = 0 /\ conns = 0 /\ srvConn = 0 /\ splits = 0 /\ restarts = 0
        BY DEF Init
    <2>4. /\ delivered \in 0 .. Len(sent) /\ conns \in 0 .. MaxConns /\ srvConn \in 0 .. conns
          /\ splits \in 0 .. MaxSplits /\ restarts \in 0 .. MaxRestarts
          /\ Len(sent) <= MaxMessages /\ Len(queue) <= QueueDepth
        BY ConstantsAssumption, <2>3
    <2>5. /\ end \in {"none", "open", "dead"} /\ socketLost \in BOOLEAN
          /\ (end = "none" => socketLost)
          /\ clientResponse \in BOOLEAN /\ (clientResponse => srvConn > 0)
          /\ skipped \in BOOLEAN /\ split \subseteq Conns /\ garbled \subseteq Conns
          /\ control \in Thresholds /\ remote \in Thresholds
        BY <1>1 DEF Init
    <2> QED BY <1>2, <2>1, <2>2, <2>3, <2>4, <2>5 DEF Init, TypeOK, ConnInv
<1>4. WireOrder /\ QueueOrder /\ ReadOrder
    BY <1>2 DEF Init, WireOrder, QueueOrder, ReadOrder
<1>5. Aligned /\ GarbledOnlyAfterSplit
    BY <1>2 DEF Init, Aligned, GarbledOnlyAfterSplit
<1>6. ThresholdHistory /\ MessagesInv
    <2> DEFINE h == [i \in 0 .. 0 |-> Defaults]
    <2>1. sent = <<>> /\ Len(sent) = 0 /\ delivered = 0 /\ control = Defaults /\ remote = Defaults
        BY DEF Init
    <2>2. h \in [0 .. Len(sent) -> Thresholds] /\ h[0] = Defaults
        BY <1>1, <2>1
    <2> HIDE DEF h
    <2> QED BY <1>1, <2>1, <2>2 DEF ThresholdHistory, MessagesInv
<1> QED BY <1>3, <1>4, <1>5, <1>6 DEF Inv

-----------------------------------------------------------------------------
(* What an action does to the connections: parts of them are left.         *)

\* off[c] halves of connection c are gone from its beginning, and any number
\* from its end.
Shrinks(off) ==
    /\ off \in [Conns -> Nat]
    /\ wire' \in [Conns -> Seq(Halves)]
    /\ \A c \in Conns :
           /\ Len(wire'[c]) + off[c] <= Len(wire[c])
           /\ \A i \in 1 .. Len(wire'[c]) : wire'[c][i] = wire[c][i + off[c]]

LEMMA ShrinksIndex ==
    ASSUME TypeOK, NEW off, Shrinks(off), NEW c \in Conns, NEW i \in 1 .. Len(wire'[c])
    PROVE  i + off[c] \in 1 .. Len(wire[c])
<1>1. Len(wire[c]) \in Nat /\ Len(wire'[c]) \in Nat /\ off[c] \in Nat
    BY DEF TypeOK, Shrinks
<1> QED BY <1>1 DEF Shrinks

LEMMA ShrinksWireOrder ==
    ASSUME TypeOK, WireOrder, NEW off, Shrinks(off), UNCHANGED sent,
           conns' \in Nat, conns' >= conns
    PROVE  WireOrder'
<1>1. ASSUME NEW c \in Conns, NEW i \in 1 .. Len(wire'[c])
      PROVE  /\ i + off[c] \in 1 .. Len(wire[c])
             /\ wire'[c][i] = wire[c][i + off[c]]
    BY ShrinksIndex DEF Shrinks
<1>2. \A c \in Conns : \A i \in 1 .. Len(wire'[c]) : wire'[c][i].n \in 1 .. Len(sent)
    BY <1>1 DEF WireOrder
<1>3. ASSUME NEW c \in Conns, NEW i \in 1 .. Len(wire'[c]), NEW j \in 1 .. Len(wire'[c]),
             i < j
      PROVE  Before(wire'[c][i], wire'[c][j])
    <2>1. i + off[c] < j + off[c]
        BY <1>3 DEF Shrinks
    <2> QED BY <1>1, <2>1 DEF WireOrder
<1>4. ASSUME NEW c \in Conns, NEW d \in Conns, c < d,
             NEW i \in 1 .. Len(wire'[c]), NEW j \in 1 .. Len(wire'[d])
      PROVE  wire'[c][i].n < wire'[d][j].n
    <2>1. wire[c][i + off[c]].n < wire[d][j + off[d]].n
        <3>1. i + off[c] \in 1 .. Len(wire[c]) /\ j + off[d] \in 1 .. Len(wire[d])
            BY <1>1
        <3>2. \A k \in 1 .. Len(wire[c]), l \in 1 .. Len(wire[d]) :
                  wire[c][k].n < wire[d][l].n
            BY <1>4 DEF WireOrder
        <3> QED BY <3>1, <3>2
    <2> QED BY <1>1, <2>1
<1>5. ASSUME NEW c \in Conns, c > conns' PROVE wire'[c] = <<>>
    <2>1. wire[c] = <<>>
        BY <1>5 DEF WireOrder, TypeOK, Conns
    <2>2. Len(wire'[c]) = 0
        BY <2>1, EmptySeq DEF Shrinks
    <2> QED BY <2>2, EmptySeq DEF Shrinks
<1> QED BY <1>2, <1>3, <1>4, <1>5 DEF WireOrder

LEMMA ShrinksQueueOrder ==
    ASSUME TypeOK, QueueOrder, NEW off, Shrinks(off), UNCHANGED <<sent, queue>>,
           \A i \in 1 .. Len(queue) : delivered' < queue[i]
    PROVE  QueueOrder'
<1>1. ASSUME NEW c \in Conns, NEW i \in 1 .. Len(wire'[c])
      PROVE  /\ i + off[c] \in 1 .. Len(wire[c])
             /\ wire'[c][i] = wire[c][i + off[c]]
    BY ShrinksIndex DEF Shrinks
<1>2. ASSUME NEW k \in 1 .. Len(queue), NEW c \in Conns, NEW i \in 1 .. Len(wire'[c])
      PROVE  wire'[c][i].n < queue[k]
    BY <1>1 DEF QueueOrder
<1>3. \A k \in 1 .. Len(queue) : queue[k] \in 1 .. Len(sent) /\ delivered' < queue[k]
    BY DEF QueueOrder
<1>4. \A k, j \in 1 .. Len(queue) : k < j => queue[k] < queue[j]
    BY DEF QueueOrder
<1>5. UNCHANGED <<sent, queue>>
    OBVIOUS
<1> QED BY <1>2, <1>3, <1>4, <1>5, Zenon DEF QueueOrder

LEMMA ShrinksReadOrder ==
    ASSUME TypeOK, ReadOrder, NEW off, Shrinks(off), UNCHANGED delivered,
           \A c \in Conns : Readable(c)' => Readable(c) \/ wire'[c] = <<>>
    PROVE  ReadOrder'
<1>1. ASSUME NEW c \in Conns, NEW i \in 1 .. Len(wire'[c])
      PROVE  /\ i + off[c] \in 1 .. Len(wire[c])
             /\ wire'[c][i] = wire[c][i + off[c]]
    BY ShrinksIndex DEF Shrinks
<1>2. ASSUME NEW c \in Conns, Readable(c)', NEW i \in 1 .. Len(wire'[c])
      PROVE  delivered < wire'[c][i].n
    <2>1. Readable(c)
        BY <1>2
    <2> QED BY <1>1, <2>1 DEF ReadOrder
<1> QED BY <1>2 DEF ReadOrder

LEMMA ShiftedIndex ==
    ASSUME NEW m \in Nat, NEW n \in Nat, NEW k \in Nat, m + k <= n, NEW i \in 1 .. m - 1
    PROVE  /\ i \in 1 .. m /\ i + 1 \in 1 .. m
           /\ i + k \in 1 .. n - 1 /\ (i + 1) + k = (i + k) + 1
OBVIOUS

LEMMA ShrinksAligned ==
    ASSUME TypeOK, Aligned, NEW off, Shrinks(off), split \subseteq split',
           \A c \in Conns \ split' : off[c] \in {0, 2},
           \A c \in Conns \ split' :
               c = conns' /\ end' = "open" /\ Len(wire'[c]) > 0 =>
                   c = conns /\ end = "open" /\ Len(wire'[c]) + off[c] = Len(wire[c])
    PROVE  Aligned'
<1> SUFFICES ASSUME NEW c \in Conns \ split'
             PROVE  /\ Len(wire'[c]) > 0 => wire'[c][1].part = 1
                    /\ \A i \in 1 .. Len(wire'[c]) - 1 :
                           \/ /\ wire'[c][i].part = 1 /\ wire'[c][i + 1].part = 2
                              /\ wire'[c][i].n = wire'[c][i + 1].n
                           \/ wire'[c][i].part = 2 /\ wire'[c][i + 1].part = 1
                    /\ c = conns' /\ end' = "open" /\ Len(wire'[c]) > 0 =>
                           wire'[c][Len(wire'[c])].part = 2
    BY DEF Aligned
<1>1. c \in Conns \ split /\ c \in Conns
    OBVIOUS
<1>2. /\ Len(wire[c]) \in Nat /\ Len(wire'[c]) \in Nat /\ off[c] \in {0, 2}
      /\ Len(wire'[c]) + off[c] <= Len(wire[c])
      /\ \A i \in 1 .. Len(wire'[c]) : wire'[c][i] = wire[c][i + off[c]]
    BY <1>1 DEF TypeOK, Shrinks
<1>3. /\ Len(wire[c]) > 0 => wire[c][1].part = 1
      /\ \A i \in 1 .. Len(wire[c]) - 1 :
             \/ /\ wire[c][i].part = 1 /\ wire[c][i + 1].part = 2
                /\ wire[c][i].n = wire[c][i + 1].n
             \/ wire[c][i].part = 2 /\ wire[c][i + 1].part = 1
      /\ c = conns /\ end = "open" /\ Len(wire[c]) > 0 => wire[c][Len(wire[c])].part = 2
    BY <1>1 DEF Aligned
<1>4. ASSUME Len(wire'[c]) > 0 PROVE wire'[c][1].part = 1
    <2>1. CASE off[c] = 0
        BY <1>2, <1>3, <1>4, <2>1
    <2>2. CASE off[c] = 2
        <3>1. 1 \in 1 .. Len(wire[c]) - 1 /\ 2 \in 1 .. Len(wire[c]) - 1 /\ 1 \in 1 .. Len(wire'[c])
            BY <1>2, <1>4, <2>2
        <3>2. wire[c][2].part = 2
            BY <1>3, <3>1
        <3>3. wire[c][3].part = 1
            BY <1>3, <3>1, <3>2
        <3> QED BY <1>2, <2>2, <3>1, <3>3
    <2> QED BY <1>2, <2>1, <2>2
<1>5. ASSUME NEW i \in 1 .. Len(wire'[c]) - 1
      PROVE  \/ /\ wire'[c][i].part = 1 /\ wire'[c][i + 1].part = 2
                /\ wire'[c][i].n = wire'[c][i + 1].n
             \/ wire'[c][i].part = 2 /\ wire'[c][i + 1].part = 1
    <2>1. /\ i \in 1 .. Len(wire'[c]) /\ i + 1 \in 1 .. Len(wire'[c])
          /\ i + off[c] \in 1 .. Len(wire[c]) - 1 /\ (i + 1) + off[c] = (i + off[c]) + 1
        <3>1. /\ Len(wire[c]) \in Nat /\ Len(wire'[c]) \in Nat /\ off[c] \in Nat
              /\ Len(wire'[c]) + off[c] <= Len(wire[c])
            BY <1>2
        <3> QED BY <3>1, ShiftedIndex, SMTT(40)
    <2>2. wire'[c][i] = wire[c][i + off[c]] /\ wire'[c][i + 1] = wire[c][(i + off[c]) + 1]
        BY <1>2, <2>1
    <2> QED BY <1>3, <2>1, <2>2
<1>6. ASSUME c = conns', end' = "open", Len(wire'[c]) > 0
      PROVE  wire'[c][Len(wire'[c])].part = 2
    <2>1. c = conns /\ end = "open" /\ Len(wire'[c]) + off[c] = Len(wire[c])
        BY <1>1, <1>6
    <2>2. Len(wire'[c]) \in 1 .. Len(wire'[c]) /\ Len(wire[c]) > 0
        BY <1>2, <1>6, <2>1
    <2>3. wire'[c][Len(wire'[c])] = wire[c][Len(wire[c])]
        BY <1>2, <2>1, <2>2
    <2>4. wire[c][Len(wire[c])].part = 2
        BY <1>3, <2>1, <2>2
    <2> QED BY <2>3, <2>4
<1> QED BY <1>4, <1>5, <1>6

\* Nothing happens to the connections.
LEMMA WireUnchanged ==
    ASSUME TypeOK, UNCHANGED wire
    PROVE  Shrinks([c \in Conns |-> 0])
BY DEF TypeOK, Shrinks

\* The end of one of them is cut off, or all of it.
LEMMA CutShrinks ==
    ASSUME TypeOK, NEW c \in Conns, NEW rest \in Prefixes(wire[c]),
           wire' = [wire EXCEPT ![c] = rest]
    PROVE  Shrinks([d \in Conns |-> 0])
<1>1. wire[c] \in Seq(Halves) /\ Len(wire[c]) \in Nat
    BY DEF TypeOK
<1>2. PICK k \in 0 .. Len(wire[c]) : rest = SubSeq(wire[c], 1, k)
    BY DEF Prefixes
<1>3. /\ rest \in Seq(Halves) /\ Len(rest) = k
      /\ \A i \in 1 .. k : rest[i] = wire[c][i]
    <2>1. \A i \in 1 .. k : wire[c][i] \in Halves
        BY <1>1, ElementOfSeq
    <2> QED BY <1>1, <1>2, <2>1, SubSeqProperties
<1> QED BY <1>1, <1>3 DEF TypeOK, Shrinks

\* k halves are read from the beginning of one of them.
LEMMA ReadShrinks ==
    ASSUME TypeOK, NEW c \in Conns, NEW k \in 1 .. 2, k <= Len(wire[c]),
           wire' = [wire EXCEPT ![c] = SubSeq(@, k + 1, Len(@))]
    PROVE  /\ Shrinks([d \in Conns |-> IF d = c THEN k ELSE 0])
           /\ Len(wire'[c]) + k = Len(wire[c])
<1>1. wire[c] \in Seq(Halves) /\ Len(wire[c]) \in Nat
    BY DEF TypeOK
<1> DEFINE rest == SubSeq(wire[c], k + 1, Len(wire[c]))
<1>2. /\ rest \in Seq(Halves) /\ Len(rest) = Len(wire[c]) - k
      /\ \A i \in 1 .. Len(wire[c]) - k : rest[i] = wire[c][i + k]
    <2>1. \A i \in k + 1 .. Len(wire[c]) : wire[c][i] \in Halves
        BY <1>1, ElementOfSeq
    <2> QED BY <1>1, <2>1, SubSeqProperties
<1>3. wire'[c] = rest /\ \A d \in Conns : d # c => wire'[d] = wire[d]
    BY DEF TypeOK
<1> HIDE DEF rest
<1> DEFINE off == [d \in Conns |-> IF d = c THEN k ELSE 0]
<1>4. off \in [Conns -> Nat] /\ off[c] = k /\ \A d \in Conns : d # c => off[d] = 0
    OBVIOUS
<1> HIDE DEF off
<1>5. wire' \in [Conns -> Seq(Halves)]
    BY <1>2 DEF TypeOK, rest
<1>6. ASSUME NEW d \in Conns
      PROVE  /\ Len(wire'[d]) + off[d] <= Len(wire[d])
             /\ \A i \in 1 .. Len(wire'[d]) : wire'[d][i] = wire[d][i + off[d]]
    <2>1. CASE d = c
        BY <1>1, <1>2, <1>3, <1>4, <2>1
    <2>2. CASE d # c
        BY <1>3, <1>4, <2>2 DEF TypeOK
    <2> QED BY <2>1, <2>2
<1>7. Shrinks(off)
    BY <1>4, <1>5, <1>6 DEF Shrinks
<1> QED BY <1>1, <1>2, <1>3, <1>7 DEF off

-----------------------------------------------------------------------------
(* A message is queued.                                                    *)

LEMMA PutOrder ==
    ASSUME Inv, NEW message \in Messages, Put(message),
           UNCHANGED <<link, delivered, conns, end, wire, srvConn, clientResponse, split>>
    PROVE  /\ WireOrder' /\ QueueOrder' /\ ReadOrder' /\ Aligned'
           /\ sent' \in Seq(Messages) /\ Len(sent') <= MaxMessages
           /\ Len(sent') = Len(sent) + 1
           /\ \A i \in 1 .. Len(sent) : sent'[i] = sent[i]
           /\ sent'[Len(sent) + 1] = message
           /\ queue' \in Seq(DOMAIN sent') /\ Len(queue') <= QueueDepth
<1>1. /\ sent \in Seq(Messages) /\ Len(sent) \in Nat /\ delivered \in 0 .. Len(sent)
      /\ queue \in Seq(DOMAIN sent) /\ Len(queue) <= QueueDepth /\ Len(queue) \in Nat
    BY DEF Inv, TypeOK
<1>2. /\ sent' \in Seq(Messages) /\ Len(sent') = Len(sent) + 1
      /\ \A i \in 1 .. Len(sent) : sent'[i] = sent[i]
      /\ sent'[Len(sent) + 1] = message
    BY <1>1, AppendProperties DEF Put
<1>3. Len(sent') <= MaxMessages
    BY <1>1, <1>2, ConstantsAssumption DEF Put
<1>4. DOMAIN sent' = 1 .. Len(sent) + 1 /\ DOMAIN sent = 1 .. Len(sent)
    BY <1>1, <1>2
<1>5. queue \in Seq(DOMAIN sent')
    BY <1>1, <1>4, SeqMonotonic
<1>6. ASSUME queue' = Append(queue, Len(sent) + 1) /\ Len(queue) < QueueDepth
      PROVE  QueueOrder' /\ queue' \in Seq(DOMAIN sent') /\ Len(queue') <= QueueDepth
    <2>1. Len(sent) + 1 \in DOMAIN sent'
        BY <1>1, <1>4
    <2>2. /\ queue' \in Seq(DOMAIN sent') /\ Len(queue') = Len(queue) + 1
          /\ \A i \in 1 .. Len(queue) : queue'[i] = queue[i]
          /\ queue'[Len(queue) + 1] = Len(sent) + 1
        BY <1>5, <1>6, <2>1, AppendProperties
    <2>3. Len(queue') <= QueueDepth
        BY <1>1, <1>6, <2>2, ConstantsAssumption
    <2>4. \A i \in 1 .. Len(queue') : i \in 1 .. Len(queue) \/ i = Len(queue) + 1
        BY <1>1, <2>2
    <2>5. \A i \in 1 .. Len(queue) : queue'[i] \in 1 .. Len(sent) /\ delivered < queue'[i]
        BY <2>2 DEF Inv, QueueOrder
    <2>6. \A i \in 1 .. Len(queue') : queue'[i] \in 1 .. Len(sent') /\ delivered < queue'[i]
        BY <1>1, <1>2, <2>2, <2>4, <2>5
    <2>7. ASSUME NEW i \in 1 .. Len(queue'), NEW j \in 1 .. Len(queue'), i < j
          PROVE  queue'[i] < queue'[j]
        <3>1. i \in 1 .. Len(queue)
            BY <1>1, <2>2, <2>7
        <3>2. CASE j \in 1 .. Len(queue)
            BY <2>2, <2>7, <3>1, <3>2 DEF Inv, QueueOrder
        <3>3. CASE j = Len(queue) + 1
            BY <1>1, <2>2, <2>5, <3>1, <3>3
        <3> QED BY <2>4, <3>2, <3>3
    <2>8. ASSUME NEW i \in 1 .. Len(queue'), NEW c \in Conns, NEW j \in 1 .. Len(wire[c])
          PROVE  wire[c][j].n < queue'[i]
        <3>1. CASE i \in 1 .. Len(queue)
            BY <2>2, <3>1 DEF Inv, QueueOrder
        <3>2. CASE i = Len(queue) + 1
            <4>1. wire[c][j].n \in 1 .. Len(sent)
                BY DEF Inv, WireOrder
            <4> QED BY <1>1, <2>2, <3>2, <4>1
        <3> QED BY <2>4, <3>1, <3>2
    <2>9. QueueOrder'
        BY <2>6, <2>7, <2>8 DEF QueueOrder
    <2> QED BY <2>2, <2>3, <2>9
<1>7. ASSUME queue' = queue
      PROVE  QueueOrder' /\ queue' \in Seq(DOMAIN sent') /\ Len(queue') <= QueueDepth
    <2>1. QueueOrder'
        <3>1. \A i \in 1 .. Len(queue) : queue[i] \in 1 .. Len(sent')
            BY <1>1, <1>2 DEF Inv, QueueOrder
        <3> QED BY <1>7, <3>1 DEF Inv, QueueOrder
    <2> QED BY <1>1, <1>5, <1>7, <2>1
<1>8. WireOrder'
    <2>1. \A c \in Conns : \A i \in 1 .. Len(wire[c]) : wire[c][i].n \in 1 .. Len(sent')
        BY <1>1, <1>2 DEF Inv, WireOrder
    <2> QED BY <2>1 DEF Inv, WireOrder
<1>9. ReadOrder' /\ Aligned'
    BY DEF Inv, ReadOrder, Readable, Aligned
<1> QED BY <1>2, <1>3, <1>6, <1>7, <1>8, <1>9 DEF Put

\* The control node's thresholds move on by one message.
LEMMA HistoryGrows ==
    ASSUME Inv, NEW message \in Messages, sent' \in Seq(Messages),
           Len(sent') = Len(sent) + 1, \A i \in 1 .. Len(sent) : sent'[i] = sent[i],
           sent'[Len(sent) + 1] = message,
           control' = Apply(control, message), control' \in Thresholds,
           control'.low < control'.high, UNCHANGED <<remote, delivered, skipped>>
    PROVE  ThresholdHistory'
<1>1. Len(sent) \in Nat /\ delivered \in 0 .. Len(sent)
    BY DEF Inv, TypeOK
<1>2. PICK h \in [0 .. Len(sent) -> Thresholds] :
          /\ h[0] = Defaults
          /\ \A i \in 1 .. Len(sent) : h[i] = Apply(h[i - 1], sent[i])
          /\ \A i \in 0 .. Len(sent) : h[i].low < h[i].high
          /\ h[Len(sent)] = control
          /\ skipped \/ remote = h[delivered]
    BY DEF Inv, ThresholdHistory
<1> DEFINE g == [i \in 0 .. Len(sent') |-> IF i = Len(sent') THEN control' ELSE h[i]]
<1>3. /\ g[Len(sent')] = control'
      /\ \A i \in 0 .. Len(sent) : g[i] = h[i]
      /\ g \in [0 .. Len(sent') -> Thresholds]
    BY <1>1, <1>2
<1> HIDE DEF g
<1>4. \A i \in 0 .. Len(sent') : i \in 0 .. Len(sent) \/ i = Len(sent')
    BY <1>1
<1>5. ASSUME NEW i \in 1 .. Len(sent') PROVE g[i] = Apply(g[i - 1], sent'[i])
    <2>1. CASE i \in 1 .. Len(sent)
        BY <1>1, <1>2, <1>3, <2>1
    <2>2. CASE i = Len(sent')
        BY <1>1, <1>2, <1>3, <2>2
    <2> QED BY <1>1, <2>1, <2>2
<1>6. \A i \in 0 .. Len(sent') : g[i].low < g[i].high
    BY <1>2, <1>3, <1>4
<1>7. g[0] = Defaults /\ (skipped' \/ remote' = g[delivered'])
    BY <1>1, <1>2, <1>3
<1> QED BY <1>3, <1>5, <1>6, <1>7 DEF ThresholdHistory

LEMMA ControlOrdered == Inv => control \in Thresholds /\ control.low < control.high
<1> SUFFICES ASSUME Inv PROVE control \in Thresholds /\ control.low < control.high
    OBVIOUS
<1>1. control \in Thresholds /\ Len(sent) \in 0 .. Len(sent)
    BY DEF Inv, TypeOK
<1> QED BY <1>1 DEF Inv, ThresholdHistory

LEMMA ReportInv == Inv /\ Report => Inv'
<1> SUFFICES ASSUME Inv, Report PROVE Inv'
    OBVIOUS
<1> DEFINE message == [field |-> "report", data |-> 0]
<1>1. message \in Messages /\ Put(message) /\ message.field = "report"
    BY DEF Report, Messages
<1> HIDE DEF message
<1>2. UNCHANGED <<link, delivered, ends, wire, peer, server, control, remote, history,
                  restarts>>
    BY DEF Report
<1>3. /\ WireOrder' /\ QueueOrder' /\ ReadOrder' /\ Aligned'
      /\ sent' \in Seq(Messages) /\ Len(sent') <= MaxMessages
      /\ Len(sent') = Len(sent) + 1
      /\ \A i \in 1 .. Len(sent) : sent'[i] = sent[i]
      /\ sent'[Len(sent) + 1] = message
      /\ queue' \in Seq(DOMAIN sent') /\ Len(queue') <= QueueDepth
    BY <1>1, <1>2, PutOrder DEF ends, server, history
<1>4. Len(sent) \in Nat
    BY DEF Inv, TypeOK
<1>5. TypeOK'
    BY <1>2, <1>3, <1>4 DEF Inv, TypeOK, ends, server, history
<1>6. MessagesInv'
    BY <1>1, <1>2, <1>3, <1>4 DEF Inv, MessagesInv, Report
<1>7. ThresholdHistory'
    <2>1. control' = Apply(control, message)
        BY <1>1, <1>2 DEF Apply
    <2>2. control' \in Thresholds /\ control'.low < control'.high
        BY <1>2, ControlOrdered
    <2> QED BY <1>1, <1>2, <1>3, <2>1, <2>2, HistoryGrows DEF history
<1> QED BY <1>2, <1>3, <1>5, <1>6, <1>7 DEF Inv, ConnInv, GarbledOnlyAfterSplit, ends, history

LEMMA SetThresholdInv == Inv /\ SetThreshold => Inv'
<1> SUFFICES ASSUME Inv, SetThreshold PROVE Inv'
    OBVIOUS
<1>1. PICK field \in {"low", "high"}, data \in Values :
          /\ AcceptThreshold(field, data)
          /\ control' = [control EXCEPT ![field] = data]
          /\ Put([field |-> field, data |-> data])
    BY DEF SetThreshold
<1> DEFINE message == [field |-> field, data |-> data]
<1>2. /\ message \in Messages /\ Put(message)
      /\ message.field = field /\ message.data = data
    BY <1>1 DEF Messages
<1> HIDE DEF message
<1>3. /\ link = "command"
      /\ UNCHANGED <<link, delivered, ends, wire, peer, server, remote, history, restarts>>
    BY DEF SetThreshold
<1>4. /\ WireOrder' /\ QueueOrder' /\ ReadOrder' /\ Aligned'
      /\ sent' \in Seq(Messages) /\ Len(sent') <= MaxMessages
      /\ Len(sent') = Len(sent) + 1
      /\ \A i \in 1 .. Len(sent) : sent'[i] = sent[i]
      /\ sent'[Len(sent) + 1] = message
      /\ queue' \in Seq(DOMAIN sent') /\ Len(queue') <= QueueDepth
    BY <1>2, <1>3, PutOrder DEF ends, server, history
<1>5. Len(sent) \in Nat /\ control \in Thresholds
    BY DEF Inv, TypeOK
<1>6. control.low \in Nat /\ control.high \in Nat /\ data \in Nat
    BY <1>5, ConstantsAssumption DEF Thresholds, ThresholdValues
<1>7. control.low < control.high
    BY ControlOrdered
<1>8. control' \in Thresholds /\ control'.low < control'.high
    <2>1. CASE field = "low"
        BY <1>1, <1>5, <1>6, <2>1 DEF AcceptThreshold, Thresholds, ThresholdValues
    <2>2. CASE field = "high"
        BY <1>1, <1>5, <1>6, <2>2 DEF AcceptThreshold, Thresholds, ThresholdValues
    <2> QED BY <2>1, <2>2
<1>9. TypeOK'
    BY <1>3, <1>4, <1>5, <1>8 DEF Inv, TypeOK, ends, server, history
<1>10. MessagesInv'
    BY <1>2, <1>3, <1>4, <1>5 DEF Inv, MessagesInv
<1>11. ThresholdHistory'
    <2>1. control' = Apply(control, message)
        BY <1>1, <1>2 DEF Apply
    <2> QED BY <1>2, <1>3, <1>4, <1>8, <2>1, HistoryGrows DEF history
<1> QED BY <1>3, <1>4, <1>9, <1>10, <1>11 DEF Inv, ConnInv, GarbledOnlyAfterSplit, ends, history

-----------------------------------------------------------------------------
(* A message leaves the queue, and is written to the last connection, in   *)
(* part perhaps, or lost.                                                  *)

LEMMA TailOrder ==
    ASSUME Inv, queue # <<>>, queue' = Tail(queue), UNCHANGED <<sent, delivered>>
    PROVE  /\ queue' \in Seq(DOMAIN sent') /\ Len(queue') <= QueueDepth
           /\ Head(queue) \in 1 .. Len(sent) /\ delivered < Head(queue)
           /\ \A c \in Conns : \A j \in 1 .. Len(wire[c]) : wire[c][j].n < Head(queue)
           /\ \A i \in 1 .. Len(queue') :
                  /\ queue'[i] \in 1 .. Len(sent) /\ delivered < queue'[i]
                  /\ Head(queue) < queue'[i]
                  /\ \A c \in Conns : \A j \in 1 .. Len(wire[c]) : wire[c][j].n < queue'[i]
           /\ \A i, j \in 1 .. Len(queue') : i < j => queue'[i] < queue'[j]
<1>1. /\ queue \in Seq(DOMAIN sent) /\ Len(queue) <= QueueDepth /\ Len(queue) \in Nat \ {0}
    BY EmptySeq DEF Inv, TypeOK
<1>2. /\ queue' \in Seq(DOMAIN sent) /\ Len(queue') = Len(queue) - 1
      /\ \A i \in 1 .. Len(queue') : queue'[i] = queue[i + 1]
    BY <1>1, HeadTailProperties
<1>3. Head(queue) = queue[1] /\ 1 \in 1 .. Len(queue)
    BY <1>1
<1>4. Len(queue') <= QueueDepth
    BY <1>1, <1>2, ConstantsAssumption
<1>5. ASSUME NEW i \in 1 .. Len(queue')
      PROVE  i + 1 \in 1 .. Len(queue) /\ 1 < i + 1
    BY <1>1, <1>2
<1>6. ASSUME NEW i \in 1 .. Len(queue'), NEW j \in 1 .. Len(queue'), i < j
      PROVE  queue'[i] < queue'[j]
    <2>1. i + 1 < j + 1
        BY <1>6, <1>1, <1>2
    <2> QED BY <1>2, <1>5, <2>1 DEF Inv, QueueOrder
<1> QED BY <1>2, <1>3, <1>4, <1>5, <1>6 DEF Inv, QueueOrder

\* The first k halves of message n are written to the last connection.
Grows(n, k) ==
    /\ wire' \in [Conns -> Seq(Halves)]
    /\ \A c \in Conns : c # conns => wire'[c] = wire[c]
    /\ Len(wire'[conns]) = Len(wire[conns]) + k
    /\ \A i \in 1 .. Len(wire[conns]) : wire'[conns][i] = wire[conns][i]
    /\ \A i \in 1 .. k : wire'[conns][Len(wire[conns]) + i] = [n |-> n, part |-> i]

LEMMA GrowsElements ==
    ASSUME TypeOK, conns \in Conns, NEW n, NEW k \in 1 .. 2, Grows(n, k),
           NEW c \in Conns, NEW i \in 1 .. Len(wire'[c])
    PROVE  \/ i \in 1 .. Len(wire[c]) /\ wire'[c][i] = wire[c][i]
           \/ /\ c = conns
              /\ i - Len(wire[c]) \in 1 .. k
              /\ wire'[c][i] = [n |-> n, part |-> i - Len(wire[c])]
<1>1. Len(wire[conns]) \in Nat
    BY DEF TypeOK
<1>2. CASE c # conns
    BY <1>2 DEF Grows
<1>3. CASE c = conns /\ i \in 1 .. Len(wire[conns])
    BY <1>3 DEF Grows
<1>4. CASE c = conns /\ i \notin 1 .. Len(wire[conns])
    <2>1. i - Len(wire[c]) \in 1 .. k /\ i = Len(wire[conns]) + (i - Len(wire[c]))
        BY <1>1, <1>4 DEF Grows
    <2> QED BY <1>4, <2>1 DEF Grows
<1> QED BY <1>2, <1>3, <1>4

LEMMA GrowsOrder ==
    ASSUME Inv, queue # <<>>, queue' = Tail(queue), conns \in Conns,
           NEW k \in 1 .. 2, Grows(Head(queue), k),
           UNCHANGED <<link, sent, delivered, conns, srvConn, clientResponse>>
    PROVE  WireOrder' /\ QueueOrder' /\ ReadOrder'
<1> DEFINE n == Head(queue)
<1>1. /\ n \in 1 .. Len(sent) /\ delivered < n
      /\ \A c \in Conns : \A j \in 1 .. Len(wire[c]) : wire[c][j].n < n
      /\ \A i \in 1 .. Len(queue') :
             /\ queue'[i] \in 1 .. Len(sent) /\ delivered < queue'[i]
             /\ n < queue'[i]
             /\ \A c \in Conns : \A j \in 1 .. Len(wire[c]) : wire[c][j].n < queue'[i]
      /\ \A i, j \in 1 .. Len(queue') : i < j => queue'[i] < queue'[j]
    BY TailOrder
<1>2. ASSUME NEW c \in Conns, NEW i \in 1 .. Len(wire'[c])
      PROVE  \/ i \in 1 .. Len(wire[c]) /\ wire'[c][i] = wire[c][i]
             \/ /\ c = conns
                /\ i - Len(wire[c]) \in 1 .. k
                /\ wire'[c][i] = [n |-> n, part |-> i - Len(wire[c])]
    BY GrowsElements DEF Inv
<1>3. \A c \in Conns : Len(wire[c]) \in Nat
    BY DEF Inv, TypeOK
<1> HIDE DEF n
<1>4. ASSUME NEW c \in Conns, NEW i \in 1 .. Len(wire'[c])
      PROVE  /\ wire'[c][i].n \in 1 .. Len(sent)
             /\ \A m \in 1 .. Len(queue') : wire'[c][i].n < queue'[m]
             /\ Readable(c) => delivered < wire'[c][i].n
    <2>1. CASE i \in 1 .. Len(wire[c]) /\ wire'[c][i] = wire[c][i]
        BY <1>1, <2>1 DEF Inv, WireOrder, ReadOrder
    <2>2. CASE wire'[c][i] = [n |-> n, part |-> i - Len(wire[c])]
        <3>1. wire'[c][i].n = n
            BY <2>2
        <3> QED BY <1>1, <3>1
    <2> QED BY <1>2, <2>1, <2>2
<1>5. ASSUME NEW c \in Conns, NEW i \in 1 .. Len(wire'[c]), NEW j \in 1 .. Len(wire'[c]),
             i < j
      PROVE  Before(wire'[c][i], wire'[c][j])
    <2>1. CASE j \in 1 .. Len(wire[c]) /\ wire'[c][j] = wire[c][j]
        <3>1. i \in 1 .. Len(wire[c]) /\ wire'[c][i] = wire[c][i]
            <4>1. Len(wire[c]) \in Nat /\ i \in 1 .. Len(wire[c])
                BY <1>3, <1>5, <2>1
            <4>2. ~(i - Len(wire[c]) \in 1 .. k)
                BY <4>1
            <4> QED BY <1>2, <4>1, <4>2
        <3> QED BY <1>5, <2>1, <3>1 DEF Inv, WireOrder
    <2>2. CASE /\ j - Len(wire[c]) \in 1 .. k
               /\ wire'[c][j] = [n |-> n, part |-> j - Len(wire[c])]
        <3>1. CASE i \in 1 .. Len(wire[c]) /\ wire'[c][i] = wire[c][i]
            BY <1>1, <2>2, <3>1 DEF Before
        <3>2. CASE /\ i - Len(wire[c]) \in 1 .. k
                   /\ wire'[c][i] = [n |-> n, part |-> i - Len(wire[c])]
            <4>1. i - Len(wire[c]) = 1 /\ j - Len(wire[c]) = 2
                BY <1>3, <1>5, <2>2, <3>2
            <4> QED BY <2>2, <3>2, <4>1 DEF Before
        <3> QED BY <1>2, <3>1, <3>2
    <2> QED BY <1>2, <2>1, <2>2
<1>6. ASSUME NEW c \in Conns, NEW d \in Conns, c < d,
             NEW i \in 1 .. Len(wire'[c]), NEW j \in 1 .. Len(wire'[d])
      PROVE  wire'[c][i].n < wire'[d][j].n
    <2>1. c # conns
        <3>1. SUFFICES ASSUME c = conns PROVE FALSE
            OBVIOUS
        <3>2. wire[d] = <<>> /\ wire'[d] = wire[d]
            BY <1>6, <3>1 DEF Inv, WireOrder, Grows, Conns
        <3> QED BY <3>2
    <2>2. i \in 1 .. Len(wire[c]) /\ wire'[c][i] = wire[c][i]
        BY <1>2, <2>1
    <2>3. CASE j \in 1 .. Len(wire[d]) /\ wire'[d][j] = wire[d][j]
        BY <1>6, <2>2, <2>3 DEF Inv, WireOrder
    <2>4. CASE wire'[d][j] = [n |-> n, part |-> j - Len(wire[d])]
        BY <1>1, <2>2, <2>4
    <2> QED BY <1>2, <2>3, <2>4
<1>7. \A c \in Conns : c > conns => wire'[c] = <<>>
    BY DEF Inv, WireOrder, Grows, Conns
<1>8. \A c \in Conns : Readable(c)' <=> Readable(c)
    BY DEF Readable
<1> QED BY <1>1, <1>4, <1>5, <1>6, <1>7, <1>8 DEF WireOrder, QueueOrder, ReadOrder

LEMMA GrowsAligned ==
    ASSUME Inv, conns \in Conns, NEW n, NEW k \in 1 .. 2, Grows(n, k), end = "open",
           split \subseteq split', k = 1 => conns \in split', UNCHANGED <<conns, end>>
    PROVE  Aligned'
<1> SUFFICES ASSUME NEW c \in Conns \ split'
             PROVE  /\ Len(wire'[c]) > 0 => wire'[c][1].part = 1
                    /\ \A i \in 1 .. Len(wire'[c]) - 1 :
                           \/ /\ wire'[c][i].part = 1 /\ wire'[c][i + 1].part = 2
                              /\ wire'[c][i].n = wire'[c][i + 1].n
                           \/ wire'[c][i].part = 2 /\ wire'[c][i + 1].part = 1
                    /\ c = conns' /\ end' = "open" /\ Len(wire'[c]) > 0 =>
                           wire'[c][Len(wire'[c])].part = 2
    BY DEF Aligned
<1>1. /\ Len(wire[c]) \in Nat
      /\ Len(wire[c]) > 0 => wire[c][1].part = 1
      /\ \A i \in 1 .. Len(wire[c]) - 1 :
             \/ /\ wire[c][i].part = 1 /\ wire[c][i + 1].part = 2
                /\ wire[c][i].n = wire[c][i + 1].n
             \/ wire[c][i].part = 2 /\ wire[c][i + 1].part = 1
      /\ c = conns /\ Len(wire[c]) > 0 => wire[c][Len(wire[c])].part = 2
    BY DEF Inv, TypeOK, Aligned
<1>2. CASE c # conns
    BY <1>1, <1>2 DEF Grows
<1>3. CASE c = conns
    <2> DEFINE l == Len(wire[c])
    <2>1. k = 2 /\ Len(wire'[c]) = l + 2 /\ l \in Nat
        BY <1>1, <1>3 DEF Grows
    <2>2. /\ \A i \in 1 .. l : wire'[c][i] = wire[c][i]
          /\ wire'[c][l + 1] = [n |-> n, part |-> 1]
          /\ wire'[c][l + 2] = [n |-> n, part |-> 2]
        BY <1>3, <2>1 DEF Grows
    <2>3. wire'[c][1].part = 1
        <3>1. CASE l = 0
            BY <2>2, <3>1
        <3>2. CASE l > 0
            BY <1>1, <2>1, <2>2, <3>2
        <3> QED BY <2>1, <3>1, <3>2
    <2>4. ASSUME NEW i \in 1 .. Len(wire'[c]) - 1
          PROVE  \/ /\ wire'[c][i].part = 1 /\ wire'[c][i + 1].part = 2
                    /\ wire'[c][i].n = wire'[c][i + 1].n
                 \/ wire'[c][i].part = 2 /\ wire'[c][i + 1].part = 1
        <3>1. CASE i \in 1 .. l - 1
            <4>1. i \in 1 .. l /\ i + 1 \in 1 .. l
                BY <2>1, <3>1
            <4>2. wire'[c][i] = wire[c][i] /\ wire'[c][i + 1] = wire[c][i + 1]
                BY <2>2, <4>1
            <4> QED BY <1>1, <3>1, <4>2
        <3>2. CASE i = l /\ l > 0
            BY <1>1, <1>3, <2>1, <2>2, <3>2
        <3>3. CASE i = l + 1
            BY <2>1, <2>2, <3>3
        <3> QED BY <2>1, <3>1, <3>2, <3>3
    <2>5. wire'[c][Len(wire'[c])].part = 2
        BY <2>1, <2>2
    <2> QED BY <2>3, <2>4, <2>5
<1> QED BY <1>2, <1>3

LEMMA PacketHalves ==
    ASSUME NEW n \in Nat \ {0}
    PROVE  /\ Packet(n) \in Seq(Halves) /\ Len(Packet(n)) = 2
           /\ Packet(n)[1] = [n |-> n, part |-> 1] /\ Packet(n)[2] = [n |-> n, part |-> 2]
           /\ Packet(n)[1] \in Halves
BY DEF Packet, Halves

LEMMA WholeGrows ==
    ASSUME TypeOK, conns \in Conns, NEW n \in Nat \ {0},
           wire' = [wire EXCEPT ![conns] = @ \o Packet(n)]
    PROVE  Grows(n, 2)
<1>1. wire[conns] \in Seq(Halves) /\ Len(wire[conns]) \in Nat
    BY DEF TypeOK
<1>2. PICK p \in Seq(Halves) :
          /\ p = Packet(n) /\ Len(p) = 2
          /\ p[1] = [n |-> n, part |-> 1] /\ p[2] = [n |-> n, part |-> 2]
    BY PacketHalves
<1>3. PICK w \in Seq(Halves) :
          /\ w = wire[conns] \o p /\ Len(w) = Len(wire[conns]) + Len(p)
          /\ \A i \in 1 .. Len(wire[conns]) + Len(p) :
                 w[i] = IF i <= Len(wire[conns]) THEN wire[conns][i]
                        ELSE p[i - Len(wire[conns])]
    <2> HIDE <1>2
    <2>1. /\ wire[conns] \o p \in Seq(Halves)
          /\ Len(wire[conns] \o p) = Len(wire[conns]) + Len(p)
          /\ \A i \in 1 .. Len(wire[conns]) + Len(p) :
                 (wire[conns] \o p)[i] = IF i <= Len(wire[conns]) THEN wire[conns][i]
                                        ELSE p[i - Len(wire[conns])]
        BY <1>1, ConcatProperties, Zenon
    <2> QED BY <2>1, Zenon
<1>4. wire' = [wire EXCEPT ![conns] = w]
    BY <1>2, <1>3
<1>5. /\ wire' \in [Conns -> Seq(Halves)] /\ wire'[conns] = w
      /\ \A c \in Conns : c # conns => wire'[c] = wire[c]
    BY <1>4 DEF TypeOK
<1>6. Len(w) = Len(wire[conns]) + 2
    BY <1>2, <1>3
<1>7. \A i \in 1 .. Len(wire[conns]) : w[i] = wire[conns][i]
    BY <1>1, <1>2, <1>3
<1>8. ASSUME NEW i \in 1 .. 2 PROVE w[Len(wire[conns]) + i] = [n |-> n, part |-> i]
    <2>1. w[Len(wire[conns]) + i] = p[i]
        BY <1>1, <1>2, <1>3
    <2> QED BY <1>2, <2>1
<1> QED BY <1>5, <1>6, <1>7, <1>8 DEF Grows

LEMMA HalfGrows ==
    ASSUME TypeOK, conns \in Conns, NEW n \in Nat \ {0},
           wire' = [wire EXCEPT ![conns] = Append(@, Packet(n)[1])]
    PROVE  Grows(n, 1)
<1>1. wire[conns] \in Seq(Halves) /\ Len(wire[conns]) \in Nat
    BY DEF TypeOK
<1>2. PICK h \in Halves : h = Packet(n)[1] /\ h = [n |-> n, part |-> 1]
    BY PacketHalves
<1>3. PICK w \in Seq(Halves) :
          /\ w = Append(wire[conns], h) /\ Len(w) = Len(wire[conns]) + 1
          /\ \A i \in 1 .. Len(wire[conns]) : w[i] = wire[conns][i]
          /\ w[Len(wire[conns]) + 1] = h
    <2>1. \A s \in Seq(Halves), e \in Halves :
              /\ Append(s, e) \in Seq(Halves) /\ Len(Append(s, e)) = Len(s) + 1
              /\ \A i \in 1 .. Len(s) : Append(s, e)[i] = s[i]
              /\ Append(s, e)[Len(s) + 1] = e
        BY AppendProperties
    <2>2. /\ Append(wire[conns], h) \in Seq(Halves)
          /\ Len(Append(wire[conns], h)) = Len(wire[conns]) + 1
          /\ \A i \in 1 .. Len(wire[conns]) : Append(wire[conns], h)[i] = wire[conns][i]
          /\ Append(wire[conns], h)[Len(wire[conns]) + 1] = h
        BY <1>1, <2>1, Zenon
    <2> QED BY <2>2, Zenon
<1>4. wire' = [wire EXCEPT ![conns] = w]
    BY <1>2, <1>3
<1>5. /\ wire' \in [Conns -> Seq(Halves)] /\ wire'[conns] = w
      /\ \A c \in Conns : c # conns => wire'[c] = wire[c]
    BY <1>4 DEF TypeOK
<1>6. Len(w) = Len(wire[conns]) + 1
    BY <1>3
<1>7. \A i \in 1 .. Len(wire[conns]) : w[i] = wire[conns][i]
    BY <1>3
<1>8. \A i \in 1 .. 1 : w[Len(wire[conns]) + i] = [n |-> n, part |-> i]
    BY <1>2, <1>3
<1>9. wire'[conns] = w
    BY <1>5
<1> HIDE <1>3
<1> QED BY <1>5, <1>6, <1>7, <1>8, <1>9, Zenon DEF Grows

\* The message is lost.
LEMMA TailOnly ==
    ASSUME Inv, queue # <<>>, queue' = Tail(queue),
           UNCHANGED <<link, sent, delivered, conns, wire, end, split, srvConn, clientResponse>>
    PROVE  WireOrder' /\ QueueOrder' /\ ReadOrder' /\ Aligned'
<1>1. QueueOrder'
    BY TailOrder DEF QueueOrder
<1>2. WireOrder' /\ ReadOrder' /\ Aligned'
    BY DEF Inv, WireOrder, ReadOrder, Readable, Aligned
<1> QED BY <1>1, <1>2

\* What every sender leaves as it is.
LEMMA SendKeeps ==
    ASSUME Inv, UNCHANGED <<link, sent, delivered, control, remote, skipped, conns, end,
                            garbled>>,
           split \subseteq split'
    PROVE  /\ MessagesInv' /\ ThresholdHistory' /\ GarbledOnlyAfterSplit' /\ ConnInv'
BY DEF Inv, MessagesInv, ThresholdHistory, GarbledOnlyAfterSplit, ConnInv

LEMMA ClientSendInv == Inv /\ ClientSend => Inv'
<1> SUFFICES ASSUME Inv, ClientSend PROVE Inv'
    OBVIOUS
<1>1. /\ queue # <<>> /\ queue' = Tail(queue) /\ ~socketLost
      /\ UNCHANGED <<link, sent, delivered, conns, end, peer, server, control, remote,
                      skipped, garbled, restarts>>
    BY DEF ClientSend
<1>2. conns \in Conns /\ conns \in Nat
    BY <1>1, ConstantsAssumption DEF Inv, TypeOK, ConnInv, Conns
<1>3. /\ queue' \in Seq(DOMAIN sent') /\ Len(queue') <= QueueDepth
      /\ Head(queue) \in Nat \ {0}
    BY <1>1, TailOrder
<1>4. /\ WireOrder' /\ QueueOrder' /\ ReadOrder' /\ Aligned'
      /\ wire' \in [Conns -> Seq(Halves)]
      /\ socketLost' \in BOOLEAN /\ (end = "none" => socketLost')
      /\ split \subseteq split' /\ split' \subseteq Conns /\ splits' \in 0 .. MaxSplits
    <2>1. CASE /\ end = "open"
               /\ wire' = [wire EXCEPT ![conns] = @ \o Packet(Head(queue))]
               /\ UNCHANGED <<socketLost, split, splits>>
        <3>1. Grows(Head(queue), 2)
            BY <1>2, <1>3, <2>1, WholeGrows DEF Inv
        <3>2. WireOrder' /\ QueueOrder' /\ ReadOrder'
            BY <1>1, <1>2, <3>1, GrowsOrder DEF server
        <3>3. Aligned'
            BY <1>1, <1>2, <2>1, <3>1, GrowsAligned
        <3> QED BY <2>1, <3>1, <3>2, <3>3 DEF Inv, TypeOK, Grows
    <2>2. CASE /\ end = "open" /\ splits < MaxSplits
               /\ wire' = [wire EXCEPT ![conns] = Append(@, Packet(Head(queue))[1])]
               /\ split' = split \cup {conns} /\ splits' = splits + 1
               /\ UNCHANGED socketLost
        <3>1. Grows(Head(queue), 1)
            BY <1>2, <1>3, <2>2, HalfGrows DEF Inv
        <3>2. WireOrder' /\ QueueOrder' /\ ReadOrder'
            BY <1>1, <1>2, <3>1, GrowsOrder DEF server
        <3>3. Aligned'
            BY <1>1, <1>2, <2>2, <3>1, GrowsAligned
        <3>4. splits' \in 0 .. MaxSplits
            BY <2>2, ConstantsAssumption DEF Inv, TypeOK
        <3> QED BY <1>2, <2>2, <3>1, <3>2, <3>3, <3>4 DEF Inv, TypeOK, Grows
    <2>3. CASE /\ end = "dead" /\ socketLost' \in BOOLEAN
               /\ UNCHANGED <<wire, split, splits>>
        <3>1. WireOrder' /\ QueueOrder' /\ ReadOrder' /\ Aligned'
            BY <1>1, <2>3, TailOnly DEF server
        <3> QED BY <2>3, <3>1 DEF Inv, TypeOK
    <2> QED BY <2>1, <2>2, <2>3 DEF ClientSend
<1>5. TypeOK'
    BY <1>1, <1>3, <1>4 DEF Inv, TypeOK, server
<1>6. MessagesInv' /\ ThresholdHistory' /\ GarbledOnlyAfterSplit' /\ ConnInv'
    BY <1>1, <1>4, SendKeeps
<1> QED BY <1>4, <1>5, <1>6 DEF Inv

LEMMA TakeCmdInv == Inv /\ TakeCmd => Inv'
<1> SUFFICES ASSUME Inv, TakeCmd PROVE Inv'
    OBVIOUS
<1>1. /\ UNCHANGED <<link, sent, delivered, ends, srvConn, clientResponse, control, remote,
                      history, restarts>>
      /\ srvPc' \in {"serve", "killed"}
    BY DEF TakeCmd, SendOn
<1>2. /\ WireOrder' /\ QueueOrder' /\ ReadOrder' /\ Aligned'
      /\ wire' \in [Conns -> Seq(Halves)]
      /\ queue' \in Seq(DOMAIN sent') /\ Len(queue') <= QueueDepth
      /\ peer' \in [Conns -> {"open", "fin", "reset", "gone"}]
    <2>1. CASE queue = <<>>
        <3>1. UNCHANGED <<queue, wire, peer>>
            BY <2>1 DEF TakeCmd
        <3>2. WireOrder' /\ QueueOrder' /\ ReadOrder' /\ Aligned'
            BY <1>1, <3>1 DEF Inv, WireOrder, QueueOrder, ReadOrder, Readable, Aligned, ends,
                              history
        <3> QED BY <1>1, <3>1, <3>2 DEF Inv, TypeOK
    <2>2. CASE queue # <<>>
        <3>1. queue' = Tail(queue)
            BY <2>2 DEF TakeCmd
        <3>2. /\ queue' \in Seq(DOMAIN sent') /\ Len(queue') <= QueueDepth
              /\ Head(queue) \in Nat \ {0}
            BY <1>1, <2>2, <3>1, TailOrder
        <3>3. peer' \in [Conns -> {"open", "fin", "reset", "gone"}]
            BY <2>2 DEF TakeCmd, SendOn, Inv, TypeOK
        <3>4. CASE UNCHANGED wire
            <4>1. WireOrder' /\ QueueOrder' /\ ReadOrder' /\ Aligned'
                BY <1>1, <2>2, <3>1, <3>4, TailOnly DEF ends, history
            <4> QED BY <3>2, <3>3, <3>4, <4>1 DEF Inv, TypeOK
        <3>5. CASE wire' # wire
            <4>1. /\ clientResponse /\ srvConn = conns /\ end = "open"
                  /\ wire' = [wire EXCEPT ![conns] = @ \o Packet(Head(queue))]
                BY <2>2, <3>5 DEF TakeCmd, SendOn
            <4>2. conns \in Conns
                BY <4>1 DEF Inv, TypeOK, Conns
            <4>3. Grows(Head(queue), 2)
                BY <3>2, <4>1, <4>2, WholeGrows DEF Inv
            <4>4. WireOrder' /\ QueueOrder' /\ ReadOrder'
                BY <1>1, <2>2, <3>1, <4>2, <4>3, GrowsOrder DEF ends
            <4>5. Aligned'
                BY <1>1, <4>1, <4>2, <4>3, GrowsAligned DEF ends, history
            <4> QED BY <3>2, <3>3, <4>3, <4>4, <4>5 DEF Grows
        <3> QED BY <3>4, <3>5
    <2> QED BY <2>1, <2>2
<1>3. TypeOK'
    BY <1>1, <1>2 DEF Inv, TypeOK, ends, history
<1>4. MessagesInv' /\ ThresholdHistory' /\ GarbledOnlyAfterSplit' /\ ConnInv'
    BY <1>1, SendKeeps DEF ends, history
<1> QED BY <1>2, <1>3, <1>4 DEF Inv

-----------------------------------------------------------------------------
(* Something is read.                                                      *)

LEMMA TwoLong ==
    ASSUME NEW S, NEW s \in Seq(S), Len(s) = 2, NEW a \in S, NEW b \in S, s[1] = a, s[2] = b
    PROVE  s = <<a, b>>
<1>1. <<a, b>> \in Seq(S) /\ Len(<<a, b>>) = 2 /\ <<a, b>>[1] = a /\ <<a, b>>[2] = b
    OBVIOUS
<1>2. \A i \in 1 .. 2 : s[i] = <<a, b>>[i]
    OBVIOUS
<1> QED BY <1>1, <1>2, SeqEqual

\* The first two halves of a connection.
LEMMA FirstTwo ==
    ASSUME TypeOK, NEW c \in Conns, Len(wire[c]) >= 2
    PROVE  /\ Len(SubSeq(wire[c], 1, 2)) = 2
           /\ SubSeq(wire[c], 1, 2)[1] = wire[c][1]
           /\ SubSeq(wire[c], 1, 2)[2] = wire[c][2]
           /\ wire[c][1] \in Halves /\ wire[c][2] \in Halves
           /\ SubSeq(wire[c], 1, 2) = <<wire[c][1], wire[c][2]>>
<1>1. wire[c] \in Seq(Halves) /\ Len(wire[c]) \in Nat
    BY DEF TypeOK
<1>2. wire[c][1] \in Halves /\ wire[c][2] \in Halves
    BY <1>1, ElementOfSeq
<1>3. \A i \in 1 .. 2 : wire[c][i] \in Halves
    BY <1>2
<1>4. /\ SubSeq(wire[c], 1, 2) \in Seq(Halves) /\ Len(SubSeq(wire[c], 1, 2)) = 2
      /\ \A i \in 1 .. 2 : SubSeq(wire[c], 1, 2)[i] = wire[c][i]
    BY <1>1, <1>3, SubSeqProperties
<1>5. SubSeq(wire[c], 1, 2) = <<wire[c][1], wire[c][2]>>
    <2>1. PICK s \in Seq(Halves) : s = SubSeq(wire[c], 1, 2)
        BY <1>4, Zenon
    <2>2. PICK a \in Halves, b \in Halves : a = wire[c][1] /\ b = wire[c][2]
        BY <1>2
    <2>3. Len(s) = 2 /\ s[1] = a /\ s[2] = b
        BY <1>4, <2>1, <2>2
    <2>4. s = <<a, b>>
        <3>1. \A t \in Seq(Halves) : \A x, y \in Halves :
                  Len(t) = 2 /\ t[1] = x /\ t[2] = y => t = <<x, y>>
            BY TwoLong, Zenon
        <3> QED BY <2>3, <3>1, Zenon
    <2> QED BY <2>1, <2>2, <2>4
<1> QED BY <1>2, <1>4, <1>5

\* A packet nobody sent is read on a connection with half packets only.
LEMMA GarbledIsSplit ==
    ASSUME Inv, NEW c \in Conns, Len(wire[c]) >= 2,
           SubSeq(wire[c], 1, 2) # Packet(wire[c][1].n)
    PROVE  c \in split
<1> SUFFICES ASSUME c \notin split PROVE FALSE
    OBVIOUS
<1>1. /\ SubSeq(wire[c], 1, 2) = <<wire[c][1], wire[c][2]>>
      /\ wire[c][1] \in Halves /\ wire[c][2] \in Halves
    BY FirstTwo DEF Inv
<1>2. Len(wire[c]) \in Nat
    BY DEF Inv, TypeOK
<1>3. wire[c][1].part = 1 /\ wire[c][2].part = 2 /\ wire[c][1].n = wire[c][2].n
    <2>1. 1 \in 1 .. Len(wire[c]) - 1 /\ Len(wire[c]) > 0 /\ 1 + 1 = 2
        BY <1>2
    <2> QED BY <2>1 DEF Inv, Aligned
<1>4. /\ wire[c][1] = [n |-> wire[c][1].n, part |-> 1]
      /\ wire[c][2] = [n |-> wire[c][1].n, part |-> 2]
    BY <1>1, <1>3 DEF Halves
<1> QED BY <1>1, <1>4 DEF Packet

\* A packet is later than the last one, and all that follows is later than it.
LEMMA PacketOrder ==
    ASSUME Inv, NEW c \in Conns, Len(wire[c]) >= 2, Readable(c),
           SubSeq(wire[c], 1, 2) = Packet(wire[c][1].n)
    PROVE  /\ wire[c][1].n \in 1 .. Len(sent) /\ delivered < wire[c][1].n
           /\ \A i \in 1 .. Len(queue) : wire[c][1].n < queue[i]
           /\ \A i \in 3 .. Len(wire[c]) : wire[c][1].n < wire[c][i].n
           /\ \A d \in Conns : c < d =>
                  \A i \in 1 .. Len(wire[d]) : wire[c][1].n < wire[d][i].n
<1>1. Len(wire[c]) \in Nat /\ 1 \in 1 .. Len(wire[c]) /\ 2 \in 1 .. Len(wire[c])
    BY DEF Inv, TypeOK
<1>2. wire[c][2].n = wire[c][1].n /\ wire[c][2].part = 2
    <2>1. SubSeq(wire[c], 1, 2) = <<wire[c][1], wire[c][2]>>
        BY FirstTwo DEF Inv
    <2>2. wire[c][2] = [n |-> wire[c][1].n, part |-> 2]
        BY <2>1 DEF Packet
    <2> QED BY <2>2
<1>3. wire[c][1].n \in 1 .. Len(sent) /\ delivered < wire[c][1].n
    BY <1>1 DEF Inv, WireOrder, ReadOrder
<1>4. \A i \in 1 .. Len(queue) : wire[c][1].n < queue[i]
    BY <1>1 DEF Inv, QueueOrder
<1>5. ASSUME NEW i \in 3 .. Len(wire[c]) PROVE wire[c][1].n < wire[c][i].n
    <2>1. i \in 1 .. Len(wire[c]) /\ 2 < i
        BY <1>1
    <2>2. Before(wire[c][2], wire[c][i])
        BY <1>1, <2>1 DEF Inv, WireOrder
    <2> QED BY <1>2, <2>2 DEF Before
<1>6. \A d \in Conns : c < d => \A i \in 1 .. Len(wire[d]) : wire[c][1].n < wire[d][i].n
    BY <1>1 DEF Inv, WireOrder
<1> QED BY <1>3, <1>4, <1>5, <1>6

\* The message handed on is the next of the history, or one was skipped.
LEMMA HistoryFollows ==
    ASSUME Inv, NEW n \in 1 .. Len(sent), delivered' = n,
           skipped' = (skipped \/ delivered' # delivered + 1),
           Obey(n), UNCHANGED <<link, sent, control>>
    PROVE  ThresholdHistory' /\ remote' \in Thresholds
<1>1. PICK h \in [0 .. Len(sent) -> Thresholds] :
          /\ h[0] = Defaults
          /\ \A i \in 1 .. Len(sent) : h[i] = Apply(h[i - 1], sent[i])
          /\ \A i \in 0 .. Len(sent) : h[i].low < h[i].high
          /\ h[Len(sent)] = control
          /\ skipped \/ remote = h[delivered]
    BY DEF Inv, ThresholdHistory
<1>2. delivered \in Nat /\ Len(sent) \in Nat /\ sent[n] \in Messages /\ remote \in Thresholds
    BY ElementOfSeq DEF Inv, TypeOK
<1>3. remote' = Apply(remote, sent[n])
    BY <1>2 DEF Obey, Apply, Inv, MessagesInv
<1>4. ASSUME ~skipped' PROVE remote' = h[delivered']
    <2>1. ~skipped /\ delivered' = delivered + 1
        BY <1>4, Zenon
    <2>2. n = delivered + 1 /\ n - 1 = delivered
        BY <1>2, <2>1
    <2>3. remote = h[delivered]
        BY <1>1, <2>1, Zenon
    <2> QED BY <1>1, <1>3, <2>2, <2>3
<1>5. remote' \in Thresholds
    BY <1>2 DEF Obey, Inv, MessagesInv, Messages, Thresholds, ThresholdValues
<1>6. skipped' \/ remote' = h[delivered']
    BY <1>4
<1>7. ThresholdHistory'
    <2>1. sent' = sent /\ control' = control
        OBVIOUS
    <2> HIDE DEF Obey
    <2> QED BY <1>1, <1>6, <2>1 DEF ThresholdHistory
<1> QED BY <1>5, <1>7

LEMMA ReceiveKeeps ==
    ASSUME Inv, NEW c \in Conns, wire[c] # <<>>, Readable(c), ReceiveFrom(c),
           UNCHANGED <<link, sent, queue, conns, end, control>>,
           \A d \in Conns : Readable(d)' => Readable(d) /\ d >= c
    PROVE  /\ WireOrder' /\ QueueOrder' /\ ReadOrder' /\ Aligned' /\ GarbledOnlyAfterSplit'
           /\ MessagesInv' /\ ThresholdHistory'
           /\ wire' \in [Conns -> Seq(Halves)] /\ delivered' \in 0 .. Len(sent)
           /\ remote' \in Thresholds /\ skipped' \in BOOLEAN
           /\ split' \subseteq Conns /\ garbled' \subseteq Conns /\ splits' \in 0 .. MaxSplits
<1>1. /\ wire[c] \in Seq(Halves) /\ Len(wire[c]) \in Nat \ {0} /\ splits \in 0 .. MaxSplits
      /\ split \subseteq Conns /\ garbled \subseteq Conns /\ skipped \in BOOLEAN
      /\ remote \in Thresholds /\ delivered \in 0 .. Len(sent) /\ Len(sent) \in Nat
    BY EmptySeq DEF Inv, TypeOK
<1>2. PICK k \in Reads(wire[c]) :
          /\ wire' = [wire EXCEPT ![c] = SubSeq(@, k + 1, Len(@))]
          /\ \/ /\ k = 1
                /\ split' = split \cup {c}
                /\ splits' = IF Len(wire[c]) > 1 THEN splits + 1 ELSE splits
                /\ UNCHANGED <<delivered, remote, skipped, garbled>>
             \/ /\ k = 2 /\ SubSeq(wire[c], 1, 2) = Packet(wire[c][1].n)
                /\ delivered' = wire[c][1].n
                /\ skipped' = (skipped \/ delivered' # delivered + 1)
                /\ Obey(delivered')
                /\ UNCHANGED <<split, splits, garbled>>
             \/ /\ k = 2 /\ SubSeq(wire[c], 1, 2) # Packet(wire[c][1].n)
                /\ garbled' = garbled \cup {c}
                /\ skipped' = TRUE
                /\ ObeyGarbled
                /\ UNCHANGED <<delivered, split, splits>>
    BY DEF ReceiveFrom
<1>3. k \in 1 .. 2 /\ k <= Len(wire[c]) /\ (k = 1 /\ Len(wire[c]) > 1 => splits < MaxSplits)
    <2>1. CASE Len(wire[c]) = 1
        BY <2>1 DEF Reads
    <2>2. CASE Len(wire[c]) # 1
        <3>1. \A l \in Nat \ {0} : l # 1 => l >= 2
            OBVIOUS
        <3>2. k \in {1, 2} /\ (k = 1 => splits < MaxSplits)
            BY <2>2 DEF Reads
        <3>3. Len(wire[c]) >= 2
            BY <1>1, <2>2, <3>1, Zenon
        <3> QED BY <1>1, <3>2, <3>3
    <2> QED BY <2>1, <2>2
<1> DEFINE off == [d \in Conns |-> IF d = c THEN k ELSE 0]
<1>4. /\ Shrinks(off) /\ Len(wire'[c]) + k = Len(wire[c])
      /\ off[c] = k /\ \A d \in Conns : d # c => off[d] = 0 /\ wire'[d] = wire[d]
    <2>1. wire' = [wire EXCEPT ![c] = SubSeq(@, k + 1, Len(@))]
        BY <1>2
    <2>2. Shrinks(off) /\ Len(wire'[c]) + k = Len(wire[c])
        BY <1>3, <2>1, ReadShrinks DEF Inv
    <2> QED BY <2>1, <2>2 DEF Inv, TypeOK
<1> HIDE DEF off
<1>5. WireOrder'
    BY <1>4, ShrinksWireOrder DEF Inv, TypeOK
<1>6. Aligned'
    <2>1. split \subseteq split' /\ (k = 1 => c \in split')
        BY <1>2
    <2>2. \A d \in Conns \ split' : off[d] \in {0, 2}
        BY <1>3, <1>4, <2>1
    <2>3. ASSUME NEW d \in Conns PROVE Len(wire'[d]) + off[d] = Len(wire[d])
        <3>1. CASE d = c
            BY <1>4, <3>1
        <3>2. CASE d # c
            <4>1. Len(wire[d]) \in Nat
                BY DEF Inv, TypeOK
            <4> QED BY <1>4, <3>2, <4>1
        <3> QED BY <3>1, <3>2
    <2>4. \A d \in Conns \ split' :
              d = conns' /\ end' = "open" /\ Len(wire'[d]) > 0 =>
                  d = conns /\ end = "open" /\ Len(wire'[d]) + off[d] = Len(wire[d])
        BY <2>3
    <2> QED BY <1>4, <2>1, <2>2, <2>4, ShrinksAligned DEF Inv
<1>7. MessagesInv' /\ wire' \in [Conns -> Seq(Halves)]
    BY <1>4 DEF Inv, MessagesInv, Shrinks
<1>8. CASE UNCHANGED delivered
    <2>1. QueueOrder'
        BY <1>4, <1>8, ShrinksQueueOrder DEF Inv, QueueOrder
    <2>2. ReadOrder'
        BY <1>4, <1>8, ShrinksReadOrder DEF Inv
    <2>3. CASE k = 1
        <3>1. UNCHANGED <<remote, skipped, garbled>> /\ split' = split \cup {c}
            BY <1>2, <2>3
        <3>2. splits' \in 0 .. MaxSplits
            BY <1>1, <1>2, <1>3, <2>3, ConstantsAssumption
        <3>3. ThresholdHistory' /\ GarbledOnlyAfterSplit'
            BY <1>8, <3>1 DEF Inv, ThresholdHistory, GarbledOnlyAfterSplit
        <3> QED BY <1>1, <1>5, <1>6, <1>7, <1>8, <2>1, <2>2, <3>1, <3>2, <3>3
    <2>4. CASE /\ k = 2 /\ SubSeq(wire[c], 1, 2) # Packet(wire[c][1].n)
               /\ garbled' = garbled \cup {c}
               /\ skipped' = TRUE
               /\ ObeyGarbled
               /\ UNCHANGED <<delivered, split, splits>>
        <3>1. c \in split
            BY <1>3, <2>4, GarbledIsSplit
        <3>2. GarbledOnlyAfterSplit' /\ garbled' \subseteq Conns
            BY <1>1, <2>4, <3>1 DEF Inv, GarbledOnlyAfterSplit
        <3>3. remote' \in Thresholds
            BY <1>1, <2>4 DEF ObeyGarbled, Thresholds, ThresholdValues
        <3>4. ThresholdHistory'
            BY <2>4 DEF Inv, ThresholdHistory
        <3> QED BY <1>1, <1>5, <1>6, <1>7, <1>8, <2>1, <2>2, <2>4, <3>2, <3>3, <3>4
    <2>5. CASE k = 2 /\ SubSeq(wire[c], 1, 2) = Packet(wire[c][1].n)
        <3>1. delivered' = wire[c][1].n
            BY <1>2, <2>5
        <3>2. delivered < wire[c][1].n
            BY <1>3, <2>5, PacketOrder
        <3> QED BY <1>1, <1>8, <3>1, <3>2
    <2> QED BY <1>2, <2>3, <2>4, <2>5
<1>9. CASE /\ k = 2 /\ SubSeq(wire[c], 1, 2) = Packet(wire[c][1].n)
           /\ delivered' = wire[c][1].n
           /\ skipped' = (skipped \/ delivered' # delivered + 1)
           /\ Obey(delivered')
           /\ UNCHANGED <<split, splits, garbled>>
    <2>1. /\ wire[c][1].n \in 1 .. Len(sent) /\ delivered < wire[c][1].n
          /\ \A i \in 1 .. Len(queue) : wire[c][1].n < queue[i]
          /\ \A i \in 3 .. Len(wire[c]) : wire[c][1].n < wire[c][i].n
          /\ \A d \in Conns : c < d =>
                 \A i \in 1 .. Len(wire[d]) : wire[c][1].n < wire[d][i].n
        BY <1>3, <1>9, PacketOrder
    <2>2. delivered' \in 1 .. Len(sent) /\ Obey(delivered')
        BY <1>9, <2>1
    <2>3. QueueOrder'
        BY <1>4, <1>9, <2>1, ShrinksQueueOrder DEF Inv
    <2>4. ReadOrder'
        <3> SUFFICES ASSUME NEW d \in Conns, Readable(d)', NEW i \in 1 .. Len(wire'[d])
                     PROVE  delivered' < wire'[d][i].n
            BY DEF ReadOrder
        <3>1. d >= c /\ Len(wire'[d]) \in Nat
            BY <1>7
        <3>2. CASE d = c
            <4>1. i \in 1 .. Len(wire'[c]) /\ Len(wire'[c]) \in Nat
                BY <3>1, <3>2
            <4>2. i + 2 \in 3 .. Len(wire[c])
                BY <1>1, <1>4, <1>9, <4>1
            <4>3. wire'[c][i] = wire[c][i + 2]
                <5>1. wire'[c][i] = wire[c][i + off[c]]
                    BY <1>4, <4>1 DEF Shrinks
                <5> QED BY <1>4, <1>9, <5>1
            <4> QED BY <1>9, <2>1, <3>2, <4>2, <4>3
        <3>3. CASE d # c
            <4>1. c < d /\ wire'[d] = wire[d]
                BY <1>4, <3>1, <3>3 DEF Conns
            <4> QED BY <1>9, <2>1, <4>1
        <3> QED BY <3>2, <3>3
    <2>5. ThresholdHistory' /\ remote' \in Thresholds
        <3>1. PICK n \in 1 .. Len(sent) : delivered' = n
            BY <2>2
        <3>2. Obey(n)
            BY <2>2, <3>1
        <3> QED BY <1>9, <3>1, <3>2, HistoryFollows
    <2>6. skipped' \in BOOLEAN
        BY <1>9, Zenon
    <2>7. GarbledOnlyAfterSplit'
        BY <1>9 DEF Inv, GarbledOnlyAfterSplit
    <2> QED BY <1>1, <1>5, <1>6, <1>7, <1>9, <2>2, <2>3, <2>4, <2>5, <2>6, <2>7
<1> QED BY <1>2, <1>8, <1>9

LEMMA ClientReceiveInv == Inv /\ ClientReceive => Inv'
<1> SUFFICES ASSUME Inv, ClientReceive PROVE Inv'
    OBVIOUS
<1>1. /\ link = "command" /\ ~socketLost
      /\ UNCHANGED <<link, queue, sent, conns, end, peer, server, control, restarts>>
    BY DEF ClientReceive
<1>2. conns \in Conns /\ conns \in Nat /\ Readable(conns)
    BY <1>1, ConstantsAssumption DEF Inv, TypeOK, ConnInv, Conns, Readable
<1>3. CASE wire[conns] # <<>> /\ ReceiveFrom(conns) /\ UNCHANGED socketLost
    <2>1. \A d \in Conns : Readable(d)' => Readable(d) /\ d >= conns
        BY <1>1, <1>2 DEF Readable
    <2>2. /\ WireOrder' /\ QueueOrder' /\ ReadOrder' /\ Aligned' /\ GarbledOnlyAfterSplit'
          /\ MessagesInv' /\ ThresholdHistory'
          /\ wire' \in [Conns -> Seq(Halves)] /\ delivered' \in 0 .. Len(sent)
          /\ remote' \in Thresholds /\ skipped' \in BOOLEAN
          /\ split' \subseteq Conns /\ garbled' \subseteq Conns /\ splits' \in 0 .. MaxSplits
        BY <1>1, <1>2, <1>3, <2>1, ReceiveKeeps
    <2>3. TypeOK'
        BY <1>1, <1>3, <2>2 DEF Inv, TypeOK, server
    <2> QED BY <1>1, <2>2, <2>3 DEF Inv, ConnInv
<1>4. CASE /\ wire[conns] = <<>> /\ end = "dead" /\ socketLost' = TRUE
           /\ UNCHANGED <<wire, delivered, remote, history>>
    <2>1. TypeOK'
        BY <1>1, <1>4 DEF Inv, TypeOK, server, history
    <2>2. WireOrder' /\ QueueOrder' /\ ReadOrder' /\ Aligned' /\ ConnInv'
        BY <1>1, <1>4 DEF Inv, WireOrder, QueueOrder, ReadOrder, Readable, Aligned, ConnInv,
                          server, history
    <2>3. GarbledOnlyAfterSplit' /\ MessagesInv' /\ ThresholdHistory'
        BY <1>1, <1>4 DEF Inv, GarbledOnlyAfterSplit, MessagesInv, ThresholdHistory, history
    <2> QED BY <2>1, <2>2, <2>3 DEF Inv
<1> QED BY <1>3, <1>4 DEF ClientReceive

LEMMA ServeInv == Inv /\ Serve => Inv'
<1> SUFFICES ASSUME Inv, Serve PROVE Inv'
    OBVIOUS
<1> DEFINE c == IF clientResponse THEN srvConn ELSE srvConn + 1
           incoming == link = "telemetry" /\ wire[c] # <<>>
<1>1. /\ UNCHANGED <<link, queue, sent, ends, control, restarts>>
      /\ srvPc' \in {"take", "serve", "killed"}
    BY DEF Serve, NextPass
<1>2. /\ conns \in Nat /\ srvConn \in 0 .. conns /\ clientResponse \in BOOLEAN
      /\ (clientResponse => srvConn > 0) /\ conns <= MaxConns /\ c \in Nat /\ c > 0
    BY ConstantsAssumption DEF Inv, TypeOK
<1>3. \/ UNCHANGED <<srvConn, clientResponse, peer, wire, delivered, remote, history>>
      \/ /\ c <= conns /\ srvConn' = c /\ incoming /\ ReceiveFrom(c)
         /\ clientResponse' = TRUE /\ UNCHANGED peer
      \/ /\ c <= conns /\ srvConn' = c
         /\ clientResponse' \in BOOLEAN
         /\ peer' = IF peer[c] = "reset" THEN [peer EXCEPT ![c] = AfterReset] ELSE peer
         /\ UNCHANGED <<wire, delivered, remote, history>>
    <2>1. (peer[c] \in {"open", "reset"}) \in BOOLEAN
        OBVIOUS
    <2> QED BY <2>1, Zenon DEF Serve
<1> HIDE DEF c
<1>4. c >= srvConn /\ (c = srvConn => clientResponse) /\ (c # srvConn => c = srvConn + 1)
    BY <1>2 DEF c
<1>5. CASE UNCHANGED <<srvConn, clientResponse, peer, wire, delivered, remote, history>>
    <2>1. TypeOK'
        BY <1>1, <1>5 DEF Inv, TypeOK, ends, history
    <2>2. WireOrder' /\ QueueOrder' /\ ReadOrder' /\ Aligned' /\ ConnInv'
        BY <1>1, <1>5 DEF Inv, WireOrder, QueueOrder, ReadOrder, Readable, Aligned, ConnInv,
                          ends, history
    <2>3. GarbledOnlyAfterSplit' /\ MessagesInv' /\ ThresholdHistory'
        BY <1>1, <1>5 DEF Inv, GarbledOnlyAfterSplit, MessagesInv, ThresholdHistory, ends, history
    <2> QED BY <2>1, <2>2, <2>3 DEF Inv
<1>6. CASE /\ c <= conns /\ srvConn' = c /\ incoming /\ ReceiveFrom(c)
           /\ clientResponse' = TRUE /\ UNCHANGED peer
    <2>1. c \in Conns /\ srvConn' \in 0 .. conns /\ srvConn' > 0
        <3>1. c \in Conns
            BY <1>2, <1>6, ConstantsAssumption DEF Conns
        <3> QED BY <1>2, <1>6, <3>1
    <2>5. Readable(c)
        BY <1>2, <1>4, <1>6 DEF Readable
    <2>2. ASSUME NEW d \in Conns, Readable(d)' PROVE Readable(d) /\ d >= c
        <3>1. d \in Nat /\ d >= c
            BY <1>1, <1>2, <1>6, <2>2 DEF Conns, Readable
        <3>2. Readable(d)
            BY <1>2, <1>4, <1>6, <3>1 DEF Readable
        <3> QED BY <3>1, <3>2
    <2>3. /\ WireOrder' /\ QueueOrder' /\ ReadOrder' /\ Aligned' /\ GarbledOnlyAfterSplit'
          /\ MessagesInv' /\ ThresholdHistory'
          /\ wire' \in [Conns -> Seq(Halves)] /\ delivered' \in 0 .. Len(sent)
          /\ remote' \in Thresholds /\ skipped' \in BOOLEAN
          /\ split' \subseteq Conns /\ garbled' \subseteq Conns /\ splits' \in 0 .. MaxSplits
        BY <1>1, <1>6, <2>1, <2>2, <2>5, ReceiveKeeps DEF ends
    <2>4. TypeOK'
        BY <1>1, <1>6, <2>1, <2>3 DEF Inv, TypeOK, ends
    <2> QED BY <1>1, <2>3, <2>4 DEF Inv, ConnInv, ends
<1>7. CASE /\ c <= conns /\ srvConn' = c
           /\ clientResponse' \in BOOLEAN
           /\ peer' = IF peer[c] = "reset" THEN [peer EXCEPT ![c] = AfterReset] ELSE peer
           /\ UNCHANGED <<wire, delivered, remote, history>>
    <2>1. srvConn' \in 0 .. conns /\ srvConn' > 0 /\ c \in Conns
        <3>1. c \in Conns
            BY <1>2, <1>7, ConstantsAssumption DEF Conns
        <3> QED BY <1>2, <1>7, <3>1
    <2>2. peer' \in [Conns -> {"open", "fin", "reset", "gone"}]
        BY <1>7 DEF Inv, TypeOK, AfterReset
    <2>3. TypeOK'
        BY <1>1, <1>7, <2>1, <2>2 DEF Inv, TypeOK, ends, history
    <2>4. ASSUME NEW d \in Conns, Readable(d)' PROVE Readable(d)
        BY <1>1, <1>2, <1>4, <1>7, <2>4 DEF Conns, Readable, ends
    <2>5. ReadOrder'
        BY <1>7, <2>4 DEF Inv, ReadOrder
    <2>6. WireOrder' /\ QueueOrder' /\ Aligned' /\ ConnInv'
        BY <1>1, <1>7 DEF Inv, WireOrder, QueueOrder, Aligned, ConnInv, ends, history
    <2>7. GarbledOnlyAfterSplit' /\ MessagesInv' /\ ThresholdHistory'
        BY <1>1, <1>7 DEF Inv, GarbledOnlyAfterSplit, MessagesInv, ThresholdHistory, ends, history
    <2> QED BY <2>3, <2>5, <2>6, <2>7 DEF Inv
<1> QED BY <1>3, <1>5, <1>6, <1>7

-----------------------------------------------------------------------------
(* Connections come and go.                                                *)

LEMMA ConnectInv == Inv /\ Connect => Inv'
<1> SUFFICES ASSUME Inv, Connect PROVE Inv'
    OBVIOUS
<1>1. /\ conns < MaxConns /\ conns' = conns + 1 /\ end' = "open" /\ socketLost' = FALSE
      /\ wire' = [wire EXCEPT ![conns + 1] = <<>>]
      /\ peer' = [c \in Conns |-> IF c <= conns /\ peer[c] = "open" THEN "reset" ELSE peer[c]]
      /\ UNCHANGED <<link, queue, sent, delivered, server, control, remote, history,
                     restarts>>
    BY DEF Connect, FreshWire
<1>2. /\ conns \in Nat /\ conns' \in 0 .. MaxConns /\ conns' \in Conns /\ srvConn \in 0 .. conns
      /\ conns + 1 \in Conns /\ wire \in [Conns -> Seq(Halves)]
    BY <1>1, ConstantsAssumption DEF Inv, TypeOK, Conns
<1>3. wire[conns + 1] = <<>>
    BY <1>2 DEF Inv, WireOrder
<1>4. wire' = wire
    BY <1>1, <1>2, <1>3
<1>5. peer' \in [Conns -> {"open", "fin", "reset", "gone"}]
    BY <1>1 DEF Inv, TypeOK
<1>6. srvConn' \in 0 .. conns'
    BY <1>1, <1>2 DEF server
<1>7. TypeOK'
    BY <1>1, <1>2, <1>4, <1>5, <1>6 DEF Inv, TypeOK, server, history
<1>8. WireOrder'
    <2>1. \A c \in Conns : c > conns' => c > conns
        BY <1>1, <1>2 DEF Conns
    <2> QED BY <1>1, <1>4, <2>1 DEF Inv, WireOrder
<1>9. QueueOrder' /\ MessagesInv' /\ ThresholdHistory' /\ GarbledOnlyAfterSplit'
    BY <1>1, <1>4 DEF Inv, QueueOrder, MessagesInv, ThresholdHistory, GarbledOnlyAfterSplit,
                      history
<1>10. ReadOrder'
    <2>1. ASSUME NEW c \in Conns, Readable(c)' PROVE Readable(c) \/ wire'[c] = <<>>
        BY <1>1, <1>3, <1>4, <2>1 DEF Readable, server
    <2> QED BY <1>1, <1>4, <2>1 DEF Inv, ReadOrder
<1>11. Aligned'
    <2> SUFFICES ASSUME NEW c \in Conns \ split,
                        c = conns' /\ end' = "open" /\ Len(wire'[c]) > 0
                 PROVE  wire'[c][Len(wire'[c])].part = 2
        BY <1>1, <1>4 DEF Inv, Aligned, history
    <2> QED BY <1>1, <1>3, <1>4
<1>12. ConnInv'
    BY <1>1, <1>2 DEF ConnInv
<1> QED BY <1>7, <1>8, <1>9, <1>10, <1>11, <1>12 DEF Inv

\* What is on its way on the last connection is lost, from some byte on.
LEMMA LossKeeps ==
    ASSUME Inv, conns \in Conns, NEW rest \in Prefixes(wire[conns]),
           wire' = [wire EXCEPT ![conns] = rest], end' # "open",
           UNCHANGED <<link, sent, delivered, conns, srvConn, clientResponse, split>>
    PROVE  /\ WireOrder' /\ ReadOrder' /\ Aligned' /\ wire' \in [Conns -> Seq(Halves)]
           /\ queue' = queue => QueueOrder'
<1> DEFINE off == [c \in Conns |-> 0]
<1>1. Shrinks(off)
    BY CutShrinks DEF Inv
<1>2. \A c \in Conns : off[c] = 0
    OBVIOUS
<1> HIDE DEF off
<1>3. WireOrder'
    BY <1>1, ShrinksWireOrder DEF Inv, TypeOK
<1>4. ReadOrder'
    <2>1. \A c \in Conns : Readable(c)' => Readable(c)
        BY DEF Readable
    <2> QED BY <1>1, <2>1, ShrinksReadOrder DEF Inv
<1>5. Aligned'
    BY <1>1, <1>2, ShrinksAligned DEF Inv
<1>6. ASSUME queue' = queue PROVE QueueOrder'
    BY <1>1, <1>6, ShrinksQueueOrder DEF Inv, QueueOrder
<1> QED BY <1>1, <1>3, <1>4, <1>5, <1>6 DEF Shrinks

LEMMA BreakInv == Inv /\ Break => Inv'
<1> SUFFICES ASSUME Inv, Break PROVE Inv'
    OBVIOUS
<1>1. /\ end = "open" /\ end' = "dead"
      /\ UNCHANGED <<link, queue, sent, delivered, conns, socketLost, peer, server, control,
                     remote, history, restarts>>
    BY DEF Break
<1>2. conns \in Conns
    BY <1>1 DEF Inv, TypeOK, ConnInv, Conns
<1>3. PICK rest \in Prefixes(wire[conns]) : wire' = [wire EXCEPT ![conns] = rest]
    BY DEF Break
<1>4. /\ WireOrder' /\ ReadOrder' /\ Aligned' /\ wire' \in [Conns -> Seq(Halves)]
      /\ QueueOrder'
    BY <1>1, <1>2, <1>3, LossKeeps DEF server, history
<1>5. TypeOK'
    BY <1>1, <1>4 DEF Inv, TypeOK, server, history
<1>6. MessagesInv' /\ ThresholdHistory' /\ GarbledOnlyAfterSplit' /\ ConnInv'
    BY <1>1 DEF Inv, MessagesInv, ThresholdHistory, GarbledOnlyAfterSplit, ConnInv, history
<1> QED BY <1>4, <1>5, <1>6 DEF Inv

LEMMA RestartInv == Inv /\ Restart => Inv'
<1> SUFFICES ASSUME Inv, Restart PROVE Inv'
    OBVIOUS
<1>1. /\ conns > 0 /\ restarts < MaxRestarts /\ restarts' = restarts + 1
      /\ end' = "none" /\ socketLost' = TRUE
      /\ queue' = IF link = "command" THEN queue ELSE <<>>
      /\ remote' = Defaults /\ skipped' = TRUE
      /\ UNCHANGED <<link, sent, delivered, conns, peer, server, control, split, garbled,
                     splits>>
    BY DEF Restart
<1>2. conns \in Conns
    BY <1>1 DEF Inv, TypeOK, Conns
<1>3. PICK rest \in Prefixes(wire[conns]) : wire' = [wire EXCEPT ![conns] = rest]
    <2>1. <<>> \in Prefixes(wire[conns])
        <3>1. wire[conns] \in Seq(Halves) /\ Len(wire[conns]) \in Nat
            BY <1>2 DEF Inv, TypeOK
        <3>2. SubSeq(wire[conns], 1, 0) = <<>>
            BY <3>1
        <3> QED BY <3>1, <3>2 DEF Prefixes
    <2> QED BY <2>1 DEF Restart
<1>4. /\ WireOrder' /\ ReadOrder' /\ Aligned' /\ wire' \in [Conns -> Seq(Halves)]
      /\ queue' = queue => QueueOrder'
    BY <1>1, <1>2, <1>3, LossKeeps DEF server
<1>5. QueueOrder'
    <2>1. CASE queue' = queue
        BY <1>4, <2>1
    <2>2. CASE queue' = <<>>
        BY <2>2 DEF QueueOrder
    <2> QED BY <1>1, <2>1, <2>2
<1>6. TypeOK'
    <2>1. restarts' \in 0 .. MaxRestarts
        BY <1>1, ConstantsAssumption DEF Inv, TypeOK
    <2>2. remote' \in Thresholds
        BY <1>1 DEF Defaults, Thresholds, ThresholdValues
    <2>3. queue' \in Seq(DOMAIN sent') /\ Len(queue') <= QueueDepth
        <3>1. CASE queue' = queue
            BY <1>1, <3>1 DEF Inv, TypeOK
        <3>2. CASE queue' = <<>>
            <4>1. queue' \in Seq(DOMAIN sent') /\ Len(queue') = 0
                BY <3>2, EmptySeq
            <4> QED BY <4>1, ConstantsAssumption
        <3> QED BY <1>1, <3>1, <3>2
    <2> QED BY <1>1, <1>4, <2>1, <2>2, <2>3 DEF Inv, TypeOK, server
<1>7. MessagesInv' /\ ThresholdHistory' /\ GarbledOnlyAfterSplit' /\ ConnInv'
    BY <1>1 DEF Inv, MessagesInv, ThresholdHistory, GarbledOnlyAfterSplit, ConnInv
<1> QED BY <1>4, <1>5, <1>6, <1>7 DEF Inv

LEMMA LearnInv == Inv /\ Learn => Inv'
<1> SUFFICES ASSUME Inv, Learn PROVE Inv'
    OBVIOUS
<1>1. UNCHANGED <<link, queue, sent, delivered, ends, wire, server, control, remote, history,
                  restarts>>
    BY DEF Learn
<1>2. peer' \in [Conns -> {"open", "fin", "reset", "gone"}]
    BY DEF Learn, Inv, TypeOK
<1>3. TypeOK'
    BY <1>1, <1>2 DEF Inv, TypeOK, ends, server, history
<1>4. WireOrder' /\ QueueOrder' /\ ReadOrder' /\ Aligned' /\ ConnInv'
    BY <1>1 DEF Inv, WireOrder, QueueOrder, ReadOrder, Readable, Aligned, ConnInv, ends,
                server, history
<1>5. MessagesInv' /\ ThresholdHistory' /\ GarbledOnlyAfterSplit'
    BY <1>1 DEF Inv, MessagesInv, ThresholdHistory, GarbledOnlyAfterSplit, ends, server, history
<1> QED BY <1>3, <1>4, <1>5 DEF Inv

LEMMA StutterInv == Inv /\ UNCHANGED vars => Inv'
<1> SUFFICES ASSUME Inv, UNCHANGED vars PROVE Inv'
    OBVIOUS
<1>1. TypeOK'
    BY DEF Inv, TypeOK, vars, ends, server, history
<1>2. WireOrder' /\ QueueOrder' /\ ReadOrder' /\ Aligned' /\ ConnInv'
    BY DEF Inv, WireOrder, QueueOrder, ReadOrder, Readable, Aligned, ConnInv, vars, ends,
           server, history
<1>3. MessagesInv' /\ ThresholdHistory' /\ GarbledOnlyAfterSplit'
    BY DEF Inv, MessagesInv, ThresholdHistory, GarbledOnlyAfterSplit, vars, ends, server, history
<1> QED BY <1>1, <1>2, <1>3 DEF Inv

LEMMA InvNext == Inv /\ [Next]_vars => Inv'
<1> SUFFICES ASSUME Inv, [Next]_vars PROVE Inv'
    OBVIOUS
<1> QED BY ReportInv, SetThresholdInv, ConnectInv, ClientSendInv, ClientReceiveInv, BreakInv,
           RestartInv, LearnInv, TakeCmdInv, ServeInv, StutterInv DEF Next, Client, Server

LEMMA InvAlways == SafetySpec => []Inv
BY InvInit, InvNext, PTL DEF SafetySpec

-----------------------------------------------------------------------------
(* The theorems.                                                           *)

\* The queue keeps to its depth, and every variable to its range.
THEOREM TypeCorrect == Spec => []TypeOK
<1>1. Inv => TypeOK
    BY DEF Inv
<1> QED BY <1>1, InvAlways, PTL DEF Spec

\* A packet that nobody sent is accepted only on a connection on which half a
\* packet was read or written: a new connection starts in step.
THEOREM StartsInStep == Spec => []GarbledOnlyAfterSplit
<1>1. Inv => GarbledOnlyAfterSplit
    BY DEF Inv
<1> QED BY <1>1, InvAlways, PTL DEF Spec

LEMMA HistoryIsOrdered == Inv => ThresholdsCrossOnlyByLoss
<1> SUFFICES ASSUME Inv, ~skipped PROVE remote.low < remote.high
    BY DEF ThresholdsCrossOnlyByLoss
<1>1. delivered \in 0 .. Len(sent)
    BY DEF Inv, TypeOK
<1> QED BY <1>1 DEF Inv, ThresholdHistory

\* The thresholds of the remote node cross only when a command was lost or
\* garbled, or when it has restarted: each of them was compared with the other
\* by the control node, whose values the remote node otherwise goes through.
THEOREM ThresholdsOrdered == Spec => []ThresholdsCrossOnlyByLoss
BY HistoryIsOrdered, InvAlways, PTL DEF Spec

(***************************************************************************)
(* Refinement of LossyFifo: queueing a message sends it, a packet that is  *)
(* handed on delivers it, and no other step concerns the two ends.         *)
(***************************************************************************)
LEMMA PutSends ==
    ASSUME Inv, NEW message, Put(message), UNCHANGED delivered
    PROVE  Link!Send
<1>1. sent \in Seq(Messages) /\ sent' = Append(sent, message)
    BY DEF Inv, TypeOK, Put
<1>2. Len(sent') = Len(sent) + 1
    BY <1>1
<1> QED BY <1>2 DEF Link!Send

LEMMA ReceiveDelivers ==
    ASSUME Inv, NEW c \in Conns, wire[c] # <<>>, Readable(c), ReceiveFrom(c), UNCHANGED sent
    PROVE  [Link!Next]_(Link!vars)
<1>1. CASE UNCHANGED delivered
    BY <1>1 DEF Link!vars
<1>2. CASE SubSeq(wire[c], 1, 2) = Packet(wire[c][1].n) /\ delivered' = wire[c][1].n
           /\ 2 \in Reads(wire[c])
    <2>1. Len(wire[c]) \in Nat \ {0} /\ Len(wire[c]) # 1
        BY <1>2, EmptySeq DEF Reads, Inv, TypeOK
    <2>2. Len(wire[c]) >= 2
        <3>1. \A l \in Nat \ {0} : l # 1 => l >= 2
            OBVIOUS
        <3> QED BY <2>1, <3>1, Zenon
    <2>3. wire[c][1].n \in 1 .. Len(sent) /\ delivered < wire[c][1].n
        BY <1>2, <2>2, PacketOrder
    <2>4. delivered \in Nat /\ Len(sent) \in Nat
        BY DEF Inv, TypeOK
    <2>5. delivered' \in delivered + 1 .. Len(sent)
        BY <1>2, <2>3, <2>4
    <2> QED BY <2>5 DEF Link!Next, Link!Deliver
<1> QED BY <1>1, <1>2 DEF ReceiveFrom

\* Messages are handed on in the order in which they were sent and none twice,
\* over all connections of a link, its restarts and its half packets included.
THEOREM LinkInOrder == Spec => ImplementsLink
<1>1. Init => Link!Init
    BY DEF Init, Link!Init
<1>2. Inv /\ [Next]_vars => [Link!Next]_(Link!vars)
    <2> SUFFICES ASSUME Inv, [Next]_vars PROVE [Link!Next]_(Link!vars)
        OBVIOUS
    <2>1. CASE Report
        <3>1. UNCHANGED delivered
            BY <2>1 DEF Report
        <3> QED BY <2>1, <3>1, PutSends DEF Report, Link!Next
    <2>2. CASE SetThreshold
        <3>1. UNCHANGED delivered
            BY <2>2 DEF SetThreshold
        <3> QED BY <2>2, <3>1, PutSends DEF SetThreshold, Link!Next
    <2>3. CASE ClientReceive /\ wire[conns] # <<>>
        <3>1. ReceiveFrom(conns) /\ UNCHANGED sent
            BY <2>3 DEF ClientReceive
        <3>2. conns \in Conns /\ Readable(conns)
            BY <2>3, ConstantsAssumption
               DEF ClientReceive, Inv, TypeOK, ConnInv, Conns, Readable
        <3> QED BY <2>3, <3>1, <3>2, ReceiveDelivers
    <2>4. ASSUME NEW c \in Nat, c = IF clientResponse THEN srvConn ELSE srvConn + 1,
                 c <= conns, link = "telemetry", wire[c] # <<>>, ReceiveFrom(c),
                 UNCHANGED sent
          PROVE  [Link!Next]_(Link!vars)
        <3>1. c \in Conns
            BY <2>4, ConstantsAssumption DEF Inv, TypeOK, Conns
        <3>2. Readable(c)
            BY <2>4 DEF Inv, TypeOK, Readable
        <3> QED BY <2>4, <3>1, <3>2, ReceiveDelivers
    <2>5. CASE Serve
        <3>1. CASE UNCHANGED delivered
            BY <2>5, <3>1 DEF Serve, Link!vars
        <3>2. CASE ~UNCHANGED delivered
            <4> DEFINE c == IF clientResponse THEN srvConn ELSE srvConn + 1
            <4>1. c \in Nat
                BY DEF Inv, TypeOK
            <4>2. /\ c <= conns /\ link = "telemetry" /\ wire[c] # <<>> /\ ReceiveFrom(c)
                  /\ UNCHANGED sent
                BY <2>5, <3>2, Zenon DEF Serve
            <4> QED BY <2>4, <4>1, <4>2
        <3> QED BY <3>1, <3>2
    <2>6. CASE UNCHANGED <<sent, delivered>>
        BY <2>6 DEF Link!vars
    <2> QED BY <2>1, <2>2, <2>3, <2>5, <2>6
        DEF Next, Client, Server, Connect, ClientSend, ClientReceive, Break, Restart, Learn,
            TakeCmd, vars
<1> QED BY <1>1, <1>2, InvAlways, PTL DEF Spec, SafetySpec, ImplementsLink, Link!Spec
=============================================================================

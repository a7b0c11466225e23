------------------------------- MODULE RemoteLink -------------------------------
(***************************************************************************)
(* One of the four TCP connections between the nodes, with the thread that *)
(* serves it on the control node (bbg/src/remote*Thread.c) and the task    *)
(* that uses it on the remote node (tiva/src/remoteThread.c).              *)
(*                                                                         *)
(* On a "telemetry" link (status, log, data) the remote node sends; on the *)
(* "command" link the control node does, and the commands modelled are the *)
(* two that set a moisture threshold (bbg/src/main.c).  Messages are known *)
(* by their number.  A packet has two halves, as the two ends read and     *)
(* write a stream of bytes and not packets.                                *)
(***************************************************************************)
EXTENDS Naturals, Sequences

CONSTANTS
    Values,           \* threshold values that are typed
    DefaultLow, DefaultHigh,
    SoilMoistureMax,  \* SOIL_MOISTURE_MAX
    QueueDepth,       \* of the queue in front of the sender
    MaxMessages,      \* bound: messages sent
    MaxConns,         \* bound: connections made
    MaxSplits,        \* bound: reads and writes of half a packet
    MaxRestarts       \* bound: restarts of the remote node

ASSUME ConstantsAssumption ==
    /\ Values \subseteq Nat
    /\ DefaultLow \in Nat /\ DefaultHigh \in Nat /\ DefaultLow < DefaultHigh
    /\ SoilMoistureMax \in Nat
    /\ QueueDepth \in Nat \ {0}
    /\ MaxMessages \in Nat /\ MaxConns \in Nat \ {0}
    /\ MaxSplits \in Nat /\ MaxRestarts \in Nat

VARIABLES
    link,             \* which kind of link this is
    queue,            \* cmdMsgQueue, or the queue of the remote node's task
    sent,             \* history: the messages sent
    delivered,        \* history: the last message handed on by the receiver
    conns,            \* connections made by the remote node
    end,              \* the remote node's end of the last one
    socketLost,       \* g_statusSocketLost, g_cmdSocketLost, ...
    wire,             \* per connection: halves written and not read
    peer,             \* per connection: what the control node's kernel knows
    srvConn,          \* the last connection accepted
    clientResponse,   \* FALSE where it is 0
    srvPc,            \* where the server thread is
    control, remote,  \* the two copies of the thresholds
    skipped,          \* history: the receiver has not had exactly what was sent
    split, garbled,   \* history: connections with half packets, and with packets
                      \* accepted that nobody sent
    splits, restarts  \* bounds

ends == <<conns, end, socketLost>>
server == <<srvConn, clientResponse, srvPc>>
history == <<skipped, split, garbled, splits>>
vars == <<link, queue, sent, delivered, ends, wire, peer, server, control, remote,
          history, restarts>>

Conns == 1 .. MaxConns
Defaults == [low |-> DefaultLow, high |-> DefaultHigh]
ThresholdValues == Values \cup {DefaultLow, DefaultHigh}
Thresholds == [low : ThresholdValues, high : ThresholdValues]
Messages == [field : {"low", "high"}, data : Values] \cup {[field |-> "report", data |-> 0]}
Halves == [n : Nat \ {0}, part : 1..2]
Packet(n) == <<[n |-> n, part |-> 1], [n |-> n, part |-> 2]>>

TypeOK ==
    /\ link \in {"telemetry", "command"}
    /\ sent \in Seq(Messages) /\ Len(sent) <= MaxMessages
    /\ queue \in Seq(DOMAIN sent) /\ Len(queue) <= QueueDepth
    /\ delivered \in 0 .. Len(sent)
    /\ conns \in 0 .. MaxConns
    /\ end \in {"none", "open", "dead"}
    /\ socketLost \in BOOLEAN /\ (end = "none" => socketLost)
    /\ wire \in [Conns -> Seq(Halves)]
    /\ peer \in [Conns -> {"open", "fin", "reset", "gone"}]
    /\ srvConn \in 0 .. conns
    /\ clientResponse \in BOOLEAN /\ (clientResponse => srvConn > 0)
    /\ srvPc \in {"take", "serve", "killed"}
    /\ control \in Thresholds /\ remote \in Thresholds
    /\ skipped \in BOOLEAN
    /\ split \subseteq Conns /\ garbled \subseteq Conns
    /\ splits \in 0 .. MaxSplits /\ restarts \in 0 .. MaxRestarts

NextPass == IF link = "command" THEN "take" ELSE "serve"

Init ==
    /\ link \in {"telemetry", "command"}
    /\ queue = <<>> /\ sent = <<>> /\ delivered = 0
    /\ conns = 0 /\ end = "none" /\ socketLost = TRUE
    /\ wire = [c \in Conns |-> <<>>] /\ peer = [c \in Conns |-> "open"]
    /\ srvConn = 0 /\ clientResponse = FALSE /\ srvPc = NextPass
    /\ control = Defaults /\ remote = Defaults
    /\ skipped = FALSE /\ split = {} /\ garbled = {}
    /\ splits = 0 /\ restarts = 0

-----------------------------------------------------------------------------
(* The queue in front of the sender.                                       *)

\* [mutant] the queue has no limit
PutUnbounded(message) ==
    /\ Len(sent) < MaxMessages
    /\ sent' = Append(sent, message)
    /\ queue' = Append(queue, Len(sent) + 1)

\* [mutant] the newest message is sent first
PutReplace(message) ==
    /\ Len(sent) < MaxMessages
    /\ sent' = Append(sent, message)
    /\ queue' = IF Len(queue) < QueueDepth THEN <<Len(sent) + 1>> \o queue ELSE queue

\* Whoever queues a message goes on as if it had been queued: nobody looks at
\* the result of a send to a full queue.
Put(message) ==
    /\ Len(sent) < MaxMessages
    /\ sent' = Append(sent, message)
    /\ queue' = IF Len(queue) < QueueDepth THEN Append(queue, Len(sent) + 1) ELSE queue

Report ==
    /\ link = "telemetry"
    /\ Put([field |-> "report", data |-> 0])
    /\ UNCHANGED <<link, delivered, ends, wire, peer, server, control, remote, history,
                   restarts>>

\* [mutant] the new threshold is not compared with the other one
AnyThreshold(field, data) == data \in Values

\* 0 asks for the prompt
AcceptThreshold(field, data) ==
    /\ data # 0 /\ data <= SoilMoistureMax
    /\ IF field = "low" THEN data < control.high ELSE data > control.low

\* CMD_SETMOISTURE_LOWTHRES and CMD_SETMOISTURE_HIGHTHRES
SetThreshold ==
    /\ link = "command"
    /\ \E field \in {"low", "high"}, data \in Values :
           /\ AcceptThreshold(field, data)
           /\ control' = [control EXCEPT ![field] = data]
           /\ Put([field |-> field, data |-> data])
    /\ UNCHANGED <<link, delivered, ends, wire, peer, server, remote, history, restarts>>

-----------------------------------------------------------------------------
(* What the receiver makes of the bytes it reads.                          *)

\* A read of a packet's length returns less when less has arrived.
Reads(bytes) ==
    IF Len(bytes) = 1 THEN {1} ELSE IF splits < MaxSplits THEN {1, 2} ELSE {2}

\* A packet of the right length that nobody sent may be any command.
Obey(n) ==
    remote' = IF link = "command"
              THEN [remote EXCEPT ![sent[n].field] = sent[n].data]
              ELSE remote

ObeyGarbled ==
    remote' \in IF link = "command"
                THEN {remote} \cup {[remote EXCEPT ![field] = data] :
                                       field \in {"low", "high"}, data \in Values}
                ELSE {remote}

\* Take k halves of connection c and hand on what looks like a packet: only its
\* length is looked at.
ReceiveFrom(c) ==
    \E k \in Reads(wire[c]) :
        /\ wire' = [wire EXCEPT ![c] = SubSeq(@, k + 1, Len(@))]
        /\ \/ /\ k = 1
              /\ split' = split \cup {c}
              /\ splits' = IF Len(wire[c]) > 1 THEN splits + 1 ELSE splits
              /\ UNCHANGED <<delivered, remote, skipped, garbled>>
           \/ /\ k = 2 /\ SubSeq(wire[c], 1, 2) = Packet(wire[c][1].n)
              /\ delivered' = wire[c][1].n
              /\ skipped' = (skipped \/ delivered' # delivered + 1)
              /\ Obey(delivered')
              /\ UNCHANGED <<split, splits, garbled>>
           \/ /\ k = 2 /\ SubSeq(wire[c], 1, 2) # Packet(wire[c][1].n)
              /\ garbled' = garbled \cup {c}
              /\ skipped' = TRUE
              /\ ObeyGarbled
              /\ UNCHANGED <<delivered, split, splits>>

-----------------------------------------------------------------------------
(* The remote node's task.                                                 *)

\* [mutant] what was not read from the last connection is read from the new one
FreshWireKept(c) == IF c = 1 THEN <<>> ELSE wire[c - 1]

FreshWire(c) == <<>>

\* The task binds its socket to a fixed port, so that a new connection makes
\* the control node's kernel give up the one before it.
Connect ==
    /\ socketLost
    /\ conns < MaxConns
    /\ conns' = conns + 1
    /\ end' = "open" /\ socketLost' = FALSE
    /\ wire' = [wire EXCEPT ![conns + 1] = FreshWire(conns + 1)]
    /\ peer' = [c \in Conns |-> IF c <= conns /\ peer[c] = "open" THEN "reset" ELSE peer[c]]
    /\ UNCHANGED <<link, queue, sent, delivered, server, control, remote, history,
                   restarts>>

\* status and log: the message is off the queue before it is sent; data is read
\* afresh, which is a queue of one.  A send may write a part only.
ClientSend ==
    /\ link = "telemetry"
    /\ ~socketLost
    /\ queue # <<>>
    /\ queue' = Tail(queue)
    /\ \/ /\ end = "open"
          /\ wire' = [wire EXCEPT ![conns] = @ \o Packet(Head(queue))]
          /\ UNCHANGED <<socketLost, split, splits>>
       \/ /\ end = "open" /\ splits < MaxSplits
          /\ wire' = [wire EXCEPT ![conns] = Append(@, Packet(Head(queue))[1])]
          /\ split' = split \cup {conns} /\ splits' = splits + 1
          /\ UNCHANGED socketLost
       \/ /\ end = "dead"           \* ENOTCONN, or nothing known yet
          /\ socketLost' \in BOOLEAN
          /\ UNCHANGED <<wire, split, splits>>
    /\ UNCHANGED <<link, sent, delivered, conns, end, peer, server, control, remote,
                   skipped, garbled, restarts>>

\* remoteCmdTask: readSocketData, and the command is carried out
ClientReceive ==
    /\ link = "command"
    /\ ~socketLost
    /\ \/ /\ wire[conns] # <<>>
          /\ ReceiveFrom(conns)
          /\ UNCHANGED socketLost
       \/ /\ wire[conns] = <<>> /\ end = "dead"
          /\ socketLost' = TRUE
          /\ UNCHANGED <<wire, delivered, remote, history>>
    /\ UNCHANGED <<link, queue, sent, conns, end, peer, server, control, restarts>>

Prefixes(s) == {SubSeq(s, 1, k) : k \in 0 .. Len(s)}

\* The connection breaks: what is on its way is lost from some byte on.
Break ==
    /\ end = "open"
    /\ end' = "dead"
    /\ \E rest \in Prefixes(wire[conns]) : wire' = [wire EXCEPT ![conns] = rest]
    /\ UNCHANGED <<link, queue, sent, delivered, conns, socketLost, peer, server, control,
                   remote, history, restarts>>

\* The remote node restarts, and starts with its own defaults.  (Before the first
\* connection this only empties its queue.)
Restart ==
    /\ conns > 0 /\ restarts < MaxRestarts
    /\ restarts' = restarts + 1
    /\ end' = "none" /\ socketLost' = TRUE
    /\ \E rest \in IF link = "command" THEN {<<>>} ELSE Prefixes(wire[conns]) :
           wire' = [wire EXCEPT ![conns] = rest]
    /\ queue' = IF link = "command" THEN queue ELSE <<>>
    /\ remote' = Defaults
    /\ skipped' = TRUE
    /\ UNCHANGED <<link, sent, delivered, conns, peer, server, control, split, garbled,
                   splits>>

-----------------------------------------------------------------------------
(* The control node's thread.                                              *)

\* its kernel learns that the other end is no longer there
Learn ==
    /\ conns > 0 /\ end # "open" /\ peer[conns] = "open"
    /\ \E state \in {"fin", "reset"} : peer' = [peer EXCEPT ![conns] = state]
    /\ UNCHANGED <<link, queue, sent, delivered, ends, wire, server, control, remote,
                   history, restarts>>

\* send: the error of a reset is reported once, as that of a recv is; after it,
\* and nowhere is SIGPIPE handled, a send ends the program.
SendOn(c, n) ==
    /\ wire' = IF c = conns /\ end = "open" THEN [wire EXCEPT ![c] = @ \o Packet(n)]
               ELSE wire
    /\ peer' = IF peer[c] = "reset" THEN [peer EXCEPT ![c] = "gone"] ELSE peer
    /\ srvPc' = IF peer[c] = "gone" THEN "killed" ELSE "serve"

\* remoteCmdThread takes a command off the queue before it looks for a client;
\* without one it is dropped
TakeCmd ==
    /\ srvPc = "take"
    /\ IF queue = <<>>
       THEN srvPc' = "serve" /\ UNCHANGED <<queue, wire, peer>>
       ELSE /\ queue' = Tail(queue)
            /\ IF clientResponse THEN SendOn(srvConn, Head(queue))
               ELSE srvPc' = "serve" /\ UNCHANGED <<wire, peer>>
    /\ UNCHANGED <<link, sent, delivered, ends, srvConn, clientResponse, control, remote,
                   history, restarts>>

\* [mutant] a reset is taken for a recv that timed out
ResetAsTimeout == "reset"

\* recv reports a reset once, with -1, and then that the connection is over
AfterReset == "gone"

\* accept unless there is a client, then recv
Serve ==
    /\ srvPc = "serve"
    /\ LET c == IF clientResponse THEN srvConn ELSE srvConn + 1
           incoming == link = "telemetry" /\ wire[c] # <<>>
       IN \/ /\ c > conns                           \* nobody to accept
             /\ UNCHANGED <<srvConn, clientResponse, peer, wire, delivered, remote,
                            history>>
          \/ /\ c <= conns
             /\ srvConn' = c
             /\ \/ /\ incoming
                   /\ ReceiveFrom(c)
                   /\ clientResponse' = TRUE
                   /\ UNCHANGED peer
                \/ /\ ~incoming
                   /\ clientResponse' = (peer[c] \in {"open", "reset"})
                   /\ peer' = IF peer[c] = "reset" THEN [peer EXCEPT ![c] = AfterReset]
                              ELSE peer
                   /\ UNCHANGED <<wire, delivered, remote, history>>
    /\ srvPc' = NextPass
    /\ UNCHANGED <<link, queue, sent, ends, control, restarts>>

-----------------------------------------------------------------------------
Client == Connect \/ ClientSend \/ ClientReceive
Server == TakeCmd \/ Serve

Next == Report \/ SetThreshold \/ Client \/ Break \/ Restart \/ Learn \/ Server

SafetySpec == Init /\ [][Next]_vars

\* The task and the thread are scheduled; the network owes nothing.
Spec == SafetySpec /\ WF_vars(Client) /\ WF_vars(Server)

-----------------------------------------------------------------------------
(* Properties.                                                             *)

Link == INSTANCE LossyFifo WITH sent <- Len(sent)

\* Through queues, broken connections, restarts and half packets, messages are
\* handed on in the order in which they were sent, and none twice.
ImplementsLink == Link!Spec

\* A packet that nobody sent is accepted only on a connection on which half a
\* packet was read or written: a new connection starts in step.
GarbledOnlyAfterSplit == garbled \subseteq split

\* The thresholds of the remote node, which are set one at a time by commands
\* that main checks against its own copy, cross only when a command was lost or
\* garbled or the node has restarted.
ThresholdsCrossOnlyByLoss == remote.low < remote.high \/ skipped

\* A connection that lasts is found by the server, whatever came before it, and
\* everything sent is read; or a command sent after a reset has ended the
\* program.
LastingLinkWorks ==
    <>[](end = "open") =>
        \/ <>(srvPc = "killed")
        \/ <>[](srvConn = conns /\ clientResponse /\ queue = <<>> /\ wire[conns] = <<>>)

\* clientResponse is "used to determine if client has disconnected from server"
\* (remoteCmdThread.c:67): no command is sent after that.
DisconnectIsNoticed == srvPc # "killed"
=============================================================================

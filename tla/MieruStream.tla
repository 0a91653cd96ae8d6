---------------------------- MODULE MieruStream -----------------------------
(* One direction of a mieru session over the packet (UDP) underlay: the       *)
(* sending half of one Session, the receiving half of its peer, and a network *)
(* that loses, duplicates and reorders packets.  Of the other direction the   *)
(* model keeps what reaches into this one: acknowledgements and windows, and  *)
(* the ACKs the sending session itself puts out.  Time is left out: a timer   *)
(* may fire at any moment.  The congestion window is any of Windows at any    *)
(* moment.  The opening of sessions is left out: both ends are established.   *)
EXTENDS Integers, Sequences, FiniteSets, FiniteSetsExt

CONSTANTS
    Cap,            \* segmentTreeCapacity, of sendQueue, sendBuf and recvBuf
    QueueCap,       \* segmentTreeRecvQueueCapacity
    Windows,        \* what CongestionWindowSize may return
    TxLimit,        \* txCountLimit
    MaxWrites,      \* bound on the chunks the program writes
    MaxFlight,      \* bound on the packets of each end under way
    MaxFaults,      \* bound on lost and duplicated packets, stale windows and failed outputs
    Empty           \* the payload of a segment that carries none

ASSUME CapAssumption == Cap \in Nat /\ Cap > 1 /\ QueueCap \in Nat /\ QueueCap > 1
ASSUME WindowAssumption == Windows \subseteq 1..Cap /\ Windows # {}
ASSUME BoundAssumption ==
    /\ TxLimit \in Nat \ {0} /\ MaxWrites \in Nat /\ MaxFlight \in Nat
    /\ MaxFaults \in Nat
ASSUME EmptyAssumption == Empty \notin Nat

VARIABLES
    \* the sending session
    state,          \* "open"; "closing" while closeWithError polls lastSend; "closed"
    sendQueue,      \* segments waiting to be sent, in order
    sendBuf,        \* segments sent and not acknowledged, in order
    nextSend,
    closeSeq,       \* closeRequestSeq
    lastPast,       \* lastSend has reached closeRequestSeq
    remoteOpen,     \* remoteWindowSize is not zero
    outputErr,      \* outputHasErr
    input,          \* its input loop: "run", "close" and "wait" in Close
    \* the receiving session
    peer,           \* "open"; "closing" and, if it was asked to, "asked" in Close; "closed"
    recvBuf,        \* segments received and not in order yet
    recvQueue,      \* payloads waiting to be read, in order
    nextRecv,
    ackOnDataRecv,
    stuck,          \* its input loop waits in inputData for room in recvBuf
    \* the rest
    net,            \* packets under way
    faults,
    written,        \* history: the payload of every sequence number given out
    read            \* what the peer's program has read

treeVars == <<sendQueue, sendBuf>>
sendVars == <<state, treeVars, nextSend, closeSeq, lastPast, remoteOpen, outputErr, input, written>>
recvVars == <<peer, recvBuf, recvQueue, nextRecv, ackOnDataRecv, stuck, read>>
netVars == <<net, faults>>
vars == <<sendVars, recvVars, netVars>>

Init ==
    /\ state = "open"
    /\ sendQueue = <<>> /\ sendBuf = <<>>
    /\ nextSend = 0 /\ closeSeq = 0 /\ lastPast = FALSE
    /\ remoteOpen = TRUE
    /\ outputErr = FALSE /\ input = "run"
    /\ peer = "open"
    /\ recvBuf = {} /\ recvQueue = <<>> /\ nextRecv = 0
    /\ ackOnDataRecv = FALSE /\ stuck = FALSE
    /\ net = {} /\ faults = 0
    /\ written = <<>> /\ read = <<>>

-----------------------------------------------------------------------------
(* Session.Write.                                                             *)

Segment(seq, val) == [seq |-> seq, val |-> val, tx |-> 0]

\* A segment gets the next sequence number, under oLock.
TakeSeq(val) ==
    /\ nextSend' = nextSend + 1
    /\ written' = Append(written, val)

Enqueue(val) ==
    /\ sendQueue' = Append(sendQueue, Segment(nextSend, val))
    /\ TakeSeq(val)

\* writeChunk: wait for room, keeping one slot for Close, and add the segment.  Write
\* has made its checks long before: a session that has begun to close still gets the
\* chunks of a Write under way.
WriteChunk ==
    /\ state # "closed" /\ ~outputErr /\ nextSend < MaxWrites
    /\ Len(sendQueue) < Cap - 1
    /\ Enqueue(nextSend + 1)
    /\ UNCHANGED <<state, sendBuf, closeSeq, lastPast, remoteOpen, outputErr, input>>
    /\ UNCHANGED <<recvVars, netVars>>

-----------------------------------------------------------------------------
(* Packets.                                                                   *)

\* A segment on its way to the receiver: data or a closeSessionRequest.
Packet(seg) == IF seg.val = Empty THEN [kind |-> "close"] ELSE [kind |-> "data", seq |-> seg.seq, val |-> seg.val]

ToPeer == {m \in net : m.kind \in {"data", "close"}}
FromPeer == net \ ToPeer

\* Close by inputClose keeps the input loop: from then on it takes nothing any more, and
\* what is sent to it is forgotten.
PeerListens == peer \in {"open", "closing"}

Send(packets) == IF PeerListens THEN packets ELSE {}

Fault == faults < MaxFaults /\ faults' = faults + 1

\* A packet is taken from the network, or comes a second time.  A duplicate gets through
\* to a client; a server drops it by its replay cache.
Arrive(m) ==
    \/ net' = net \ {m} /\ UNCHANGED faults
    \/ Fault /\ UNCHANGED net

\* Session.output of the sending session, which stores lastSend when it has written the
\* packet (see OutputFails).
Output(packet, seq) ==
    /\ net' = net \cup Send({packet})
    /\ lastPast' = (state = "closing" /\ seq >= closeSeq)

-----------------------------------------------------------------------------
(* runOutputOncePacket of the sending session, cut at every segment.  What it *)
(* counts in totalTransmissionCount only ends a pass early.                   *)

Outputs == state # "closed" /\ Cardinality(ToPeer) < MaxFlight

\* Retransmission is not limited by the window.
Retransmit == \E i \in DOMAIN sendBuf :
    /\ Outputs /\ ~outputErr
    /\ sendBuf[i].tx < TxLimit
    /\ sendBuf' = [sendBuf EXCEPT ![i].tx = @ + 1]
    /\ Output(Packet(sendBuf[i]), sendBuf[i].seq)
    /\ UNCHANGED <<state, sendQueue, nextSend, closeSeq, remoteOpen, outputErr, input, written>>
    /\ UNCHANGED <<recvVars, faults>>

\* sendWindowSize is positive, for a congestion window w.
MaySend(w) == w > Len(sendBuf) /\ remoteOpen

\* Mutant: no slot stays free.
TransmitNoSpare(w) ==
    /\ Outputs /\ sendQueue # <<>>
    /\ MaySend(w) /\ Len(sendBuf) < Cap
    /\ sendQueue' = Tail(sendQueue)
    /\ sendBuf' = Append(sendBuf, [Head(sendQueue) EXCEPT !.tx = 1])
    /\ Output(Packet(Head(sendQueue)), Head(sendQueue).seq)
    /\ UNCHANGED <<state, nextSend, closeSeq, remoteOpen, outputErr, input, written>>
    /\ UNCHANGED <<recvVars, faults>>

\* The head of sendQueue moves to sendBuf, of which one slot stays free.
Transmit(w) ==
    /\ Outputs /\ sendQueue # <<>>
    /\ MaySend(w) /\ Len(sendBuf) < Cap - 1
    /\ sendQueue' = Tail(sendQueue)
    /\ sendBuf' = Append(sendBuf, [Head(sendQueue) EXCEPT !.tx = 1])
    /\ Output(Packet(Head(sendQueue)), Head(sendQueue).seq)
    /\ UNCHANGED <<state, nextSend, closeSeq, remoteOpen, outputErr, input, written>>
    /\ UNCHANGED <<recvVars, faults>>

\* The sending session's own ACKs and heartbeats have the sequence number that was
\* given out last.
OwnAck ==
    /\ state = "closing"
    /\ lastPast' = (nextSend - 1 >= closeSeq)
    /\ UNCHANGED <<state, treeVars, nextSend, closeSeq, remoteOpen, outputErr, input, written>>
    /\ UNCHANGED <<recvVars, netVars>>

-----------------------------------------------------------------------------
(* closeWithError of the sending session.                                     *)

\* DeleteAll on both send trees, sessionClosed, close(closedChan).  The number of a
\* request that goes out at once is not counted: nothing uses nextSend any more.  That
\* its output fails is only logged.
Shut(packets) ==
    /\ state' = "closed"
    /\ sendQueue' = <<>> /\ sendBuf' = <<>>
    /\ closeSeq' = 0 /\ lastPast' = FALSE
    /\ net' \in {ToPeer, ToPeer \cup Send(packets)}

\* An input loop that waited in Close goes on.
InputResumes == input' = IF input = "wait" THEN "run" ELSE input

\* A graceful close puts its request behind what is queued and waits for it to be
\* sent; if there is no room the request goes out at once.
BeginClose ==
    /\ state = "open"
    /\ IF Len(sendQueue) < Cap
       THEN /\ state' = "closing"
            /\ closeSeq' = nextSend
            /\ Enqueue(Empty)
            /\ UNCHANGED <<sendBuf, lastPast, net>>
       ELSE Shut({[kind |-> "close"]}) /\ UNCHANGED <<nextSend, written>>
    /\ UNCHANGED <<remoteOpen, outputErr, recvVars, faults>>

\* Session.Close by the program.
Close == BeginClose /\ UNCHANGED input

\* Session.Close by inputClose: the input loop waits with it.
InputCloses ==
    /\ input = "close"
    /\ \/ BeginClose /\ input' = IF state' = "closing" THEN "wait" ELSE "run"
       \/ /\ state # "open" /\ input' = "run"
          /\ UNCHANGED <<state, treeVars, nextSend, closeSeq, lastPast, remoteOpen, outputErr, written>>
          /\ UNCHANGED <<recvVars, netVars>>

\* lastSend says that the request has been sent.
CloseSent ==
    /\ state = "closing" /\ lastPast
    /\ Shut({}) /\ InputResumes
    /\ UNCHANGED <<nextSend, remoteOpen, outputErr, written, recvVars, faults>>

\* A second has passed: the request goes out past the queue.
CloseTimeout ==
    /\ state = "closing" /\ ~lastPast
    /\ Shut({[kind |-> "close"]}) /\ InputResumes
    /\ UNCHANGED <<nextSend, remoteOpen, outputErr, written, recvVars, faults>>

\* The output stops and the session closes at once, unless it is closing already.
StopOutput ==
    /\ state # "closed" /\ ~outputErr
    /\ outputErr' = TRUE
    /\ \/ state = "open" /\ Shut({[kind |-> "close"]}) /\ InputResumes
       \/ state = "closing" /\ UNCHANGED <<state, treeVars, closeSeq, lastPast, input, net>>
    /\ UNCHANGED <<nextSend, remoteOpen, written, recvVars>>

\* A segment was sent too often.
GiveUp ==
    /\ \E i \in DOMAIN sendBuf : sendBuf[i].tx >= TxLimit
    /\ StopOutput /\ UNCHANGED faults

\* Session.output fails, for a segment that is sent or sent again or for an ACK.  Where
\* the segment is by then no longer matters: the next pass does not begin.
OutputFails == StopOutput /\ Fault

-----------------------------------------------------------------------------
(* Session.input of the sending session.                                      *)

\* inputAck, and what inputData does first: DeleteMinIf while what is first in sendBuf
\* is acknowledged, and take over the window.
InputAck(m) ==
    /\ m.kind = "ack"
    /\ \E n \in 0..Len(sendBuf) :
          /\ \A i \in 1..n : sendBuf[i].seq < m.ack
          /\ n < Len(sendBuf) => sendBuf[n + 1].seq >= m.ack
          /\ sendBuf' = SubSeq(sendBuf, n + 1, Len(sendBuf))
    /\ remoteOpen' = m.open
    /\ UNCHANGED <<nextSend, lastPast, input, written>>

\* inputClose answers the peer's request, with a sequence number, and goes on to close;
\* if the session is closing already, Close returns at once.
InputClose(m) ==
    /\ m.kind = "peerClose"
    /\ TakeSeq(Empty)
    /\ lastPast' = (state = "closing")
    /\ input' = IF state = "open" THEN "close" ELSE "run"
    /\ UNCHANGED <<sendBuf, remoteOpen>>

\* The answer cannot be output, which ends the input loop of a session that is closing.
\* One that is open it closes at once, as OutputFails does.
AnswerFails(m) ==
    /\ m.kind = "peerClose" /\ state = "closing"
    /\ TakeSeq(Empty)
    /\ input' = "wait"
    /\ net' = net \ {m} /\ Fault
    /\ UNCHANGED <<sendBuf, lastPast, remoteOpen>>

-----------------------------------------------------------------------------
(* Session.input of the receiving session.                                    *)

At(buf, seq) == CHOOSE seg \in buf : seg.seq = seq

\* buf has the n segments from nextRecv on, and recvQueue has room for them.
InOrder(buf, n) ==
    /\ \A i \in 0..(n - 1) : \E seg \in buf : seg.seq = nextRecv + i
    /\ n > 0 => Len(recvQueue) + n < QueueCap

\* Mutant: segments are taken in the order they come.
DeliverUnordered(m) ==
    /\ recvQueue' = Append(recvQueue, m.val)
    /\ nextRecv' = nextRecv + 1
    /\ UNCHANGED recvBuf

\* The segment joins recvBuf, and what is in order moves to recvQueue.  What was
\* moved before is dropped, unless recvQueue is full.
Deliver(m) ==
    LET buf == {seg \in recvBuf : seg.seq # m.seq} \cup {[seq |-> m.seq, val |-> m.val]}
    IN  \E n \in 0..Cap :
          /\ InOrder(buf, n) /\ ~InOrder(buf, n + 1)
          /\ recvQueue' = recvQueue \o [i \in 1..n |-> At(buf, nextRecv + i - 1).val]
          /\ nextRecv' = nextRecv + n
          /\ recvBuf' = IF Len(recvQueue) < QueueCap - 1
                        THEN {seg \in buf : seg.seq >= nextRecv + n} ELSE buf

\* The output loop clears ackOnDataRecv after it has sent an ACK: what came in between
\* is not acknowledged by it.
AckWanted == {TRUE} \cup {m.kind # "ack" : m \in net}

\* Mutant: inputData wants one slot more.
InputDataSpares(m) ==
    /\ m.kind = "data"
    /\ IF Cardinality(recvBuf) < Cap - 2
       THEN Deliver(m) /\ ackOnDataRecv' \in AckWanted /\ UNCHANGED stuck
       ELSE stuck' = TRUE /\ UNCHANGED <<recvBuf, recvQueue, nextRecv, ackOnDataRecv>>
    /\ UNCHANGED peer

\* inputData waits while recvBuf has no room but the last slot.  Nobody else takes
\* segments out of it: it waits for ever.
InputData(m) ==
    /\ m.kind = "data"
    /\ IF Cardinality(recvBuf) < Cap - 1
       THEN Deliver(m) /\ ackOnDataRecv' \in AckWanted /\ UNCHANGED stuck
       ELSE stuck' = TRUE /\ UNCHANGED <<recvBuf, recvQueue, nextRecv, ackOnDataRecv>>
    /\ UNCHANGED peer

\* Close by inputClose of the peer: what it has not received by now it will never
\* receive.  If it is closing already, Close returns and the input goes on.
PeerInputClose(m) ==
    /\ m.kind = "close"
    /\ \/ peer = "open" /\ peer' = "asked" /\ net' = FromPeer /\ UNCHANGED faults
       \/ peer = "closing" /\ Arrive(m) /\ UNCHANGED peer
    /\ UNCHANGED <<recvBuf, recvQueue, nextRecv, ackOnDataRecv, stuck>>

-----------------------------------------------------------------------------
(* The rest of the receiving session.                                         *)

\* receiveWindowSize is positive, for a congestion window w.
Receives(w) == w > Cardinality(recvBuf)

\* The peer's output of an acknowledgement to a session that is not closed.
Acknowledge(open) ==
    /\ peer # "closed" /\ Cardinality(FromPeer) < MaxFlight /\ state # "closed"
    /\ net' = net \cup {[kind |-> "ack", ack |-> nextRecv, open |-> open]}

\* Mutant: no heartbeat.
SendAckOnData(w) ==
    /\ ackOnDataRecv
    /\ Acknowledge(Receives(w))
    /\ ackOnDataRecv' = FALSE
    /\ UNCHANGED <<sendVars, peer, recvBuf, recvQueue, nextRecv, stuck, read, faults>>

\* It answers data, or is the heartbeat of a session that was silent for so long that
\* nothing of it is under way any more.
SendAck(w) ==
    /\ ackOnDataRecv \/ FromPeer = {}
    /\ Acknowledge(Receives(w))
    /\ ackOnDataRecv' = FALSE
    /\ UNCHANGED <<sendVars, peer, recvBuf, recvQueue, nextRecv, stuck, read, faults>>

\* Data of the other direction acknowledges too.  Its window is the one of the time it
\* was written.
SendData(open) ==
    /\ Acknowledge(open) /\ Fault
    /\ UNCHANGED <<sendVars, recvVars>>

\* Session.Read takes all there is, also after the session has been closed.
Read ==
    /\ recvQueue # <<>>
    /\ read' = read \o recvQueue
    /\ recvQueue' = <<>>
    /\ UNCHANGED <<sendVars, peer, recvBuf, nextRecv, ackOnDataRecv, stuck, netVars>>

\* The peer closes of itself.  It goes on receiving and acknowledging meanwhile.
PeerCloses ==
    /\ peer = "open" /\ peer' = "closing"
    /\ UNCHANGED <<sendVars, recvBuf, recvQueue, nextRecv, ackOnDataRecv, stuck, read, netVars>>

\* Its request has been sent, which lastSend tells a millisecond later, or a second has
\* passed; then it goes out now or not at all.
PeerClosed ==
    /\ peer \in {"closing", "asked"}
    /\ peer' = "closed" /\ ackOnDataRecv' = FALSE
    /\ net' \in {FromPeer, FromPeer \cup IF state = "closed" THEN {} ELSE {[kind |-> "peerClose"]}}
    /\ UNCHANGED <<sendVars, recvBuf, recvQueue, nextRecv, stuck, read, faults>>

-----------------------------------------------------------------------------
(* The network and PacketUnderlay.RunEventLoop.                                *)

Receive(m) ==
    /\ m \in ToPeer /\ PeerListens /\ ~stuck
    /\ (InputData(m) /\ Arrive(m)) \/ PeerInputClose(m)
    /\ UNCHANGED <<sendVars, read>>

ReceiveBack(m) ==
    /\ m \in FromPeer /\ state # "closed" /\ input = "run"
    /\ (Arrive(m) /\ (InputAck(m) \/ InputClose(m))) \/ AnswerFails(m)
    /\ UNCHANGED <<state, sendQueue, closeSeq, outputErr, recvVars>>

Lose(m) ==
    /\ Fault
    /\ net' = net \ {m}
    /\ UNCHANGED <<sendVars, recvVars>>

-----------------------------------------------------------------------------
Program == WriteChunk \/ Close \/ Read \/ PeerCloses

OutputStep == Retransmit \/ GiveUp \/ OutputFails \/ OwnAck \/ \E w \in Windows : Transmit(w)

CloseStep == InputCloses \/ CloseSent \/ CloseTimeout

PeerOutput == (\E w \in Windows : SendAck(w)) \/ \E open \in BOOLEAN : SendData(open)

NetStep == \E m \in net : Receive(m) \/ ReceiveBack(m) \/ Lose(m)

Next == Program \/ OutputStep \/ CloseStep \/ PeerOutput \/ PeerClosed \/ NetStep

Spec == Init /\ [][Next]_vars

\* Nobody closes.
InService == state = "open" /\ input = "run" /\ peer = "open"

\* As long as nobody closes the output loops run at their tick, packets that are not lost
\* arrive, and the peer's program reads.  A congestion window of the least size is enough.
FairSpec ==
    /\ Spec
    /\ WF_vars(InService /\ Read)
    /\ WF_vars(InService /\ (Retransmit \/ GiveUp \/ Transmit(Min(Windows))))
    /\ WF_vars(InService /\ SendAck(Min(Windows)))
    /\ WF_vars(InService /\ \E m \in net : Receive(m))
    /\ WF_vars(InService /\ \E m \in net : ReceiveBack(m))

-----------------------------------------------------------------------------
Payload == Nat \cup {Empty}

SendTypeOK ==
    /\ state \in {"open", "closing", "closed"}
    /\ sendQueue \in Seq([seq : Nat, val : Payload, tx : 0..TxLimit]) /\ Len(sendQueue) <= Cap
    /\ sendBuf \in Seq([seq : Nat, val : Payload, tx : 0..TxLimit]) /\ Len(sendBuf) < Cap
    /\ nextSend \in Nat /\ closeSeq \in Nat /\ lastPast \in BOOLEAN
    /\ remoteOpen \in BOOLEAN /\ outputErr \in BOOLEAN /\ input \in {"run", "close", "wait"}
    /\ written \in Seq(Payload)

PeerStates == {"open", "closing", "asked", "closed"}

RecvTypeOK ==
    /\ peer \in PeerStates
    /\ recvBuf \subseteq [seq : Nat, val : Payload] /\ Cardinality(recvBuf) < Cap
    /\ recvQueue \in Seq(Payload) /\ Len(recvQueue) < QueueCap
    /\ nextRecv \in Nat /\ ackOnDataRecv \in BOOLEAN /\ stuck \in BOOLEAN
    /\ read \in Seq(Payload)

Message ==
    [kind : {"data"}, seq : Nat, val : Payload] \cup [kind : {"close", "peerClose"}]
    \cup [kind : {"ack"}, ack : Nat, open : BOOLEAN]

\* Types, and the capacity of the trees.
TypeOK == SendTypeOK /\ RecvTypeOK /\ net \subseteq Message /\ faults \in 0..MaxFaults

\* The peer's program gets a stream: whatever is lost, duplicated, reordered or
\* retransmitted, Read returns the payloads in order, each once.
Channel == INSTANCE MieruChannel WITH Item <- Payload, closed <- (state = "closed")
ChannelSpec == Channel!Spec

\* inputData never waits for ever as long as recvQueue has room and nobody closes: what
\* a session has sent without an acknowledgement always fits into the other's recvBuf,
\* with the slot to spare that inputData asks for.
NeverStuck == stuck => state # "open" \/ input # "run"

\* A session does not stall in silence: everything a program has written arrives, or
\* one of the ends closes, also when data of the other direction has shut the window
\* with an old value after the last segment was acknowledged.
Delivered == []<>(read = written \/ ~InService)
=============================================================================

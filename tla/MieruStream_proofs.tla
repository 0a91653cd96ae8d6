------------------------- MODULE MieruStream_proofs -------------------------
(* MieruStream implements MieruChannel, and its recvBuf never fills while the *)
(* reader keeps up, for every capacity, window and bound.                     *)
EXTENDS MieruStream, SequenceTheorems, FiniteSetTheorems, TLAPS

\* First-order leaves go to Zenon; a leaf that needs arithmetic or records says SMT.
USE Zenon

-----------------------------------------------------------------------------
(* The inductive invariant.  A segment has one payload for life: the one its  *)
(* sequence number was given out with, wherever it is.                        *)

Good(seg) == seg.seq \in 0..(Len(written) - 1) /\ seg.val = written[seg.seq + 1]

Seg == [seq : Nat, val : Payload, tx : 0..TxLimit]
GoodSegs == {seg \in Seg : Good(seg)}

SendInv ==
    /\ SendTypeOK
    /\ nextSend = Len(written)
    /\ sendQueue \in Seq(GoodSegs) /\ sendBuf \in Seq(GoodSegs)

\* What was moved out of recvBuf is what was written first.
RecvInv ==
    /\ RecvTypeOK /\ IsFiniteSet(recvBuf)
    /\ nextRecv = Len(read) + Len(recvQueue) /\ nextRecv <= Len(written)
    /\ \A i \in 1..Len(read) : read[i] = written[i]
    /\ \A i \in 1..Len(recvQueue) : recvQueue[i] = written[Len(read) + i]
    /\ \A seg \in recvBuf : Good(seg)

NetInv ==
    /\ net \subseteq Message /\ faults \in 0..MaxFaults
    /\ \A m \in net : m.kind = "data" => Good(m)

IndInv == SendInv /\ RecvInv /\ NetInv

LEMMA IndInvInit == Init => IndInv
<1> SUFFICES ASSUME Init PROVE IndInv
  OBVIOUS
<1>1. SendInv
  <2>1. <<>> \in Seq([seq : Nat, val : Payload, tx : 0..TxLimit]) /\ <<>> \in Seq(Payload)
    BY EmptySeq
  <2>2. Len(<<>>) = 0 /\ 0 <= Cap /\ 0 < Cap /\ 0 \in Nat
    BY CapAssumption, SMT
  <2>3. SendTypeOK
    BY <2>1, <2>2 DEF Init, SendTypeOK
  <2>4. sendQueue = <<>> /\ sendBuf = <<>> /\ written = <<>> /\ nextSend = 0
    BY DEF Init
  <2> QED
    BY <2>2, <2>3, <2>4, EmptySeq DEF SendInv
<1>2. RecvInv
  <2>1. IsFiniteSet(recvBuf) /\ Cardinality(recvBuf) = 0
    BY FS_EmptySet DEF Init
  <2>2. <<>> \in Seq(Payload)
    BY EmptySeq
  <2>3. Len(<<>>) = 0 /\ (\A i \in 1..0 : FALSE) /\ 0 = 0 + 0 /\ 0 <= 0 /\ 0 \in Nat
    BY SMT
  <2>4. 0 < Cap /\ 0 < QueueCap
    BY CapAssumption, SMT
  <2>6. RecvTypeOK
    BY <2>1, <2>2, <2>3, <2>4 DEF Init, RecvTypeOK, PeerStates
  <2>5. recvBuf = {} /\ recvQueue = <<>> /\ read = <<>> /\ written = <<>> /\ nextRecv = 0
    BY DEF Init
  <2> QED
    BY <2>1, <2>3, <2>5, <2>6 DEF RecvInv
<1>3. NetInv
  BY BoundAssumption, SMT DEF Init, NetInv
<1> QED
  BY <1>1, <1>2, <1>3 DEF IndInv

-----------------------------------------------------------------------------
(* What a step does to the history.                                           *)

\* Sequence numbers given out keep their payloads.
Grows ==
    /\ written' \in Seq(Payload)
    /\ Len(written) <= Len(written')
    /\ \A i \in 1..Len(written) : written'[i] = written[i]

LEMMA SameGrows == ASSUME SendInv, UNCHANGED written PROVE Grows
BY SMT DEF SendInv, SendTypeOK, Grows

LEMMA TakeSeqGrows ==
    ASSUME SendInv, NEW val \in Payload, TakeSeq(val)
    PROVE  /\ Grows
           /\ Len(written') = Len(written) + 1 /\ written'[nextSend + 1] = val
           /\ nextSend' = Len(written')
<1>1. written \in Seq(Payload)
  BY DEF SendInv, SendTypeOK
<1>2. Append(written, val) \in Seq(Payload) /\ Len(Append(written, val)) = Len(written) + 1
  BY <1>1, AppendProperties
<1>3. \A i \in 1..Len(written) : Append(written, val)[i] = written[i]
  BY <1>1, SMT
<1>4. Append(written, val)[Len(written) + 1] = val
  BY <1>1, AppendProperties
<1>5. Len(written) \in Nat
  BY <1>1, LenProperties
<1>6. written' = Append(written, val) /\ nextSend' = nextSend + 1 /\ nextSend = Len(written)
  BY DEF TakeSeq, SendInv
<1>7. Len(written) <= Len(written) + 1
  BY <1>5, SMT
<1> QED
  BY <1>2, <1>3, <1>4, <1>6, <1>7 DEF Grows

LEMMA GoodKept == ASSUME SendInv, Grows PROVE \A seg : Good(seg) => Good(seg)'
<1>1. Len(written) \in Nat /\ Len(written') \in Nat
  BY LenProperties DEF SendInv, SendTypeOK, Grows
<1> QED
  BY <1>1, SMT DEF Good, Grows

LEMMA RecvKept == ASSUME IndInv, Grows, UNCHANGED recvVars PROVE RecvInv'
<1>1. Len(written) \in Nat /\ Len(written') \in Nat /\ Len(read) \in Nat /\ Len(recvQueue) \in Nat
  BY LenProperties DEF IndInv, RecvInv, SendInv, RecvTypeOK, SendTypeOK, Grows
<1>2. RecvTypeOK' /\ IsFiniteSet(recvBuf)'
  BY DEF IndInv, RecvInv, RecvTypeOK, recvVars
<1>3. \A seg \in recvBuf : Good(seg)'
  BY GoodKept DEF IndInv, RecvInv
<1>4. /\ nextRecv = Len(read) + Len(recvQueue) /\ nextRecv <= Len(written)
      /\ \A i \in 1..Len(read) : read[i] = written[i]
      /\ \A i \in 1..Len(recvQueue) : recvQueue[i] = written[Len(read) + i]
  BY DEF IndInv, RecvInv
<1>5. nextRecv <= Len(written')
  BY <1>1, <1>4, SMT DEF Grows
<1>6. \A i \in 1..Len(read) : read[i] = written'[i]
  BY <1>1, <1>4, SMT DEF Grows
<1>7. \A i \in 1..Len(recvQueue) : recvQueue[i] = written'[Len(read) + i]
  BY <1>1, <1>4, SMT DEF Grows
<1>8. read' = read /\ recvQueue' = recvQueue /\ recvBuf' = recvBuf /\ nextRecv' = nextRecv
  BY DEF recvVars
<1> QED
  BY <1>2, <1>3, <1>4, <1>5, <1>6, <1>7, <1>8 DEF RecvInv

-----------------------------------------------------------------------------
(* The sending session.                                                       *)

LEMMA SendTypes ==
    ASSUME SendInv
    PROVE  /\ sendQueue \in Seq(GoodSegs) /\ Len(sendQueue) \in Nat /\ Len(sendQueue) <= Cap
           /\ sendBuf \in Seq(GoodSegs) /\ Len(sendBuf) \in Nat /\ Len(sendBuf) < Cap
           /\ written \in Seq(Payload) /\ Len(written) \in Nat /\ nextSend = Len(written)
<1>1. /\ sendQueue \in Seq(GoodSegs) /\ Len(sendQueue) <= Cap
      /\ sendBuf \in Seq(GoodSegs) /\ Len(sendBuf) < Cap
      /\ written \in Seq(Payload) /\ nextSend = Len(written)
  BY DEF SendInv, SendTypeOK
<1> QED
  BY <1>1, LenProperties

LEMMA SeqMonotone == ASSUME NEW S, NEW T, S \subseteq T PROVE Seq(S) \subseteq Seq(T)
<1> SUFFICES ASSUME NEW s \in Seq(S) PROVE s \in Seq(T)
  OBVIOUS
<1>1. Len(s) \in Nat /\ DOMAIN s = 1..Len(s) /\ s \in [1..Len(s) -> S]
  BY LenProperties
<1>2. s \in [1..Len(s) -> T]
  BY <1>1
<1> QED
  BY <1>1, <1>2, SMT

LEMMA GoodSegsGrow == ASSUME SendInv, Grows PROVE Seq(GoodSegs) \subseteq Seq(GoodSegs')
<1>1. GoodSegs \subseteq GoodSegs'
  BY GoodKept DEF GoodSegs
<1> QED
  BY <1>1, SeqMonotone

LEMMA NewSegment ==
    ASSUME SendInv, NEW val \in Payload, TakeSeq(val),
           NEW seg, seg = Segment(nextSend, val)
    PROVE  seg \in GoodSegs'
<1>1. /\ Len(written') = Len(written) + 1 /\ written'[nextSend + 1] = val
  BY TakeSeqGrows
<1>2. nextSend = Len(written) /\ Len(written) \in Nat
  BY SendTypes
<1>3. seg \in Seg
  BY <1>2, BoundAssumption, SMT DEF Segment, Seg
<1>4. seg.seq = nextSend /\ seg.val = val
  BY SMT DEF Segment
<1>5. seg.seq \in 0..(Len(written') - 1) /\ seg.val = written'[seg.seq + 1]
  BY <1>1, <1>2, <1>4, SMT
<1> QED
  BY <1>3, <1>5 DEF Good, GoodSegs

\* A segment that is added to sendQueue.
LEMMA Enqueued ==
    ASSUME SendInv, NEW val \in Payload, Enqueue(val), Len(sendQueue) < Cap
    PROVE  /\ Grows /\ nextSend' = Len(written') /\ nextSend' \in Nat
           /\ Len(written') = Len(written) + 1
           /\ sendQueue' \in Seq(GoodSegs') /\ Len(sendQueue') <= Cap
<1> PICK seg : seg = Segment(nextSend, val)
  OBVIOUS
<1>1. TakeSeq(val) /\ sendQueue' = Append(sendQueue, seg)
  BY DEF Enqueue
<1>2. seg \in GoodSegs'
  BY <1>1, NewSegment
<1>3. Grows /\ nextSend' = Len(written') /\ Len(written') = Len(written) + 1
  BY <1>1, TakeSeqGrows
<1>4. sendQueue \in Seq(GoodSegs')
  BY <1>3, SendTypes, GoodSegsGrow
<1>5. Append(sendQueue, seg) \in Seq(GoodSegs') /\ Len(Append(sendQueue, seg)) = Len(sendQueue) + 1
  BY <1>2, <1>4, AppendProperties
<1>6. Len(sendQueue) + 1 <= Cap
  BY SendTypes, CapAssumption, SMT
<1>7. Len(written') \in Nat
  BY <1>3, LenProperties DEF Grows
<1> QED
  BY <1>1, <1>3, <1>5, <1>6, <1>7

\* The invariant of the sending session after a step, from its parts.
LEMMA SendInvFrom ==
    ASSUME /\ sendQueue' \in Seq(GoodSegs') /\ Len(sendQueue') <= Cap
           /\ sendBuf' \in Seq(GoodSegs') /\ Len(sendBuf') < Cap
           /\ written' \in Seq(Payload) /\ nextSend' = Len(written'),
           /\ state' \in {"open", "closing", "closed"} /\ closeSeq' \in Nat
           /\ lastPast' \in BOOLEAN /\ remoteOpen' \in BOOLEAN /\ outputErr' \in BOOLEAN
           /\ input' \in {"run", "close", "wait"}
    PROVE  SendInv'
<1>1. GoodSegs' \subseteq Seg
  BY DEF GoodSegs
<1>2. sendQueue' \in Seq(Seg) /\ sendBuf' \in Seq(Seg)
  BY <1>1, SeqMonotone
<1>3. Len(written') \in Nat
  BY LenProperties
<1> QED
  BY <1>2, <1>3 DEF SendInv, SendTypeOK, Seg

\* Sequences that a step leaves alone or empties.
LEMMA TreesKept ==
    ASSUME SendInv, Grows
    PROVE  /\ sendQueue \in Seq(GoodSegs') /\ Len(sendQueue) <= Cap
           /\ sendBuf \in Seq(GoodSegs') /\ Len(sendBuf) < Cap
           /\ <<>> \in Seq(GoodSegs') /\ Len(<<>>) <= Cap /\ Len(<<>>) < Cap
<1>1. <<>> \in Seq(GoodSegs') /\ Len(<<>>) = 0
  BY EmptySeq
<1>2. 0 <= Cap /\ 0 < Cap
  BY CapAssumption, SMT
<1> QED
  BY <1>1, <1>2, SendTypes, GoodSegsGrow

LEMMA SendKinds ==
    ASSUME SendInv
    PROVE  /\ state \in {"open", "closing", "closed"} /\ closeSeq \in Nat
           /\ lastPast \in BOOLEAN /\ remoteOpen \in BOOLEAN /\ outputErr \in BOOLEAN
           /\ input \in {"run", "close", "wait"} /\ nextSend \in Nat
BY DEF SendInv, SendTypeOK

LEMMA SendKept == ASSUME SendInv, UNCHANGED sendVars PROVE SendInv'
<1>1. GoodSegs' = GoodSegs
  BY DEF GoodSegs, Good, sendVars
<1> QED
  BY <1>1 DEF SendInv, SendTypeOK, sendVars, treeVars

-----------------------------------------------------------------------------
(* Packets.                                                                   *)

GoodPacket(m) == m \in Message /\ (m.kind = "data" => Good(m))

LEMMA PacketIsGood == ASSUME NEW seg \in GoodSegs PROVE GoodPacket(Packet(seg))
<1>1. seg \in Seg /\ Good(seg)
  BY DEF GoodSegs
<1>2. CASE seg.val = Empty
  <2>1. Packet(seg) = [kind |-> "close"]
    BY <1>2 DEF Packet
  <2> QED
    BY <2>1, SMT DEF GoodPacket, Message
<1>3. CASE seg.val # Empty
  <2>1. Packet(seg) = [kind |-> "data", seq |-> seg.seq, val |-> seg.val]
    BY <1>3 DEF Packet
  <2>2. seg.seq \in Nat /\ seg.val \in Payload
    BY <1>1 DEF Seg
  <2>3. Packet(seg) \in Message
    BY <2>1, <2>2, SMT DEF Message
  <2>4. Packet(seg).seq = seg.seq /\ Packet(seg).val = seg.val
    BY <2>1, SMT
  <2> QED
    BY <1>1, <2>3, <2>4 DEF GoodPacket, Good
<1> QED
  BY <1>2, <1>3

LEMMA ClosePacketIsGood == GoodPacket([kind |-> "close"]) /\ GoodPacket([kind |-> "peerClose"])
BY SMT DEF GoodPacket, Message

LEMMA NetKept ==
    ASSUME IndInv, Grows, faults' \in 0..MaxFaults, net' \subseteq net
    PROVE  NetInv'
BY GoodKept DEF IndInv, NetInv

LEMMA NetGains ==
    ASSUME IndInv, Grows, faults' \in 0..MaxFaults,
           NEW m, GoodPacket(m), net' \subseteq net \cup {m}
    PROVE  NetInv'
BY GoodKept DEF IndInv, NetInv, GoodPacket

-----------------------------------------------------------------------------
(* The steps of the sending session's program and output loop.                *)

LEMMA StepWriteChunk == ASSUME IndInv, WriteChunk PROVE IndInv'
<1>1. Enqueue(nextSend + 1) /\ Len(sendQueue) < Cap - 1 /\ UNCHANGED recvVars
      /\ UNCHANGED netVars
  BY DEF WriteChunk
<1>2. SendInv /\ nextSend \in Nat
  BY SendKinds DEF IndInv
<1>3. nextSend + 1 \in Payload /\ Len(sendQueue) < Cap
  BY <1>1, <1>2, SendTypes, CapAssumption, SMT DEF Payload
<1>4. /\ Grows /\ nextSend' = Len(written') /\ sendQueue' \in Seq(GoodSegs')
      /\ Len(sendQueue') <= Cap
  BY <1>1, <1>2, <1>3, Enqueued
<1>5. SendInv'
  BY <1>2, <1>4, TreesKept, SendKinds, SendInvFrom DEF WriteChunk, Grows
<1>6. faults' \in 0..MaxFaults /\ net' \subseteq net
  BY <1>1 DEF netVars, IndInv, NetInv
<1>7. RecvInv' /\ NetInv'
  BY <1>1, <1>4, <1>6, RecvKept, NetKept
<1> QED
  BY <1>5, <1>7 DEF IndInv

\* A packet goes out and the history stays.
LEMMA Outputting ==
    ASSUME IndInv, NEW seg \in GoodSegs, Output(Packet(seg), seg.seq), UNCHANGED faults,
           UNCHANGED recvVars, UNCHANGED written
    PROVE  RecvInv' /\ NetInv' /\ lastPast' \in BOOLEAN
<1>1. Grows
  BY SameGrows DEF IndInv
<1>2. GoodPacket(Packet(seg))
  BY PacketIsGood
<1>3. net' \subseteq net \cup {Packet(seg)} /\ lastPast' \in BOOLEAN
  BY DEF Output, Send
<1>4. faults' \in 0..MaxFaults
  BY DEF IndInv, NetInv
<1>5. NetInv'
  BY <1>1, <1>2, <1>3, <1>4, NetGains
<1> QED
  BY <1>1, <1>3, <1>5, RecvKept

LEMMA StepRetransmit == ASSUME IndInv, Retransmit PROVE IndInv'
<1> PICK i \in DOMAIN sendBuf :
       /\ sendBuf[i].tx < TxLimit
       /\ sendBuf' = [sendBuf EXCEPT ![i].tx = @ + 1]
       /\ Output(Packet(sendBuf[i]), sendBuf[i].seq)
       /\ UNCHANGED <<state, sendQueue, nextSend, closeSeq, remoteOpen, outputErr, input, written>>
       /\ UNCHANGED <<recvVars, faults>>
  BY DEF Retransmit
<1>1. SendInv
  BY DEF IndInv
<1>2. Grows
  BY <1>1, SameGrows
<1>3. i \in 1..Len(sendBuf) /\ sendBuf[i] \in GoodSegs
  BY <1>1, SendTypes, LenProperties, ElementOfSeq
<1>4. RecvInv' /\ NetInv' /\ lastPast' \in BOOLEAN
  BY <1>3, Outputting
<1>5. sendBuf' \in Seq(GoodSegs') /\ Len(sendBuf') < Cap
  <2>1. PICK seg : seg = [sendBuf[i] EXCEPT !.tx = @ + 1]
    OBVIOUS
  <2>2. sendBuf[i] \in Seg /\ Good(sendBuf[i])
    BY <1>3 DEF GoodSegs
  <2>3. seg \in Seg /\ seg.seq = sendBuf[i].seq /\ seg.val = sendBuf[i].val
    BY <2>1, <2>2, BoundAssumption, SMT DEF Seg
  <2>4. seg \in GoodSegs
    BY <2>2, <2>3 DEF GoodSegs, Good
  <2>5. sendBuf' = [sendBuf EXCEPT ![i] = seg]
    BY <2>1
  <2>6. sendBuf' \in Seq(GoodSegs) /\ Len(sendBuf') = Len(sendBuf)
    <3>1. sendBuf \in Seq(GoodSegs)
      BY <1>1, SendTypes
    <3>2. /\ [sendBuf EXCEPT ![i] = seg] \in Seq(GoodSegs)
          /\ Len([sendBuf EXCEPT ![i] = seg]) = Len(sendBuf)
      BY <1>3, <2>4, <3>1, ExceptSeq
    <3> QED
      BY <2>5, <3>2
  <2> QED
    BY <1>1, <1>2, <2>6, SendTypes, GoodSegsGrow
<1>6. SendInv'
  BY <1>1, <1>2, <1>4, <1>5, TreesKept, SendTypes, SendKinds, SendInvFrom
<1> QED
  BY <1>4, <1>6 DEF IndInv

LEMMA StepTransmit == ASSUME IndInv, NEW w, Transmit(w) PROVE IndInv'
<1>1. /\ sendQueue # <<>> /\ Len(sendBuf) < Cap - 1
      /\ sendQueue' = Tail(sendQueue)
      /\ sendBuf' = Append(sendBuf, [Head(sendQueue) EXCEPT !.tx = 1])
      /\ Output(Packet(Head(sendQueue)), Head(sendQueue).seq)
      /\ UNCHANGED <<state, nextSend, closeSeq, remoteOpen, outputErr, input, written>>
      /\ UNCHANGED <<recvVars, faults>>
  BY DEF Transmit
<1>2. SendInv
  BY DEF IndInv
<1>3. Grows
  BY <1>1, <1>2, SameGrows
<1>4. /\ Head(sendQueue) \in GoodSegs /\ Tail(sendQueue) \in Seq(GoodSegs)
      /\ Len(Tail(sendQueue)) = Len(sendQueue) - 1
  BY <1>1, <1>2, SendTypes, HeadTailProperties
<1>5. RecvInv' /\ NetInv' /\ lastPast' \in BOOLEAN
  BY <1>1, <1>4, Outputting
<1>6. sendQueue' \in Seq(GoodSegs') /\ Len(sendQueue') <= Cap
  <2>1. Len(sendQueue) - 1 <= Cap
    BY <1>2, SendTypes, CapAssumption, SMT
  <2> QED
    BY <1>1, <1>2, <1>3, <1>4, <2>1, GoodSegsGrow
<1>7. sendBuf' \in Seq(GoodSegs') /\ Len(sendBuf') < Cap
  <2> PICK seg : seg = [Head(sendQueue) EXCEPT !.tx = 1]
    OBVIOUS
  <2>1. Head(sendQueue) \in Seg /\ Good(Head(sendQueue))
    BY <1>4 DEF GoodSegs
  <2>2. seg \in Seg /\ seg.seq = Head(sendQueue).seq /\ seg.val = Head(sendQueue).val
    BY <2>1, BoundAssumption, SMT DEF Seg
  <2>3. seg \in GoodSegs
    BY <2>1, <2>2 DEF GoodSegs, Good
  <2>4. Append(sendBuf, seg) \in Seq(GoodSegs) /\ Len(Append(sendBuf, seg)) = Len(sendBuf) + 1
    BY <1>2, <2>3, SendTypes, AppendProperties
  <2>5. Len(sendBuf) + 1 < Cap
    BY <1>1, <1>2, SendTypes, CapAssumption, SMT
  <2> QED
    BY <1>1, <1>2, <1>3, <2>4, <2>5, GoodSegsGrow
<1>8. SendInv'
  BY <1>1, <1>2, <1>5, <1>6, <1>7, SendTypes, SendKinds, SendInvFrom
<1> QED
  BY <1>5, <1>8 DEF IndInv

LEMMA StepOwnAck == ASSUME IndInv, OwnAck PROVE IndInv'
<1>1. /\ lastPast' \in BOOLEAN
      /\ UNCHANGED <<state, treeVars, nextSend, closeSeq, remoteOpen, outputErr, input, written>>
      /\ UNCHANGED <<recvVars, netVars>>
  <2>1. nextSend \in Nat /\ closeSeq \in Nat
    BY SendKinds DEF IndInv
  <2>2. (nextSend - 1 >= closeSeq) \in BOOLEAN
    BY <2>1, SMT
  <2> QED
    BY <2>2 DEF OwnAck
<1>2. SendInv /\ NetInv
  BY DEF IndInv
<1>3. Grows
  BY <1>1, <1>2, SameGrows
<1>4. SendInv'
  BY <1>1, <1>2, <1>3, TreesKept, SendTypes, SendKinds, SendInvFrom DEF treeVars
<1>5. faults' \in 0..MaxFaults /\ net' \subseteq net
  BY <1>1, <1>2 DEF netVars, NetInv
<1> QED
  BY <1>1, <1>3, <1>4, <1>5, RecvKept, NetKept DEF IndInv

-----------------------------------------------------------------------------
(* The steps of closeWithError.                                               *)

\* The part of a step that closes the session at once.
LEMMA Shutting ==
    ASSUME IndInv, NEW m, GoodPacket(m),
           Shut({}) \/ Shut({m}), UNCHANGED recvVars, faults' \in 0..MaxFaults, UNCHANGED written,
           UNCHANGED <<nextSend, remoteOpen>>, outputErr' \in BOOLEAN,
           input' \in {"run", "close", "wait"}
    PROVE  IndInv'
<1>1. /\ state' = "closed" /\ sendQueue' = <<>> /\ sendBuf' = <<>>
      /\ closeSeq' = 0 /\ lastPast' = FALSE
  BY DEF Shut
<1>2. SendInv
  BY DEF IndInv
<1>3. Grows
  BY <1>2, SameGrows
<1>4. 0 \in Nat
  BY SMT
<1>5. SendInv'
  BY <1>1, <1>2, <1>3, <1>4, TreesKept, SendTypes, SendKinds, SendInvFrom
<1>6. net' \subseteq net \cup {m}
  BY DEF Shut, Send, ToPeer
<1>7. NetInv'
  BY <1>3, <1>6, NetGains
<1> QED
  BY <1>3, <1>5, <1>7, RecvKept DEF IndInv

LEMMA StepBeginClose == ASSUME IndInv, BeginClose, input' \in {"run", "close", "wait"} PROVE IndInv'
<1>1. SendInv /\ outputErr \in BOOLEAN /\ faults \in 0..MaxFaults
  BY SendKinds DEF IndInv, NetInv
<1>2. UNCHANGED <<remoteOpen, outputErr, recvVars, faults>>
  BY DEF BeginClose
<1>3. CASE Len(sendQueue) < Cap
  <2>1. /\ state' = "closing" /\ closeSeq' = nextSend /\ Enqueue(Empty)
        /\ UNCHANGED <<sendBuf, lastPast, net>>
    BY <1>3 DEF BeginClose
  <2>2. Empty \in Payload
    BY DEF Payload
  <2>3. /\ Grows /\ nextSend' = Len(written') /\ sendQueue' \in Seq(GoodSegs')
        /\ Len(sendQueue') <= Cap
    BY <1>1, <1>3, <2>1, <2>2, Enqueued
  <2>4. SendInv'
    BY <1>1, <1>2, <2>1, <2>3, TreesKept, SendKinds, SendInvFrom DEF Grows
  <2>5. faults' \in 0..MaxFaults /\ net' \subseteq net
    BY <1>2, <2>1 DEF IndInv, NetInv
  <2> QED
    BY <1>2, <2>3, <2>4, <2>5, RecvKept, NetKept DEF IndInv
<1>4. CASE ~(Len(sendQueue) < Cap)
  <2>1. Shut({[kind |-> "close"]}) /\ UNCHANGED <<nextSend, written>>
    BY <1>4 DEF BeginClose
  <2> QED
    BY <1>1, <1>2, <2>1, ClosePacketIsGood, Shutting
<1> QED
  BY <1>3, <1>4

LEMMA StepShut == ASSUME IndInv, CloseSent \/ CloseTimeout PROVE IndInv'
<1>1. /\ Shut({}) \/ Shut({[kind |-> "close"]})
      /\ InputResumes
      /\ UNCHANGED <<nextSend, remoteOpen, outputErr, written, recvVars, faults>>
  BY DEF CloseSent, CloseTimeout
<1>2. outputErr \in BOOLEAN /\ input \in {"run", "close", "wait"} /\ faults \in 0..MaxFaults
  BY SendKinds DEF IndInv, NetInv
<1>3. input' \in {"run", "close", "wait"}
  BY <1>1, <1>2 DEF InputResumes
<1> QED
  BY <1>1, <1>2, <1>3, ClosePacketIsGood, Shutting

LEMMA StepInputCloses == ASSUME IndInv, InputCloses PROVE IndInv'
<1>1. CASE BeginClose /\ input' = IF state' = "closing" THEN "wait" ELSE "run"
  BY <1>1, StepBeginClose
<1>2. CASE /\ input' = "run"
           /\ UNCHANGED <<state, treeVars, nextSend, closeSeq, lastPast, remoteOpen, outputErr, written>>
           /\ UNCHANGED <<recvVars, netVars>>
  <2>1. SendInv /\ NetInv
    BY DEF IndInv
  <2>2. Grows
    BY <1>2, <2>1, SameGrows
  <2>3. SendInv'
    BY <1>2, <2>1, <2>2, TreesKept, SendTypes, SendKinds, SendInvFrom DEF treeVars
  <2>4. faults' \in 0..MaxFaults /\ net' \subseteq net
    BY <1>2, <2>1 DEF netVars, NetInv
  <2> QED
    BY <1>2, <2>2, <2>3, <2>4, RecvKept, NetKept DEF IndInv
<1> QED
  BY <1>1, <1>2 DEF InputCloses

LEMMA StepStopOutput == ASSUME IndInv, GiveUp \/ OutputFails PROVE IndInv'
<1>1. /\ StopOutput /\ outputErr' = TRUE
      /\ UNCHANGED <<nextSend, remoteOpen, written, recvVars>>
  BY DEF GiveUp, OutputFails, StopOutput
<1>2. SendInv /\ faults \in 0..MaxFaults
  BY DEF IndInv, NetInv
<1>3. faults' \in 0..MaxFaults
  <2>1. Fault => faults' \in 0..MaxFaults
    BY <1>2, BoundAssumption, SMT DEF Fault
  <2> QED
    BY <1>2, <2>1 DEF GiveUp, OutputFails
<1>4. CASE Shut({[kind |-> "close"]}) /\ InputResumes
  <2>1. input' \in {"run", "close", "wait"}
    BY <1>2, <1>4, SendKinds DEF InputResumes
  <2> QED
    BY <1>1, <1>3, <1>4, <2>1, ClosePacketIsGood, Shutting
<1>5. CASE UNCHANGED <<state, treeVars, closeSeq, lastPast, input, net>>
  <2>1. Grows
    BY <1>1, <1>2, SameGrows
  <2>2. SendInv'
    BY <1>1, <1>2, <1>5, <2>1, TreesKept, SendTypes, SendKinds, SendInvFrom DEF treeVars
  <2>3. net' \subseteq net
    BY <1>5
  <2> QED
    BY <1>1, <1>3, <2>1, <2>2, <2>3, RecvKept, NetKept DEF IndInv
<1> QED
  BY <1>1, <1>4, <1>5 DEF StopOutput

-----------------------------------------------------------------------------
(* The steps of the sending session's input.                                  *)

LEMMA ArriveKeepsNet == ASSUME IndInv, NEW m, Arrive(m) PROVE net' \subseteq net /\ faults' \in 0..MaxFaults
<1>1. faults \in 0..MaxFaults
  BY DEF IndInv, NetInv
<1>2. Fault => faults' \in 0..MaxFaults
  BY <1>1, BoundAssumption, SMT DEF Fault
<1> QED
  BY <1>1, <1>2 DEF Arrive

LEMMA StepReceiveBack == ASSUME IndInv, NEW m, ReceiveBack(m) PROVE IndInv'
<1>1. /\ Arrive(m) \/ AnswerFails(m)
      /\ m \in net
      /\ InputAck(m) \/ InputClose(m) \/ AnswerFails(m)
      /\ UNCHANGED <<state, sendQueue, closeSeq, outputErr, recvVars>>
  BY DEF ReceiveBack, FromPeer
<1>2. SendInv /\ net \subseteq Message /\ faults \in 0..MaxFaults
  BY DEF IndInv, NetInv
<1>3. net' \subseteq net /\ faults' \in 0..MaxFaults
  <2>1. Fault => faults' \in 0..MaxFaults
    BY <1>2, BoundAssumption, SMT DEF Fault
  <2> QED
    BY <1>1, <2>1, ArriveKeepsNet DEF AnswerFails
<1>4. CASE InputAck(m)
  <2>1. /\ m.kind = "ack" /\ remoteOpen' = m.open
        /\ UNCHANGED <<nextSend, lastPast, input, written>>
    BY <1>4 DEF InputAck
  <2>2. m.open \in BOOLEAN
    <3>1. CASE m \in [kind : {"ack"}, ack : Nat, open : BOOLEAN]
      BY <3>1
    <3>2. CASE m \in [kind : {"data"}, seq : Nat, val : Payload] \cup [kind : {"close", "peerClose"}]
      BY <2>1, <3>2, SMT
    <3> QED
      BY <1>1, <1>2, <3>1, <3>2 DEF Message
  <2>3. PICK n \in 0..Len(sendBuf) : sendBuf' = SubSeq(sendBuf, n + 1, Len(sendBuf))
    BY <1>4 DEF InputAck
  <2>4. sendBuf' \in Seq(GoodSegs) /\ Len(sendBuf') < Cap
    <3>1. sendBuf \in Seq(GoodSegs) /\ Len(sendBuf) \in Nat /\ Len(sendBuf) < Cap
      BY <1>2, SendTypes
    <3>2. \A i \in (n + 1)..Len(sendBuf) : sendBuf[i] \in GoodSegs
      BY <3>1, SMT
    <3>3. n + 1 \in Int /\ Len(sendBuf) \in Int
      BY <3>1, SMT
    <3>4. /\ SubSeq(sendBuf, n + 1, Len(sendBuf)) \in Seq(GoodSegs)
          /\ Len(SubSeq(sendBuf, n + 1, Len(sendBuf)))
               = IF n + 1 <= Len(sendBuf) THEN Len(sendBuf) - (n + 1) + 1 ELSE 0
      BY <3>2, <3>3, SubSeqProperties
    <3> QED
      BY <2>3, <3>1, <3>4, CapAssumption, SMT
  <2>5. Grows
    BY <1>2, <2>1, SameGrows
  <2>6. sendBuf' \in Seq(GoodSegs')
    BY <1>2, <2>4, <2>5, GoodSegsGrow
  <2>7. SendInv'
    BY <1>1, <1>2, <2>1, <2>2, <2>4, <2>5, <2>6, TreesKept, SendTypes, SendKinds, SendInvFrom
  <2> QED
    BY <1>1, <1>3, <2>5, <2>7, RecvKept, NetKept DEF IndInv
<1>5. CASE InputClose(m) \/ AnswerFails(m)
  <2>1. /\ TakeSeq(Empty) /\ lastPast' \in BOOLEAN /\ input' \in {"run", "close", "wait"}
        /\ UNCHANGED <<sendBuf, remoteOpen>>
    BY <1>2, <1>5, SendKinds DEF InputClose, AnswerFails
  <2>2. Empty \in Payload
    BY DEF Payload
  <2>3. Grows /\ nextSend' = Len(written')
    BY <1>2, <2>1, <2>2, TakeSeqGrows
  <2>4. SendInv'
    BY <1>1, <1>2, <2>1, <2>3, TreesKept, SendKinds, SendInvFrom DEF Grows
  <2> QED
    BY <1>1, <1>3, <2>3, <2>4, RecvKept, NetKept DEF IndInv
<1> QED
  BY <1>1, <1>4, <1>5

-----------------------------------------------------------------------------
(* The steps of the receiving session.                                        *)

LEMMA RecvTypes ==
    ASSUME RecvInv
    PROVE  /\ read \in Seq(Payload) /\ Len(read) \in Nat
           /\ recvQueue \in Seq(Payload) /\ Len(recvQueue) \in Nat /\ Len(recvQueue) < QueueCap
           /\ nextRecv \in Nat /\ nextRecv = Len(read) + Len(recvQueue)
           /\ recvBuf \subseteq [seq : Nat, val : Payload]
           /\ IsFiniteSet(recvBuf) /\ Cardinality(recvBuf) \in Nat /\ Cardinality(recvBuf) < Cap
           /\ peer \in PeerStates /\ ackOnDataRecv \in BOOLEAN /\ stuck \in BOOLEAN
<1>1. /\ read \in Seq(Payload) /\ recvQueue \in Seq(Payload) /\ Len(recvQueue) < QueueCap
      /\ nextRecv \in Nat /\ nextRecv = Len(read) + Len(recvQueue)
      /\ recvBuf \subseteq [seq : Nat, val : Payload]
      /\ IsFiniteSet(recvBuf) /\ Cardinality(recvBuf) < Cap
      /\ peer \in PeerStates /\ ackOnDataRecv \in BOOLEAN /\ stuck \in BOOLEAN
  BY DEF RecvInv, RecvTypeOK
<1> QED
  BY <1>1, LenProperties, FS_CardinalityType

\* The segments in order are the payloads that were written next.
LEMMA RunIsWritten ==
    ASSUME NEW buf, \A seg \in buf : Good(seg), Len(written) \in Nat, nextRecv \in Nat,
           nextRecv <= Len(written), written \in Seq(Payload),
           NEW n \in Nat, InOrder(buf, n)
    PROVE  /\ nextRecv + n <= Len(written)
           /\ \A i \in 1..n : At(buf, nextRecv + i - 1).val = written[nextRecv + i]
<1>1. ASSUME NEW i \in 1..n
      PROVE  /\ nextRecv + i <= Len(written)
             /\ At(buf, nextRecv + i - 1).val = written[nextRecv + i]
  <2>1. i - 1 \in 0..(n - 1) /\ nextRecv + (i - 1) = nextRecv + i - 1
    BY SMT
  <2>2. \E seg \in buf : seg.seq = nextRecv + i - 1
    BY <2>1 DEF InOrder
  <2> PICK at : at = At(buf, nextRecv + i - 1)
    OBVIOUS
  <2>3. at \in buf /\ at.seq = nextRecv + i - 1
    BY <2>2 DEF At
  <2>4. at.seq \in 0..(Len(written) - 1) /\ at.val = written[at.seq + 1]
    BY <2>3 DEF Good
  <2>5. at.seq + 1 = nextRecv + i
    BY <2>3, SMT
  <2>6. nextRecv + i <= Len(written)
    BY <2>4, <2>5, SMT
  <2> QED
    BY <2>4, <2>5, <2>6
<1>2. nextRecv + n <= Len(written)
  <2>1. CASE n = 0
    BY <2>1, SMT
  <2>2. CASE n # 0
    <3>1. n \in 1..n
      BY <2>2, SMT
    <3> QED
      BY <1>1, <3>1
  <2> QED
    BY <2>1, <2>2
<1> QED
  BY <1>1, <1>2

LEMMA Delivering ==
    ASSUME IndInv, NEW m \in net, m.kind = "data", Cardinality(recvBuf) < Cap - 1, Deliver(m),
           UNCHANGED <<read, written, peer, stuck>>, ackOnDataRecv' \in BOOLEAN
    PROVE  RecvInv'
<1> DEFINE new == [seq |-> m.seq, val |-> m.val]
           buf == {seg \in recvBuf : seg.seq # m.seq} \cup {new}
<1>1. PICK n \in 0..Cap :
         /\ InOrder(buf, n)
         /\ recvQueue' = recvQueue \o [i \in 1..n |-> At(buf, nextRecv + i - 1).val]
         /\ nextRecv' = nextRecv + n
         /\ recvBuf' = IF Len(recvQueue) < QueueCap - 1
                       THEN {seg \in buf : seg.seq >= nextRecv + n} ELSE buf
  BY DEF Deliver
<1>2. SendInv /\ RecvInv /\ Good(m) /\ m \in Message
  BY DEF IndInv, NetInv
<1>3. written \in Seq(Payload) /\ Len(written) \in Nat /\ n \in Nat /\ nextRecv <= Len(written)
  <2>1. n \in Nat
    BY CapAssumption, SMT
  <2> QED
    BY <1>2, <2>1, SendTypes DEF RecvInv
<1>4. new \in [seq : Nat, val : Payload] /\ Good(new)
  <2>1. m.seq \in Nat /\ m.val \in Payload
    <3>1. CASE m \in [kind : {"data"}, seq : Nat, val : Payload]
      BY <3>1
    <3>2. CASE m \in [kind : {"close", "peerClose"}] \cup [kind : {"ack"}, ack : Nat, open : BOOLEAN]
      BY <3>2, SMT
    <3> QED
      BY <1>2, <3>1, <3>2 DEF Message
  <2>2. new \in [seq : Nat, val : Payload] /\ new.seq = m.seq /\ new.val = m.val
    BY <2>1, SMT
  <2> QED
    BY <1>2, <2>2 DEF Good
<1>5. buf \subseteq [seq : Nat, val : Payload] /\ \A seg \in buf : Good(seg)
  BY <1>2, <1>4, RecvTypes DEF RecvInv
<1>6. IsFiniteSet(buf) /\ Cardinality(buf) < Cap
  <2> DEFINE rest == {seg \in recvBuf : seg.seq # m.seq}
  <2>1. rest \subseteq recvBuf
    OBVIOUS
  <2>2. IsFiniteSet(rest) /\ Cardinality(rest) <= Cardinality(recvBuf)
    BY <1>2, <2>1, RecvTypes, FS_Subset
  <2>3. /\ IsFiniteSet(rest \cup {new})
        /\ Cardinality(rest \cup {new}) = IF new \in rest THEN Cardinality(rest) ELSE Cardinality(rest) + 1
    BY <2>2, FS_AddElement
  <2>4. Cardinality(rest) \in Nat /\ Cardinality(recvBuf) \in Nat
    BY <1>2, <2>2, RecvTypes, FS_CardinalityType
  <2>5. Cardinality(rest) < Cap /\ Cardinality(rest) + 1 < Cap
    BY <2>2, <2>4, CapAssumption, SMT
  <2> QED
    BY <2>3, <2>5
<1>7. /\ IsFiniteSet(recvBuf') /\ Cardinality(recvBuf') < Cap
      /\ recvBuf' \subseteq [seq : Nat, val : Payload] /\ \A seg \in recvBuf' : Good(seg)
  <2>1. recvBuf' \subseteq buf
    BY <1>1
  <2> HIDE DEF buf
  <2>2. IsFiniteSet(recvBuf') /\ Cardinality(recvBuf') <= Cardinality(buf)
    BY <1>6, <2>1, FS_Subset
  <2>3. Cardinality(recvBuf') \in Nat /\ Cardinality(buf) \in Nat
    BY <1>6, <2>2, FS_CardinalityType
  <2>4. Cardinality(recvBuf') < Cap
    BY <1>6, <2>2, <2>3, CapAssumption, SMT
  <2> QED
    BY <1>5, <2>1, <2>2, <2>4
<1> HIDE DEF buf
<1>8. /\ nextRecv + n <= Len(written)
      /\ \A i \in 1..n : At(buf, nextRecv + i - 1).val = written[nextRecv + i]
  BY <1>1, <1>2, <1>3, <1>5, RecvTypes, RunIsWritten
<1> DEFINE run == [i \in 1..n |-> At(buf, nextRecv + i - 1).val]
<1>9. /\ run \in Seq(Payload) /\ Len(run) = n
      /\ \A i \in 1..n : run[i] = written[nextRecv + i]
  <2>1. \A i \in 1..n : run[i] = written[nextRecv + i]
    BY <1>8
  <2>2. \A i \in 1..n : nextRecv + i \in 1..Len(written)
    BY <1>2, <1>3, <1>8, RecvTypes, SMT
  <2>3. \A i \in 1..n : written[nextRecv + i] \in Payload
    BY <1>3, <2>2, ElementOfSeq
  <2>4. run \in [1..n -> Payload]
    BY <2>1, <2>3
  <2> HIDE DEF run
  <2>5. run \in Seq(Payload) /\ Len(run) = n
    BY <1>3, <2>4, SMT
  <2> QED
    BY <2>1, <2>5
<1> HIDE DEF run
<1>10. /\ recvQueue \o run \in Seq(Payload)
       /\ Len(recvQueue \o run) = Len(recvQueue) + n
       /\ \A i \in 1..(Len(recvQueue) + n) :
            (recvQueue \o run)[i] = IF i <= Len(recvQueue) THEN recvQueue[i] ELSE run[i - Len(recvQueue)]
  <2>1. recvQueue \in Seq(Payload)
    BY <1>2, RecvTypes
  <2> QED
    BY <1>9, <2>1, ConcatProperties
<1>11. recvQueue' = recvQueue \o run
  BY <1>1 DEF run
<1>12. Len(recvQueue) + n < QueueCap
  <2>1. CASE n = 0
    BY <1>2, <2>1, RecvTypes, SMT
  <2>2. CASE n # 0
    <3>1. n > 0
      BY <1>3, <2>2, SMT
    <3> QED
      BY <1>1, <3>1 DEF InOrder
  <2> QED
    BY <2>1, <2>2
<1>13. /\ nextRecv' = Len(read) + Len(recvQueue') /\ nextRecv' \in Nat
  BY <1>1, <1>2, <1>3, <1>10, <1>11, RecvTypes, SMT
<1>14. \A i \in 1..Len(recvQueue') : recvQueue'[i] = written[Len(read) + i]
  <2> SUFFICES ASSUME NEW i \in 1..Len(recvQueue') PROVE recvQueue'[i] = written[Len(read) + i]
    OBVIOUS
  <2>1. i \in 1..(Len(recvQueue) + n)
    BY <1>10, <1>11
  <2>2. CASE i <= Len(recvQueue)
    <3>1. i \in 1..Len(recvQueue)
      BY <1>2, <1>3, <2>1, <2>2, RecvTypes, SMT
    <3>2. recvQueue'[i] = recvQueue[i]
      BY <1>10, <1>11, <2>1, <2>2
    <3> QED
      BY <1>2, <3>1, <3>2 DEF RecvInv
  <2>3. CASE ~(i <= Len(recvQueue))
    <3>1. i - Len(recvQueue) \in 1..n /\ nextRecv + (i - Len(recvQueue)) = Len(read) + i
      BY <1>2, <1>3, <2>1, <2>3, RecvTypes, SMT
    <3>2. recvQueue'[i] = run[i - Len(recvQueue)]
      BY <1>10, <1>11, <2>1, <2>3
    <3> QED
      BY <1>9, <3>1, <3>2
  <2> QED
    BY <2>2, <2>3
<1>15. RecvTypeOK'
  BY <1>2, <1>7, <1>10, <1>11, <1>12, <1>13, RecvTypes DEF RecvTypeOK
<1>16. \A seg \in recvBuf' : Good(seg)'
  BY <1>7 DEF Good
<1>17. nextRecv' <= Len(written)
  BY <1>1, <1>8
<1> QED
  BY <1>2, <1>7, <1>13, <1>14, <1>15, <1>16, <1>17 DEF RecvInv

LEMMA StepReceive == ASSUME IndInv, NEW m, Receive(m) PROVE IndInv'
<1>1. m \in net /\ UNCHANGED <<sendVars, read>>
  BY DEF Receive, ToPeer
<1>2. SendInv /\ RecvInv /\ NetInv
  BY DEF IndInv
<1>3. SendInv'
  BY <1>1, <1>2, SendKept
<1>4. UNCHANGED written
  BY <1>1 DEF sendVars
<1>5. Grows
  BY <1>2, <1>4, SameGrows
<1>6. CASE InputData(m) /\ Arrive(m)
  <2>1. NetInv'
    BY <1>5, <1>6, ArriveKeepsNet, NetKept
  <2>2. CASE Cardinality(recvBuf) < Cap - 1
    <3>1. /\ m.kind = "data" /\ Deliver(m) /\ ackOnDataRecv' \in AckWanted
          /\ UNCHANGED <<peer, stuck>>
      BY <1>6, <2>2 DEF InputData
    <3>2. ackOnDataRecv' \in BOOLEAN
      BY <3>1 DEF AckWanted
    <3>3. RecvInv'
      BY <1>1, <1>4, <2>2, <3>1, <3>2, Delivering
    <3> QED
      BY <1>3, <2>1, <3>3 DEF IndInv
  <2>3. CASE ~(Cardinality(recvBuf) < Cap - 1)
    <3>1. /\ stuck' = TRUE
          /\ UNCHANGED <<peer, read, recvBuf, recvQueue, nextRecv, ackOnDataRecv, written>>
      BY <1>1, <1>4, <1>6, <2>3 DEF InputData
    <3>2. RecvInv'
      BY <1>2, <3>1 DEF RecvInv, RecvTypeOK, Good
    <3> QED
      BY <1>3, <2>1, <3>2 DEF IndInv
  <2> QED
    BY <2>2, <2>3
<1>7. CASE PeerInputClose(m)
  <2>1. net' \subseteq net /\ faults' \in 0..MaxFaults
    BY <1>2, <1>7, ArriveKeepsNet DEF PeerInputClose, FromPeer, NetInv
  <2>2. /\ peer' \in PeerStates
        /\ UNCHANGED <<stuck, read, recvBuf, recvQueue, nextRecv, ackOnDataRecv, written>>
    BY <1>1, <1>4, <1>7 DEF PeerInputClose, PeerStates
  <2>3. RecvInv'
    BY <1>2, <2>2 DEF RecvInv, RecvTypeOK, Good
  <2> QED
    BY <1>3, <1>5, <2>1, <2>3, NetKept DEF IndInv
<1> QED
  BY <1>6, <1>7 DEF Receive

LEMMA StepRead == ASSUME IndInv, Read PROVE IndInv'
<1>1. /\ read' = read \o recvQueue /\ recvQueue' = <<>>
      /\ UNCHANGED <<sendVars, peer, recvBuf, nextRecv, ackOnDataRecv, stuck, netVars>>
  BY DEF Read
<1>2. SendInv /\ RecvInv /\ NetInv
  BY DEF IndInv
<1>3. SendInv' /\ UNCHANGED written
  BY <1>1, <1>2, SendKept DEF sendVars
<1>4. NetInv'
  <2>1. Grows
    BY <1>2, <1>3, SameGrows
  <2>2. net' \subseteq net /\ faults' \in 0..MaxFaults
    BY <1>1, <1>2 DEF netVars, NetInv
  <2> QED
    BY <2>1, <2>2, NetKept
<1>5. /\ read \o recvQueue \in Seq(Payload)
      /\ Len(read \o recvQueue) = Len(read) + Len(recvQueue)
      /\ \A i \in 1..(Len(read) + Len(recvQueue)) :
            (read \o recvQueue)[i] = IF i <= Len(read) THEN read[i] ELSE recvQueue[i - Len(read)]
  <2>1. read \in Seq(Payload) /\ recvQueue \in Seq(Payload)
    BY <1>2, RecvTypes
  <2> QED
    BY <2>1, ConcatProperties
<1>6. \A i \in 1..Len(read') : read'[i] = written[i]
  <2> SUFFICES ASSUME NEW i \in 1..Len(read') PROVE read'[i] = written[i]
    OBVIOUS
  <2>1. i \in 1..(Len(read) + Len(recvQueue))
    BY <1>1, <1>5
  <2>2. CASE i <= Len(read)
    <3>1. i \in 1..Len(read) /\ read'[i] = read[i]
      <4>1. i \in 1..Len(read)
        BY <1>2, <2>1, <2>2, RecvTypes, SMT
      <4> QED
        BY <1>1, <1>5, <2>1, <2>2, <4>1
    <3> QED
      BY <1>2, <3>1 DEF RecvInv
  <2>3. CASE ~(i <= Len(read))
    <3>1. i - Len(read) \in 1..Len(recvQueue) /\ Len(read) + (i - Len(read)) = i
      BY <1>2, <2>1, <2>3, RecvTypes, SMT
    <3>2. read'[i] = recvQueue[i - Len(read)]
      BY <1>1, <1>5, <2>1, <2>3
    <3> QED
      BY <1>2, <3>1, <3>2 DEF RecvInv
  <2> QED
    BY <2>2, <2>3
<1>7. /\ Len(recvQueue') = 0 /\ recvQueue' \in Seq(Payload) /\ Len(recvQueue') < QueueCap
      /\ nextRecv' = Len(read') + Len(recvQueue') /\ \A i \in 1..Len(recvQueue') : FALSE
  <2>1. <<>> \in Seq(Payload) /\ Len(<<>>) = 0
    BY EmptySeq
  <2>2. 0 < QueueCap /\ (\A i \in 1..0 : FALSE) /\ Len(read) + Len(recvQueue) = Len(read) + Len(recvQueue) + 0
    BY <1>2, RecvTypes, CapAssumption, SMT
  <2>3. nextRecv' = Len(read) + Len(recvQueue)
    BY <1>1, <1>2, RecvTypes
  <2> QED
    BY <1>1, <1>5, <2>1, <2>2, <2>3
<1>8. RecvTypeOK'
  BY <1>1, <1>2, <1>5, <1>7, RecvTypes DEF RecvTypeOK
<1>9. RecvInv'
  BY <1>1, <1>2, <1>3, <1>6, <1>7, <1>8 DEF RecvInv, Good
<1> QED
  BY <1>3, <1>4, <1>9 DEF IndInv

\* Steps that leave the sending session alone, and of the receiving one all but its flags.
LEMMA PeerFlags ==
    ASSUME IndInv, UNCHANGED <<sendVars, recvBuf, recvQueue, nextRecv, stuck, read>>,
           peer' \in PeerStates, ackOnDataRecv' \in BOOLEAN, NetInv'
    PROVE  IndInv'
<1>1. SendInv /\ RecvInv
  BY DEF IndInv
<1>2. SendInv' /\ UNCHANGED written
  BY <1>1, SendKept DEF sendVars
<1>3. RecvInv'
  BY <1>1, <1>2 DEF RecvInv, RecvTypeOK, Good
<1> QED
  BY <1>2, <1>3 DEF IndInv

LEMMA Acknowledging ==
    ASSUME IndInv, NEW open \in BOOLEAN, Acknowledge(open), faults' \in 0..MaxFaults,
           UNCHANGED written
    PROVE  NetInv'
<1> DEFINE m == [kind |-> "ack", ack |-> nextRecv, open |-> open]
<1>1. Grows
  BY SameGrows DEF IndInv
<1>2. nextRecv \in Nat
  BY RecvTypes DEF IndInv
<1>3. m \in [kind : {"ack"}, ack : Nat, open : BOOLEAN]
  BY <1>2
<1>4. m.kind = "ack" /\ "ack" # "data"
  BY SMT
<1>5. GoodPacket(m)
  BY <1>3, <1>4 DEF GoodPacket, Message
<1>6. net' \subseteq net \cup {m}
  BY DEF Acknowledge
<1> HIDE DEF m
<1> QED
  BY <1>1, <1>5, <1>6, NetGains

LEMMA StepPeerOutput == ASSUME IndInv, PeerOutput PROVE IndInv'
<1>1. faults \in 0..MaxFaults /\ peer \in PeerStates /\ ackOnDataRecv \in BOOLEAN
  BY RecvTypes DEF IndInv, NetInv
<1>2. ASSUME NEW w \in Windows, SendAck(w) PROVE IndInv'
  <2>1. /\ Acknowledge(Receives(w)) /\ ackOnDataRecv' = FALSE
        /\ UNCHANGED <<sendVars, peer, recvBuf, recvQueue, nextRecv, stuck, read, faults>>
    BY <1>2 DEF SendAck
  <2>2. Receives(w) \in BOOLEAN
    <3>1. w \in Int /\ Cardinality(recvBuf) \in Int
      BY WindowAssumption, CapAssumption, RecvTypes, SMT DEF IndInv
    <3> QED
      BY <3>1, SMT DEF Receives
  <2>3. UNCHANGED written
    BY <2>1 DEF sendVars
  <2>4. NetInv'
    BY <1>1, <2>1, <2>2, <2>3, Acknowledging
  <2> QED
    BY <1>1, <2>1, <2>4, PeerFlags
<1>3. ASSUME NEW open \in BOOLEAN, SendData(open) PROVE IndInv'
  <2>1. Acknowledge(open) /\ Fault /\ UNCHANGED <<sendVars, recvVars>>
    BY <1>3 DEF SendData
  <2>2. faults' \in 0..MaxFaults
    BY <1>1, <2>1, BoundAssumption, SMT DEF Fault
  <2>3. UNCHANGED written /\ UNCHANGED <<peer, recvBuf, recvQueue, nextRecv, ackOnDataRecv, stuck, read>>
    BY <2>1 DEF sendVars, recvVars
  <2>4. NetInv'
    BY <2>1, <2>2, <2>3, Acknowledging
  <2> QED
    BY <1>1, <2>1, <2>3, <2>4, PeerFlags
<1> QED
  BY <1>2, <1>3 DEF PeerOutput

LEMMA StepPeerCloses == ASSUME IndInv, PeerCloses \/ PeerClosed PROVE IndInv'
<1> DEFINE m == [kind |-> "peerClose"]
<1>1. /\ peer' \in PeerStates /\ net' \subseteq net \cup {m}
      /\ ackOnDataRecv' \in {FALSE, ackOnDataRecv}
      /\ UNCHANGED <<sendVars, recvBuf, recvQueue, nextRecv, stuck, read, faults>>
  BY DEF PeerCloses, PeerClosed, PeerStates, FromPeer, netVars
<1>2. faults' \in 0..MaxFaults /\ ackOnDataRecv' \in BOOLEAN
  BY <1>1, RecvTypes DEF IndInv, NetInv
<1>3. Grows
  BY <1>1, SameGrows DEF IndInv, sendVars
<1>4. NetInv'
  BY <1>1, <1>2, <1>3, ClosePacketIsGood, NetGains
<1> QED
  BY <1>1, <1>2, <1>4, PeerFlags

LEMMA StepLose == ASSUME IndInv, NEW m, Lose(m) PROVE IndInv'
<1>1. Fault /\ net' \subseteq net /\ UNCHANGED <<sendVars, recvVars>>
  BY DEF Lose
<1>2. faults \in 0..MaxFaults /\ peer \in PeerStates /\ ackOnDataRecv \in BOOLEAN
  BY RecvTypes DEF IndInv, NetInv
<1>3. faults' \in 0..MaxFaults
  BY <1>1, <1>2, BoundAssumption, SMT DEF Fault
<1>4. Grows
  BY <1>1, SameGrows DEF IndInv, sendVars
<1>5. NetInv'
  BY <1>1, <1>3, <1>4, NetKept
<1> QED
  BY <1>1, <1>2, <1>5, PeerFlags DEF recvVars

-----------------------------------------------------------------------------
(* The theorems.                                                              *)

LEMMA IndInvNext == ASSUME IndInv, Next PROVE IndInv'
<1>1. CASE Program
  <2>1. CASE Close
    <3>1. input \in {"run", "close", "wait"}
      BY SendKinds DEF IndInv
    <3> QED
      BY <2>1, <3>1, StepBeginClose DEF Close
  <2> QED
    BY <1>1, <2>1, StepWriteChunk, StepRead, StepPeerCloses DEF Program
<1>2. CASE OutputStep
  BY <1>2, StepRetransmit, StepStopOutput, StepOwnAck, StepTransmit DEF OutputStep
<1>3. CASE CloseStep
  BY <1>3, StepInputCloses, StepShut DEF CloseStep
<1>4. CASE PeerOutput \/ PeerClosed
  BY <1>4, StepPeerOutput, StepPeerCloses
<1>5. CASE NetStep
  BY <1>5, StepReceive, StepReceiveBack, StepLose DEF NetStep
<1> QED
  BY <1>1, <1>2, <1>3, <1>4, <1>5 DEF Next

LEMMA IndInvStutter == ASSUME IndInv, UNCHANGED vars PROVE IndInv'
<1>1. UNCHANGED sendVars /\ UNCHANGED recvVars /\ UNCHANGED netVars
  BY DEF vars
<1>2. peer \in PeerStates /\ ackOnDataRecv \in BOOLEAN
  BY RecvTypes DEF IndInv
<1>3. Grows /\ net' \subseteq net /\ faults' \in 0..MaxFaults
  BY <1>1, SameGrows DEF IndInv, NetInv, sendVars, netVars
<1>4. NetInv'
  BY <1>3, NetKept
<1> QED
  BY <1>1, <1>2, <1>4, PeerFlags DEF recvVars

\* Whatever the network does, a segment keeps the payload it was written with, and what
\* was moved out of recvBuf is what was written first.
THEOREM Invariance == Spec => []IndInv
<1>1. IndInv /\ [Next]_vars => IndInv'
  BY IndInvNext, IndInvStutter
<1> QED
  BY <1>1, IndInvInit, PTL DEF Spec

\* The segment trees stay within their capacities and every variable within its type,
\* whatever the capacities, windows and bounds are.
THEOREM TypeCorrect == Spec => []TypeOK
<1>1. IndInv => TypeOK
  BY DEF IndInv, SendInv, RecvInv, NetInv, TypeOK
<1> QED
  BY <1>1, Invariance, PTL

-----------------------------------------------------------------------------
(* The refinement.                                                            *)

LEMMA RefineInit == Init => Channel!Init
BY DEF Init, Channel!Init

\* Steps that only add to the history, only close, or do neither.
LEMMA RefineWrite ==
    ASSUME SendInv, NEW val \in Payload, TakeSeq(val), state # "closed", state' # "closed",
           UNCHANGED read
    PROVE  Channel!Write
<1>1. Grows /\ Len(written') = Len(written) + 1
  BY TakeSeqGrows
<1>2. Channel!IsPrefixOf(written, written')
  BY <1>1 DEF Grows, Channel!IsPrefixOf
<1> QED
  BY <1>1, <1>2 DEF Grows, Channel!Write

LEMMA RefineClose ==
    ASSUME state' = "closed", UNCHANGED <<written, read>>
    PROVE  Channel!Close
BY DEF Channel!Close

LEMMA RefineStutter ==
    ASSUME UNCHANGED <<state, written, read>>
    PROVE  UNCHANGED Channel!vars
BY DEF Channel!vars

LEMMA RefineBeginClose ==
    ASSUME IndInv, BeginClose
    PROVE  Channel!Next
<1>1. SendInv /\ state = "open" /\ UNCHANGED read
  BY DEF IndInv, BeginClose, recvVars
<1>2. CASE Len(sendQueue) < Cap
  <2>1. state' = "closing" /\ TakeSeq(Empty)
    BY <1>2 DEF BeginClose, Enqueue
  <2>2. Empty \in Payload
    BY DEF Payload
  <2>3. Channel!Write
    BY <1>1, <2>1, <2>2, RefineWrite
  <2> QED
    BY <2>3 DEF Channel!Next
<1>3. CASE ~(Len(sendQueue) < Cap)
  <2>1. state' = "closed" /\ UNCHANGED written
    BY <1>3 DEF BeginClose, Shut
  <2>2. Channel!Close
    BY <1>1, <2>1, RefineClose
  <2> QED
    BY <2>2 DEF Channel!Next
<1> QED
  BY <1>2, <1>3

LEMMA RefineProgram == ASSUME IndInv, IndInv', Program PROVE [Channel!Next]_(Channel!vars)
<1>1. CASE WriteChunk
  <2>1. SendInv /\ TakeSeq(nextSend + 1) /\ state # "closed" /\ state' = state /\ UNCHANGED read
    BY <1>1 DEF IndInv, WriteChunk, Enqueue, recvVars
  <2>2. nextSend + 1 \in Payload
    <3>1. nextSend \in Nat
      BY <2>1, SendKinds
    <3> QED
      BY <3>1, SMT DEF Payload
  <2>3. Channel!Write
    BY <2>1, <2>2, RefineWrite
  <2> QED
    BY <2>3 DEF Channel!Next
<1>2. CASE Close
  BY <1>2, RefineBeginClose DEF Close
<1>3. CASE Read
  <2>1. read' = read \o recvQueue /\ UNCHANGED <<written, state>>
    BY <1>3 DEF Read, sendVars
  <2>2. RecvInv /\ RecvInv'
    BY DEF IndInv
  <2>3. read \in Seq(Payload) /\ recvQueue \in Seq(Payload) /\ Len(read) \in Nat /\ Len(recvQueue) \in Nat
    BY <2>2, RecvTypes
  <2>4. Channel!IsPrefixOf(read, read')
    <3>1. Len(read) <= Len(read \o recvQueue) /\ \A i \in 1..Len(read) : read[i] = (read \o recvQueue)[i]
      BY <2>3, SMT
    <3> QED
      BY <2>1, <3>1 DEF Channel!IsPrefixOf
  <2>5. Channel!IsPrefixOf(read', written)
    <3>1. /\ nextRecv' = Len(read') + Len(recvQueue') /\ nextRecv' <= Len(written')
          /\ \A i \in 1..Len(read') : read'[i] = written'[i]
      BY <2>2 DEF RecvInv
    <3>2. read' \in Seq(Payload) /\ recvQueue' \in Seq(Payload)
      BY <2>2 DEF RecvInv, RecvTypeOK
    <3>3. Len(read') \in Nat /\ Len(recvQueue') \in Nat
      BY <3>2, LenProperties
    <3>4. Len(written) \in Nat
      BY SendTypes DEF IndInv
    <3>5. Len(read') <= Len(written)
      BY <2>1, <3>1, <3>3, <3>4, SMT
    <3> QED
      BY <2>1, <3>1, <3>5 DEF Channel!IsPrefixOf
  <2>6. read' \in Seq(Payload)
    BY <2>2 DEF RecvInv, RecvTypeOK
  <2>7. Channel!Read
    BY <2>1, <2>4, <2>5, <2>6 DEF Channel!Read
  <2> QED
    BY <2>7 DEF Channel!Next
<1>4. CASE PeerCloses
  <2>1. UNCHANGED <<state, written, read>>
    BY <1>4 DEF PeerCloses, sendVars
  <2> QED
    BY <2>1, RefineStutter
<1> QED
  BY <1>1, <1>2, <1>3, <1>4 DEF Program

LEMMA RefineOutputStep == ASSUME OutputStep PROVE [Channel!Next]_(Channel!vars)
<1>1. CASE GiveUp \/ OutputFails
  <2>1. StopOutput /\ UNCHANGED <<written, read>>
    BY <1>1 DEF GiveUp, OutputFails, StopOutput, recvVars
  <2>2. CASE state' = "closed"
    BY <2>1, <2>2, RefineClose DEF Channel!Next
  <2>3. CASE UNCHANGED state
    BY <2>1, <2>3, RefineStutter
  <2> QED
    BY <2>1, <2>2, <2>3 DEF StopOutput, Shut
<1>2. CASE Retransmit \/ OwnAck \/ \E w \in Windows : Transmit(w)
  <2>1. UNCHANGED <<state, written, read>>
    BY <1>2 DEF Retransmit, OwnAck, Transmit, recvVars
  <2> QED
    BY <2>1, RefineStutter
<1> QED
  BY <1>1, <1>2 DEF OutputStep

LEMMA RefineCloseStep == ASSUME IndInv, CloseStep PROVE [Channel!Next]_(Channel!vars)
<1>1. CASE InputCloses
  <2>1. CASE BeginClose
    BY <2>1, RefineBeginClose
  <2>2. CASE ~BeginClose
    <3>1. UNCHANGED <<state, written, read>>
      BY <1>1, <2>2 DEF InputCloses, recvVars
    <3> QED
      BY <3>1, RefineStutter
  <2> QED
    BY <2>1, <2>2
<1>2. CASE CloseSent \/ CloseTimeout
  <2>1. state' = "closed" /\ UNCHANGED <<written, read>>
    BY <1>2 DEF CloseSent, CloseTimeout, Shut, recvVars
  <2>2. Channel!Close
    BY <2>1, RefineClose
  <2> QED
    BY <2>2 DEF Channel!Next
<1> QED
  BY <1>1, <1>2 DEF CloseStep

LEMMA RefineNetStep == ASSUME IndInv, NetStep PROVE [Channel!Next]_(Channel!vars)
<1> PICK m \in net : Receive(m) \/ ReceiveBack(m) \/ Lose(m)
  BY DEF NetStep
<1>1. CASE ReceiveBack(m) /\ (InputClose(m) \/ AnswerFails(m))
  <2>1. SendInv /\ TakeSeq(Empty) /\ state # "closed" /\ state' = state /\ UNCHANGED read
    BY <1>1 DEF IndInv, ReceiveBack, InputClose, AnswerFails, recvVars
  <2>2. Empty \in Payload
    BY DEF Payload
  <2>3. Channel!Write
    BY <2>1, <2>2, RefineWrite
  <2> QED
    BY <2>3 DEF Channel!Next
<1>2. CASE Receive(m) \/ (ReceiveBack(m) /\ InputAck(m)) \/ Lose(m)
  <2>1. UNCHANGED <<state, written, read>>
    BY <1>2 DEF Receive, ReceiveBack, InputAck, Lose, sendVars, recvVars
  <2> QED
    BY <2>1, RefineStutter
<1> QED
  BY <1>1, <1>2 DEF ReceiveBack

\* A mieru session over UDP is a stream: whatever packets are lost, duplicated, reordered
\* and retransmitted, and whoever closes when, the reader reads a prefix of what was
\* written, in order and once, for every capacity, window and bound.
THEOREM SessionIsAStream == Spec => ChannelSpec
<1>1. IndInv /\ IndInv' /\ [Next]_vars => [Channel!Next]_(Channel!vars)
  <2> SUFFICES ASSUME IndInv, IndInv', [Next]_vars PROVE [Channel!Next]_(Channel!vars)
    OBVIOUS
  <2>1. CASE UNCHANGED vars
    <3>1. UNCHANGED <<state, written, read>>
      BY <2>1 DEF vars, sendVars, recvVars
    <3> QED
      BY <3>1, RefineStutter
  <2>2. CASE PeerOutput \/ PeerClosed
    <3>1. UNCHANGED <<state, written, read>>
      BY <2>2 DEF PeerOutput, SendAck, SendData, PeerClosed, sendVars, recvVars
    <3> QED
      BY <3>1, RefineStutter
  <2> QED
    BY <2>1, <2>2, RefineProgram, RefineOutputStep, RefineCloseStep, RefineNetStep DEF Next
<1> QED
  BY <1>1, Invariance, RefineInit, PTL DEF Spec, ChannelSpec, Channel!Spec
-----------------------------------------------------------------------------
(* The wait of inputData.  The invariant holds while recvQueue has room and   *)
(* the sending session has not begun to close, which is for ever once begun.  *)

Room == Len(recvQueue) < QueueCap - 1
Running == state = "open" /\ input = "run"

\* The sequence number to transmit next, and the first one not acknowledged.
Edge == nextSend - Len(sendQueue)
Base == Edge - Len(sendBuf)

\* The two send trees hold one run of sequence numbers, which begins at or before
\* the one the receiver waits for.
SentInOrder ==
    /\ \A i \in 1..Len(sendBuf) : sendBuf[i].seq = Base + i - 1
    /\ \A i \in 1..Len(sendQueue) : sendQueue[i].seq = Edge + i - 1
    /\ Base <= nextRecv

\* Data under way has been transmitted, and no acknowledgement is ahead of the receiver.
UnderWay ==
    \A m \in net : /\ m.kind = "data" => m.seq < Edge
                   /\ m.kind = "ack" => m.ack <= nextRecv

\* recvBuf holds only what is beyond the segment the receiver waits for.
Ahead == \A seg \in recvBuf : nextRecv < seg.seq /\ seg.seq < Edge

RoomInv == Running => SentInOrder /\ UnderWay /\ Ahead /\ ~stuck

LEMMA EdgeTypes ==
    ASSUME IndInv
    PROVE  /\ nextSend \in Nat /\ Len(sendQueue) \in Nat /\ Len(sendBuf) \in Nat /\ Len(sendBuf) < Cap
           /\ Edge \in Int /\ Base \in Int /\ Base = Edge - Len(sendBuf) /\ nextRecv \in Nat
           /\ Edge = nextSend - Len(sendQueue)
<1>1. /\ nextSend \in Nat /\ Len(sendQueue) \in Nat /\ Len(sendBuf) \in Nat /\ Len(sendBuf) < Cap
      /\ nextRecv \in Nat
  BY SendTypes, SendKinds, RecvTypes DEF IndInv
<1>2. Edge \in Int /\ Edge = nextSend - Len(sendQueue)
  BY <1>1, SMT DEF Edge
<1>3. Base = Edge - Len(sendBuf)
  BY DEF Base
<1>4. Base \in Int
  BY <1>1, <1>2, <1>3, SMT
<1> QED
  BY <1>1, <1>2, <1>3, <1>4

LEMMA MessageTypes ==
    ASSUME NEW m \in Message
    PROVE  (m.kind = "data" => m.seq \in Nat) /\ (m.kind = "ack" => m.ack \in Nat)
<1>1. CASE m \in [kind : {"data"}, seq : Nat, val : Payload]
  BY <1>1, SMT
<1>2. CASE m \in [kind : {"close", "peerClose"}]
  BY <1>2, SMT
<1>3. CASE m \in [kind : {"ack"}, ack : Nat, open : BOOLEAN]
  BY <1>3, SMT
<1> QED
  BY <1>1, <1>2, <1>3 DEF Message

\* A session that is not running never runs again.
LEMMA StillRunning ==
    ASSUME [Next]_vars, Running'
    PROVE  Running
<1> USE DEF Running
<1>1. CASE UNCHANGED <<state, input>>
  BY <1>1
<1>2. ~BeginClose
  BY DEF BeginClose, Shut
<1>3. CASE Program
  BY <1>1, <1>2, <1>3 DEF Program, WriteChunk, Close, Read, PeerCloses, sendVars
<1>4. CASE OutputStep
  BY <1>1, <1>4 DEF OutputStep, Retransmit, GiveUp, OutputFails, StopOutput, OwnAck, Transmit, Shut
<1>5. CASE CloseStep
  BY <1>2, <1>5 DEF CloseStep, InputCloses, CloseSent, CloseTimeout, Shut
<1>6. CASE PeerOutput \/ PeerClosed
  BY <1>1, <1>6 DEF PeerOutput, SendAck, SendData, PeerClosed, sendVars
<1>7. CASE NetStep
  <2> PICK m \in net : Receive(m) \/ ReceiveBack(m) \/ Lose(m)
    BY <1>7 DEF NetStep
  <2> QED
    BY <1>1 DEF Receive, ReceiveBack, Lose, sendVars, InputAck, InputClose, AnswerFails
<1>8. CASE UNCHANGED vars
  BY <1>1, <1>8 DEF vars, sendVars
<1> QED
  BY <1>3, <1>4, <1>5, <1>6, <1>7, <1>8 DEF Next

\* What recvBuf holds was sent after the segment the receiver waits for and is in
\* sendBuf with it, so that two slots are free.
LEMMA BufHasRoom ==
    ASSUME IndInv, SentInOrder, Ahead
    PROVE  Cardinality(recvBuf) < Cap - 1
<1>0. /\ recvBuf \subseteq [seq : Nat, val : Payload] /\ IsFiniteSet(recvBuf)
      /\ \A seg \in recvBuf : Good(seg)
  BY RecvTypes DEF IndInv, RecvInv
<1>1. CASE recvBuf = {}
  <2>1. Cardinality(recvBuf) = 0
    BY <1>1, FS_EmptySet
  <2> QED
    BY <2>1, CapAssumption, SMT
<1>2. CASE recvBuf # {}
  <2> DEFINE lo == nextRecv + 1
             hi == Edge - 1
             f == [seg \in recvBuf |-> seg.seq]
  <2>1. lo \in Int /\ hi \in Int
    BY EdgeTypes, SMT
  <2>2. \A seg \in recvBuf : seg.seq \in lo..hi
    <3> SUFFICES ASSUME NEW seg \in recvBuf PROVE seg.seq \in lo..hi
      OBVIOUS
    <3>1. seg.seq \in Nat
      BY <1>0
    <3>2. nextRecv < seg.seq /\ seg.seq < Edge
      BY DEF Ahead
    <3> QED
      BY <3>1, <3>2, EdgeTypes, SMT
  <2>3. \A s, t \in recvBuf : s.seq = t.seq => s = t
    <3> SUFFICES ASSUME NEW s \in recvBuf, NEW t \in recvBuf, s.seq = t.seq PROVE s = t
      OBVIOUS
    <3>1. s.val = t.val
      BY <1>0 DEF Good
    <3>2. s \in [seq : Nat, val : Payload] /\ t \in [seq : Nat, val : Payload]
      BY <1>0
    <3> QED
      BY <3>1, <3>2, SMT
  <2> HIDE DEF lo, hi
  <2>4. f \in Injection(recvBuf, lo..hi)
    BY <2>2, <2>3 DEF Injection, IsInjective
  <2>5. IsFiniteSet(lo..hi) /\ Cardinality(lo..hi) = IF lo > hi THEN 0 ELSE hi - lo + 1
    BY <2>1, FS_Interval
  <2>6. Cardinality(recvBuf) <= Cardinality(lo..hi)
    BY <2>4, <2>5, FS_Injection
  <2>7. lo <= hi
    <3>1. PICK seg \in recvBuf : TRUE
      BY <1>2
    <3>2. seg.seq \in lo..hi
      BY <2>2
    <3> QED
      BY <2>1, <3>2, SMT
  <2>8. Cardinality(lo..hi) = hi - lo + 1
    BY <2>1, <2>5, <2>7, SMT
  <2>9. hi - lo + 1 < Cap - 1
    <3>1. Base <= nextRecv
      BY DEF SentInOrder
    <3>2. /\ Edge \in Int /\ Base \in Int /\ Base = Edge - Len(sendBuf) /\ nextRecv \in Nat
          /\ Len(sendBuf) \in Nat /\ Len(sendBuf) < Cap /\ Cap \in Nat
      BY EdgeTypes, CapAssumption
    <3>3. hi = Edge - 1 /\ lo = nextRecv + 1
      BY DEF hi, lo
    <3> QED
      BY <2>1, <3>1, <3>2, <3>3, SMT
  <2>10. Cardinality(recvBuf) \in Nat
    BY <1>0, FS_CardinalityType
  <2> QED
    BY <2>1, <2>6, <2>8, <2>9, <2>10, CapAssumption, SMT
<1> QED
  BY <1>1, <1>2

\* The program writes: the segment joins the end of the run.
LEMMA RoomWriteChunk ==
    ASSUME IndInv, RoomInv, Running, WriteChunk
    PROVE  RoomInv'
<1>1. /\ sendQueue' = Append(sendQueue, Segment(nextSend, nextSend + 1))
      /\ nextSend' = nextSend + 1
      /\ UNCHANGED <<sendBuf, recvBuf, nextRecv, stuck, net>>
  BY DEF WriteChunk, Enqueue, TakeSeq, recvVars, netVars
<1> PICK seg : seg = Segment(nextSend, nextSend + 1)
  OBVIOUS
<1>2. seg.seq = nextSend
  BY SMT DEF Segment
<1>3. sendQueue \in Seq(GoodSegs) /\ SentInOrder /\ UnderWay /\ Ahead /\ ~stuck
  BY SendTypes DEF IndInv, RoomInv
<1>4. /\ Len(sendQueue') = Len(sendQueue) + 1
      /\ \A i \in 1..Len(sendQueue) : sendQueue'[i] = sendQueue[i]
      /\ sendQueue'[Len(sendQueue) + 1] = seg
  BY <1>1, <1>3, SMT
<1>5. Edge' = Edge /\ Base' = Base
  BY <1>1, <1>4, EdgeTypes, SMT DEF Edge, Base
<1>6. SentInOrder'
  <2>1. \A i \in 1..Len(sendQueue') : sendQueue'[i].seq = Edge + i - 1
    <3> SUFFICES ASSUME NEW i \in 1..Len(sendQueue') PROVE sendQueue'[i].seq = Edge + i - 1
      OBVIOUS
    <3>1. Len(sendQueue) \in Nat /\ nextSend \in Nat /\ Edge = nextSend - Len(sendQueue) /\ Edge \in Int
      BY EdgeTypes
    <3>2. CASE i = Len(sendQueue) + 1
      <4>1. sendQueue'[i].seq = nextSend
        BY <1>2, <1>4, <3>2
      <4> QED
        BY <3>1, <3>2, <4>1, SMT
    <3>3. CASE i # Len(sendQueue) + 1
      <4>1. i \in 1..Len(sendQueue)
        BY <1>4, <3>1, <3>3, SMT
      <4> QED
        BY <1>3, <1>4, <4>1 DEF SentInOrder
    <3> QED
      BY <3>2, <3>3
  <2> QED
    BY <1>1, <1>3, <1>5, <2>1 DEF SentInOrder
<1>7. UnderWay' /\ Ahead'
  BY <1>1, <1>3, <1>5 DEF UnderWay, Ahead
<1> QED
  BY <1>1, <1>3, <1>6, <1>7 DEF RoomInv

\* A packet of a segment below the edge may be under way.
LEMMA RoomOutput ==
    ASSUME IndInv, NEW seg, NEW e \in Int, seg.seq \in Nat, seg.seq < e,
           \A m \in net : /\ m.kind = "data" => m.seq < e
                          /\ m.kind = "ack" => m.ack <= nextRecv,
           net' \subseteq net \cup {Packet(seg)}
    PROVE  \A m \in net' : /\ m.kind = "data" => m.seq < e
                           /\ m.kind = "ack" => m.ack <= nextRecv
<1>1. Packet(seg).kind \in {"data", "close"} /\ (Packet(seg).kind = "data" => Packet(seg).seq = seg.seq)
  BY SMT DEF Packet
<1>2. Packet(seg).kind # "ack"
  BY <1>1
<1> QED
  BY <1>1, <1>2

\* A segment is sent again.
LEMMA RoomRetransmit ==
    ASSUME IndInv, RoomInv, Running, Retransmit
    PROVE  RoomInv'
<1>1. PICK i \in DOMAIN sendBuf :
        /\ sendBuf' = [sendBuf EXCEPT ![i].tx = @ + 1]
        /\ Output(Packet(sendBuf[i]), sendBuf[i].seq)
  BY DEF Retransmit
<1>2. UNCHANGED <<sendQueue, nextSend, recvBuf, nextRecv, stuck>>
  BY DEF Retransmit, recvVars
<1>3. sendBuf \in Seq(GoodSegs) /\ SentInOrder /\ UnderWay /\ Ahead /\ ~stuck
  BY SendTypes DEF IndInv, RoomInv
<1>4. i \in 1..Len(sendBuf) /\ DOMAIN sendBuf = 1..Len(sendBuf) /\ \A j \in 1..Len(sendBuf) : sendBuf[j] \in Seg
  BY <1>3, LenProperties, ElementOfSeq DEF GoodSegs
<1>5. Len(sendBuf') = Len(sendBuf) /\ \A j \in 1..Len(sendBuf) : sendBuf'[j].seq = sendBuf[j].seq
  <2>1. sendBuf' \in [1..Len(sendBuf) -> {sendBuf'[j] : j \in 1..Len(sendBuf)}]
        /\ DOMAIN sendBuf' = 1..Len(sendBuf)
    BY <1>1, <1>4
  <2>2. Len(sendBuf') = Len(sendBuf)
    BY <2>1, EdgeTypes, SMT
  <2>3. \A j \in 1..Len(sendBuf) : sendBuf'[j].seq = sendBuf[j].seq
    BY <1>1, <1>4, SMT DEF Seg
  <2> QED
    BY <2>2, <2>3
<1>6. Edge' = Edge /\ Base' = Base
  BY <1>2, <1>5 DEF Edge, Base
<1>7. SentInOrder'
  BY <1>2, <1>3, <1>5, <1>6 DEF SentInOrder
<1>8. UnderWay'
  <2>1. net' \subseteq net \cup {Packet(sendBuf[i])}
    BY <1>1 DEF Output, Send
  <2>2. sendBuf[i].seq \in Nat
    BY <1>4 DEF Seg
  <2>3. sendBuf[i].seq = Base + i - 1
    BY <1>3, <1>4 DEF SentInOrder
  <2>4. sendBuf[i].seq < Edge
    <3>1. Edge \in Int /\ Base \in Int /\ Base = Edge - Len(sendBuf) /\ Len(sendBuf) \in Nat
      BY EdgeTypes
    <3> QED
      BY <1>4, <2>2, <2>3, <3>1, SMT
  <2>5. Edge \in Int
    BY EdgeTypes
  <2>6. \A m \in net' : /\ m.kind = "data" => m.seq < Edge
                        /\ m.kind = "ack" => m.ack <= nextRecv
    BY <1>3, <2>1, <2>2, <2>4, <2>5, RoomOutput DEF UnderWay
  <2> QED
    BY <1>2, <1>6, <2>6 DEF UnderWay
<1>9. Ahead'
  BY <1>2, <1>3, <1>6 DEF Ahead
<1> QED
  BY <1>2, <1>3, <1>7, <1>8, <1>9 DEF RoomInv

\* The segment at the edge is sent: the edge moves past it.
LEMMA RoomTransmit ==
    ASSUME IndInv, RoomInv, Running, NEW w, Transmit(w)
    PROVE  RoomInv'
<1>1. /\ sendQueue # <<>>
      /\ sendQueue' = Tail(sendQueue)
      /\ sendBuf' = Append(sendBuf, [Head(sendQueue) EXCEPT !.tx = 1])
      /\ Output(Packet(Head(sendQueue)), Head(sendQueue).seq)
      /\ UNCHANGED <<nextSend, recvBuf, nextRecv, stuck>>
  BY DEF Transmit, recvVars
<1>2. sendQueue \in Seq(GoodSegs) /\ sendBuf \in Seq(GoodSegs) /\ SentInOrder /\ UnderWay /\ Ahead /\ ~stuck
  BY SendTypes DEF IndInv, RoomInv
<1> PICK seg : seg = [Head(sendQueue) EXCEPT !.tx = 1]
  OBVIOUS
<1>3. /\ Head(sendQueue) \in Seg /\ Head(sendQueue) = sendQueue[1] /\ 1 \in 1..Len(sendQueue)
      /\ Len(sendQueue') = Len(sendQueue) - 1
      /\ \A i \in 1..(Len(sendQueue) - 1) : sendQueue'[i] = sendQueue[i + 1]
  <2>1. Head(sendQueue) \in GoodSegs /\ Len(Tail(sendQueue)) = Len(sendQueue) - 1
        /\ \A i \in 1..(Len(sendQueue) - 1) : Tail(sendQueue)[i] = sendQueue[i + 1]
    BY <1>1, <1>2, HeadTailProperties, SMT
  <2>2. Head(sendQueue) = sendQueue[1] /\ 1 \in 1..Len(sendQueue)
    BY <1>1, <1>2, SMT
  <2> QED
    BY <1>1, <2>1, <2>2 DEF GoodSegs
<1>4. seg.seq = Head(sendQueue).seq /\ seg.seq \in Nat
  BY <1>3, SMT DEF Seg
<1>5. /\ nextSend \in Nat /\ Len(sendQueue) \in Nat /\ Len(sendBuf) \in Nat
      /\ Edge \in Int /\ Base \in Int /\ Base = Edge - Len(sendBuf) /\ Edge = nextSend - Len(sendQueue)
  BY EdgeTypes
<1>6. seg.seq = Edge
  <2>1. sendQueue[1].seq = Edge + 1 - 1
    BY <1>2, <1>3 DEF SentInOrder
  <2>2. Edge + 1 - 1 = Edge
    BY <1>5, SMT
  <2> QED
    BY <1>3, <1>4, <2>1, <2>2
<1>7. /\ Len(sendBuf') = Len(sendBuf) + 1
      /\ \A i \in 1..Len(sendBuf) : sendBuf'[i] = sendBuf[i]
      /\ sendBuf'[Len(sendBuf) + 1] = seg
  BY <1>1, <1>2, SMT
<1>8. Edge' = Edge + 1 /\ Base' = Base
  <2>1. Edge' = nextSend - (Len(sendQueue) - 1)
    BY <1>1, <1>3 DEF Edge
  <2>2. Base' = Edge' - (Len(sendBuf) + 1)
    BY <1>7 DEF Base
  <2> QED
    BY <1>5, <2>1, <2>2, SMT
<1>9. SentInOrder'
  <2>1. ASSUME NEW i \in 1..Len(sendBuf') PROVE sendBuf'[i].seq = Base + i - 1
    <3>1. CASE i = Len(sendBuf) + 1
      <4>1. sendBuf'[i].seq = Edge
        BY <1>6, <1>7, <3>1
      <4> QED
        BY <1>5, <3>1, <4>1, SMT
    <3>2. CASE i # Len(sendBuf) + 1
      <4>1. i \in 1..Len(sendBuf)
        BY <1>5, <1>7, <3>2, SMT
      <4> QED
        BY <1>2, <1>7, <4>1 DEF SentInOrder
    <3> QED
      BY <3>1, <3>2
  <2>2. ASSUME NEW i \in 1..Len(sendQueue') PROVE sendQueue'[i].seq = Edge' + i - 1
    <3>1. i \in 1..(Len(sendQueue) - 1)
      BY <1>3
    <3>2. i + 1 \in 1..Len(sendQueue)
      BY <1>5, <3>1, SMT
    <3>3. sendQueue'[i] = sendQueue[i + 1]
      BY <1>3, <3>1
    <3>4. sendQueue[i + 1].seq = Edge + (i + 1) - 1
      BY <1>2, <3>2 DEF SentInOrder
    <3>5. Edge + (i + 1) - 1 = Edge' + i - 1
      BY <1>5, <1>8, <3>1, SMT
    <3> QED
      BY <3>3, <3>4, <3>5
  <2> QED
    BY <1>1, <1>2, <1>8, <2>1, <2>2 DEF SentInOrder
<1>10. UnderWay'
  <2> DEFINE e == Edge + 1
  <2>1. net' \subseteq net \cup {Packet(Head(sendQueue))}
    BY <1>1 DEF Output, Send
  <2>2. e \in Int /\ Head(sendQueue).seq \in Nat /\ Head(sendQueue).seq < e
    BY <1>4, <1>5, <1>6, SMT
  <2>3. ASSUME NEW m \in net PROVE /\ m.kind = "data" => m.seq < e
                                   /\ m.kind = "ack" => m.ack <= nextRecv
    <3>1. m \in Message
      BY DEF IndInv, NetInv
    <3>2. CASE m.kind = "data"
      <4>1. m.seq \in Nat /\ m.seq < Edge
        BY <1>2, <3>1, <3>2, MessageTypes DEF UnderWay
      <4>2. m.seq < e
        BY <1>5, <4>1, SMT
      <4> QED
        BY <1>2, <4>2 DEF UnderWay
    <3> QED
      BY <1>2, <3>2 DEF UnderWay
  <2> HIDE DEF e
  <2>4. \A m \in net' : /\ m.kind = "data" => m.seq < e
                        /\ m.kind = "ack" => m.ack <= nextRecv
    BY <2>1, <2>2, <2>3, RoomOutput
  <2> QED
    BY <1>1, <1>8, <2>4 DEF UnderWay, e
<1>11. Ahead'
  <2> SUFFICES ASSUME NEW s \in recvBuf PROVE nextRecv < s.seq /\ s.seq < Edge + 1
    BY <1>1, <1>8 DEF Ahead
  <2>1. s.seq \in Nat
    BY RecvTypes DEF IndInv
  <2>2. nextRecv < s.seq /\ s.seq < Edge
    BY <1>2 DEF Ahead
  <2> QED
    BY <1>5, <2>1, <2>2, SMT
<1> QED
  BY <1>1, <1>2, <1>9, <1>10, <1>11 DEF RoomInv

\* An acknowledgement takes the segments before it out of sendBuf, and it is not ahead
\* of the receiver.
LEMMA RoomInputAck ==
    ASSUME IndInv, RoomInv, Running, NEW m, ReceiveBack(m), InputAck(m)
    PROVE  RoomInv'
<1>1. /\ m \in net /\ m.kind = "ack" /\ net' \subseteq net
      /\ UNCHANGED <<sendQueue, nextSend, recvBuf, nextRecv, stuck>>
  BY DEF ReceiveBack, FromPeer, Arrive, AnswerFails, InputAck, recvVars
<1>2. PICK n \in 0..Len(sendBuf) :
        /\ \A i \in 1..n : sendBuf[i].seq < m.ack
        /\ sendBuf' = SubSeq(sendBuf, n + 1, Len(sendBuf))
  BY DEF InputAck
<1>3. sendBuf \in Seq(GoodSegs) /\ SentInOrder /\ UnderWay /\ Ahead /\ ~stuck
  BY SendTypes DEF IndInv, RoomInv
<1>4. /\ Len(sendBuf) \in Nat /\ Edge \in Int /\ Base \in Int /\ Base = Edge - Len(sendBuf)
      /\ nextRecv \in Nat /\ n \in Nat /\ n <= Len(sendBuf)
  BY EdgeTypes, SMT
<1>5. m.ack \in Nat /\ m.ack <= nextRecv
  BY <1>1, <1>3, MessageTypes DEF UnderWay, IndInv, NetInv
<1>6. /\ Len(sendBuf') = Len(sendBuf) - n
      /\ \A i \in 1..(Len(sendBuf) - n) : sendBuf'[i] = sendBuf[n + i]
  BY <1>2, <1>3, <1>4, SMT
<1>7. Edge' = Edge /\ Base' = Base + n
  <2>1. Edge' = Edge
    BY <1>1 DEF Edge
  <2>2. Base' = Edge - (Len(sendBuf) - n)
    BY <1>6, <2>1 DEF Base
  <2> QED
    BY <1>4, <2>1, <2>2, SMT
<1>8. Base + n <= nextRecv
  <2>1. CASE n = 0
    <3>1. Base <= nextRecv
      BY <1>3 DEF SentInOrder
    <3> QED
      BY <1>4, <2>1, <3>1, SMT
  <2>2. CASE n # 0
    <3>1. n \in 1..n /\ n \in 1..Len(sendBuf)
      BY <1>4, <2>2, SMT
    <3>2. sendBuf[n].seq < m.ack /\ sendBuf[n].seq = Base + n - 1
      BY <1>2, <1>3, <3>1 DEF SentInOrder
    <3>3. Base + n - 1 < m.ack
      BY <3>2
    <3> QED
      BY <1>4, <1>5, <3>3, SMT
  <2> QED
    BY <2>1, <2>2
<1>9. SentInOrder'
  <2>1. ASSUME NEW i \in 1..Len(sendBuf') PROVE sendBuf'[i].seq = Base' + i - 1
    <3>1. i \in 1..(Len(sendBuf) - n)
      BY <1>6
    <3>2. n + i \in 1..Len(sendBuf)
      BY <1>4, <3>1, SMT
    <3>3. sendBuf[n + i].seq = Base + (n + i) - 1
      BY <1>3, <3>2 DEF SentInOrder
    <3>4. Base + (n + i) - 1 = Base' + i - 1
      BY <1>4, <1>7, <3>1, SMT
    <3> QED
      BY <1>6, <3>1, <3>3, <3>4
  <2>2. Base' <= nextRecv'
    BY <1>1, <1>7, <1>8
  <2> QED
    BY <1>1, <1>3, <1>7, <2>1, <2>2 DEF SentInOrder
<1>10. UnderWay' /\ Ahead'
  BY <1>1, <1>3, <1>7 DEF UnderWay, Ahead
<1> QED
  BY <1>1, <1>3, <1>9, <1>10 DEF RoomInv

\* Data arrives.  As recvQueue has room after the step too, the move to recvQueue has
\* ended because the next segment is not there.
LEMMA RoomInputData ==
    ASSUME IndInv, IndInv', RoomInv, Running, Room, Room', NEW m, Receive(m), InputData(m)
    PROVE  RoomInv'
<1>1. m \in net /\ m.kind = "data" /\ net' \subseteq net
  BY DEF Receive, ToPeer, FromPeer, InputData, Arrive, PeerInputClose
<1>2. SentInOrder /\ UnderWay /\ Ahead /\ ~stuck
  BY DEF RoomInv
<1>3. Cardinality(recvBuf) < Cap - 1
  BY <1>2, BufHasRoom
<1>4. Deliver(m) /\ stuck' = stuck
  BY <1>3 DEF InputData
<1>5. UNCHANGED <<sendQueue, sendBuf, nextSend>>
  BY DEF Receive, sendVars, treeVars
<1> DEFINE new == [seq |-> m.seq, val |-> m.val]
           buf == {seg \in recvBuf : seg.seq # m.seq} \cup {new}
<1>6. PICK n \in 0..Cap :
         /\ InOrder(buf, n) /\ ~InOrder(buf, n + 1)
         /\ recvQueue' = recvQueue \o [i \in 1..n |-> At(buf, nextRecv + i - 1).val]
         /\ nextRecv' = nextRecv + n
         /\ recvBuf' = IF Len(recvQueue) < QueueCap - 1
                       THEN {seg \in buf : seg.seq >= nextRecv + n} ELSE buf
  BY <1>4 DEF Deliver
<1>7. new.seq = m.seq /\ m.seq \in Nat /\ m.seq < Edge
  <2>1. m \in Message
    BY <1>1 DEF IndInv, NetInv
  <2> QED
    BY <1>1, <1>2, <2>1, MessageTypes DEF UnderWay
<1>8. \A seg \in buf : seg.seq \in Nat /\ seg.seq < Edge
  BY <1>2, <1>7, RecvTypes DEF Ahead, IndInv
<1> HIDE DEF buf
<1>9. n \in Nat /\ nextRecv \in Nat /\ Edge \in Int /\ Base \in Int /\ QueueCap \in Nat
      /\ Len(recvQueue) \in Nat
  <2>1. n \in Nat
    BY CapAssumption, SMT
  <2> QED
    BY <2>1, EdgeTypes, CapAssumption, RecvTypes DEF IndInv
<1>10. Len(recvQueue) + n < QueueCap - 1
  <2>1. Len(recvQueue') < QueueCap - 1
    BY DEF Room
  <2>2. /\ nextRecv = Len(read) + Len(recvQueue) /\ nextRecv' = Len(read') + Len(recvQueue')
        /\ Len(read) \in Nat /\ Len(recvQueue') \in Nat
    <3>1. nextRecv = Len(read) + Len(recvQueue) /\ Len(read) \in Nat
      BY RecvTypes DEF IndInv
    <3>2. nextRecv' = Len(read') + Len(recvQueue') /\ recvQueue' \in Seq(Payload)
      BY DEF IndInv, RecvInv, RecvTypeOK
    <3> QED
      BY <3>1, <3>2, LenProperties
  <2>3. read' = read
    BY DEF Receive
  <2>4. nextRecv + n = Len(read) + Len(recvQueue')
    BY <1>6, <2>2, <2>3
  <2>5. Len(recvQueue') = Len(recvQueue) + n
    BY <1>9, <2>2, <2>4, SMT
  <2> QED
    BY <2>1, <2>5
<1>11. \A seg \in buf : seg.seq # nextRecv + n
  <2>1. Len(recvQueue) + (n + 1) < QueueCap
    BY <1>9, <1>10, SMT
  <2>2. PICK i \in 0..((n + 1) - 1) : \A seg \in buf : seg.seq # nextRecv + i
    BY <1>6, <2>1 DEF InOrder
  <2>3. i = n
    <3>1. i \notin 0..(n - 1)
      BY <1>6, <2>2 DEF InOrder
    <3> QED
      BY <1>9, <3>1, SMT
  <2> QED
    BY <2>2, <2>3
<1>12. Edge' = Edge /\ Base' = Base
  BY <1>5 DEF Edge, Base
<1>13. Ahead'
  <2> SUFFICES ASSUME NEW seg \in recvBuf' PROVE nextRecv + n < seg.seq /\ seg.seq < Edge
    BY <1>6, <1>12 DEF Ahead
  <2>1. seg \in buf /\ seg.seq >= nextRecv + n
    BY <1>6 DEF Room
  <2> QED
    BY <1>8, <1>9, <1>11, <2>1, SMT
<1>14. nextRecv <= nextRecv'
  BY <1>6, <1>9, SMT
<1>15. SentInOrder'
  <2>1. Base <= nextRecv /\ nextRecv' \in Nat
    BY <1>2, EdgeTypes DEF SentInOrder, IndInv, RecvInv, RecvTypeOK
  <2>2. Base <= nextRecv'
    BY <1>9, <1>14, <2>1, SMT
  <2> QED
    BY <1>2, <1>5, <1>12, <2>2 DEF SentInOrder
<1>16. UnderWay'
  <2> SUFFICES ASSUME NEW x \in net PROVE /\ x.kind = "data" => x.seq < Edge
                                          /\ x.kind = "ack" => x.ack <= nextRecv'
    BY <1>1, <1>12 DEF UnderWay
  <2>1. x.kind = "data" => x.seq < Edge
    BY <1>2 DEF UnderWay
  <2>2. CASE x.kind = "ack"
    <3>1. x.ack \in Nat /\ x.ack <= nextRecv
      BY <1>2, <2>2, MessageTypes DEF UnderWay, IndInv, NetInv
    <3>2. x.ack <= nextRecv'
      BY <1>6, <1>9, <3>1, SMT
    <3> QED
      BY <2>1, <3>2
  <2> QED
    BY <2>1, <2>2
<1> QED
  BY <1>2, <1>4, <1>13, <1>15, <1>16 DEF RoomInv

\* The other steps leave the trees alone; what they put on the way is an acknowledgement
\* of nextRecv or a request to close.
LEMMA RoomQuiet ==
    ASSUME IndInv, RoomInv, Running,
           UNCHANGED <<sendQueue, sendBuf, nextSend, recvBuf, nextRecv, stuck>>,
           \A m \in net' : m \in net \/ m.kind = "peerClose" \/ (m.kind = "ack" /\ m.ack = nextRecv)
    PROVE  RoomInv'
<1>1. SentInOrder /\ UnderWay /\ Ahead /\ ~stuck
  BY DEF RoomInv
<1>2. Edge' = Edge /\ Base' = Base
  BY DEF Edge, Base
<1>3. SentInOrder' /\ Ahead'
  BY <1>1, <1>2 DEF SentInOrder, Ahead
<1>4. UnderWay'
  <2> SUFFICES ASSUME NEW m \in net' PROVE /\ m.kind = "data" => m.seq < Edge
                                           /\ m.kind = "ack" => m.ack <= nextRecv
    BY <1>2 DEF UnderWay
  <2>1. CASE m \in net
    BY <1>1, <2>1 DEF UnderWay
  <2>2. CASE m.kind = "peerClose"
    BY <2>2
  <2>3. CASE m.kind = "ack" /\ m.ack = nextRecv
    <3>1. nextRecv <= nextRecv
      BY EdgeTypes, SMT
    <3> QED
      BY <2>3, <3>1
  <2> QED
    BY <2>1, <2>2, <2>3
<1> QED
  BY <1>1, <1>3, <1>4 DEF RoomInv

LEMMA RoomStep ==
    ASSUME IndInv, IndInv', RoomInv, Room, Room', [Next]_vars
    PROVE  RoomInv'
<1> SUFFICES ASSUME Running' PROVE RoomInv'
  BY DEF RoomInv
<1>0. Running /\ state' = "open" /\ input' = "run"
  BY StillRunning DEF Running
<1> USE DEF recvVars, netVars, sendVars, treeVars
<1>1. ~BeginClose
  BY <1>0 DEF BeginClose, Shut
<1>2. CASE WriteChunk
  BY <1>0, <1>2, RoomWriteChunk
<1>3. CASE Close \/ CloseStep
  BY <1>0, <1>1, <1>3 DEF Close, CloseStep, InputCloses, CloseSent, CloseTimeout, Running
<1>4. CASE Read
  <2>1. UNCHANGED <<sendQueue, sendBuf, nextSend, recvBuf, nextRecv, stuck, net>>
    BY <1>4 DEF Read
  <2> QED
    BY <1>0, <2>1, RoomQuiet
<1>5. CASE PeerCloses \/ PeerClosed
  <2>1. UNCHANGED <<sendQueue, sendBuf, nextSend, recvBuf, nextRecv, stuck>>
        /\ net' \subseteq net \cup {[kind |-> "peerClose"]}
    BY <1>5 DEF PeerCloses, PeerClosed, FromPeer
  <2>2. \A m \in net' : m \in net \/ m.kind = "peerClose"
    BY <2>1, SMT
  <2> QED
    BY <1>0, <2>1, <2>2, RoomQuiet
<1>6. CASE OutputStep
  <2>1. CASE GiveUp \/ OutputFails \/ OwnAck
    BY <1>0, <2>1 DEF GiveUp, OutputFails, StopOutput, OwnAck, Shut, Running
  <2> QED
    BY <1>0, <1>6, <2>1, RoomRetransmit, RoomTransmit DEF OutputStep
<1>7. CASE PeerOutput
  <2>1. UNCHANGED <<sendQueue, sendBuf, nextSend, recvBuf, nextRecv, stuck>>
    BY <1>7 DEF PeerOutput, SendAck, SendData
  <2>2. PICK open : Acknowledge(open)
    BY <1>7 DEF PeerOutput, SendAck, SendData
  <2>3. net' = net \cup {[kind |-> "ack", ack |-> nextRecv, open |-> open]}
    BY <2>2 DEF Acknowledge
  <2>4. \A m \in net' : m \in net \/ (m.kind = "ack" /\ m.ack = nextRecv)
    BY <2>3, SMT
  <2> QED
    BY <1>0, <2>1, <2>4, RoomQuiet
<1>8. CASE NetStep
  <2> PICK m \in net : Receive(m) \/ ReceiveBack(m) \/ Lose(m)
    BY <1>8 DEF NetStep
  <2>1. CASE ReceiveBack(m)
    <3>1. ~InputClose(m) /\ ~AnswerFails(m)
      BY <1>0 DEF InputClose, AnswerFails, Running
    <3> QED
      BY <1>0, <2>1, <3>1, RoomInputAck DEF ReceiveBack
  <2>2. CASE Receive(m) /\ InputData(m)
    BY <1>0, <2>2, RoomInputData
  <2>3. CASE Receive(m) /\ ~InputData(m)
    <3>1. UNCHANGED <<sendQueue, sendBuf, nextSend, recvBuf, nextRecv, stuck>> /\ net' \subseteq net
      BY <2>3 DEF Receive, PeerInputClose, Arrive, FromPeer
    <3> QED
      BY <1>0, <3>1, RoomQuiet
  <2>4. CASE Lose(m)
    <3>1. UNCHANGED <<sendQueue, sendBuf, nextSend, recvBuf, nextRecv, stuck>> /\ net' \subseteq net
      BY <2>4 DEF Lose
    <3> QED
      BY <1>0, <3>1, RoomQuiet
  <2> QED
    BY <2>1, <2>2, <2>3, <2>4
<1>9. CASE UNCHANGED vars
  <2>1. UNCHANGED <<sendQueue, sendBuf, nextSend, recvBuf, nextRecv, stuck, net>>
    BY <1>9 DEF vars
  <2> QED
    BY <1>0, <2>1, RoomQuiet
<1> QED
  BY <1>2, <1>3, <1>4, <1>5, <1>6, <1>7, <1>8, <1>9 DEF Next, Program

\* As long as the reader keeps recvQueue from filling, inputData never waits for room
\* in recvBuf while nobody closes, for every capacity, window and bound: what can be in
\* recvBuf is in sendBuf, together with the segment that is missing.
THEOREM BufferNeverFills == Spec /\ []Room => []NeverStuck
<1>1. Init => RoomInv
  <2> SUFFICES ASSUME Init PROVE RoomInv
    OBVIOUS
  <2>1. sendBuf = <<>> /\ sendQueue = <<>> /\ nextSend = 0 /\ nextRecv = 0 /\ net = {} /\ recvBuf = {} /\ ~stuck
    BY DEF Init
  <2>2. Len(<<>>) = 0 /\ 1..0 = {} /\ 0 - 0 - 0 <= 0
    BY SMT
  <2>3. SentInOrder /\ UnderWay /\ Ahead
    BY <2>1, <2>2 DEF SentInOrder, UnderWay, Ahead, Base, Edge
  <2> QED
    BY <2>1, <2>3 DEF RoomInv
<1>2. IndInv /\ IndInv' /\ RoomInv /\ Room /\ Room' /\ [Next]_vars => RoomInv'
  BY RoomStep
<1>3. RoomInv => NeverStuck
  BY DEF RoomInv, Running, NeverStuck
<1> QED
  BY <1>1, <1>2, <1>3, Invariance, PTL DEF Spec
=============================================================================

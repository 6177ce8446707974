------------------------- MODULE AckExchange_proofs -------------------------
(***************************************************************************)
(* Proofs about the exchange of acknowledgements, for every number of      *)
(* packets, every limit on the ranges of the history and every threshold:  *)
(* the types, the promise that no received packet is forgotten by the      *)
(* machinery that acknowledges it, and the tolerance of whatever the       *)
(* network does to the packets of an honest peer.                          *)
(***************************************************************************)
EXTENDS AckExchange, FiniteSetTheorems, TLAPS

\* A packet that is recorded is in the history, and nothing else is new in it.
LEMMA RecordedBounds ==
    ASSUME NEW S, NEW p, NEW n
    PROVE  p \in Recorded(S, p, n) /\ Recorded(S, p, n) \subseteq S \cup {p}
  BY DEF Recorded

\* A packet has its three parts.
LEMMA OutgoingFields ==
    ASSUME NEW p \in Outgoing
    PROVE  p.covers \in SUBSET Packno /\ p.ack2ed \in Packno /\ p.data \in BOOLEAN
  BY DEF Outgoing

LEMMA PacketType ==
    ASSUME NEW c \in SUBSET Packno, NEW a \in Packno, NEW d \in BOOLEAN
    PROVE  /\ Packet(c, a, d) \in Outgoing
           /\ Packet(c, a, d).covers = c /\ Packet(c, a, d).ack2ed = a
           /\ Packet(c, a, d).data = d
  BY DEF Packet, Outgoing

\* A packet without an ACK frame.
LEMMA PlainPackets ==
    /\ 0 \in Packno
    /\ NoPacket \in Outgoing /\ NoPacket.covers = {}
    /\ DataPacket \in Outgoing /\ DataPacket.covers = {}
    /\ \A p \in Outgoing : Chopped(p) \in Outgoing /\ Chopped(p).covers = {}
<1>1. 0 \in Packno
  BY AckAssumption DEF Packno
<1>2. \A d \in BOOLEAN : Packet({}, 0, d) \in Outgoing /\ Packet({}, 0, d).covers = {}
  BY <1>1, PacketType
<1> QED
  BY <1>1, <1>2, OutgoingFields DEF NoPacket, DataPacket, Chopped

\* The types of what process_ack() changes; it only trims the history.
LEMMA ProcessAckType ==
    ASSUME TypeOK, NEW acks, NEW R \in SUBSET Packno, ProcessAck(acks, R)
    PROVE  /\ recvd' \subseteq R /\ cutoff' \in Nat
           /\ lost_ack' \in BOOLEAN /\ largest_ack2ed' \in Packno
           /\ unacked' \subseteq unacked
           /\ loss_records' \subseteq loss_records \cup unacked
<1>1. \A n \in WithAck(acks) : Ack2ed(n) \in Packno
  <2>0. \A n \in DOMAIN out : out[n] \in Outgoing
    BY DEF TypeOK
  <2>1. \A n \in DOMAIN out : out[n].ack2ed \in Packno
    BY <2>0, OutgoingFields
  <2>2. WithAck(acks) \subseteq DOMAIN out
    BY DEF TypeOK, WithAck
  <2> QED
    BY <2>1, <2>2, AckAssumption DEF Ack2ed, Packno
<1>2. largest_ack2ed' \in Packno
  BY <1>1 DEF ProcessAck, TypeOK
<1>3. recvd' \subseteq R /\ cutoff' \in Nat
  BY <1>2 DEF ProcessAck, CutoffFor, TypeOK, Packno
<1>4. unacked' \subseteq unacked /\ lost_ack' \in BOOLEAN
  BY DEF ProcessAck, Lose, TypeOK
<1>5. loss_records' \subseteq loss_records \cup unacked
  BY DEF ProcessAck, MayBeLost
<1> QED
  BY <1>2, <1>3, <1>4, <1>5

\* The types of what a packet's ACK frame changes.
LEMMA AckFrameType ==
    ASSUME TypeOK, NEW packet \in wire, NEW R \in SUBSET Packno,
           ProcessAckFrame(packet, R)
    PROVE  /\ recvd' \subseteq R /\ cutoff' \in Nat
           /\ lost_ack' \in BOOLEAN /\ largest_ack2ed' \in Packno
           /\ unacked' \subseteq unacked
           /\ loss_records' \subseteq loss_records \cup unacked
           /\ max_ack_packno' \in Packno \cup {NoPackno}
           /\ saved' \subseteq 1 .. MaxOut
<1>0. packet.acks \subseteq 1 .. MaxOut /\ packet.packno \in Packno
  BY DEF TypeOK, Incoming
<1>1. CASE packet.acks = {} \/ packet.packno <= max_ack_packno
  BY <1>1 DEF ProcessAckFrame, TypeOK, acki, ctl
<1>2. CASE ~(packet.acks = {} \/ packet.packno <= max_ack_packno)
  <2>1. max_ack_packno' = packet.packno
    BY <1>2 DEF ProcessAckFrame
  <2>2. CASE saved' = saved \cup packet.acks /\ recvd' = R /\ UNCHANGED <<cutoff, ctl>>
    BY <2>1, <2>2, <1>0 DEF TypeOK, ctl
  <2>3. CASE ProcessAck(saved, R) /\ saved' = packet.acks
    BY <2>1, <2>3, <1>0, ProcessAckType
  <2> QED
    BY <1>2, <2>2, <2>3 DEF ProcessAckFrame
<1> QED
  BY <1>1, <1>2

\* The types of what an accepted packet changes.
LEMMA AcceptType ==
    ASSUME TypeOK, NEW packet \in wire, Accept(packet)
    PROVE  TypeOK'
<1>0. packet.packno \in Packno /\ packet.ackable \in BOOLEAN
  BY DEF TypeOK, Incoming
<1>1. Recorded(recvd, packet.packno, MaxRanges) \in SUBSET Packno
  BY <1>0, RecordedBounds DEF TypeOK
<1>2. /\ recvd' \subseteq Packno /\ cutoff' \in Nat
      /\ lost_ack' \in BOOLEAN /\ largest_ack2ed' \in Packno
      /\ unacked' \subseteq DOMAIN out /\ loss_records' \subseteq DOMAIN out
      /\ max_ack_packno' \in Packno \cup {NoPackno}
      /\ saved' \subseteq 1 .. MaxOut
  BY <1>1, AckFrameType DEF Accept, TypeOK
<1>3. slack_akbl' \in Nat /\ slack_all' \in Nat /\ max_akbl_in' \in Packno
  BY <1>0 DEF Accept, TypeOK
<1>4. queued' \in BOOLEAN /\ alarm' \in BOOLEAN
  <2>1. \E ce, will_write \in BOOLEAN : \E g, s :
           TryQueueingAckApp(g, s, ce, will_write)
    BY DEF Accept
  <2> QED
    BY <2>1 DEF TryQueueingAckApp, TypeOK
<1>5. processed' \subseteq Packno /\ again' \subseteq Packno
  BY <1>0 DEF Accept, TypeOK
<1> QED
  BY <1>2, <1>3, <1>4, <1>5 DEF Accept, TypeOK, queue, peer

\* Packets delayed from an earlier tick are packets.
LEMMA SqueezedType ==
    ASSUME NEW s \in Seq(Outgoing)
    PROVE  SqueezeSched(s) \in Seq(Outgoing)
<1> DEFINE kept == {i \in DOMAIN s : s[i].data}
<1>1. Cardinality(kept) \in Nat
  <2>1. IsFiniteSet(1 .. Len(s))
    BY FS_Interval
  <2> QED
    BY <2>1, FS_Subset, FS_CardinalityType
<1> HIDE DEF kept
<1>3. [i \in 1 .. Cardinality(kept) |-> DataPacket] \in Seq(Outgoing)
  BY <1>1, PlainPackets
<1> QED
  BY <1>3 DEF SqueezeSched, kept

LEMMA AckPacketType ==
    ASSUME TypeOK, NEW m \in recvd, NEW d \in BOOLEAN
    PROVE  /\ AckPacket(m, d) \in Outgoing
           /\ AckPacket(m, d).covers = recvd /\ AckPacket(m, d).ack2ed = m
  BY PacketType DEF TypeOK, AckPacket

LEMMA ResetType ==
    ASSUME TypeOK, NEW m \in recvd, ResetAckState(m)
    PROVE  /\ lost_ack' \in BOOLEAN /\ largest_acked' \in Packno
           /\ had_miss' \in BOOLEAN /\ slack_akbl' \in Nat /\ slack_all' \in Nat
           /\ queued' \in BOOLEAN /\ alarm' \in BOOLEAN /\ max_akbl_in' \in Packno
<1>1. had_miss' \in BOOLEAN
  <2>1. \A x : (x > 1) \in BOOLEAN
    OBVIOUS
  <2> QED
    BY <2>1, Zenon DEF ResetAckState
<1>2. largest_acked' \in Packno
  BY DEF ResetAckState, TypeOK
<1> QED
  BY <1>1, <1>2 DEF ResetAckState, TypeOK

\* Sequences of packets.
LEMMA Singleton == ASSUME NEW S, NEW x \in S PROVE <<x>> \in Seq(S)
  OBVIOUS

LEMMA Concatenation ==
    ASSUME NEW S, NEW s \in Seq(S), NEW t \in Seq(S)
    PROVE  /\ s \o t \in Seq(S) /\ Len(s \o t) = Len(s) + Len(t)
           /\ \A i \in DOMAIN s : i \in DOMAIN (s \o t) /\ (s \o t)[i] = s[i]
           /\ \A i \in DOMAIN t : Len(s) + i \in DOMAIN (s \o t) /\ (s \o t)[Len(s) + i] = t[i]
  OBVIOUS

LEMMA ScheduleBufferedType ==
    ASSUME TypeOK
    PROVE  ScheduleBuffered \in Seq(Outgoing)
  BY PlainPackets DEF ScheduleBuffered, TypeOK

\* The types of what the second part of a tick changes.
LEMMA TickWriteType ==
    ASSUME TypeOK, NEW will_write \in BOOLEAN, TickWrite(will_write)
    PROVE  TypeOK'
<1> DEFINE delayed == SqueezeSched(scheduled)
           owed    == queued \/ lost_ack
           wanted  == owed \/ (delayed = << >> /\ slack_akbl > 0 /\ will_write)
<1>0. delayed \in Seq(Outgoing)
  BY SqueezedType DEF TypeOK
<1>1. CASE Abort
  BY <1>1 DEF TickWrite, Abort, TypeOK, hist, state, acki, ctl, queue, peer, ghost
<1>2. CASE /\ ~Abort
           /\ delayed # << >>
  <2>1. WriteDelayed(delayed, owed) /\ UNCHANGED <<hist, acki, largest_ack2ed, unacked,
            loss_records, out, closed, peer, ghost>> /\ phase' = "send"
    BY <1>2 DEF TickWrite
  <2>2. CASE owed
    <3>1. PICK m \in recvd : ResetAckState(m) /\ scheduled' = <<AckPacket(m, FALSE)>>
                                \o [i \in DOMAIN delayed |-> Chopped(delayed[i])]
      BY <2>1, <2>2 DEF WriteDelayed
    <3>2. [i \in DOMAIN delayed |-> Chopped(delayed[i])] \in Seq(Outgoing)
      BY <1>0, PlainPackets
    <3>3. <<AckPacket(m, FALSE)>> \in Seq(Outgoing)
      BY AckPacketType, Singleton
    <3>4. scheduled' \in Seq(Outgoing)
      BY <3>1, <3>2, <3>3, Concatenation
    <3> QED
      BY <2>1, <3>1, <3>4, ResetType DEF WriteDelayed, TypeOK, hist, acki, peer, ghost
  <2>3. CASE ~owed
    BY <1>0, <2>1, <2>3 DEF WriteDelayed, TypeOK, hist, state, acki, peer, ghost
  <2> QED
    BY <2>2, <2>3
<1>3. CASE /\ ~Abort
           /\ delayed = << >>
  <2>1. WriteNew(wanted, will_write) /\ UNCHANGED <<hist, acki, largest_ack2ed, unacked,
            loss_records, out, closed, peer, ghost>> /\ phase' = "send"
    BY <1>3 DEF TickWrite
  <2>2. buffered' \in Outgoing
    BY <2>1, PlainPackets DEF WriteNew
  <2>3. CASE wanted
    <3>1. PICK m \in recvd, data \in {FALSE, will_write} :
             /\ ResetAckState(m)
             /\ scheduled' = <<AckPacket(m, data)>> \o ScheduleBuffered
      BY <2>1, <2>3 DEF WriteNew
    <3>2. <<AckPacket(m, data)>> \in Seq(Outgoing)
      BY AckPacketType, Singleton
    <3>3. scheduled' \in Seq(Outgoing)
      BY <3>1, <3>2, ScheduleBufferedType, Concatenation
    <3> QED
      BY <2>1, <2>2, <3>1, <3>3, ResetType DEF TypeOK, hist, acki, peer, ghost
  <2>4. CASE ~wanted
    <3>2. PICK packets \in {<<DataPacket>>, << >>} :
             /\ UNCHANGED <<state, lost_ack, largest_acked>>
             /\ scheduled' = packets \o ScheduleBuffered
      BY <2>1, <2>4 DEF WriteNew
    <3>3. packets \in Seq(Outgoing)
      <4>1. << >> \in Seq(Outgoing)
        OBVIOUS
      <4> QED
        BY <4>1, PlainPackets, Singleton
    <3>4. scheduled' \in Seq(Outgoing)
      BY <3>2, <3>3, ScheduleBufferedType, Concatenation
    <3> QED
      BY <2>1, <2>2, <3>2, <3>4 DEF TypeOK, hist, state, acki, peer, ghost
  <2> QED
    BY <2>3, <2>4
<1> QED
  BY <1>1, <1>2, <1>3

-----------------------------------------------------------------------------
\* For every bound and threshold the variables keep their types: what is
\* acknowledged was sent, and what is remembered is a packet number.
THEOREM TypeCorrect == Spec => []TypeOK
<1>1. Init => TypeOK
  <2>1. /\ 0 \in Packno /\ NoPacket \in Outgoing
        /\ << >> \in Seq(Outgoing) /\ Len(<< >>) <= MaxOut
    BY PlainPackets, AckAssumption
  <2> SUFFICES ASSUME Init PROVE TypeOK
    OBVIOUS
  <2>2. /\ recvd \subseteq Packno /\ saved \subseteq 1 .. MaxOut
        /\ unacked \subseteq DOMAIN out /\ loss_records \subseteq DOMAIN out
        /\ wire \subseteq Incoming /\ got \subseteq DOMAIN out
        /\ processed \subseteq Packno /\ again \subseteq Packno
    BY DEF Init
  <2>3. /\ cutoff \in Nat /\ slack_akbl \in Nat /\ slack_all \in Nat /\ pnext \in Nat
    BY DEF Init
  <2>4. /\ queued \in BOOLEAN /\ alarm \in BOOLEAN /\ had_miss \in BOOLEAN
        /\ lost_ack \in BOOLEAN /\ closed \in BOOLEAN
    BY DEF Init
  <2>5. /\ max_akbl_in \in Packno /\ largest_acked \in Packno /\ largest_ack2ed \in Packno
        /\ max_ack_packno \in Packno \cup {NoPackno}
        /\ buffered \in Outgoing /\ scheduled \in Seq(Outgoing) /\ out \in Seq(Outgoing)
        /\ Len(out) <= MaxOut /\ phase \in {"idle", "write", "send"}
    BY <2>1 DEF Init
  <2> QED
    BY <2>2, <2>3, <2>4, <2>5 DEF TypeOK
<1>2. ASSUME TypeOK, [Next]_vars PROVE TypeOK'
  <2>1. CASE PeerSends
    <3>1. PICK ackable \in BOOLEAN, acks \in {{}, got} :
             wire' = wire \cup {[packno |-> pnext, ackable |-> ackable, acks |-> acks]}
      BY <2>1 DEF PeerSends
    <3>2. pnext \in Packno
      BY <1>2, <2>1, AckAssumption DEF PeerSends, TypeOK, Packno
    <3>3. acks \subseteq 1 .. MaxOut
      BY <1>2, AckAssumption DEF TypeOK
    <3>4. [packno |-> pnext, ackable |-> ackable, acks |-> acks] \in Incoming
      BY <3>2, <3>3 DEF Incoming
    <3> QED
      BY <1>2, <2>1, <3>1, <3>4
      DEF PeerSends, TypeOK, hist, state, acki, ctl, queue, ghost
  <2>2. CASE \E n \in 1 .. MaxOut : PeerReceives(n)
    BY <1>2, <2>2 DEF PeerReceives, TypeOK, hist, state, acki, ctl, queue, ghost
  <2>3. CASE \E packet \in wire : Arrives(packet)
    <3>1. PICK packet \in wire : Arrives(packet)
      BY <2>3
    <3>2. CASE Abort /\ UNCHANGED phase
      BY <1>2, <3>2 DEF Abort, TypeOK, hist, state, acki, ctl, queue, peer, ghost
    <3> QED
      BY <1>2, <3>1, <3>2, AcceptType DEF Arrives
  <2>4. CASE GetBufferedPacket
    <3>1. PICK m \in recvd : buffered' = AckPacket(m, TRUE) /\ ResetAckState(m)
      BY <2>4 DEF GetBufferedPacket
    <3>2. buffered' \in Outgoing
      BY <1>2, <3>1, AckPacketType
    <3> QED
      BY <1>2, <2>4, <3>1, <3>2, ResetType
      DEF GetBufferedPacket, TypeOK, hist, acki, peer, ghost
  <2>5. CASE RetxAlarmExpires
    <3>1. unacked' \subseteq unacked /\ lost_ack' \in BOOLEAN
          /\ loss_records' \subseteq loss_records \cup unacked
      BY <1>2, <2>5 DEF RetxAlarmExpires, Lose, TypeOK
    <3> QED
      BY <1>2, <2>5, <3>1
      DEF RetxAlarmExpires, TypeOK, hist, state, acki, queue, peer, ghost
  <2>6. CASE \E due \in BOOLEAN : TickIn(due)
    <3>1. PICK due \in BOOLEAN : TickIn(due)
      BY <2>6
    <3>2. /\ recvd' \subseteq Packno /\ cutoff' \in Nat
          /\ lost_ack' \in BOOLEAN /\ largest_ack2ed' \in Packno
          /\ unacked' \subseteq DOMAIN out /\ loss_records' \subseteq DOMAIN out
          /\ saved' \subseteq 1 .. MaxOut
      <4>1. CASE saved # {}
        BY <1>2, <3>1, <4>1, ProcessAckType DEF TickIn, TypeOK
      <4>2. CASE saved = {}
        BY <1>2, <3>1, <4>2 DEF TickIn, TypeOK, hist, ctl
      <4> QED
        BY <4>1, <4>2
    <3>3. alarm' \in BOOLEAN /\ queued' \in BOOLEAN
      BY <1>2, <3>1 DEF TickIn, TypeOK
    <3> QED
      BY <1>2, <3>1, <3>2, <3>3 DEF TickIn, TypeOK, queue, peer, ghost
  <2>7. CASE \E will_write \in BOOLEAN : TickWrite(will_write)
    BY <1>2, <2>7, TickWriteType
  <2>8. CASE TickBlocked
    BY <1>2, <2>8 DEF TickBlocked, TypeOK, hist, state, acki, ctl, queue, peer, ghost
  <2>9. CASE \E k \in 0 .. MaxOut : SendPackets(k)
    <3>1. PICK k \in 0 .. MaxOut : SendPackets(k)
      BY <2>9
    <3>2. k \in 0 .. Len(scheduled) /\ Len(out) + k <= MaxOut
      BY <3>1 DEF SendPackets
    <3>3. SubSeq(scheduled, 1, k) \in Seq(Outgoing) /\ Len(SubSeq(scheduled, 1, k)) = k
      BY <1>2, <3>2 DEF TypeOK
    <3>4. scheduled' \in Seq(Outgoing)
      BY <1>2, <3>1, <3>2 DEF TypeOK, SendPackets
    <3>5. out' \in Seq(Outgoing) /\ Len(out') = Len(out) + k
      BY <1>2, <3>1, <3>3 DEF TypeOK, SendPackets
    <3>6. DOMAIN out \subseteq DOMAIN out' /\ NumbersFor(k) \subseteq DOMAIN out'
      BY <1>2, <3>5, <3>2 DEF TypeOK, NumbersFor
    <3> QED
      BY <1>2, <3>1, <3>2, <3>4, <3>5, <3>6
      DEF SendPackets, TypeOK, hist, state, acki, peer, ghost
  <2>10. CASE UNCHANGED vars
    BY <1>2, <2>10 DEF TypeOK, vars, hist, state, acki, ctl, queue, peer, ghost
  <2> QED
    BY <1>2, <2>1, <2>2, <2>3, <2>4, <2>5, <2>6, <2>7, <2>8, <2>9, <2>10 DEF Next
<1> QED
  BY <1>1, <1>2, PTL DEF Spec

-----------------------------------------------------------------------------
\* What an accepted packet does to the history and to the peer's packets.
LEMMA AcceptHistory ==
    ASSUME TypeOK, NEW packet \in wire, Accept(packet)
    PROVE  /\ recvd' \subseteq recvd \cup {packet.packno}
           /\ processed' = processed \cup {packet.packno}
           /\ UNCHANGED <<wire, pnext, got, out, phase, buffered, scheduled,
                          largest_acked, closed>>
<1>1. packet.packno \in Packno
  BY DEF TypeOK, Incoming
<1>2. Recorded(recvd, packet.packno, MaxRanges) \in SUBSET Packno
  BY <1>1, RecordedBounds DEF TypeOK
<1>3. recvd' \subseteq Recorded(recvd, packet.packno, MaxRanges)
  BY <1>2, AckFrameType DEF Accept
<1> QED
  BY <1>3, RecordedBounds DEF Accept, queue, peer

\* What the first part of a tick does to the history.
LEMMA TickInHistory ==
    ASSUME TypeOK, NEW due \in BOOLEAN, TickIn(due)
    PROVE  recvd' \subseteq recvd /\ (lost_ack => lost_ack')
<1>1. CASE saved # {}
  <2>1. ProcessAck(saved, recvd)
    BY <1>1 DEF TickIn
  <2>2. recvd' \subseteq recvd
    BY <2>1, ProcessAckType DEF TypeOK
  <2> QED
    BY <2>1, <2>2 DEF ProcessAck, Lose
<1>2. CASE saved = {}
  BY <1>2 DEF TickIn, hist, ctl
<1> QED
  BY <1>1, <1>2

\* The peer's packets keep their numbers, and only they are processed.
LEMMA PeerStep ==
    ASSUME TypeOK, PeerInv, [Next]_vars
    PROVE  PeerInv'
<1>1. CASE PeerSends
  <2>1. PICK ackable \in BOOLEAN, acks \in {{}, got} :
           wire' = wire \cup {[packno |-> pnext, ackable |-> ackable, acks |-> acks]}
    BY <1>1 DEF PeerSends
  <2>2. \A w \in wire : w.packno \in Nat
    BY DEF TypeOK, Incoming, Packno
  <2>3. pnext' = pnext + 1 /\ pnext \in Nat /\ UNCHANGED <<recvd, processed>>
    BY <1>1 DEF PeerSends, TypeOK, hist, ghost
  <2>4. \A w \in wire' : w.packno < pnext'
    BY <2>1, <2>2, <2>3 DEF PeerInv
  <2>5. \A v, w \in wire' : v.packno = w.packno => v = w
    BY <2>1, <2>2, <2>3 DEF PeerInv
  <2>6. processed' \subseteq {w.packno : w \in wire'}
    BY <2>1, <2>3 DEF PeerInv
  <2> QED
    BY <2>3, <2>4, <2>5, <2>6 DEF PeerInv
<1>2. CASE \E packet \in wire : Arrives(packet)
  <2>1. PICK packet \in wire : Arrives(packet)
    BY <1>2
  <2>2. CASE Abort
    BY <2>2 DEF Abort, PeerInv, hist, peer, ghost
  <2>3. CASE Accept(packet)
    BY <2>3, AcceptHistory DEF PeerInv
  <2> QED
    BY <2>1, <2>2, <2>3 DEF Arrives
<1>3. CASE \E due \in BOOLEAN : TickIn(due)
  BY <1>3, TickInHistory DEF TickIn, PeerInv, peer, ghost
<1>4. CASE UNCHANGED <<recvd, processed, wire, pnext>>
  BY <1>4 DEF PeerInv
<1>5. CASE \E will_write \in BOOLEAN : TickWrite(will_write)
  <2>1. UNCHANGED <<recvd, processed, wire, pnext>>
    BY <1>5 DEF TickWrite, Abort, hist, peer, ghost
  <2> QED
    BY <1>4, <2>1
<1> QED
  BY <1>1, <1>2, <1>3, <1>4, <1>5
  DEF Next, PeerReceives, GetBufferedPacket, RetxAlarmExpires, TickBlocked, SendPackets,
      vars, hist, peer, ghost

\* An empty list of delayed packets stays empty.
LEMMA SqueezedEmpty == SqueezeSched(<< >>) = << >>
  BY DEF SqueezeSched

\* What the second part of a tick does when nothing is delayed.
LEMMA TickWriteNew ==
    ASSUME TypeOK, QueueInv, NEW will_write \in BOOLEAN, TickWrite(will_write), ~Abort
    PROVE  /\ WriteNew(queued \/ lost_ack \/ (slack_akbl > 0 /\ will_write), will_write)
           /\ UNCHANGED <<recvd, out, wire, processed>>
           /\ phase' = "send"
<1>1. scheduled = << >>
  BY DEF TickWrite, QueueInv
<1>2. SqueezeSched(scheduled) = << >>
  BY <1>1, SqueezedEmpty
<1> QED
  BY <1>2 DEF TickWrite, hist, peer, ghost

\* Nothing is delayed, and the buffered ACK frame is the latest.
LEMMA QueueStep ==
    ASSUME ~SendFails, TypeOK, QueueInv, [Next]_vars
    PROVE  QueueInv'
<1>1. CASE \E packet \in wire : Arrives(packet)
  <2>1. PICK packet \in wire : Arrives(packet)
    BY <1>1
  <2>2. CASE Abort /\ UNCHANGED phase
    BY <2>2 DEF Abort, QueueInv, queue
  <2>3. CASE Accept(packet)
    BY <2>3, AcceptHistory DEF QueueInv
  <2> QED
    BY <2>1, <2>2, <2>3 DEF Arrives
<1>2. CASE GetBufferedPacket
  <2>1. PICK m \in recvd : buffered' = AckPacket(m, TRUE) /\ ResetAckState(m)
    BY <1>2 DEF GetBufferedPacket
  <2>2. buffered'.ack2ed = largest_acked'
    BY <2>1, AckPacketType DEF ResetAckState
  <2> QED
    BY <1>2, <2>2 DEF GetBufferedPacket, QueueInv
<1>3. CASE \E due \in BOOLEAN : TickIn(due)
  BY <1>3 DEF TickIn, QueueInv, queue
<1>4. CASE \E will_write \in BOOLEAN : TickWrite(will_write)
  <2>1. PICK will_write \in BOOLEAN : TickWrite(will_write)
    BY <1>4
  <2>2. CASE Abort
    BY <2>1, <2>2 DEF TickWrite, Abort, QueueInv, queue
  <2>3. CASE ~Abort
    BY <2>1, <2>3, TickWriteNew DEF WriteNew, QueueInv
  <2> QED
    BY <2>2, <2>3
<1>5. CASE \E k \in 0 .. MaxOut : SendPackets(k)
  <2>1. PICK k \in 0 .. MaxOut : SendPackets(k)
    BY <1>5
  <2>2. k = Len(scheduled)
    BY <2>1 DEF SendPackets
  <2>3. scheduled' = << >>
    BY <2>1, <2>2 DEF SendPackets, TypeOK
  <2> QED
    BY <2>1, <2>3 DEF SendPackets, QueueInv
<1>6. CASE TickBlocked
  BY <1>6 DEF TickBlocked, QueueInv, queue
<1>7. CASE UNCHANGED <<phase, scheduled, buffered, largest_acked>>
  BY <1>7 DEF QueueInv
<1> QED
  BY <1>1, <1>2, <1>3, <1>4, <1>5, <1>6, <1>7
  DEF Next, PeerSends, PeerReceives, RetxAlarmExpires, vars, queue

\* A packet that has just been recorded and has to be acknowledged queues an
\* ACK frame or sets the alarm; what was queued stays queued.
LEMMA AcceptQueues ==
    ASSUME TypeOK, NEW packet \in wire, Accept(packet)
    PROVE  /\ packet.ackable => queued' \/ alarm'
           /\ queued \/ alarm => queued' \/ alarm'
           /\ lost_ack => lost_ack'
<1>1. \E ce, will_write \in BOOLEAN : \E g, s :
         TryQueueingAckApp(g, s, ce, will_write)
  BY DEF Accept
<1>2. packet.ackable => slack_akbl' > 0
  BY DEF Accept, TypeOK
<1>3. lost_ack => lost_ack'
  BY DEF Accept, ProcessAckFrame, ProcessAck, Lose, ctl
<1> QED
  BY <1>1, <1>2, <1>3 DEF TryQueueingAckApp, TypeOK

\* What is left unreported is on its way to being reported.
LEMMA PendingStep ==
    ASSUME ~SendFails, TypeOK, PeerInv, QueueInv, AckIsPending, [Next]_vars
    PROVE  AckIsPending'
<1>1. CASE PeerSends
  <2>1. PICK ackable \in BOOLEAN, acks \in {{}, got} :
           wire' = wire \cup {[packno |-> pnext, ackable |-> ackable, acks |-> acks]}
    BY <1>1 DEF PeerSends
  <2>2. pnext \notin processed
    BY DEF PeerInv, TypeOK
  <2>3. UNCHANGED <<recvd, processed, out, queued, alarm, lost_ack, buffered, scheduled>>
    BY <1>1 DEF PeerSends, hist, ghost, state, ctl, queue
  <2>4. Ackable' \subseteq Ackable \cup {pnext}
    BY <2>1 DEF Ackable
  <2>5. Unreported' \subseteq Unreported
    BY <2>2, <2>3, <2>4 DEF Unreported, Reported
  <2> QED
    BY <2>3, <2>5 DEF AckIsPending
<1>2. CASE \E packet \in wire : Arrives(packet)
  <2>1. PICK packet \in wire : Arrives(packet)
    BY <1>2
  <2>2. CASE Abort
    BY <2>2 DEF Abort, AckIsPending, Unreported, Ackable, Reported, hist, peer, ghost,
                state, ctl, queue
  <2>3. CASE Accept(packet)
    <3>1. UNCHANGED <<wire, out, buffered, scheduled>>
      BY <2>3, AcceptHistory
    <3>2. packet.packno \in Ackable => packet.ackable
      BY DEF Ackable, PeerInv
    <3>3. SUFFICES ASSUME NEW p \in Unreported'
                   PROVE  \/ queued' \/ alarm' \/ lost_ack'
                          \/ p \in buffered.covers
                          \/ \E i \in DOMAIN scheduled : p \in scheduled[i].covers
      BY <3>1 DEF AckIsPending
    <3>4. CASE p = packet.packno
      BY <2>3, <3>1, <3>2, <3>4, AcceptQueues DEF Unreported, Ackable
    <3>5. CASE p # packet.packno
      <4>1. p \in Unreported
        BY <2>3, <3>1, <3>5, AcceptHistory DEF Unreported, Ackable, Reported
      <4> QED
        BY <2>3, <4>1, AcceptQueues DEF AckIsPending
    <3> QED
      BY <3>4, <3>5
  <2> QED
    BY <2>1, <2>2, <2>3 DEF Arrives
<1>3. CASE GetBufferedPacket
  <2>1. PICK m \in recvd : buffered' = AckPacket(m, TRUE) /\ ResetAckState(m)
    BY <1>3 DEF GetBufferedPacket
  <2>2. buffered'.covers = recvd /\ recvd' = recvd
    BY <1>3, <2>1, AckPacketType DEF GetBufferedPacket, hist
  <2> QED
    BY <2>2 DEF AckIsPending, Unreported
<1>4. CASE RetxAlarmExpires
  <2>1. lost_ack => lost_ack'
    BY <1>4 DEF RetxAlarmExpires, Lose
  <2>2. UNCHANGED <<recvd, processed, wire, out, queued, alarm, buffered, scheduled>>
    BY <1>4 DEF RetxAlarmExpires, hist, ghost, peer, state, queue
  <2> QED
    BY <2>1, <2>2 DEF AckIsPending, Unreported, Ackable, Reported
<1>5. CASE \E due \in BOOLEAN : TickIn(due)
  <2>1. PICK due \in BOOLEAN : TickIn(due)
    BY <1>5
  <2>2. UNCHANGED <<processed, wire, out, buffered, scheduled>>
    BY <2>1 DEF TickIn, ghost, peer, queue
  <2>3. Unreported' \subseteq Unreported
    BY <2>1, <2>2, TickInHistory DEF Unreported, Ackable, Reported
  <2>4. queued \/ alarm => queued' \/ alarm'
    BY <2>1 DEF TickIn
  <2> QED
    BY <2>1, <2>2, <2>3, <2>4, TickInHistory DEF AckIsPending
<1>6. CASE \E will_write \in BOOLEAN : TickWrite(will_write)
  <2>1. PICK will_write \in BOOLEAN : TickWrite(will_write)
    BY <1>6
  <2>2. CASE Abort
    BY <2>2 DEF Abort, AckIsPending, Unreported, Ackable, Reported, hist, peer, ghost,
                state, ctl, queue
  <2>3. CASE ~Abort
    <3> DEFINE wanted == queued \/ lost_ack \/ (slack_akbl > 0 /\ will_write)
    <3>1. WriteNew(wanted, will_write) /\ UNCHANGED <<recvd, out, wire, processed>>
      BY <2>1, <2>3, TickWriteNew
    <3>2. CASE wanted
      <4>1. PICK m \in recvd, data \in {FALSE, will_write} :
               scheduled' = <<AckPacket(m, data)>> \o ScheduleBuffered
        BY <3>1, <3>2 DEF WriteNew
      <4>2. AckPacket(m, data) \in Outgoing /\ AckPacket(m, data).covers = recvd
        BY AckPacketType
      <4>3. 1 \in DOMAIN scheduled' /\ scheduled'[1].covers = recvd
        <5>1. <<AckPacket(m, data)>> \in Seq(Outgoing) /\ 1 \in DOMAIN <<AckPacket(m, data)>>
          BY <4>2, Singleton
        <5>2. 1 \in DOMAIN scheduled' /\ scheduled'[1] = <<AckPacket(m, data)>>[1]
          BY <4>1, <5>1, ScheduleBufferedType, Concatenation
        <5>3. <<AckPacket(m, data)>>[1] = AckPacket(m, data)
          OBVIOUS
        <5> QED
          BY <4>2, <5>2, <5>3
      <4> QED
        BY <3>1, <4>3 DEF AckIsPending, Unreported
    <3>3. CASE ~wanted
      <4>1. PICK packets \in {<<DataPacket>>, << >>} :
               scheduled' = packets \o ScheduleBuffered
        BY <3>1, <3>3 DEF WriteNew
      <4>2. UNCHANGED <<queued, alarm, lost_ack, largest_acked>>
        BY <3>1, <3>3 DEF WriteNew, state
      <4>3. scheduled = << >>
        BY <2>1 DEF TickWrite, QueueInv
      <4>4. ASSUME NEW p \in buffered.covers
            PROVE  \E i \in DOMAIN scheduled' : p \in scheduled'[i].covers
        <5>1. buffered # NoPacket
          BY <4>4, PlainPackets
        <5>2. buffered.ack2ed = largest_acked'
          BY <4>2, <5>1 DEF QueueInv
        <5>3. ScheduleBuffered = <<buffered>>
          <6>1. ~(buffered.ack2ed < largest_acked')
            BY <4>2, <5>2 DEF TypeOK, Packno
          <6> QED
            BY <5>1, <6>1 DEF ScheduleBuffered
        <5>4. packets \in Seq(Outgoing) /\ <<buffered>> \in Seq(Outgoing)
          <6>1. << >> \in Seq(Outgoing)
            OBVIOUS
          <6>2. <<DataPacket>> \in Seq(Outgoing) /\ <<buffered>> \in Seq(Outgoing)
            BY PlainPackets, Singleton DEF TypeOK
          <6> QED
            BY <6>1, <6>2
        <5>5. scheduled' = packets \o <<buffered>> /\ 1 \in DOMAIN <<buffered>>
              /\ <<buffered>>[1] = buffered
          BY <4>1, <5>3
        <5>6. Len(packets) + 1 \in DOMAIN scheduled' /\ scheduled'[Len(packets) + 1] = buffered
          BY <5>4, <5>5, Concatenation
        <5> QED
          BY <4>4, <5>6
      <4>5. Unreported' = Unreported
        BY <3>1 DEF Unreported, Ackable, Reported
      <4> QED
        BY <3>3, <4>2, <4>3, <4>4, <4>5 DEF AckIsPending
    <3> QED
      BY <3>2, <3>3
  <2> QED
    BY <2>2, <2>3
<1>7. CASE \E k \in 0 .. MaxOut : SendPackets(k)
  <2>1. PICK k \in 0 .. MaxOut : SendPackets(k)
    BY <1>7
  <2>2. k = Len(scheduled)
    BY <2>1 DEF SendPackets
  <2>3. out' = out \o scheduled
    <3>1. SubSeq(scheduled, 1, Len(scheduled)) = scheduled
      BY DEF TypeOK
    <3> QED
      BY <2>1, <2>2, <3>1 DEF SendPackets
  <2>4. UNCHANGED <<recvd, processed, wire, queued, alarm, lost_ack, buffered>>
    BY <2>1 DEF SendPackets, hist, ghost, peer, state
  <2>5. ASSUME NEW p \in Unreported'
        PROVE  p \in Unreported /\ \A i \in DOMAIN scheduled : p \notin scheduled[i].covers
    <3>1. \A i \in DOMAIN out : i \in DOMAIN out' /\ out'[i] = out[i]
      BY <2>3, Concatenation DEF TypeOK
    <3>2. \A i \in DOMAIN scheduled :
             Len(out) + i \in DOMAIN out' /\ out'[Len(out) + i] = scheduled[i]
      BY <2>3, Concatenation DEF TypeOK
    <3>3. \A n \in DOMAIN out' : p \notin out'[n].covers
      BY <2>5 DEF Unreported, Reported
    <3>4. p \notin Reported
      BY <3>1, <3>3 DEF Reported
    <3> QED
      BY <2>4, <2>5, <3>2, <3>3, <3>4 DEF Unreported, Ackable
  <2> QED
    BY <2>4, <2>5 DEF AckIsPending
<1>8. CASE UNCHANGED <<recvd, processed, wire, out, queued, alarm, lost_ack, buffered, scheduled>>
  BY <1>8 DEF AckIsPending, Unreported, Ackable, Reported
<1> QED
  BY <1>1, <1>2, <1>3, <1>4, <1>5, <1>6, <1>7, <1>8
  DEF Next, PeerReceives, TickBlocked, vars, hist, ghost, peer, state, ctl, queue

\* If the engine sends what is scheduled, then for every number of packets and
\* every threshold: a packet that has to be acknowledged and has not been
\* reported is never forgotten between try_queueing_ack_app(), the alarm, the
\* buffered and the scheduled packets.
THEOREM AckStaysPending ==
    ASSUME ~SendFails
    PROVE  Spec => []AckIsPending
<1>1. Init => PeerInv /\ QueueInv /\ AckIsPending
  BY DEF Init, PeerInv, QueueInv, AckIsPending, Unreported
<1>2. TypeOK /\ PeerInv /\ QueueInv /\ AckIsPending /\ [Next]_vars
        => (PeerInv /\ QueueInv /\ AckIsPending)'
  BY PeerStep, QueueStep, PendingStep
<1> QED
  BY <1>1, <1>2, TypeCorrect, PTL DEF Spec

-----------------------------------------------------------------------------
\* Recording a packet keeps the largest number in the history: when a range has
\* to be forgotten it is the lowest of several.
LEMMA LargestIsKept ==
    ASSUME NEW S \in SUBSET Packno, NEW p \in Packno, NEW m \in S, \A q \in S : q <= m
    PROVE  m \in Recorded(S, p, MaxRanges)
<1>1. SUFFICES ASSUME MaxRanges # 0, Cardinality(Lows(S \cup {p})) > MaxRanges,
                      m \in LowestRange(S)
               PROVE  FALSE
  BY DEF Recorded
<1>2. \A l \in Lows(S) : \A k \in Lows(S) : l <= k
  <2>1. \A l \in Lows(S) : ~(l > m)
    BY DEF Lows, Packno
  <2> QED
    BY <1>1, <2>1 DEF LowestRange
<1>3. \A k, l \in Lows(S) : k = l
  <2> SUFFICES ASSUME NEW k \in Lows(S), NEW l \in Lows(S) PROVE k = l
    OBVIOUS
  <2>1. k \in Int /\ l \in Int
    BY DEF Lows, Packno
  <2>2. k <= l /\ l <= k
    BY <1>2
  <2> QED
    BY <2>1, <2>2
<1>4. Lows(S \cup {p}) \subseteq Lows(S) \cup {p}
  BY DEF Lows
<1>5. PICK x : Lows(S) \subseteq {x}
  <2>1. CASE Lows(S) = {}
    BY <2>1
  <2>2. CASE Lows(S) # {}
    BY <1>3, <2>2
  <2> QED
    BY <2>1, <2>2
<1>6. Lows(S \cup {p}) \subseteq {x, p}
  BY <1>4, <1>5
<1>7. IsFiniteSet({x, p}) /\ Cardinality({x, p}) <= 2
  <2>1. IsFiniteSet({x}) /\ Cardinality({x}) = 1
    BY FS_Singleton
  <2>2. {x, p} = {x} \cup {p}
    OBVIOUS
  <2> QED
    BY <2>1, <2>2, FS_AddElement
<1>8. Cardinality(Lows(S \cup {p})) <= 2 /\ Cardinality(Lows(S \cup {p})) \in Nat
  <2> DEFINE L == Lows(S \cup {p})
             T == {x, p}
  <2>1. L \in SUBSET T /\ IsFiniteSet(T) /\ Cardinality(T) <= 2
    BY <1>6, <1>7
  <2> HIDE DEF L, T
  <2>2. IsFiniteSet(L) /\ Cardinality(L) <= Cardinality(T)
    BY <2>1, FS_Subset
  <2>3. Cardinality(L) \in Nat /\ Cardinality(T) \in Nat
    BY <2>1, <2>2, FS_CardinalityType
  <2>4. Cardinality(L) <= 2
    BY <2>1, <2>2, <2>3
  <2> QED
    BY <2>3, <2>4 DEF L
<1> QED
  BY <1>1, <1>8, AckAssumption

\* An ACK frame that is lost had reported something.
LEMMA ProcessAckLost ==
    ASSUME TypeOK, FramesInv, HistoryInv, NEW acks, NEW R, ProcessAck(acks, R)
    PROVE  lost_ack' => processed # {}
<1>1. SUFFICES ASSUME lost_ack', ~lost_ack PROVE processed # {}
  BY DEF HistoryInv
<1>2. PICK n \in unacked : HasAck(out[n])
  BY <1>1 DEF ProcessAck, Lose, MayBeLost
<1> QED
  BY <1>2 DEF FramesInv, Sane, HasAck, TypeOK

LEMMA CutoffArith ==
    /\ \A a \in Nat : CutoffAt(a) \in Nat
    /\ \A a, b \in Nat : a <= b => CutoffAt(a) <= CutoffAt(b)
    /\ \A a \in Nat, q, m \in Int : q > a /\ q <= m => m >= CutoffAt(a)
  BY DEF CutoffAt

\* process_ack() on an ACK frame of which everything it acknowledges was
\* reported before p, a number that has been processed.  D is what has been
\* processed so far.
LEMMA ProcessAckHistory ==
    ASSUME TypeOK, FramesInv, HistoryInv,
           NEW D \in SUBSET Packno, processed \subseteq D,
           NEW R \in SUBSET D, NEW p \in D, NEW m \in R, \A q \in D : q <= m,
           AckedAfter(saved, p), ProcessAck(saved, R)
    PROVE  /\ m \in recvd' /\ recvd' \subseteq R
           /\ largest_ack2ed' # 0 => \E q \in D : q > largest_ack2ed'
           /\ cutoff' = CutoffAt(largest_ack2ed')
           /\ lost_ack' => processed # {}
           /\ \A q \in R : q \in recvd' \/ q < cutoff'
           /\ cutoff <= cutoff'
<1>0. D \subseteq Int /\ R \subseteq Int /\ largest_ack2ed \in Nat /\ largest_ack2ed' \in Nat
  BY ProcessAckType DEF TypeOK, Packno
<1>1. \A n \in WithAck(saved) : Ack2ed(n) \in Nat /\ (Ack2ed(n) = 0 \/ Ack2ed(n) < p)
  <2> SUFFICES ASSUME NEW n \in WithAck(saved), n \notin loss_records
               PROVE  out[n].ack2ed \in Nat /\ out[n].ack2ed < p
    BY DEF Ack2ed
  <2>1. n \in DOMAIN out /\ n \in saved /\ HasAck(out[n])
    BY DEF WithAck, TypeOK
  <2>2. out[n].ack2ed \in out[n].covers
    BY <2>1 DEF FramesInv, Sane
  <2>3. out[n] \in Outgoing
    BY <2>1 DEF TypeOK
  <2> QED
    BY <2>1, <2>2, <2>3, OutgoingFields DEF AckedAfter, Packno
<1>2. largest_ack2ed' # 0 => \E q \in D : q > largest_ack2ed'
  <2>1. \/ largest_ack2ed' = largest_ack2ed
        \/ \E n \in WithAck(saved) : largest_ack2ed' = Ack2ed(n)
    BY DEF ProcessAck
  <2> QED
    BY <1>0, <1>1, <2>1 DEF HistoryInv
<1>3. largest_ack2ed <= largest_ack2ed'
  BY <1>0, <1>1 DEF ProcessAck
<1>4. cutoff' = CutoffAt(largest_ack2ed')
  BY <1>0, <1>3 DEF ProcessAck, CutoffFor, HistoryInv, CutoffAt
<1>5. cutoff <= cutoff'
  <2>1. cutoff = CutoffAt(largest_ack2ed)
    BY DEF HistoryInv
  <2>2. largest_ack2ed \in Nat /\ largest_ack2ed' \in Nat
    BY <1>0
  <2> QED
    BY <1>3, <1>4, <2>1, <2>2, CutoffArith
<1>6. CASE largest_ack2ed' # 0
  <2>1. recvd' = {q \in R : q >= cutoff'}
    BY <1>6 DEF ProcessAck
  <2>2. m >= cutoff'
    <3>1. PICK q \in D : q > largest_ack2ed'
      BY <1>2, <1>6
    <3>2. q \in Int /\ m \in Int /\ largest_ack2ed' \in Int
      <4>1. q \in Packno /\ m \in Packno
        OBVIOUS
      <4> QED
        BY <1>0, <4>1 DEF Packno
    <3>4. q <= m
      OBVIOUS
    <3> QED
      BY <1>0, <1>4, <1>6, <3>1, <3>2, <3>4, CutoffArith
  <2>3. cutoff' \in Int
    BY <1>0, <1>4, CutoffArith
  <2>4. \A q \in R : q \in recvd' \/ q < cutoff'
    BY <1>0, <2>1, <2>3
  <2> QED
    BY <1>2, <1>4, <1>5, <2>1, <2>2, <2>4, ProcessAckLost
<1>7. CASE largest_ack2ed' = 0
  <2>1. recvd' = R
    BY <1>7 DEF ProcessAck
  <2> QED
    BY <1>2, <1>4, <1>5, <2>1, ProcessAckLost
<1> QED
  BY <1>6, <1>7

\* What an accepted packet does to the history.
LEMMA AcceptHistoryInv ==
    ASSUME TypeOK, PeerInv, FramesInv, HistoryInv, NEW packet \in wire, Accept(packet)
    PROVE  /\ HistoryInv'
           /\ cutoff <= cutoff'
           /\ \A q \in Recorded(recvd, packet.packno, MaxRanges) : q \in recvd' \/ q < cutoff'
<1> DEFINE p == packet.packno
           D == processed \cup {p}
           R == Recorded(recvd, p, MaxRanges)
<1>1. p \in Packno /\ processed' = D /\ D \in SUBSET Packno
  BY AcceptHistory DEF TypeOK, Incoming
<1>2. R \in SUBSET D /\ p \in R
  BY RecordedBounds DEF PeerInv
<1>3. PICK m \in R : \A q \in D : q <= m
  <2>1. CASE processed = {}
    BY <1>1, <1>2, <2>1 DEF Packno
  <2>2. CASE processed # {}
    <3>1. PICK m0 \in recvd : \A q \in processed : q <= m0
      BY <2>2 DEF HistoryInv
    <3>2. m0 \in R
      BY <1>1, <3>1, LargestIsKept DEF PeerInv, TypeOK
    <3>3. m0 \in Int /\ p \in Int /\ D \subseteq Int
      BY <1>1 DEF TypeOK, Packno
    <3>4. CASE p <= m0
      BY <3>1, <3>2, <3>4
    <3>5. CASE m0 <= p
      BY <1>2, <3>1, <3>3, <3>5
    <3> QED
      BY <3>3, <3>4, <3>5
  <2> QED
    BY <2>1, <2>2
<1>4. ProcessAckFrame(packet, R)
  BY DEF Accept
<1>5. CASE recvd' = R /\ UNCHANGED <<cutoff, ctl>>
  <2>1. cutoff <= cutoff'
    BY <1>5 DEF TypeOK
  <2>2. largest_ack2ed' # 0 => \E q \in D : q > largest_ack2ed'
    BY <1>5 DEF HistoryInv, ctl
  <2>3. cutoff' = CutoffAt(largest_ack2ed')
    BY <1>5 DEF HistoryInv, ctl
  <2> QED
    BY <1>1, <1>3, <1>5, <2>1, <2>2, <2>3 DEF HistoryInv
<1>6. CASE saved # {} /\ ProcessAck(saved, R)
  <2>1. max_ack_packno \in D /\ AckedAfter(saved, max_ack_packno) /\ processed \subseteq D
    BY <1>6 DEF FramesInv
  <2>2. /\ m \in recvd'
        /\ largest_ack2ed' # 0 => \E q \in D : q > largest_ack2ed'
        /\ cutoff' = CutoffAt(largest_ack2ed')
        /\ \A q \in R : q \in recvd' \/ q < cutoff'
        /\ cutoff <= cutoff'
    BY <1>1, <1>2, <1>3, <1>6, <2>1, ProcessAckHistory
  <2> QED
    BY <1>1, <1>3, <2>2 DEF HistoryInv
<1> QED
  BY <1>4, <1>5, <1>6 DEF ProcessAckFrame

\* What an accepted packet does to what ACK frames report.
LEMMA AcceptFramesInv ==
    ASSUME TypeOK, PeerInv, FramesInv, NEW packet \in wire, Accept(packet)
    PROVE  FramesInv'
<1>1. /\ UNCHANGED <<out, scheduled, buffered, wire>> /\ processed \subseteq processed'
      /\ packet.packno \in processed'
  BY AcceptHistory
<1>2. AckedAfter(packet.acks, packet.packno) /\ packet.packno \in Int
  BY DEF FramesInv, TypeOK, Incoming, Packno
<1>3. saved' # {} => max_ack_packno' \in processed' /\ AckedAfter(saved', max_ack_packno')
  <2>1. ProcessAckFrame(packet, Recorded(recvd, packet.packno, MaxRanges))
    BY DEF Accept
  <2>2. CASE UNCHANGED acki
    BY <1>1, <2>2 DEF FramesInv, acki
  <2>3. CASE /\ max_ack_packno' = packet.packno
             /\ saved' = packet.acks
    BY <1>1, <1>2, <2>3
  <2>4. CASE /\ max_ack_packno' = packet.packno
             /\ ~(packet.packno <= max_ack_packno)
             /\ saved' = saved \cup packet.acks
    <3>1. ASSUME saved # {} PROVE AckedAfter(saved, packet.packno)
      <4>1. max_ack_packno \in Int /\ max_ack_packno < packet.packno
        BY <1>2, <2>4 DEF TypeOK, Packno, NoPackno
      <4>2. AckedAfter(saved, max_ack_packno)
        BY <3>1 DEF FramesInv
      <4>3. \A n \in DOMAIN out : out[n].covers \subseteq Int
        <5>1. \A n \in DOMAIN out : out[n] \in Outgoing
          BY DEF TypeOK
        <5> QED
          BY <5>1, OutgoingFields DEF Packno
      <4> QED
        BY <1>2, <4>1, <4>2, <4>3 DEF AckedAfter
    <3> QED
      BY <1>1, <1>2, <2>4, <3>1 DEF AckedAfter
  <2> QED
    BY <2>1, <2>2, <2>3, <2>4 DEF ProcessAckFrame
<1>4. AckedAfter(saved', max_ack_packno') = AckedAfter(saved, max_ack_packno)'
  BY <1>1 DEF AckedAfter
<1> QED
  BY <1>1, <1>3, <1>4 DEF FramesInv, Sane, AckedAfter

\* What the first part of a tick does to the history.
LEMMA TickInHistoryInv ==
    ASSUME TypeOK, PeerInv, FramesInv, HistoryInv, NEW due \in BOOLEAN, TickIn(due)
    PROVE  /\ HistoryInv'
           /\ cutoff <= cutoff'
           /\ \A q \in recvd : q \in recvd' \/ q < cutoff'
<1>1. UNCHANGED <<processed, slack_akbl>> /\ (queued' \/ alarm' => queued \/ alarm)
  BY DEF TickIn, ghost
<1>2. CASE saved = {}
  <2>1. UNCHANGED <<recvd, cutoff, lost_ack, largest_ack2ed>>
    BY <1>2 DEF TickIn, hist, ctl
  <2> QED
    BY <1>1, <2>1 DEF HistoryInv, TypeOK
<1>3. CASE saved # {}
  <2>1. ProcessAck(saved, recvd) /\ max_ack_packno \in processed
        /\ AckedAfter(saved, max_ack_packno)
    BY <1>3 DEF TickIn, FramesInv
  <2>2. PICK m \in recvd : \A q \in processed : q <= m
    BY <2>1 DEF HistoryInv
  <2>3. processed \in SUBSET Packno /\ recvd \in SUBSET processed
    BY DEF TypeOK, PeerInv
  <2>4. /\ m \in recvd'
        /\ largest_ack2ed' # 0 => \E q \in processed : q > largest_ack2ed'
        /\ cutoff' = CutoffAt(largest_ack2ed')
        /\ \A q \in recvd : q \in recvd' \/ q < cutoff'
        /\ cutoff <= cutoff'
    BY <2>1, <2>2, <2>3, ProcessAckHistory
  <2> QED
    BY <1>1, <2>1, <2>2, <2>4 DEF HistoryInv
<1> QED
  BY <1>2, <1>3

\* Sequences of packets whose ACK frames are sane.
LEMMA SaneConcatenation ==
    ASSUME NEW s \in Seq(Outgoing), NEW t \in Seq(Outgoing),
           \A i \in DOMAIN s : Sane(s[i]), \A i \in DOMAIN t : Sane(t[i])
    PROVE  \A i \in DOMAIN (s \o t) : Sane((s \o t)[i])
<1> SUFFICES ASSUME NEW i \in DOMAIN (s \o t) PROVE Sane((s \o t)[i])
  OBVIOUS
<1>1. CASE i \in DOMAIN s
  BY <1>1, Concatenation
<1>2. CASE i \notin DOMAIN s
  <2>1. i - Len(s) \in DOMAIN t /\ Len(s) + (i - Len(s)) = i
    BY <1>2
  <2> QED
    BY <2>1, Concatenation
<1> QED
  BY <1>1, <1>2

LEMMA SaneSingleton ==
    ASSUME NEW x \in Outgoing, Sane(x)
    PROVE  <<x>> \in Seq(Outgoing) /\ \A i \in DOMAIN <<x>> : Sane(<<x>>[i])
<1>1. \A i \in DOMAIN <<x>> : <<x>>[i] = x
  OBVIOUS
<1> QED
  BY <1>1, Singleton

LEMMA SanePackets ==
    ASSUME TypeOK, PeerInv, FramesInv
    PROVE  /\ Sane(DataPacket) /\ Sane(NoPacket)
           /\ \A q \in Outgoing : Sane(Chopped(q))
           /\ \A m \in recvd, d \in BOOLEAN : Sane(AckPacket(m, d))
           /\ \A i \in DOMAIN ScheduleBuffered : Sane(ScheduleBuffered[i])
           /\ \A i \in DOMAIN SqueezeSched(scheduled) : Sane(SqueezeSched(scheduled)[i])
<1>1. Sane(DataPacket) /\ Sane(NoPacket) /\ \A q \in Outgoing : Sane(Chopped(q))
  BY PlainPackets DEF Sane, HasAck
<1>2. \A m \in recvd, d \in BOOLEAN : Sane(AckPacket(m, d))
  BY AckPacketType DEF Sane, PeerInv
<1>3. \A i \in DOMAIN ScheduleBuffered : Sane(ScheduleBuffered[i])
  <2>1. ScheduleBuffered \in {<< >>, <<Chopped(buffered)>>, <<buffered>>}
    BY DEF ScheduleBuffered
  <2>2. Sane(buffered) /\ Sane(Chopped(buffered))
    BY <1>1 DEF FramesInv, TypeOK
  <2> QED
    BY <2>1, <2>2
<1>4. \A i \in DOMAIN SqueezeSched(scheduled) : Sane(SqueezeSched(scheduled)[i])
  BY <1>1 DEF SqueezeSched, FramesInv
<1> QED
  BY <1>1, <1>2, <1>3, <1>4

\* The second part of a tick finds something to report if it has to.
LEMMA TickWriteTolerant ==
    ASSUME TypeOK, PeerInv, FramesInv, HistoryInv, NeverAborted,
           NEW will_write \in BOOLEAN, TickWrite(will_write)
    PROVE  FramesInv' /\ HistoryInv' /\ NeverAborted'
<1> DEFINE delayed == SqueezeSched(scheduled)
           owed    == queued \/ lost_ack
           wanted  == owed \/ (delayed = << >> /\ slack_akbl > 0 /\ will_write)
<1>1. wanted => recvd # {}
  BY DEF HistoryInv
<1>2. IF delayed # << >> THEN WriteDelayed(delayed, owed) ELSE WriteNew(wanted, will_write)
  BY <1>1 DEF TickWrite
<1>3. UNCHANGED <<recvd, cutoff, max_ack_packno, saved, largest_ack2ed, out, closed, wire,
                  processed>>
  BY <1>1 DEF TickWrite, hist, acki, peer, ghost
<1>4. HistoryInv'
  <2>1. \/ UNCHANGED <<queued, alarm, lost_ack, slack_akbl>>
        \/ ~queued' /\ ~alarm' /\ ~lost_ack' /\ slack_akbl' = 0
    BY <1>2 DEF WriteDelayed, WriteNew, ResetAckState, state
  <2>2. queued' \/ alarm' \/ lost_ack' \/ slack_akbl' > 0 => processed # {}
    BY <2>1 DEF HistoryInv
  <2> QED
    BY <1>3, <2>2 DEF HistoryInv
<1>5. delayed \in Seq(Outgoing) /\ ScheduleBuffered \in Seq(Outgoing)
  BY SqueezedType, ScheduleBufferedType DEF TypeOK
<1>6. Sane(buffered')
  BY <1>2, SanePackets DEF WriteDelayed, WriteNew, FramesInv
<1>7. \A i \in DOMAIN scheduled' : Sane(scheduled'[i])
  <2>1. CASE delayed # << >> /\ owed
    <3> DEFINE rest == [i \in DOMAIN delayed |-> Chopped(delayed[i])]
    <3>1. PICK m \in recvd : scheduled' = <<AckPacket(m, FALSE)>> \o rest
      BY <1>2, <2>1 DEF WriteDelayed
    <3>2. rest \in Seq(Outgoing) /\ \A i \in DOMAIN rest : Sane(rest[i])
      BY <1>5, PlainPackets, SanePackets
    <3>3. /\ <<AckPacket(m, FALSE)>> \in Seq(Outgoing)
          /\ \A i \in DOMAIN <<AckPacket(m, FALSE)>> : Sane(<<AckPacket(m, FALSE)>>[i])
      <4>1. AckPacket(m, FALSE) \in Outgoing /\ Sane(AckPacket(m, FALSE))
        BY AckPacketType, SanePackets
      <4> QED
        BY <4>1, SaneSingleton
    <3> HIDE DEF rest
    <3> QED
      BY <3>1, <3>2, <3>3, SaneConcatenation
  <2>2. CASE delayed # << >> /\ ~owed
    BY <1>2, <2>2, SanePackets DEF WriteDelayed
  <2>3. CASE delayed = << >> /\ wanted
    <3>1. PICK m \in recvd, data \in {FALSE, will_write} :
             scheduled' = <<AckPacket(m, data)>> \o ScheduleBuffered
      BY <1>2, <2>3 DEF WriteNew
    <3>2. /\ <<AckPacket(m, data)>> \in Seq(Outgoing)
          /\ \A i \in DOMAIN <<AckPacket(m, data)>> : Sane(<<AckPacket(m, data)>>[i])
      <4>1. AckPacket(m, data) \in Outgoing /\ Sane(AckPacket(m, data))
        BY AckPacketType, SanePackets
      <4> QED
        BY <4>1, SaneSingleton
    <3> QED
      BY <1>5, <3>1, <3>2, SanePackets, SaneConcatenation
  <2>4. CASE delayed = << >> /\ ~wanted
    <3>1. PICK packets \in {<<DataPacket>>, << >>} :
             scheduled' = packets \o ScheduleBuffered
      BY <1>2, <2>4 DEF WriteNew
    <3>2. << >> \in Seq(Outgoing) /\ <<DataPacket>> \in Seq(Outgoing)
      BY PlainPackets, Singleton
    <3>3. packets \in Seq(Outgoing) /\ \A i \in DOMAIN packets : Sane(packets[i])
      <4>1. CASE packets = << >>
        BY <3>2, <4>1
      <4>2. CASE packets = <<DataPacket>>
        BY <4>2, PlainPackets, SanePackets, SaneSingleton
      <4> QED
        BY <4>1, <4>2
    <3> QED
      BY <1>5, <3>1, <3>3, SanePackets, SaneConcatenation
  <2> QED
    BY <2>1, <2>2, <2>3, <2>4
<1>8. FramesInv'
  BY <1>3, <1>6, <1>7 DEF FramesInv, Sane, AckedAfter
<1> QED
  BY <1>3, <1>4, <1>8 DEF NeverAborted

\* Sending moves packets from one list to the other.
LEMMA SendFrames ==
    ASSUME TypeOK, FramesInv, NEW k \in 0 .. MaxOut, SendPackets(k)
    PROVE  FramesInv'
<1>1. k \in 0 .. Len(scheduled)
  BY DEF SendPackets
<1> DEFINE head == SubSeq(scheduled, 1, k)
<1>2. head \in Seq(Outgoing) /\ \A i \in DOMAIN head : Sane(head[i])
  BY <1>1 DEF TypeOK, FramesInv
<1>3. out' = out \o head /\ UNCHANGED <<processed, wire, buffered, saved, max_ack_packno>>
  BY DEF SendPackets, ghost, peer, acki
<1> HIDE DEF head
<1>4. \A i \in DOMAIN out' : Sane(out'[i])
  BY <1>2, <1>3, SaneConcatenation DEF TypeOK, FramesInv
<1>5. \A i \in DOMAIN scheduled' : Sane(scheduled'[i])
  BY <1>1 DEF TypeOK, FramesInv, SendPackets
<1>6. \A n \in DOMAIN out : n \in DOMAIN out' /\ out'[n] = out[n]
  BY <1>2, <1>3, Concatenation DEF TypeOK
<1>7. \A acks, p : AckedAfter(acks, p) => AckedAfter(acks, p)'
  BY <1>6 DEF AckedAfter
<1> QED
  BY <1>3, <1>4, <1>5, <1>7 DEF FramesInv, Sane

\* One step of an honest peer, of the network or of the connection.
LEMMA TolerantStep ==
    ASSUME TypeOK, PeerInv, FramesInv, HistoryInv, NeverAborted, [Next]_vars
    PROVE  FramesInv' /\ HistoryInv' /\ NeverAborted'
<1>1. CASE PeerSends
  <2>1. PICK ackable \in BOOLEAN, acks \in {{}, got} :
           wire' = wire \cup {[packno |-> pnext, ackable |-> ackable, acks |-> acks]}
    BY <1>1 DEF PeerSends
  <2>2. UNCHANGED <<hist, state, acki, ctl, queue, out, closed, ghost>>
    BY <1>1 DEF PeerSends
  <2>3. AckedAfter(acks, pnext)
    <3>1. \A q \in processed : q < pnext
      BY DEF PeerInv
    <3> QED
      BY <3>1 DEF TypeOK, FramesInv, Sane, AckedAfter
  <2>4. \A w \in wire' : AckedAfter(w.acks, w.packno)
    BY <2>1, <2>3 DEF FramesInv
  <2> QED
    BY <2>2, <2>4 DEF FramesInv, HistoryInv, NeverAborted, Sane, AckedAfter,
                      hist, state, acki, ctl, queue, ghost
<1>2. CASE \E packet \in wire : Arrives(packet)
  <2>1. PICK packet \in wire : Arrives(packet)
    BY <1>2
  <2>2. Verdict(recvd, cutoff, packet.packno) # "err"
    <3>1. packet.packno \in Nat
      BY DEF TypeOK, Incoming, Packno
    <3>2. recvd = {} => cutoff = 0
      BY DEF HistoryInv, CutoffAt
    <3> QED
      BY <3>1, <3>2 DEF Verdict
  <2>3. Accept(packet) /\ closed' = closed
    BY <2>1, <2>2 DEF Arrives, Accept
  <2> QED
    BY <2>3, AcceptFramesInv, AcceptHistoryInv DEF NeverAborted
<1>3. CASE GetBufferedPacket
  <2>1. PICK m \in recvd : buffered' = AckPacket(m, TRUE) /\ ResetAckState(m)
    BY <1>3 DEF GetBufferedPacket
  <2>2. Sane(buffered')
    BY <2>1, SanePackets
  <2>3. UNCHANGED <<hist, acki, largest_ack2ed, scheduled, out, closed, peer, ghost>>
    BY <1>3 DEF GetBufferedPacket
  <2>4. ~queued' /\ ~alarm' /\ ~lost_ack' /\ ~(slack_akbl' > 0)
    BY <2>1 DEF ResetAckState
  <2> QED
    BY <2>2, <2>3, <2>4 DEF FramesInv, HistoryInv, NeverAborted, Sane, AckedAfter,
                            hist, acki, peer, ghost
<1>4. CASE RetxAlarmExpires
  <2>1. UNCHANGED <<hist, state, acki, largest_ack2ed, queue, out, closed, peer, ghost>>
    BY <1>4 DEF RetxAlarmExpires
  <2>2. lost_ack' => processed # {}
    <3>1. SUFFICES ASSUME lost_ack', ~lost_ack PROVE processed # {}
      BY DEF HistoryInv
    <3>2. PICK n \in unacked : HasAck(out[n])
      BY <1>4, <3>1 DEF RetxAlarmExpires, Lose
    <3> QED
      BY <3>2 DEF FramesInv, Sane, HasAck, TypeOK
  <2> QED
    BY <2>1, <2>2 DEF FramesInv, HistoryInv, NeverAborted, Sane, AckedAfter,
                      hist, state, acki, queue, peer, ghost
<1>5. CASE \E due \in BOOLEAN : TickIn(due)
  <2>1. PICK due \in BOOLEAN : TickIn(due)
    BY <1>5
  <2>2. /\ UNCHANGED <<out, scheduled, buffered, wire, processed, max_ack_packno, closed>>
        /\ saved' = {}
    BY <2>1 DEF TickIn, queue, peer, ghost
  <2> QED
    BY <2>1, <2>2, TickInHistoryInv DEF FramesInv, NeverAborted, Sane, AckedAfter
<1>6. CASE \E will_write \in BOOLEAN : TickWrite(will_write)
  BY <1>6, TickWriteTolerant
<1>7. CASE \E k \in 0 .. MaxOut : SendPackets(k)
  <2>1. HistoryInv' /\ NeverAborted'
    BY <1>7 DEF SendPackets, HistoryInv, NeverAborted, hist, state, ghost
  <2> QED
    BY <1>7, <2>1, SendFrames
<1>8. CASE UNCHANGED <<hist, state, acki, ctl, queue, out, closed, wire, ghost>>
  BY <1>8 DEF FramesInv, HistoryInv, NeverAborted, Sane, AckedAfter,
              hist, state, acki, ctl, queue, ghost
<1> QED
  BY <1>1, <1>2, <1>3, <1>4, <1>5, <1>6, <1>7, <1>8
  DEF Next, PeerReceives, TickBlocked, vars, peer

\* For every number of packets, limit on the ranges of the history and
\* threshold, also when packets of a tick go unsent: no order, repetition or
\* loss of an honest peer's packets makes the connection abort, because
\* trimming the history after an acknowledged ACK frame never empties it.
THEOREM AckToleratesNetwork ==
    Spec => [](FramesInv /\ HistoryInv /\ NeverAborted)
<1>1. Init => PeerInv /\ FramesInv /\ HistoryInv /\ NeverAborted
  <2> SUFFICES ASSUME Init PROVE PeerInv /\ FramesInv /\ HistoryInv /\ NeverAborted
    OBVIOUS
  <2>1. PeerInv /\ NeverAborted /\ HistoryInv
    BY DEF Init, PeerInv, NeverAborted, HistoryInv, CutoffAt
  <2>2. Sane(buffered)
    BY PlainPackets DEF Init, Sane, HasAck
  <2>3. DOMAIN out = {} /\ DOMAIN scheduled = {} /\ wire = {} /\ saved = {}
    BY DEF Init
  <2> QED
    BY <2>1, <2>2, <2>3 DEF FramesInv
<1>2. TypeOK /\ PeerInv /\ FramesInv /\ HistoryInv /\ NeverAborted /\ [Next]_vars
        => (PeerInv /\ FramesInv /\ HistoryInv /\ NeverAborted)'
  BY PeerStep, TolerantStep
<1> QED
  BY <1>1, <1>2, TypeCorrect, PTL DEF Spec

\* When the history need not forget ranges, duplicated, reordered and late
\* packets neither abort the connection nor have their frames processed again.
THEOREM DeliveryTolerated ==
    ASSUME MaxRanges = 0
    PROVE  Spec => []DeliveryIsTolerated
<1>1. Init => PeerInv /\ RememberedInv
  BY DEF Init, PeerInv, RememberedInv, ProcessedOnce
<1>2. ASSUME TypeOK, PeerInv, FramesInv, HistoryInv, NeverAborted, RememberedInv, [Next]_vars
      PROVE  RememberedInv'
  <2>1. CASE \E packet \in wire : Arrives(packet)
    <3>1. PICK packet \in wire : Arrives(packet)
      BY <2>1
    <3>2. CASE Abort
      BY <1>2, <3>2 DEF Abort, RememberedInv, ProcessedOnce, hist, ghost
    <3>3. CASE Accept(packet)
      <4>1. packet.packno \in Packno /\ cutoff \in Nat /\ cutoff' \in Nat
        BY <1>2, <3>3, AcceptType DEF TypeOK, Incoming
      <4>2. packet.packno \notin recvd /\ ~(packet.packno < cutoff)
        BY <3>3 DEF Accept, Verdict
      <4>3. again' = {}
        BY <1>2, <3>3, <4>2 DEF Accept, RememberedInv, ProcessedOnce
      <4>4. Recorded(recvd, packet.packno, MaxRanges) = recvd \cup {packet.packno}
        BY DEF Recorded
      <4>5. /\ cutoff <= cutoff'
            /\ \A q \in recvd \cup {packet.packno} : q \in recvd' \/ q < cutoff'
        BY <1>2, <3>3, <4>4, AcceptHistoryInv, Zenon
      <4>6. processed' = processed \cup {packet.packno}
        BY <3>3 DEF Accept
      <4>7. \A q \in processed' : q \in Packno /\ (q \in recvd' \/ q < cutoff')
        BY <1>2, <4>1, <4>5, <4>6 DEF RememberedInv, TypeOK, Packno
      <4> QED
        BY <4>3, <4>7 DEF RememberedInv, ProcessedOnce
    <3> QED
      BY <3>1, <3>2, <3>3 DEF Arrives
  <2>2. CASE \E due \in BOOLEAN : TickIn(due)
    <3>1. /\ cutoff <= cutoff'
          /\ \A q \in recvd : q \in recvd' \/ q < cutoff'
      BY <1>2, <2>2, TickInHistoryInv
    <3>2. UNCHANGED <<processed, again>>
      BY <2>2 DEF TickIn, ghost
    <3>3. cutoff \in Nat /\ cutoff' \in Nat
      <4>1. largest_ack2ed' \in Packno
        BY <1>2, <2>2, ProcessAckType DEF TickIn, TypeOK, ctl
      <4>2. cutoff' = CutoffAt(largest_ack2ed')
        BY <1>2, <2>2, TickInHistoryInv DEF HistoryInv
      <4>3. largest_ack2ed' \in Nat
        BY <4>1 DEF Packno
      <4>4. cutoff' \in Nat
        BY <4>2, <4>3, CutoffArith
      <4> QED
        BY <1>2, <4>4 DEF TypeOK
    <3>4. \A q \in processed : q \in Packno /\ (q \in recvd' \/ q < cutoff')
      BY <1>2, <3>1, <3>3 DEF RememberedInv, TypeOK, Packno
    <3> QED
      BY <1>2, <3>2, <3>4 DEF RememberedInv, ProcessedOnce
  <2>3. CASE \E will_write \in BOOLEAN : TickWrite(will_write)
    <3>1. UNCHANGED <<hist, ghost>>
      BY <2>3 DEF TickWrite, Abort
    <3> QED
      BY <1>2, <3>1 DEF RememberedInv, ProcessedOnce, hist, ghost
  <2>4. CASE UNCHANGED <<hist, ghost>>
    BY <1>2, <2>4 DEF RememberedInv, ProcessedOnce, hist, ghost
  <2> QED
    BY <1>2, <2>1, <2>2, <2>3, <2>4
    DEF Next, PeerSends, PeerReceives, GetBufferedPacket, RetxAlarmExpires, TickBlocked,
        SendPackets, vars
<1>3. TypeOK /\ PeerInv /\ [Next]_vars => PeerInv'
  BY PeerStep
<1>4. NeverAborted /\ RememberedInv => DeliveryIsTolerated
  BY DEF RememberedInv, DeliveryIsTolerated
<1> QED
  BY <1>1, <1>2, <1>3, <1>4, TypeCorrect, AckToleratesNetwork, PTL DEF Spec
=============================================================================

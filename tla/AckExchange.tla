---------------------------- MODULE AckExchange ----------------------------
(***************************************************************************)
(* Acknowledgements in the application packet number space of an IETF QUIC *)
(* connection (lsquic_full_conn_ietf.c): recording the peer's packets,     *)
(* deciding when to send an ACK frame, building it, and trimming the       *)
(* history of received packets when the peer acknowledges the packet that  *)
(* carried one.  The peer follows the protocol; the network may lose,      *)
(* duplicate and reorder packets in both directions.  The history is the   *)
(* set of packet numbers that RecHist is shown to implement.               *)
(***************************************************************************)
EXTENDS PacketRanges, Sequences

CONSTANTS
    MaxPackno,      \* bound: the peer sends packets 0..MaxPackno
    MaxOut,         \* bound: the connection sends at most MaxOut packets
    MaxRanges,      \* rh_max_ranges (1000 in the code); zero for no limit
    RetxSinceAck,   \* ifc_max_retx_since_last_ack (2 at first)
    AnySinceAck,    \* MAX_ANY_PACKETS_SINCE_LAST_ACK (20 in the code)
    SendFails       \* whether the packets of a tick may go unsent

ASSUME AckAssumption ==
    /\ MaxPackno \in Nat /\ MaxOut \in Nat
    /\ MaxRanges \in Nat \ {1}
    /\ RetxSinceAck \in Nat /\ AnySinceAck \in Nat
    /\ SendFails \in BOOLEAN

VARIABLES
    recvd, cutoff,  \* ifc_rechist[PNS_APP]
    queued,         \* IFC_ACK_QUED_APP
    alarm,          \* whether AL_ACK_APP is set
    had_miss,       \* IFC_ACK_HAD_MISS
    slack_akbl,     \* ifc_n_slack_akbl[PNS_APP]
    slack_all,      \* ifc_n_slack_all
    max_akbl_in,    \* ifc_max_ackable_packno_in
    max_ack_packno, \* ifc_max_ack_packno[PNS_APP]
    saved,          \* ifc_ack when IFC_HAVE_SAVED_ACK is set
    lost_ack,       \* SC_LOST_ACK_APP
    largest_acked,  \* sc_largest_acked
    largest_ack2ed, \* sc_largest_ack2ed[PNS_APP]
    unacked,        \* sc_unacked_packets[PNS_APP], without the loss records
    loss_records,   \* the loss records on that list
    buffered,       \* the first buffered packet, when it carries an ACK frame
    scheduled,      \* sc_scheduled_packets
    out,            \* the packets sent: out[n] is packet number n
    phase,          \* where the connection is in its tick
    closed,         \* the connection has been aborted
    wire,           \* the packets the peer has sent
    pnext,          \* the peer's next packet number
    got,            \* the connection's packets that the peer has received
    processed,      \* history: the packet numbers whose frames were processed
    again           \* history: those whose frames were processed repeatedly

hist  == <<recvd, cutoff>>
state == <<queued, alarm, had_miss, slack_akbl, slack_all, max_akbl_in>>
acki  == <<max_ack_packno, saved>>
ctl   == <<lost_ack, largest_ack2ed, unacked, loss_records>>
queue == <<largest_acked, buffered, scheduled>>
peer  == <<wire, pnext, got>>
ghost == <<processed, again>>
vars  == <<hist, state, acki, ctl, queue, out, phase, closed, peer, ghost>>

Packno == 0 .. MaxPackno
NoPackno == -1
Packet(covers, ack2ed, data) == [covers |-> covers, ack2ed |-> ack2ed, data |-> data]
NoPacket == Packet({}, 0, FALSE)
DataPacket == Packet({}, 0, TRUE)

Outgoing == [covers : SUBSET Packno, ack2ed : Packno, data : BOOLEAN]
Incoming == [packno : Packno, ackable : BOOLEAN, acks : SUBSET (1 .. MaxOut)]

HasAck(packet) == packet.covers # {}
IsLargest(m, S) == m \in S /\ \A q \in S : q <= m

Init ==
    /\ recvd = {} /\ cutoff = 0
    /\ queued = FALSE /\ alarm = FALSE /\ had_miss = FALSE
    /\ slack_akbl = 0 /\ slack_all = 0 /\ max_akbl_in = 0
    /\ max_ack_packno = NoPackno /\ saved = {}
    /\ lost_ack = FALSE /\ largest_ack2ed = 0
    /\ unacked = {} /\ loss_records = {}
    /\ largest_acked = 0 /\ buffered = NoPacket /\ scheduled = << >>
    /\ out = << >> /\ phase = "idle" /\ closed = FALSE
    /\ wire = {} /\ pnext = 0 /\ got = {}
    /\ processed = {} /\ again = {}

-----------------------------------------------------------------------------
(***************************************************************************)
(* The peer: sends its packets in the order of their numbers, acknowledges *)
(* only what it has received, and may leave any of it unacknowledged.      *)
(***************************************************************************)
PeerSends ==
    /\ pnext <= MaxPackno
    /\ \E ackable \in BOOLEAN, acks \in {{}, got} :
         wire' = wire \cup {[packno |-> pnext, ackable |-> ackable, acks |-> acks]}
    /\ pnext' = pnext + 1
    /\ UNCHANGED <<hist, state, acki, ctl, queue, out, phase, closed, got, ghost>>

PeerReceives(n) ==
    /\ n \in DOMAIN out \ got
    /\ got' = got \cup {n}
    /\ UNCHANGED <<hist, state, acki, ctl, queue, out, phase, closed, wire, pnext, ghost>>

-----------------------------------------------------------------------------
(***************************************************************************)
(* lsquic_send_ctl_got_ack(), as far as it concerns ACK frames, and the    *)
(* trimming of the history that process_ack() does with its result.  R is  *)
(* the history at that point.  The last newly acknowledged packet with an  *)
(* ACK frame decides; a loss record has lost the largest number that the   *)
(* frame reported.  Packets below the largest acknowledged one may be      *)
(* declared lost.                                                          *)
(***************************************************************************)
WithAck(acks) == {n \in acks \cap (unacked \cup loss_records) : HasAck(out[n])}
Ack2ed(n) == IF n \in loss_records THEN 0 ELSE out[n].ack2ed
MayBeLost(acks) == {n \in unacked \ acks : \E m \in acks : n < m}

CutoffFor_bug(a) == a + 2
CutoffFor(a) == a + 1

Lose(lost, rest) ==
    /\ unacked' = rest \ lost
    /\ lost_ack' = (lost_ack \/ \E n \in lost : HasAck(out[n]))

ProcessAck(acks, R) ==
    \E lost \in SUBSET MayBeLost(acks) :
       /\ Lose(lost, unacked \ acks)
       /\ loss_records' = (loss_records \ acks) \cup {n \in lost : out[n].data}
       /\ \/ WithAck(acks) = {} /\ UNCHANGED largest_ack2ed
          \/ \E n \in WithAck(acks) :
                /\ IsLargest(n, WithAck(acks))
                /\ largest_ack2ed' = IF Ack2ed(n) > largest_ack2ed
                                     THEN Ack2ed(n) ELSE largest_ack2ed
       /\ IF largest_ack2ed' # 0
          THEN /\ cutoff' = CutoffFor(largest_ack2ed')
               /\ recvd' = {p \in R : p >= cutoff'}
          ELSE recvd' = R /\ UNCHANGED cutoff

(***************************************************************************)
(* process_ack_frame(): ACK frames that arrive in packets older than the   *)
(* newest one with an ACK frame are ignored.  The first ACK frame since    *)
(* the last tick is saved for the tick; later ones are merged into it, or  *)
(* if they cannot be, push it out.                                         *)
(***************************************************************************)
ProcessAckFrame(packet, R) ==
    IF packet.acks = {} \/ packet.packno <= max_ack_packno
    THEN recvd' = R /\ UNCHANGED <<cutoff, acki, ctl>>
    ELSE /\ max_ack_packno' = packet.packno
         /\ \/ /\ saved' = saved \cup packet.acks
               /\ recvd' = R /\ UNCHANGED <<cutoff, ctl>>
            \/ /\ saved # {}
               /\ ProcessAck(saved, R)
               /\ saved' = packet.acks

(***************************************************************************)
(* Whether there is a gap between p and the largest number received.       *)
(***************************************************************************)
HolesAfter(p, R, c) ==
    /\ \E l \in Lows(R) : p < l /\ \A k \in Lows(R) : k <= l
    /\ p > c

TryQueueingAckApp_bug(max_gap, smaller, ce, will_write) ==
    IF \/ slack_akbl' >= RetxSinceAck \/ ce \/ max_gap
       \/ had_miss /\ smaller /\ slack_akbl' > 0
       \/ slack_all' > AnySinceAck /\ will_write
    THEN queued' = TRUE /\ alarm' = FALSE
    ELSE UNCHANGED <<queued, alarm>>

(***************************************************************************)
(* try_queueing_ack_app() after a packet has been recorded: ce says it was *)
(* marked by a congested router and ECN is on; will_write that frames are  *)
(* about to be written.                                                    *)
(***************************************************************************)
TryQueueingAckApp(max_gap, smaller, ce, will_write) ==
    IF queued THEN UNCHANGED <<queued, alarm>>
    ELSE IF \/ slack_akbl' >= RetxSinceAck
            \/ ce
            \/ max_gap
            \/ had_miss /\ smaller /\ slack_akbl' > 0
            \/ slack_all' > AnySinceAck /\ will_write
    THEN queued' = TRUE /\ alarm' = FALSE
    ELSE alarm' = (alarm \/ slack_akbl' > 0) /\ UNCHANGED queued

(***************************************************************************)
(* process_regular_packet() on a packet that has been decrypted.           *)
(***************************************************************************)
Accept(packet) ==
    /\ Verdict(recvd, cutoff, packet.packno) = "ok"
    /\ ProcessAckFrame(packet, Recorded(recvd, packet.packno, MaxRanges))
    /\ slack_akbl' = slack_akbl + (IF packet.ackable THEN 1 ELSE 0)
    /\ slack_all' = slack_all + 1
    /\ max_akbl_in' = IF packet.ackable /\ packet.packno > max_akbl_in
                      THEN packet.packno ELSE max_akbl_in
    /\ \E ce, will_write \in BOOLEAN :
         TryQueueingAckApp(
            /\ packet.ackable
            /\ recvd # {}
            /\ max_akbl_in + 1 < packet.packno
            /\ HolesAfter(max_akbl_in, recvd', cutoff'),
            packet.ackable /\ packet.packno < max_akbl_in,
            ce, will_write)
    /\ processed' = processed \cup {packet.packno}
    /\ again' = again \cup ({packet.packno} \cap processed)
    /\ UNCHANGED <<had_miss, queue, out, phase, closed, peer>>

Abort ==
    /\ closed' = TRUE
    /\ UNCHANGED <<hist, state, acki, ctl, queue, out, peer, ghost>>

Arrives(packet) ==
    /\ phase = "idle" /\ ~closed
    /\ packet \in wire
    /\ IF Verdict(recvd, cutoff, packet.packno) = "err"
       THEN Abort /\ UNCHANGED phase
       ELSE Accept(packet)

-----------------------------------------------------------------------------
(***************************************************************************)
(* generate_ack_frame_for_pns(): the ACK frame reports the whole history;  *)
(* an empty history is an error that aborts the connection.                *)
(***************************************************************************)
AckPacket(m, data) == Packet(recvd, m, data)
ResetAckState(m) ==
    /\ lost_ack' = FALSE
    /\ largest_acked' = m
    /\ had_miss' = (Cardinality(Lows(recvd)) > 1)
    /\ slack_akbl' = 0 /\ slack_all' = 0
    /\ queued' = FALSE /\ alarm' = FALSE
    /\ UNCHANGED max_akbl_in

(***************************************************************************)
(* A stream is written outside of a tick: the first buffered packet gets   *)
(* an ACK frame if there is anything to acknowledge.                       *)
(***************************************************************************)
GetBufferedPacket ==
    /\ phase = "idle" /\ ~closed
    /\ buffered = NoPacket
    /\ slack_akbl > 0               \* ietf_full_conn_ci_can_write_ack()
    /\ \E m \in recvd :
         /\ IsLargest(m, recvd)
         /\ buffered' = AckPacket(m, TRUE)
         /\ ResetAckState(m)
    /\ UNCHANGED <<hist, acki, largest_ack2ed, unacked, loss_records, scheduled,
                   out, phase, closed, peer, ghost>>

(***************************************************************************)
(* The retransmission alarm declares packets lost.                         *)
(***************************************************************************)
RetxAlarmExpires ==
    /\ phase = "idle" /\ ~closed
    /\ \E lost \in SUBSET unacked \ {{}} :
         /\ Lose(lost, unacked)
         /\ loss_records' = loss_records \cup {n \in lost : out[n].data}
    /\ UNCHANGED <<hist, state, acki, largest_ack2ed, queue, out, phase, closed,
                   peer, ghost>>

TickIn_bug(due) ==
    /\ phase = "idle" /\ ~closed
    /\ IF saved # {}
       THEN ProcessAck(saved, recvd) /\ saved' = {}
       ELSE UNCHANGED <<hist, saved, ctl>>
    /\ alarm' = (alarm /\ ~due)
    /\ UNCHANGED queued
    /\ phase' = "write"
    /\ UNCHANGED <<had_miss, slack_akbl, slack_all, max_akbl_in, max_ack_packno,
                   queue, out, closed, peer, ghost>>

(***************************************************************************)
(* The first part of ietf_full_conn_ci_tick(): the saved ACK is processed, *)
(* expired alarms ring.                                                    *)
(***************************************************************************)
TickIn(due) ==
    /\ phase = "idle" /\ ~closed
    /\ IF saved # {}
       THEN ProcessAck(saved, recvd) /\ saved' = {}
       ELSE UNCHANGED <<hist, saved, ctl>>
    /\ alarm' = (alarm /\ ~due)
    /\ queued' = (queued \/ (alarm /\ due))
    /\ phase' = "write"
    /\ UNCHANGED <<had_miss, slack_akbl, slack_all, max_akbl_in, max_ack_packno,
                   queue, out, closed, peer, ghost>>

(***************************************************************************)
(* The packets that went unsent in an earlier tick: those with nothing but *)
(* an ACK frame are dropped, and if any is, or if a new ACK frame is put   *)
(* in front, the others will be given new numbers, losing their ACK frame. *)
(***************************************************************************)
Chopped(packet) == Packet({}, 0, packet.data)
SqueezeSched(packets) ==
    LET kept == {i \in DOMAIN packets : packets[i].data}
    IN  IF kept = DOMAIN packets THEN packets
        ELSE [i \in 1 .. Cardinality(kept) |-> DataPacket]

(***************************************************************************)
(* lsquic_send_ctl_schedule_buffered() does not let an ACK frame go out    *)
(* after one that was generated later and reports a larger number.         *)
(***************************************************************************)
ScheduleBuffered ==
    IF buffered = NoPacket THEN << >>
    ELSE IF buffered.ack2ed < largest_acked' THEN <<Chopped(buffered)>>
    ELSE <<buffered>>

(***************************************************************************)
(* With packets delayed from an earlier tick, only an ACK frame is added.  *)
(***************************************************************************)
WriteDelayed(delayed, owed) ==
    /\ IF owed
       THEN \E m \in recvd :
              /\ IsLargest(m, recvd)
              /\ ResetAckState(m)
              /\ scheduled' = <<AckPacket(m, FALSE)>>
                                \o [i \in DOMAIN delayed |-> Chopped(delayed[i])]
       ELSE scheduled' = delayed /\ UNCHANGED <<state, lost_ack, largest_acked>>
    /\ UNCHANGED buffered

(***************************************************************************)
(* Otherwise an ACK frame, if one is wanted, whose packet may have room    *)
(* for what there is to write; then the buffered packets.                  *)
(***************************************************************************)
WriteNew(wanted, will_write) ==
    /\ IF wanted
       THEN \E m \in recvd, data \in {FALSE, will_write} :
              /\ IsLargest(m, recvd)
              /\ ResetAckState(m)
              /\ scheduled' = <<AckPacket(m, data)>> \o ScheduleBuffered
       ELSE \E packets \in IF will_write THEN {<<DataPacket>>}
                           ELSE {<< >>} :
              /\ UNCHANGED <<state, lost_ack, largest_acked>>
              /\ scheduled' = packets \o ScheduleBuffered
    /\ buffered' = NoPacket

(***************************************************************************)
(* The second part of the tick, when neither the pacer nor the congestion  *)
(* window stands in the way: an ACK frame is generated if one is queued or *)
(* was lost, or if there is something to write; then the rest is written.  *)
(***************************************************************************)
TickWrite(will_write) ==
    /\ phase = "write"
    /\ phase' = "send"
    /\ LET delayed == SqueezeSched(scheduled)
           owed    == queued \/ lost_ack
           wanted  == owed \/ (delayed = << >> /\ slack_akbl > 0 /\ will_write)
       IN
         IF wanted /\ recvd = {} THEN Abort
         ELSE /\ IF delayed # << >> THEN WriteDelayed(delayed, owed)
                 ELSE WriteNew(wanted, will_write)
              /\ UNCHANGED <<hist, acki, largest_ack2ed, unacked, loss_records,
                             out, closed, peer, ghost>>

(***************************************************************************)
(* The pacer or the congestion window prevents writing: the tick ends.     *)
(***************************************************************************)
TickBlocked ==
    /\ phase = "write"
    /\ phase' = "send"
    /\ UNCHANGED <<hist, state, acki, ctl, queue, out, closed, peer, ghost>>

NumbersFor(k) == Len(out) + 1 .. Len(out) + k

(***************************************************************************)
(* The engine sends the first k scheduled packets.                         *)
(***************************************************************************)
SendPackets(k) ==
    /\ phase = "send"
    /\ k \in 0 .. Len(scheduled)
    /\ SendFails \/ k = Len(scheduled)
    /\ Len(out) + k <= MaxOut
    /\ out' = out \o SubSeq(scheduled, 1, k)
    /\ unacked' = unacked \cup NumbersFor(k)
    /\ scheduled' = SubSeq(scheduled, k + 1, Len(scheduled))
    /\ phase' = "idle"
    /\ UNCHANGED <<hist, state, acki, lost_ack, largest_ack2ed, loss_records,
                   largest_acked, buffered, closed, peer, ghost>>

Next ==
    \/ PeerSends
    \/ \E n \in 1 .. MaxOut : PeerReceives(n)
    \/ \E packet \in wire : Arrives(packet)
    \/ GetBufferedPacket
    \/ RetxAlarmExpires
    \/ \E due \in BOOLEAN : TickIn(due)
    \/ \E will_write \in BOOLEAN : TickWrite(will_write)
    \/ TickBlocked
    \/ \E k \in 0 .. MaxOut : SendPackets(k)

Spec == Init /\ [][Next]_vars

(***************************************************************************)
(* A connection with something to do is ticked again and again: it is in   *)
(* the Tickable queue, or in the Advisory Tick Time queue for its next     *)
(* alarm, which is then due.  The pacer does not block forever, and the    *)
(* operating system eventually takes the packets.                          *)
(***************************************************************************)
Fairness ==
    /\ SF_vars(TickIn(TRUE))
    /\ SF_vars(\E will_write \in BOOLEAN : TickWrite(will_write))
    /\ WF_vars(TickBlocked)
    /\ WF_vars(\E k \in 0 .. MaxOut : SendPackets(k))
FairSpec == Spec /\ Fairness

-----------------------------------------------------------------------------
TypeOK ==
    /\ recvd \subseteq Packno /\ cutoff \in Nat
    /\ queued \in BOOLEAN /\ alarm \in BOOLEAN /\ had_miss \in BOOLEAN
    /\ slack_akbl \in Nat /\ slack_all \in Nat /\ max_akbl_in \in Packno
    /\ max_ack_packno \in Packno \cup {NoPackno}
    /\ saved \subseteq 1 .. MaxOut
    /\ lost_ack \in BOOLEAN
    /\ largest_acked \in Packno /\ largest_ack2ed \in Packno
    /\ unacked \subseteq DOMAIN out /\ loss_records \subseteq DOMAIN out
    /\ buffered \in Outgoing
    /\ scheduled \in Seq(Outgoing) /\ out \in Seq(Outgoing)
    /\ Len(out) <= MaxOut
    /\ phase \in {"idle", "write", "send"} /\ closed \in BOOLEAN
    /\ wire \subseteq Incoming
    /\ pnext \in Nat
    /\ got \subseteq DOMAIN out
    /\ processed \subseteq Packno /\ again \subseteq Packno

(***************************************************************************)
(* Whatever the network does to the packets of a peer that follows the     *)
(* protocol, the connection is not aborted: no ACK frame is ever wanted of *)
(* an empty history, and no late copy of a packet is an error.  Both would *)
(* happen if trimming the history could empty it.                          *)
(***************************************************************************)
NeverAborted == ~closed

(***************************************************************************)
(* A packet that has to be acknowledged, is still in the history and has   *)
(* not been reported in any ACK frame sent so far, is on its way to being  *)
(* reported: an ACK frame is queued, or the ACK alarm is set, or a packet  *)
(* with an ACK frame that reports it waits to be sent.                     *)
(***************************************************************************)
Ackable == {packet.packno : packet \in {w \in wire : w.ackable}}
Reported == UNION {out[n].covers : n \in DOMAIN out}
Unreported == (recvd \cap processed \cap Ackable) \ Reported
AckIsPending ==
    \A p \in Unreported :
       \/ queued \/ alarm \/ lost_ack
       \/ p \in buffered.covers
       \/ \E i \in DOMAIN scheduled : p \in scheduled[i].covers

(***************************************************************************)
(* The frames of a packet are not processed twice, as long as the history  *)
(* does not have to forget ranges to stay within its limit.                *)
(***************************************************************************)
ProcessedOnce == again = {}

(***************************************************************************)
(* Duplicated, reordered and late packets do no harm: they neither abort   *)
(* the connection nor have their frames processed again.                   *)
(***************************************************************************)
DeliveryIsTolerated == NeverAborted /\ ProcessedOnce

(***************************************************************************)
(* Every received packet that has to be acknowledged is reported in an ACK *)
(* frame that is sent, or falls below the cutoff because the peer has      *)
(* acknowledged a report of a later packet.  A connection that has used up *)
(* its bound on outgoing packets is excused.                               *)
(***************************************************************************)
EveryPacketIsReported ==
    \A p \in Packno :
       p \in Unreported ~> \/ p \notin Unreported
                          \/ Len(out) + Len(scheduled) > MaxOut
-----------------------------------------------------------------------------
(***************************************************************************)
(* The inductive invariants behind AckIsPending and DeliveryIsTolerated.   *)
(*                                                                         *)
(* Packets of the peer: numbers are not reused, and only what was sent is  *)
(* processed and remembered.                                               *)
(***************************************************************************)
PeerInv ==
    /\ \A w \in wire : w.packno < pnext
    /\ \A v, w \in wire : v.packno = w.packno => v = w
    /\ recvd \subseteq processed
    /\ processed \subseteq {w.packno : w \in wire}

(***************************************************************************)
(* When the engine sends everything, nothing waits to be sent between two  *)
(* ticks but the buffered packet, whose ACK frame is the latest generated. *)
(***************************************************************************)
QueueInv ==
    /\ phase # "send" => scheduled = << >>
    /\ buffered # NoPacket => buffered.ack2ed = largest_acked

PendingInv == TypeOK /\ PeerInv /\ QueueInv /\ AckIsPending

(***************************************************************************)
(* An ACK frame reports packets that were processed, all of them numbered  *)
(* below the packets in which the peer acknowledges it; the largest number *)
(* processed is always in the history.                                     *)
(***************************************************************************)
Sane(packet) ==
    /\ packet.covers \subseteq processed
    /\ HasAck(packet) => packet.ack2ed \in packet.covers
AckedAfter(acks, p) == \A n \in acks : n \in DOMAIN out /\ \A q \in out[n].covers : q < p
FramesInv ==
    /\ \A n \in DOMAIN out : Sane(out[n])
    /\ \A i \in DOMAIN scheduled : Sane(scheduled[i])
    /\ Sane(buffered)
    /\ \A w \in wire : AckedAfter(w.acks, w.packno)
    /\ saved # {} => max_ack_packno \in processed /\ AckedAfter(saved, max_ack_packno)
CutoffAt(a) == IF a = 0 THEN 0 ELSE a + 1
HistoryInv ==
    /\ processed # {} => \E m \in recvd : \A q \in processed : q <= m
    /\ largest_ack2ed # 0 => \E q \in processed : q > largest_ack2ed
    /\ cutoff = CutoffAt(largest_ack2ed)
    /\ queued \/ alarm \/ lost_ack \/ slack_akbl > 0 => processed # {}

ToleranceInv == TypeOK /\ PeerInv /\ FramesInv /\ HistoryInv /\ NeverAborted

(***************************************************************************)
(* What was processed is remembered, or lies below the cutoff.             *)
(***************************************************************************)
RememberedInv == /\ processed \subseteq recvd \cup {p \in Packno : p < cutoff}
                 /\ ProcessedOnce

=============================================================================

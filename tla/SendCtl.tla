------------------------------ MODULE SendCtl ------------------------------
(***************************************************************************)
(* The send controller, lsquic_send_ctl.c, in the application packet       *)
(* number space: packets go from the Buffered Queue to the Scheduled       *)
(* Queue, into a batch of the engine, to the Unacked Queue and, when they  *)
(* are declared lost, over the Lost Queue back to the Scheduled Queue.     *)
(* Packet numbers are given when packets are scheduled and taken back when *)
(* scheduled packets go away.  The peer acknowledges any of the packets it *)
(* was sent, at any time and in any order; the operating system may refuse *)
(* packets.  Congestion window, pacing rate and timers are nondeterminism. *)
(*                                                                         *)
(* A packet carries frames of up to three kinds: "ack", which is not sent  *)
(* again (a REGEN frame); "stream", of a stream that may be reset; and     *)
(* "ctl", any other frame that must be delivered.                          *)
(***************************************************************************)
EXTENDS Integers, FiniteSets, FiniteSetsExt, Sequences, SequencesExt

CONSTANTS
    MaxPackno,      \* bound: packet numbers are 0..MaxPackno
    MaxPackets,     \* bound: packets that are created
    MaxBuffered,    \* send_ctl_max_bpq_count()
    Kinds,          \* the kinds of frames with data that are written
    Gaps,           \* the values sc_gap may have at first
    Events          \* which of the rarer events happen

ASSUME SendCtlAssumption ==
    /\ MaxPackno \in Nat /\ MaxPackets \in Nat
    /\ MaxBuffered \in Nat
    /\ Kinds \subseteq {"stream", "ctl"}
    /\ Gaps \subseteq Nat
    /\ Events \subseteq {"pacer_blocks", "send_unsent", "reset_while_writing",
                         "blocked_frame", "no_memory"}

VARIABLES
    cur,            \* sc_cur_packno
    largest,        \* sc_senhist: the largest number sent
    gap,            \* sc_gap: the number that is skipped
    sched,          \* sc_scheduled_packets with sc_bytes_scheduled
    batch,          \* the packets in the engine's batch
    unacked,        \* sc_unacked_packets[PNS_APP]
    lost,           \* sc_lost_packets
    buffered,       \* sc_buffered_packets
    largest_acked,  \* sc_largest_acked_packno
    alarm,          \* whether AL_RETX_APP is set
    phase,          \* where the connection is in its tick
    reset,          \* whether the stream has been reset
    aborted,        \* an ACK frame was refused
    n_packets,      \* packets created so far; names the next one
    wire,           \* history: the packets sent, as sent and as recorded
    misacked,       \* history: packets taken for acknowledged that were not
    owed,           \* history: the frames that have to be delivered
    skipped         \* history: the numbers left out on purpose

numbers == <<cur, largest, gap>>
ghost   == <<wire, misacked, owed, skipped>>
vars    == <<numbers, sched, batch, unacked, lost, buffered, largest_acked,
             alarm, phase, reset, aborted, n_packets, ghost>>

Frames == {"ack", "stream", "ctl"}
NoPackno == -1
NotEncrypted == [no |-> NoPackno, frames |-> {}]

(***************************************************************************)
(* struct lsquic_packet_out.  The packets with the same id are the loss    *)
(* chain: one real packet and its loss records.                            *)
(***************************************************************************)
Packet(no, id, frames) ==
    [no     |-> no,             \* po_packno
     id     |-> id,
     frames |-> frames,         \* po_frame_types
     rec    |-> "packet",       \* or PO_LOSS_REC, PO_POISON
     re     |-> FALSE,          \* PO_REPACKNO
     retx   |-> FALSE,          \* PO_RETX
     enc    |-> NotEncrypted]   \* PO_ENCRYPTED, and what the ciphertext holds
Poison == [Packet(gap, 0, {}) EXCEPT !.rec = "poison"]

HasData(p) == p.frames \ {"ack"} # {}
IsReal(p) == p.rec = "packet"

(***************************************************************************)
(* A walk over a queue that leaves only the packets of set S on it, and    *)
(* one that takes those of some loss chains off it.                        *)
(***************************************************************************)
Only(queue, S) ==
    LET left[n \in 0 .. Len(queue)] ==
          IF n = 0 THEN << >>
          ELSE IF queue[n] \in S THEN Append(left[n - 1], queue[n])
          ELSE left[n - 1]
    IN  left[Len(queue)]
Without(queue, ids) == Only(queue, {p \in ToSet(queue) : p.id \notin ids})

Init ==
    /\ cur = NoPackno /\ largest = NoPackno /\ gap \in Gaps
    /\ sched = [q |-> << >>, bytes |-> 0]
    /\ batch = << >> /\ unacked = << >> /\ lost = << >> /\ buffered = << >>
    /\ largest_acked = 0 /\ alarm = FALSE
    /\ phase = "idle" /\ reset = FALSE /\ aborted = FALSE
    /\ n_packets = 0
    /\ wire = << >> /\ misacked = {} /\ owed = {} /\ skipped = {}

-----------------------------------------------------------------------------
(***************************************************************************)
(* The Scheduled Queue and the count of its bytes: a header and a frame    *)
(* are one byte each.                                                      *)
(***************************************************************************)
Size(p) == 1 + Cardinality(p.frames)
BytesOf(queue) ==
    LET bytes[n \in 0 .. Len(queue)] ==
          IF n = 0 THEN 0 ELSE bytes[n - 1] + Size(queue[n])
    IN  bytes[Len(queue)]
SchedAppend(s, p) == [q |-> Append(s.q, p), bytes |-> s.bytes + Size(p)]
SchedPrepend(s, p) == [q |-> <<p>> \o s.q, bytes |-> s.bytes + Size(p)]
SchedRemove(s, i) == [q |-> RemoveAt(s.q, i), bytes |-> s.bytes - Size(s.q[i])]

NextPackno_bug == cur + 1
NextPackno == IF cur + 1 = gap THEN cur + 2 ELSE cur + 1    \* send_ctl_next_packno()

ResetPacknos(s) ==
    [s EXCEPT !.q = [i \in DOMAIN s.q |-> [s.q[i] EXCEPT !.re = TRUE]]]

RenumberToRight_bug(q, i) == q
(***************************************************************************)
(* send_ctl_maybe_renumber_sched_to_right(): those after i, up to the      *)
(* first one that already waits for a new number.                          *)
(***************************************************************************)
RenumberToRight(q, i) ==
    [j \in DOMAIN q |->
       IF j > i /\ \A k \in i .. j : ~q[k].re THEN [q[j] EXCEPT !.re = TRUE]
       ELSE q[j]]

(***************************************************************************)
(* A scheduled packet of an acknowledged loss chain goes away; s has the   *)
(* queue, its bytes and sc_cur_packno.                                     *)
(***************************************************************************)
DropAcked(s, id) ==
    LET i == SelectInSeq(s.q, LAMBDA p : p.id = id)
    IN  IF i = 0 THEN s
        ELSE [q     |-> RemoveAt(RenumberToRight(s.q, i), i),
              bytes |-> s.bytes - Size(s.q[i]),
              cur   |-> IF s.q[i].re THEN s.cur ELSE s.q[i].no - 1]
DropAllAcked(ids) ==
    LET dropped[n \in 0 .. Len(ids)] ==
          IF n = 0 THEN [q |-> sched.q, bytes |-> sched.bytes, cur |-> cur]
          ELSE DropAcked(dropped[n - 1], ids[n])
    IN  dropped[Len(ids)]

-----------------------------------------------------------------------------
(***************************************************************************)
(* send_ctl_record_loss() and send_ctl_handle_regular_lost_packet() for    *)
(* the packets of queue u that are in L, in the order of the queue.  A     *)
(* record stays where the packet was, if there is memory for it.  When a   *)
(* packet without data is lost, it is destroyed with its loss chain.       *)
(***************************************************************************)
RecordLoss(u, L, recorded) ==
    LET gone   == {p.id : p \in {r \in L : ~HasData(r)}}
        marked == [i \in DOMAIN u |->
                     IF u[i] \in L THEN [u[i] EXCEPT !.rec = "record"] ELSE u[i]]
    IN  Only(marked, {p \in ToSet(marked) :
                        /\ p.id \notin gone
                        /\ recorded \/ [p EXCEPT !.rec = "packet"] \notin L})
LostFrom_bug(u, L) == Only(u, {p \in L : "ack" \notin p.frames})
LostFrom(u, L) == Only(u, {p \in L : HasData(p)})
MemoryFor(recorded) == recorded \/ "no_memory" \in Events

(***************************************************************************)
(* The packets send_ctl_detect_losses() may declare lost: it stops at the  *)
(* first number above the largest acknowledged one.                        *)
(***************************************************************************)
Losable(u, la) ==
    {u[i] : i \in {j \in DOMAIN u : /\ IsReal(u[j])
                                    /\ \A k \in 1 .. j : u[k].no <= la}}

RetxUnacked(u) == {i \in DOMAIN u : IsReal(u[i]) /\ HasData(u[i])}

-----------------------------------------------------------------------------
(***************************************************************************)
(* lsquic_send_ctl_got_ack(): the walk over the Unacked Queue against the  *)
(* ranges of the ACK frame, which are the ranges of A.  The range at hand, *)
(* named by its highest number, only moves up; once a packet is found in   *)
(* the highest range the rest is not compared any more.  The walk stops at *)
(* the first number above the largest acknowledged one.                    *)
(***************************************************************************)
Highs(A) == {n \in A : n + 1 \notin A}
InRange(n, h, A) == n <= h /\ \A k \in n .. h : k \in A

Visit_bug(A, acc, p) ==
    LET top == Max(A)
        h   == Min({r \in Highs(A) : r >= p.no /\ r >= acc.range} \cup {top})
        hit == acc.skip \/ InRange(p.no, h, A)
    IN  IF acc.stop \/ acc.bad \/ p.id \in ToSet(acc.ids) THEN acc
        ELSE IF p.no > top THEN [acc EXCEPT !.stop = TRUE]
        ELSE IF ~hit THEN [acc EXCEPT !.range = h]
        ELSE IF p.rec = "poison" THEN [acc EXCEPT !.bad = TRUE]
        ELSE [acc EXCEPT !.range = h, !.skip = TRUE,
                         !.largest = p.no, !.ids = Append(@, p.id)]
Visit(A, acc, p) ==
    LET top == Max(A)
        h   == Min({r \in Highs(A) : r >= p.no /\ r >= acc.range} \cup {top})
        hit == acc.skip \/ InRange(p.no, h, A)
    IN  IF acc.stop \/ acc.bad \/ p.id \in ToSet(acc.ids) THEN acc
        ELSE IF p.no > top THEN [acc EXCEPT !.stop = TRUE]
        ELSE IF ~hit THEN [acc EXCEPT !.range = h]
        ELSE IF p.rec = "poison" THEN [acc EXCEPT !.bad = TRUE]
        ELSE [acc EXCEPT !.range = h, !.skip = @ \/ h = top,
                         !.largest = p.no, !.ids = Append(@, p.id)]
Walk(A) ==
    LET acc[n \in 0 .. Len(unacked)] ==
          IF n = 0
          THEN [ids |-> << >>, range |-> 0, skip |-> FALSE, stop |-> FALSE,
                bad |-> FALSE, largest |-> largest_acked]
          ELSE Visit(A, acc[n - 1], unacked[n])
    IN  acc[Len(unacked)]

(***************************************************************************)
(* send_ctl_reschedule_poison(), when the ACK frame reports only numbers   *)
(* above the skipped one: the poisoned packet is taken out and another     *)
(* number will be skipped.  (The code adds a random byte to the current    *)
(* number.)                                                                *)
(***************************************************************************)
ReschedulePoison(u, A, c) ==
    IF gap < Min(A) /\ \E i \in DOMAIN u : u[i].rec = "poison"
    THEN /\ unacked' = Only(u, {p \in ToSet(u) : p.rec # "poison"})
         /\ gap' \in c + 1 .. c + 2
    ELSE unacked' = u /\ UNCHANGED gap

ReportedIn(A) ==
    {wire[i].id : i \in {j \in DOMAIN wire : wire[j].enc.no \in A}}

GotAck(A) ==
    /\ phase = "idle" /\ ~aborted
    /\ A # {} /\ A \subseteq {wire[i].enc.no : i \in DOMAIN wire}
    /\ IF Max(A) > largest \/ Walk(A).bad
       THEN aborted' = TRUE
            /\ UNCHANGED <<numbers, sched, unacked, lost, largest_acked, alarm, owed, misacked>>
       ELSE LET ids  == Walk(A).ids
                left == Without(unacked, ToSet(ids))
                s    == DropAllAcked(ids)
            IN  \E L \in SUBSET Losable(left, Walk(A).largest), recorded \in BOOLEAN :
                  /\ MemoryFor(recorded)
                  /\ largest_acked' = Walk(A).largest
                  /\ cur' = s.cur
                  /\ sched' = [q |-> s.q, bytes |-> s.bytes]
                  /\ lost' = Without(lost, ToSet(ids)) \o LostFrom(left, L)
                  /\ LET u == RecordLoss(left, L, recorded) IN
                       /\ ReschedulePoison(u, A, s.cur)
                       /\ alarm' \in IF unacked = << >> THEN {alarm}
                                     ELSE IF RetxUnacked(u) = {} THEN {FALSE}
                                     ELSE {alarm, TRUE}
                  /\ owed' = {o \in owed : o[1] \notin ToSet(ids)}
                  /\ misacked' = misacked \cup (ToSet(ids) \ ReportedIn(A))
                  /\ UNCHANGED <<largest, aborted>>
    /\ UNCHANGED <<batch, buffered, phase, reset, n_packets, wire, skipped>>

RearmedAfter_bug(u) == FALSE
RearmedAfter(u) == RetxUnacked(u) # {}

(***************************************************************************)
(* retx_alarm_rings(): by loss detection, by tail loss probe (the last     *)
(* packet with data) or by retransmission timeout (all of them).           *)
(***************************************************************************)
RetxAlarmRings ==
    /\ phase = "idle" /\ ~aborted
    /\ alarm
    /\ \E L \in (SUBSET Losable(unacked, largest_acked))
                \cup {{unacked[i] : i \in {j \in DOMAIN unacked : IsReal(unacked[j])}}}
                \cup {{unacked[Max(RetxUnacked(unacked))]} : i \in RetxUnacked(unacked)},
          recorded \in BOOLEAN :
         /\ MemoryFor(recorded)
         /\ unacked' = RecordLoss(unacked, L, recorded)
         /\ lost' = lost \o LostFrom(unacked, L)
         /\ alarm' = RearmedAfter(unacked')
    /\ UNCHANGED <<numbers, sched, batch, buffered, largest_acked, phase, reset,
                   aborted, n_packets, ghost>>

-----------------------------------------------------------------------------
(***************************************************************************)
(* A walk over queue q, the Scheduled Queue, that drops the packets of D,  *)
(* each with its loss chain: what is left of the queue and of its bytes,   *)
(* and the ids dropped.                                                    *)
(***************************************************************************)
DropPackets(q, bytes, D) ==
    [q     |-> Only(q, ToSet(q) \ D),
     bytes |-> bytes - BytesOf(Only(q, D)),
     ids   |-> {p.id : p \in ToSet(q) \cap D}]

(***************************************************************************)
(* After the walk: if anything was dropped, every packet still there will  *)
(* be given a new number.                                                  *)
(***************************************************************************)
RestAfter(s) ==
    LET rest == [q |-> s.q, bytes |-> s.bytes]
    IN  IF s.ids = {} THEN rest ELSE ResetPacknos(rest)
CurAfter(s) == IF s.ids = {} THEN cur ELSE largest

(***************************************************************************)
(* lsquic_send_ctl_elide_stream_frames(): the frames of the reset stream   *)
(* leave the scheduled and the buffered packets.                           *)
(***************************************************************************)
Elided(p) == [p EXCEPT !.frames = @ \ {"stream"}]
ElidedAll(queue) == [i \in DOMAIN queue |-> Elided(queue[i])]
WithFrames(queue) == Only(queue, {p \in ToSet(queue) : p.frames # {}})
ElidedSched ==
    LET q    == ElidedAll(sched.q)
        less == Cardinality({i \in DOMAIN q : "stream" \in sched.q[i].frames})
    IN  DropPackets(q, sched.bytes - less, {p \in ToSet(q) : p.frames = {}})

ElideStreamFrames_bug(s) ==
    /\ sched' = RestAfter(s)
    /\ cur' = CurAfter(s)
    /\ UNCHANGED unacked
    /\ buffered' = WithFrames(ElidedAll(buffered))
ElideStreamFrames(s) ==
    /\ sched' = RestAfter(s)
    /\ cur' = CurAfter(s)
    /\ unacked' = Without(unacked, s.ids)
    /\ buffered' = WithFrames(ElidedAll(buffered))

ResetStream ==
    /\ \/ phase = "idle"
       \/ phase = "streams" /\ "reset_while_writing" \in Events
    /\ ~aborted /\ ~reset
    /\ "stream" \in Kinds
    /\ reset' = TRUE
    /\ ElideStreamFrames(ElidedSched)
    /\ UNCHANGED <<largest, gap, batch, lost, largest_acked, alarm, phase,
                   aborted, n_packets, ghost>>

-----------------------------------------------------------------------------
(***************************************************************************)
(* New packets.  A frame goes into the last packet of the queue if it fits *)
(* and the packet is not a retransmission; otherwise into a new one.       *)
(***************************************************************************)
MayCreate == n_packets < MaxPackets
MayNumber == NextPackno <= MaxPackno
Owe(id, frames) == owed' = owed \cup {<<id, f>> : f \in frames \ {"ack"}}

ScheduleNew(s, frames) ==
    /\ MayCreate /\ MayNumber
    /\ n_packets' = n_packets + 1
    /\ cur' = NextPackno
    /\ sched' = SchedAppend(s, Packet(NextPackno, n_packets', frames))
    /\ Owe(n_packets', frames)

IncrPackSz(s, i, f) ==
    [s EXCEPT !.q[i].frames = @ \cup {f}, !.bytes = @ + 1]

GetWriteablePacket(f) ==
    \/ /\ sched.q # << >>
       /\ LET i == Len(sched.q) IN
            /\ ~sched.q[i].retx
            /\ f \notin sched.q[i].frames
            /\ sched' = IncrPackSz(sched, i, f)
            /\ Owe(sched.q[i].id, {f})
       /\ UNCHANGED <<cur, n_packets>>
    \/ ScheduleNew(sched, {f})

CanWrite(f) ==
    \/ f = "stream" /\ ~reset /\ phase = "streams"
    \/ f = "ctl" /\ phase \in {"control", "streams"}
    \/ f = "ctl" /\ phase = "idle" /\ "blocked_frame" \in Events
WriteFrame(f) ==
    /\ ~aborted
    /\ CanWrite(f)
    /\ GetWriteablePacket(f)
    /\ UNCHANGED <<largest, gap, batch, unacked, lost, buffered, largest_acked,
                   alarm, phase, reset, aborted, wire, misacked, skipped>>

(***************************************************************************)
(* Writing to a stream outside of a tick: send_ctl_get_buffered_packet()   *)
(* puts an ACK frame into the first buffered packet if there is one to     *)
(* send.                                                                   *)
(***************************************************************************)
WriteBuffered(f, with_ack) ==
    /\ phase = "idle" /\ ~aborted
    /\ f = "stream" => ~reset
    /\ MayCreate /\ Len(buffered) < MaxBuffered
    /\ with_ack => buffered = << >>
    /\ n_packets' = n_packets + 1
    /\ LET frames == IF with_ack THEN {"ack", f} ELSE {f} IN
         /\ buffered' = Append(buffered, Packet(NoPackno, n_packets', frames))
         /\ Owe(n_packets', frames)
    /\ UNCHANGED <<numbers, sched, batch, unacked, lost, largest_acked, alarm,
                   phase, reset, aborted, wire, misacked, skipped>>

-----------------------------------------------------------------------------
(***************************************************************************)
(* The tick.  lsquic_send_ctl_squeeze_sched() drops the delayed packets    *)
(* without data and throws the others' ciphertext away.                    *)
(***************************************************************************)
Plain(queue) == [i \in DOMAIN queue |-> [queue[i] EXCEPT !.enc = NotEncrypted]]
Squeezed ==
    LET s == DropPackets(sched.q, sched.bytes, {p \in ToSet(sched.q) : ~HasData(p)})
    IN  [s EXCEPT !.q = Plain(@)]

(***************************************************************************)
(* With packets delayed, all the tick adds is an ACK frame, in front.      *)
(***************************************************************************)
AckToFront_bug(s, no, id) ==
    SchedAppend(ResetPacknos(s), Packet(no, id, {"ack"}))
AckToFront(s, no, id) ==
    SchedPrepend(ResetPacknos(s), Packet(no, id, {"ack"}))

Tick(with_ack) ==
    /\ phase = "idle" /\ ~aborted
    /\ LET s == Squeezed
           delayed == s.q # << >>
           c == IF delayed /\ with_ack THEN largest ELSE CurAfter(s)
           no == IF c + 1 = gap THEN c + 2 ELSE c + 1
       IN
         /\ unacked' = Without(unacked, s.ids)
         /\ IF with_ack
            THEN /\ MayCreate /\ no <= MaxPackno
                 /\ n_packets' = n_packets + 1
                 /\ cur' = no
                 /\ sched' = IF delayed THEN AckToFront(RestAfter(s), no, n_packets')
                             ELSE SchedAppend(RestAfter(s), Packet(no, n_packets', {"ack"}))
            ELSE /\ cur' = c
                 /\ sched' = RestAfter(s)
                 /\ UNCHANGED n_packets
         /\ phase' = IF delayed THEN "send" ELSE "control"
    /\ UNCHANGED <<largest, gap, batch, lost, buffered, largest_acked, alarm,
                   reset, aborted, ghost>>

(***************************************************************************)
(* The pacer stops the tick before anything is squeezed or written, and    *)
(* the packets still scheduled are sent: or they are sent without a tick,  *)
(* by lsquic_engine_send_unsent_packets() or because other connections     *)
(* have been ticked.                                                       *)
(***************************************************************************)
PacerBlocked ==
    /\ "pacer_blocks" \in Events
    /\ phase = "idle" /\ ~aborted
    /\ sched.q # << >>
    /\ phase' = "send"
    /\ UNCHANGED <<numbers, sched, batch, unacked, lost, buffered, largest_acked,
                   alarm, reset, aborted, n_packets, ghost>>

SendUnsent ==
    /\ "send_unsent" \in Events
    /\ phase = "idle" /\ ~aborted
    /\ sched.q # << >>
    /\ phase' = "send"
    /\ UNCHANGED <<numbers, sched, batch, unacked, lost, buffered, largest_acked,
                   alarm, reset, aborted, n_packets, ghost>>

(***************************************************************************)
(* update_for_resending(): a new number, and the ACK frame is cut off.     *)
(***************************************************************************)
Chopped(p) == [p EXCEPT !.no = NextPackno, !.frames = @ \ {"ack"}, !.re = FALSE]

(***************************************************************************)
(* lsquic_send_ctl_reschedule_packets(): the frames of a reset stream are  *)
(* elided from the first lost packet, which is dropped with its loss chain *)
(* if nothing but an ACK frame remains.                                    *)
(***************************************************************************)
NextLost == IF reset THEN Elided(Head(lost)) ELSE Head(lost)
RescheduleLost ==
    /\ phase = "control"
    /\ lost # << >>
    /\ lost' = Tail(lost)
    /\ IF HasData(NextLost)
       THEN /\ MayNumber
            /\ cur' = NextPackno
            /\ sched' = SchedAppend(sched, [Chopped(NextLost) EXCEPT !.retx = TRUE])
            /\ UNCHANGED unacked
       ELSE /\ unacked' = Without(unacked, {NextLost.id})
            /\ UNCHANGED <<cur, sched>>
    /\ UNCHANGED <<largest, gap, batch, buffered, largest_acked, alarm, phase,
                   reset, aborted, n_packets, ghost>>

(***************************************************************************)
(* The congestion window may leave packets on the Lost Queue.              *)
(***************************************************************************)
WriteStreams ==
    /\ phase = "control"
    /\ phase' = "streams"
    /\ UNCHANGED <<numbers, sched, batch, unacked, lost, buffered, largest_acked,
                   alarm, reset, aborted, n_packets, ghost>>

(***************************************************************************)
(* lsquic_send_ctl_schedule_buffered(): the first packet, whose ACK frame  *)
(* is cut off if a later one has already been generated.                   *)
(***************************************************************************)
ScheduleBuffered(out_of_order) ==
    /\ phase = "streams"
    /\ buffered # << >>
    /\ out_of_order => "ack" \in Head(buffered).frames
    /\ LET p == IF out_of_order THEN [Head(buffered) EXCEPT !.frames = @ \ {"ack"}]
                ELSE Head(buffered)
       IN  IF p.frames = {}
           THEN UNCHANGED <<cur, sched>>
           ELSE /\ MayNumber
                /\ cur' = NextPackno
                /\ sched' = SchedAppend(sched, [p EXCEPT !.no = NextPackno])
    /\ buffered' = Tail(buffered)
    /\ UNCHANGED <<largest, gap, batch, unacked, lost, largest_acked, alarm,
                   phase, reset, aborted, n_packets, ghost>>

EndWrite ==
    /\ phase = "streams"
    /\ phase' = IF sched.q = << >> THEN "idle" ELSE "send"
    /\ UNCHANGED <<numbers, sched, batch, unacked, lost, buffered, largest_acked,
                   alarm, reset, aborted, n_packets, ghost>>

-----------------------------------------------------------------------------
(***************************************************************************)
(* The engine takes a packet for its batch and encrypts it unless that has *)
(* been done before: lsquic_send_ctl_next_packet_to_send() gives the       *)
(* packet its new number, or drops it if it has no data.                   *)
(***************************************************************************)
Encrypted(p) ==
    IF p.enc # NotEncrypted THEN p
    ELSE [p EXCEPT !.enc = [no |-> p.no, frames |-> p.frames]]

UpdateForResending(s, p) ==
    [s EXCEPT !.q[1] = p, !.bytes = @ - Cardinality(s.q[1].frames \cap {"ack"})]

NextPacketToSend ==
    /\ phase = "send"
    /\ sched.q # << >>
    /\ LET p == Head(sched.q) IN
         CASE ~p.re ->
                /\ batch' = Append(batch, Encrypted(p))
                /\ sched' = SchedRemove(sched, 1)
                /\ UNCHANGED <<cur, unacked>>
           [] p.re /\ HasData(p) ->
                /\ MayNumber
                /\ cur' = NextPackno
                /\ batch' = Append(batch, Encrypted(Chopped(p)))
                /\ sched' = SchedRemove(UpdateForResending(sched, Chopped(p)), 1)
                /\ UNCHANGED unacked
           [] OTHER ->
                /\ sched' = SchedRemove(sched, 1)
                /\ unacked' = Without(unacked, {p.id})
                /\ UNCHANGED <<cur, batch>>
    /\ UNCHANGED <<largest, gap, lost, buffered, largest_acked, alarm, phase,
                   reset, aborted, n_packets, ghost>>

(***************************************************************************)
(* lsquic_send_ctl_sent_packet(): behind the skipped number, a poisoned    *)
(* packet goes onto the Unacked Queue first.                               *)
(***************************************************************************)
UnackedAfter(p) ==
    (IF p.no = gap + 1 THEN <<Poison>> ELSE << >>)
        \o <<[p EXCEPT !.enc = NotEncrypted]>>
SentPackets(sent) ==
    LET u[n \in 0 .. Len(sent)] ==
          IF n = 0 THEN unacked ELSE u[n - 1] \o UnackedAfter(sent[n])
    IN  u[Len(sent)]

(***************************************************************************)
(* The first k packets of the batch are sent, the others return to the     *)
(* front of the Scheduled Queue: Delayed is lsquic_send_ctl_delayed_one()  *)
(* for each of them, last one first.                                       *)
(***************************************************************************)
Delayed(s, unsent) == [q |-> unsent \o s.q, bytes |-> s.bytes + BytesOf(unsent)]
SendBatch(k) ==
    /\ phase = "send"
    /\ k \in 0 .. Len(batch)
    /\ LET sent == SubSeq(batch, 1, k)
           unsent == SubSeq(batch, k + 1, Len(batch))
           nos == {sent[i].no : i \in DOMAIN sent}
       IN
         /\ unacked' = SentPackets(sent)
         /\ sched' = Delayed(sched, unsent)
         /\ largest' = Max({largest} \cup nos)
         /\ skipped' = skipped \cup ({gap} \cap {n - 1 : n \in nos})
         /\ alarm' = (alarm \/ \E i \in DOMAIN sent : HasData(sent[i]))
         /\ wire' = wire \o [i \in DOMAIN sent |->
                               [no |-> sent[i].no, id |-> sent[i].id,
                                frames |-> sent[i].frames, enc |-> sent[i].enc]]
         /\ phase' \in IF unsent = << >> /\ sched.q # << >> THEN {"send", "idle"}
                       ELSE {"idle"}
    /\ batch' = << >>
    /\ UNCHANGED <<cur, gap, lost, buffered, largest_acked, reset, aborted,
                   n_packets, misacked, owed>>

Next ==
    \/ \E A \in SUBSET (0 .. MaxPackno) : GotAck(A)
    \/ RetxAlarmRings
    \/ ResetStream
    \/ \E f \in Kinds : WriteFrame(f)
    \/ \E f \in Kinds, with_ack \in BOOLEAN : WriteBuffered(f, with_ack)
    \/ \E with_ack \in BOOLEAN : Tick(with_ack)
    \/ PacerBlocked
    \/ SendUnsent
    \/ RescheduleLost
    \/ WriteStreams
    \/ \E out_of_order \in BOOLEAN : ScheduleBuffered(out_of_order)
    \/ EndWrite
    \/ NextPacketToSend
    \/ \E k \in 0 .. MaxPackets : SendBatch(k)

Spec == Init /\ [][Next]_vars

-----------------------------------------------------------------------------
EncType == [no : Int, frames : SUBSET Frames]
PacketType ==
    [no : Int, id : Nat, frames : SUBSET Frames,
     rec : {"packet", "record", "poison"}, re : BOOLEAN, retx : BOOLEAN,
     enc : EncType]
TypeOK ==
    /\ cur \in Int /\ largest \in Int /\ gap \in Int
    /\ sched \in [q : Seq(PacketType), bytes : Int]
    /\ batch \in Seq(PacketType) /\ unacked \in Seq(PacketType)
    /\ lost \in Seq(PacketType) /\ buffered \in Seq(PacketType)
    /\ largest_acked \in Int /\ alarm \in BOOLEAN
    /\ phase \in {"idle", "control", "streams", "send"}
    /\ reset \in BOOLEAN /\ aborted \in BOOLEAN
    /\ n_packets \in Nat
    /\ wire \in Seq([no : Int, id : Nat, frames : SUBSET Frames, enc : EncType])
    /\ misacked \subseteq Nat /\ owed \subseteq Nat \X Frames
    /\ skipped \subseteq Int

(***************************************************************************)
(* Packets go out in the order of their numbers, whatever is delayed,      *)
(* dropped, renumbered or retransmitted in between.                        *)
(***************************************************************************)
SentInOrder == \A i, j \in DOMAIN wire : i < j => wire[i].no < wire[j].no

(***************************************************************************)
(* Every number up to the largest one sent has been sent, except those     *)
(* skipped on purpose: validating an ACK frame by its largest number alone *)
(* depends on it.                                                          *)
(***************************************************************************)
NoGaps == 0 .. largest \subseteq {wire[i].no : i \in DOMAIN wire} \cup skipped

(***************************************************************************)
(* The Unacked Queue, loss records and poisoned packet included, is in the *)
(* order of packet numbers, as the walk of lsquic_send_ctl_got_ack()       *)
(* requires.                                                               *)
(***************************************************************************)
UnackedAscends ==
    \A i, j \in DOMAIN unacked : i < j => unacked[i].no < unacked[j].no

(***************************************************************************)
(* To the right of a scheduled packet that waits for a new number, all     *)
(* wait for one.                                                           *)
(***************************************************************************)
RenumberedToTheRight ==
    \A i, j \in DOMAIN sched.q : i < j /\ sched.q[i].re => sched.q[j].re

(***************************************************************************)
(* Frames count as delivered only if the peer has reported a packet that   *)
(* carried them.                                                           *)
(***************************************************************************)
AckedWasReported == misacked = {}

(***************************************************************************)
(* A frame that has to be delivered and has not been acknowledged is in    *)
(* exactly one real packet, on some queue, unless its stream is reset.     *)
(***************************************************************************)
RealIn(queue) == {queue[i] : i \in {j \in DOMAIN queue : IsReal(queue[j])}}
InPlay == RealIn(sched.q) \cup RealIn(batch) \cup RealIn(unacked)
            \cup RealIn(lost) \cup RealIn(buffered)
DataIsKept ==
    \A o \in owed :
       \/ o[2] = "stream" /\ reset
       \/ Cardinality({p \in InPlay : p.id = o[1] /\ o[2] \in p.frames}) = 1

(***************************************************************************)
(* Every loss record leads to a packet: when a packet is destroyed, no     *)
(* record of its loss chain is left with a pointer to it.                  *)
(***************************************************************************)
ChainsIntact ==
    \A i \in DOMAIN unacked :
       unacked[i].rec = "record" => \E p \in InPlay : p.id = unacked[i].id

(***************************************************************************)
(* While a packet with data is unacknowledged, the retransmission alarm is *)
(* set: nothing else would ever send its frames again.                     *)
(***************************************************************************)
AlarmArmed == RetxUnacked(unacked) # {} => alarm

(***************************************************************************)
(* sc_bytes_scheduled is the size of the packets on the Scheduled Queue.   *)
(***************************************************************************)
BytesScheduled == sched.bytes = BytesOf(sched.q)

(***************************************************************************)
(* Together, what lsquic_send_ctl_sanity_check() and                       *)
(* send_ctl_maybe_renumber_sched_to_right() take for granted of the        *)
(* Scheduled Queue, whatever was scheduled, delayed, squeezed and dropped. *)
(***************************************************************************)
ScheduledIsSane == RenumberedToTheRight /\ BytesScheduled

(***************************************************************************)
(* A peer that acknowledges only what it was sent never has its ACK frame  *)
(* refused, as one that reports a packet never sent or a poisoned one.     *)
(***************************************************************************)
HonestPeerAccepted == ~aborted

(***************************************************************************)
(* Packet numbers are handed out so that the order on the wire, the set of *)
(* numbers used and the order of the Unacked Queue are what the validation *)
(* and the processing of ACK frames assume.                                *)
(***************************************************************************)
NumberingIsSound == SentInOrder /\ NoGaps /\ UnackedAscends

(***************************************************************************)
(* No frame is lost or duplicated among the queues, and no loss record is  *)
(* left with a pointer to a packet that is gone.                           *)
(***************************************************************************)
FramesAreKept == DataIsKept /\ ChainsIntact
=============================================================================

----------------------------- MODULE StreamFlow -----------------------------
(***************************************************************************)
(* The life of the streams that a peer opens on an IETF connection: flow   *)
(* control of what arrives (lsquic_sfcw.c for a stream, lsquic_cfcw.c for  *)
(* the connection), the flags that decide when a stream is finished        *)
(* (lsquic_stream.c), and the frames that the connection generates and     *)
(* processes for it (lsquic_full_conn_ietf.c).                             *)
(*                                                                         *)
(* Which bytes can be read is ByteStream's promise, shown of the           *)
(* containers by DataIn: here a stream only keeps the set of the offsets   *)
(* received.  The streams carry no HTTP, and of what the program writes    *)
(* only the end is modelled: FIN or RESET_STREAM.                          *)
(*                                                                         *)
(* The peer is honest: it never sends past a limit it was given, its final *)
(* size is what it has sent, and it answers STOP_SENDING.  The network     *)
(* reorders, repeats and delays; what is lost is sent again.               *)
(***************************************************************************)
EXTENDS Integers, FiniteSets, FiniteSetsExt, Functions

CONSTANTS
    Stream,     \* the streams
    MaxOff,     \* bound: the largest final size of a stream
    StreamWin,  \* es_init_max_stream_data_bidi_remote
    MaxSfcw,    \* es_max_sfcw
    ConnWin,    \* es_init_max_data
    MaxCfcw,    \* es_max_cfcw
    Events      \* what may happen besides: a subset of AllEvents

(* "peer_reset", "peer_stop": the peer sends RESET_STREAM, STOP_SENDING;   *)
(* "late_data": STREAM frames sent before a RESET_STREAM may arrive after  *)
(* it; "early_close": the program closes before it has read everything.    *)
AllEvents == {"peer_reset", "peer_stop", "late_data", "early_close"}

(* A window of one byte is never reopened: the limit moves when less than  *)
(* half of the window, rounded down, is left.                              *)
ASSUME StreamFlowAssumption ==
    /\ IsFiniteSet(Stream)
    /\ MaxOff \in Nat
    /\ StreamWin \in Nat /\ StreamWin >= 2 /\ MaxSfcw \in Nat
    /\ ConnWin \in Nat /\ ConnWin >= 2 /\ MaxCfcw \in Nat
    /\ Events \subseteq AllEvents

VARIABLES
    peer,       \* what the peer has sent on each stream
    strm,       \* the lsquic_stream of each stream
    cfcw,       \* flow control of the connection
    aborted     \* the connection is aborted with an error

vars == <<peer, strm, cfcw, aborted>>

Peer ==
    [sent : 0 .. MaxOff, fin : BOOLEAN, rst : BOOLEAN, stop : BOOLEAN,
     limit : Nat]

(* lsquic_stream_new(); sf_recv_off is set by lsquic_sfcw_init().  `flags' *)
(* are stream_flags without their STREAM_ prefix, `qflags' sm_qflags       *)
(* without SMQF_; `unacked' are the frames that n_unacked counts.          *)
StreamNew ==
    [state |-> "open", got |-> {}, data_in |-> "ok", read_offset |-> 0,
     max_recv_off |-> 0, recv_off |-> StreamWin, read_off |-> 0,
     max_recv_win |-> StreamWin, flags |-> {}, qflags |-> {}, unacked |-> {}]

Idle == [StreamNew EXCEPT !.state = "idle"]

Flag == {"FIN_RECVD", "RST_RECVD", "U_READ_DONE", "U_WRITE_DONE", "FIN_SENT",
         "RST_SENT", "FIN_REACHED", "FINISHED", "SS_RECVD", "SS_SENT"}

SendingFlag == {"SEND_WUF", "SEND_RST", "SEND_STOP_SENDING"}
QFlag == SendingFlag \cup {"WANT_FLUSH", "FREE_STREAM", "WAIT_FIN_OFF"}

Strm ==
    [state : {"idle", "open", "freed"}, got : SUBSET (0 .. MaxOff - 1),
     data_in : {"ok", "error"}, read_offset : 0 .. MaxOff,
     max_recv_off : 0 .. MaxOff, recv_off : Nat, read_off : 0 .. MaxOff,
     max_recv_win : Nat, flags : SUBSET Flag, qflags : SUBSET QFlag,
     unacked : SUBSET {"STREAM", "RST_STREAM"}]

Cfcw ==
    [max_recv_off : Nat, recv_off : Nat, read_off : Nat, max_recv_win : Nat,
     limit : Nat, send : BOOLEAN]

TypeOK ==
    /\ peer \in [Stream -> Peer]
    /\ strm \in [Stream -> Strm]
    /\ cfcw \in Cfcw
    /\ aborted \in BOOLEAN

(***************************************************************************)
(* Operators on x = [s |-> a stream, cf |-> cfcw].                         *)
(***************************************************************************)
Has(x, f) == f \in x.s.flags
HasQ(x, q) == q \in x.s.qflags
Set(x, fs) == [x EXCEPT !.s.flags = @ \cup fs]
SetQ(x, qs) == [x EXCEPT !.s.qflags = @ \cup qs]
ClearQ(x, qs) == [x EXCEPT !.s.qflags = @ \ qs]

(* lsquic_sfcw_set_read_off(), with lsquic_cfcw_incr_read_off().  An       *)
(* offset below the current one makes the unsigned increment wrap, which   *)
(* subtracts.                                                              *)
SetReadOff(x, off) ==
    [x EXCEPT !.cf.read_off = @ + (off - x.s.read_off), !.s.read_off = off]

ConsumeRem(x) == SetReadOff(x, x.s.max_recv_off)

(* lsquic_sfcw_fc_offsets_changed(); the callers then schedule a           *)
(* MAX_STREAM_DATA frame.  The window may grow, by at most a factor of     *)
(* two, when less than two RTTs have passed since it was last moved.       *)
OffsetsChanged(x, grow) ==
    LET larger == Min({2 * x.s.max_recv_win, MaxSfcw, x.cf.max_recv_win})
        win    == IF grow THEN Max({x.s.max_recv_win, larger}) ELSE x.s.max_recv_win
    IN  IF x.s.recv_off - x.s.read_off >= x.s.max_recv_win \div 2
        THEN x
        ELSE SetQ([x EXCEPT !.s.max_recv_win = win,
                            !.s.recv_off = x.s.read_off + win],
                  {"SEND_WUF"})

(* Mutant: the byte at the limit itself is refused. *)

(* lsquic_sfcw_set_max_recv_off() with lsquic_cfcw_incr_max_recv_off() *)
Violates(x, off) ==
    \/ off > x.s.recv_off
    \/ x.cf.max_recv_off + (off - x.s.max_recv_off) > x.cf.recv_off

SetMaxRecvOff(x, off) ==
    [x EXCEPT !.cf.max_recv_off = @ + (off - x.s.max_recv_off),
              !.s.max_recv_off = off]

Closed(x) == {"U_READ_DONE", "U_WRITE_DONE"} \subseteq x.s.flags

(* stream_is_finished() *)
IsFinished(x) ==
    /\ Closed(x)
    /\ x.s.unacked = {}
    /\ {"SEND_RST", "WAIT_FIN_OFF"} \cap x.s.qflags = {}
    /\ {"FIN_SENT", "RST_SENT"} \cap x.s.flags # {}

(* maybe_finish_stream() *)
MaybeFinish(x) ==
    IF ~Has(x, "FINISHED") /\ IsFinished(x)
    THEN Set(SetQ(x, {"FREE_STREAM"}), {"FINISHED"})
    ELSE x

(* lsquic_stream_acked() of a frame *)
Acked(x, frame) ==
    LET y == [x EXCEPT !.s.unacked = @ \ {frame}]
    IN  IF y.s.unacked = {} THEN MaybeFinish(y) ELSE y

(* drop_buffered_data() and maybe_elide_stream_frames(): a STREAM frame in *)
(* a packet that has not been sent is removed as if it had been acked.     *)
DropOutgoing(x, elide) ==
    LET y == ClearQ(x, {"WANT_FLUSH"})
    IN  IF elide /\ "STREAM" \in y.s.unacked THEN Acked(y, "STREAM") ELSE y

(* stream_reset(), which forgets the other frames to be sent *)
StreamReset(x, elide) ==
    DropOutgoing(SetQ(ClearQ(x, SendingFlag), {"SEND_RST"}), elide)

(* stream_readable_discard(): once the program has stopped reading, data   *)
(* is dropped as it becomes readable.                                      *)
Prefix(x) == Min({n \in x.s.read_offset .. MaxOff : n \notin x.s.got})

Discard(x) ==
    IF Has(x, "U_READ_DONE") /\ {"FIN_REACHED", "RST_RECVD"} \cap x.s.flags = {}
    THEN [x EXCEPT !.s.read_offset = Prefix(x)]
    ELSE x

(* stream_shutdown_write(): the FIN goes out when there is room for it. *)
ShutdownWrite(x) ==
    LET y == Set(x, {"U_WRITE_DONE"})
    IN  IF \/ Has(x, "U_WRITE_DONE")
           \/ {"FIN_SENT", "RST_SENT"} \cap x.s.flags # {}
           \/ HasQ(x, "SEND_RST")
        THEN y
        ELSE SetQ(y, {"WANT_FLUSH"})

(* Mutant: closing early does not wait for the final size. *)
ShutdownRead_bug(x) ==
    IF Has(x, "U_READ_DONE") THEN x
    ELSE MaybeFinish(Set(
            IF {"FIN_REACHED", "FIN_RECVD", "RST_RECVD"} \cap x.s.flags = {}
            THEN SetQ(x, {"SEND_STOP_SENDING"}) ELSE x,
            {"U_READ_DONE"}))

(* stream_shutdown_read(): before the final size is known, the peer is     *)
(* asked to stop and the stream waits for it.                              *)
ShutdownRead(x) ==
    IF Has(x, "U_READ_DONE") THEN x
    ELSE MaybeFinish(Set(
            IF {"FIN_REACHED", "FIN_RECVD", "RST_RECVD"} \cap x.s.flags = {}
            THEN SetQ(x, {"SEND_STOP_SENDING", "WAIT_FIN_OFF"}) ELSE x,
            {"U_READ_DONE"}))

-----------------------------------------------------------------------------
Init ==
    /\ peer = [s \in Stream |->
                [sent |-> 0, fin |-> FALSE, rst |-> FALSE, stop |-> FALSE,
                 limit |-> StreamWin]]
    /\ strm = [s \in Stream |-> Idle]
    /\ cfcw = [max_recv_off |-> 0, recv_off |-> ConnWin, read_off |-> 0,
               max_recv_win |-> ConnWin, limit |-> ConnWin, send |-> FALSE]
    /\ aborted = FALSE

(* The stream that a frame is for; one not seen before is created.         *)
(* find_stream_by_id() and new_stream()                                    *)
X(s) == [s |-> IF strm[s].state = "idle" THEN StreamNew ELSE strm[s], cf |-> cfcw]

Becomes(s, x) ==
    /\ strm' = [strm EXCEPT ![s] = x.s]
    /\ cfcw' = x.cf

Usable(s) == ~aborted /\ strm[s].state = "open"

Sent == SumFunction([s \in Stream |-> peer[s].sent])

-----------------------------------------------------------------------------
(* The peer. *)
Writing(s) == ~peer[s].fin /\ ~peer[s].rst

PeerSends(s) ==
    /\ Writing(s)
    /\ peer[s].sent < Min({MaxOff, peer[s].limit})
    /\ Sent < cfcw.limit
    /\ peer' = [peer EXCEPT ![s].sent = @ + 1]
    /\ UNCHANGED <<strm, cfcw, aborted>>

PeerFinishes(s) ==
    /\ Writing(s)
    /\ peer' = [peer EXCEPT ![s].fin = TRUE]
    /\ UNCHANGED <<strm, cfcw, aborted>>

(* The peer resets its stream, of its own accord or when it was asked. *)
PeerResets(s) ==
    /\ ~peer[s].rst
    /\ "peer_reset" \in Events \/ "SS_SENT" \in strm[s].flags
    /\ strm[s].state # "freed"
    /\ peer' = [peer EXCEPT ![s].rst = TRUE]
    /\ UNCHANGED <<strm, cfcw, aborted>>

PeerStops(s) ==
    /\ "peer_stop" \in Events
    /\ ~peer[s].stop
    /\ peer' = [peer EXCEPT ![s].stop = TRUE]
    /\ UNCHANGED <<strm, cfcw, aborted>>

-----------------------------------------------------------------------------
(* lsquic_stream_frame_in() for the bytes lo..hi-1.  A frame that brings   *)
(* nothing new may be dismissed by the container as a duplicate.           *)
FrameIn(x, lo, hi, fin, grow) ==
    LET y == IF hi > x.s.max_recv_off THEN SetMaxRecvOff(x, hi) ELSE x
        z == OffsetsChanged([y EXCEPT !.s.got = @ \cup (lo .. hi - 1)], grow)
        w == IF fin
             THEN MaybeFinish(Set(ClearQ(z, {"WAIT_FIN_OFF"}), {"FIN_RECVD"}))
             ELSE z
    IN  IF lo = x.s.read_offset THEN Discard(w) ELSE w

(* process_stream_frame() *)
process_stream_frame(s, lo, hi, fin) ==
    LET x    == X(s)
        old  == lo .. hi - 1 \subseteq x.s.got /\ (fin => Has(x, "FIN_RECVD"))
        fail == \/ x.s.data_in = "error"
                \/ hi > x.s.max_recv_off /\ Violates(x, hi)
    IN  /\ ~aborted
        /\ strm[s].state # "freed"
        /\ hi <= peer[s].sent
        /\ fin => peer[s].fin /\ hi = peer[s].sent
        /\ Has(x, "RST_RECVD") => "late_data" \in Events
        /\ \/ IF fail THEN aborted' = TRUE /\ UNCHANGED <<strm, cfcw>>
              ELSE /\ \E grow \in BOOLEAN : Becomes(s, FrameIn(x, lo, hi, fin, grow))
                   /\ UNCHANGED aborted
           \/ ~fail /\ old /\ UNCHANGED <<strm, cfcw, aborted>>
        /\ UNCHANGED peer

(* Mutant: the wait for the final size does not end. *)
RstIn_bug(x, offset) ==
    LET y == ConsumeRem(SetMaxRecvOff(Set(x, {"RST_RECVD"}), offset))
    IN  MaybeFinish([y EXCEPT !.s.data_in = "error", !.s.got = {}])

(* lsquic_stream_rst_in() *)
RstIn(x, offset) ==
    LET y == ConsumeRem(SetMaxRecvOff(Set(x, {"RST_RECVD"}), offset))
        z == ClearQ([y EXCEPT !.s.data_in = "error", !.s.got = {}], {"WAIT_FIN_OFF"})
    IN  MaybeFinish(z)

(* process_rst_stream_frame(); a repeated one is ignored. *)
process_rst_stream_frame(s) ==
    LET x    == X(s)
        size == peer[s].sent
        fail == x.s.max_recv_off > size \/ Violates(x, size)
    IN  /\ ~aborted
        /\ strm[s].state # "freed"
        /\ peer[s].rst
        /\ ~Has(x, "RST_RECVD")
        /\ IF fail THEN aborted' = TRUE /\ UNCHANGED <<strm, cfcw>>
           ELSE Becomes(s, RstIn(x, size)) /\ UNCHANGED aborted
        /\ UNCHANGED peer

(* lsquic_stream_stop_sending_in() *)
StopSendingIn(x, elide) ==
    LET y == DropOutgoing(ConsumeRem(Set(x, {"SS_RECVD"})), elide)
        z == IF {"RST_SENT", "FIN_SENT"} \cap y.s.flags = {} /\ ~HasQ(y, "SEND_RST")
             THEN StreamReset(y, FALSE) ELSE y
    IN  MaybeFinish(ClearQ(z, {"SEND_WUF", "SEND_STOP_SENDING"}))

(* process_stop_sending_frame() *)
process_stop_sending_frame(s) ==
    /\ ~aborted
    /\ strm[s].state # "freed"
    /\ peer[s].stop
    /\ ~Has(X(s), "SS_RECVD")
    /\ \E elide \in BOOLEAN : Becomes(s, StopSendingIn(X(s), elide))
    /\ UNCHANGED <<peer, aborted>>

-----------------------------------------------------------------------------
(* The program. *)

(* lsquic_stream_readf() with room for `room' bytes, to read_data_frames() *)
(* and stream_consumed_bytes().                                            *)
readf(s, room) ==
    LET x    == X(s)
        next == Min({x.s.read_offset + room, Prefix(x)})
        fin  == Has(x, "FIN_RECVD") /\ next = peer[s].sent
        y    == [x EXCEPT !.s.read_offset = next]
        z    == IF fin THEN Set(y, {"FIN_REACHED"}) ELSE y
    IN  /\ Usable(s)
        /\ {"RST_RECVD", "U_READ_DONE", "FIN_REACHED"} \cap strm[s].flags = {}
        /\ next > x.s.read_offset \/ fin
        /\ \E grow \in BOOLEAN : Becomes(s, OffsetsChanged(SetReadOff(z, next), grow))
        /\ UNCHANGED <<peer, aborted>>

MayCloseReading(s) ==
    \/ "early_close" \in Events
    \/ {"RST_RECVD", "FIN_REACHED"} \cap strm[s].flags # {}

(* lsquic_stream_shutdown(): 0 stops reading, 1 writing, 2 both, which is  *)
(* also lsquic_stream_close().                                             *)
shutdown(s, how) ==
    LET x == X(s)
        y == IF how = 0 THEN x ELSE ShutdownWrite(x)
        z == IF how = 1 THEN y ELSE ShutdownRead(y)
    IN  /\ Usable(s)
        /\ ~Closed(x)
        /\ how # 1 => MayCloseReading(s)
        /\ Becomes(s, MaybeFinish(z))
        /\ z # x
        /\ UNCHANGED <<peer, aborted>>

-----------------------------------------------------------------------------
(* The connection's tick. *)

(* stream_flush() writes the FIN into a packet. *)
write_fin(s) ==
    /\ Usable(s)
    /\ HasQ(X(s), "WANT_FLUSH")
    /\ ~Has(X(s), "FINISHED")
    /\ strm' = [strm EXCEPT ![s].qflags = @ \ {"WANT_FLUSH"},
                            ![s].flags = @ \cup {"FIN_SENT"},
                            ![s].unacked = @ \cup {"STREAM"}]
    /\ UNCHANGED <<peer, cfcw, aborted>>

(* process_stream_ready_to_send(), one frame at a time *)
generate_max_stream_data_frame(s) ==
    /\ Usable(s)
    /\ HasQ(X(s), "SEND_WUF")
    /\ strm' = [strm EXCEPT ![s].qflags = @ \ {"SEND_WUF"}]
    /\ peer' = [peer EXCEPT ![s].limit = strm[s].recv_off]
    /\ UNCHANGED <<cfcw, aborted>>

(* with lsquic_stream_rst_frame_sent() *)
generate_rst_stream_frame(s) ==
    LET x == ClearQ(X(s), {"SEND_RST"})
        y == Set([x EXCEPT !.s.unacked = @ \cup {"RST_STREAM"}],
                 {"RST_SENT", "U_WRITE_DONE"})
    IN  /\ Usable(s)
        /\ HasQ(X(s), "SEND_RST")
        /\ Becomes(s, MaybeFinish(y))
        /\ UNCHANGED <<peer, aborted>>

(* with lsquic_stream_ss_frame_sent() *)
generate_stop_sending_frame(s) ==
    /\ Usable(s)
    /\ HasQ(X(s), "SEND_STOP_SENDING")
    /\ strm' = [strm EXCEPT ![s].qflags = @ \ {"SEND_STOP_SENDING"},
                            ![s].flags = @ \cup {"SS_SENT"}]
    /\ UNCHANGED <<peer, cfcw, aborted>>

(* Mutant: the limit moves only once it has been passed. *)
ConnOffsetsChanged_bug == cfcw.recv_off < cfcw.read_off

(* lsquic_cfcw_fc_offsets_changed() *)
ConnOffsetsChanged ==
    cfcw.recv_off - cfcw.read_off < cfcw.max_recv_win \div 2

(* The part of ietf_full_conn_ci_tick() that sends MAX_DATA.  The limit    *)
(* moves at once; the frame may have to wait for room in a packet.         *)
max_data(sent) ==
    LET larger == Max({cfcw.max_recv_win, Min({2 * cfcw.max_recv_win, MaxCfcw})})
    IN  /\ ~aborted
        /\ ConnOffsetsChanged \/ (cfcw.send /\ sent)
        /\ \E win \in IF ConnOffsetsChanged THEN {cfcw.max_recv_win, larger}
                      ELSE {cfcw.max_recv_win} :
            LET off == IF ConnOffsetsChanged THEN cfcw.read_off + win ELSE cfcw.recv_off
            IN  cfcw' = [cfcw EXCEPT !.max_recv_win = win,
                                     !.recv_off = off,
                                     !.send = ~sent,
                                     !.limit = IF sent THEN off ELSE @]
        /\ UNCHANGED <<peer, strm, aborted>>

(* lsquic_stream_acked(): a packet with a frame of the stream is acked. *)
acked(s, frame) ==
    /\ Usable(s)
    /\ frame \in strm[s].unacked
    /\ Becomes(s, Acked(X(s), frame))
    /\ UNCHANGED <<peer, aborted>>

(* service_streams(): a finished stream is destroyed, which accounts for   *)
(* what was not read.                                                      *)
service_streams(s) ==
    /\ Usable(s)
    /\ HasQ(X(s), "FREE_STREAM")
    /\ Becomes(s, [s |-> [Idle EXCEPT !.state = "freed"], cf |-> ConsumeRem(X(s)).cf])
    /\ UNCHANGED <<peer, aborted>>

-----------------------------------------------------------------------------
Arrival(s) ==
    \/ \E lo, hi \in 0 .. MaxOff, fin \in BOOLEAN :
        /\ lo < hi \/ (lo = hi /\ fin)
        /\ process_stream_frame(s, lo, hi, fin)
    \/ process_rst_stream_frame(s)
    \/ process_stop_sending_frame(s)

Program(s) ==
    \/ \E room \in 1 .. MaxOff : readf(s, room)
    \/ \E how \in 0 .. 2 : shutdown(s, how)

Tick(s) ==
    \/ write_fin(s)
    \/ generate_max_stream_data_frame(s)
    \/ generate_rst_stream_frame(s)
    \/ generate_stop_sending_frame(s)
    \/ service_streams(s)

Next ==
    \/ \E s \in Stream :
        \/ PeerSends(s) \/ PeerFinishes(s) \/ PeerResets(s) \/ PeerStops(s)
        \/ Arrival(s) \/ Program(s) \/ Tick(s)
        \/ \E frame \in {"STREAM", "RST_STREAM"} : acked(s, frame)
    \/ \E sent \in BOOLEAN : max_data(sent)

Spec == Init /\ [][Next]_vars

(* The peer has MaxOff bytes to send, though it may end its stream sooner, *)
(* and resets a stream when it is told to stop.  What was sent arrives in  *)
(* the end, and so does its acknowledgement.  The program reads what it    *)
(* can; it need not close.  The ticks of the connection come to every      *)
(* frame that waits to be generated and to every finished stream.          *)
Fairness ==
    /\ \A s \in Stream :
        /\ WF_vars(PeerSends(s) \/ (peer[s].sent = MaxOff /\ PeerFinishes(s)))
        /\ WF_vars("SS_SENT" \in strm[s].flags /\ PeerResets(s))
        /\ \A lo \in 0 .. MaxOff - 1 :
            WF_vars(process_stream_frame(s, lo, lo + 1, FALSE))
        /\ WF_vars(\E n \in 0 .. MaxOff : process_stream_frame(s, n, n, TRUE))
        /\ WF_vars(process_rst_stream_frame(s))
        /\ WF_vars(\E room \in 1 .. MaxOff : readf(s, room))
        /\ WF_vars(write_fin(s))
        /\ WF_vars(generate_max_stream_data_frame(s))
        /\ WF_vars(generate_rst_stream_frame(s))
        /\ WF_vars(generate_stop_sending_frame(s))
        /\ WF_vars(service_streams(s))
        /\ \A frame \in {"STREAM", "RST_STREAM"} : WF_vars(acked(s, frame))
    /\ WF_vars(max_data(TRUE))

FairSpec == Spec /\ Fairness

-----------------------------------------------------------------------------
Final(s) == peer[s].sent

Received(s) == IF strm[s].state = "freed" THEN Final(s) ELSE strm[s].max_recv_off
Consumed(s) == IF strm[s].state = "freed" THEN Final(s) ELSE strm[s].read_off

(* Nothing an honest peer sends is taken for a violation, whatever the     *)
(* order in which it arrives: neither of flow control nor of the final     *)
(* size, and no frame finds a container that refuses it.                   *)
NeverAborted == ~aborted

(* The connection's counters are the sums of its streams' counters, a      *)
(* stream that is gone counting with its final size: credit is neither     *)
(* lost nor made up when streams are reset, closed early or destroyed.     *)
ConnAccounts ==
    ~aborted =>
        /\ cfcw.max_recv_off = SumFunction([s \in Stream |-> Received(s)])
        /\ cfcw.read_off = SumFunction([s \in Stream |-> Consumed(s)])

(* Flow control is exact: an honest peer is never refused, and the credit  *)
(* of the connection is that of its streams.                               *)
FlowIsExact == NeverAborted /\ ConnAccounts

(* What makes FlowIsExact inductive, for one stream.  The final size of a  *)
(* stream is known, and all of it accounted for, before the stream can be  *)
(* destroyed; until then nothing the peer may send is beyond the limit.    *)
FinalKnown(r) == {"FIN_RECVD", "RST_RECVD"} \cap r.flags # {}

FlagsAgree(r) ==
    /\ "FREE_STREAM" \in r.qflags =>
            "U_READ_DONE" \in r.flags /\ "WAIT_FIN_OFF" \notin r.qflags
    /\ "U_READ_DONE" \in r.flags /\ "WAIT_FIN_OFF" \notin r.qflags => FinalKnown(r)
    /\ "FIN_REACHED" \in r.flags => "FIN_RECVD" \in r.flags
    /\ r.data_in = "error" => "RST_RECVD" \in r.flags

LimitsAgree(r, p) ==
    /\ r.max_recv_off <= p.sent
    /\ p.sent <= p.limit
    /\ p.limit <= r.recv_off
    /\ FinalKnown(r) => r.max_recv_off = p.sent /\ (p.fin \/ p.rst)

StreamInv(r, p) ==
    /\ r.state = "idle" => r = Idle
    /\ r.state = "freed" => p.fin \/ p.rst
    /\ r.state # "freed" => FlagsAgree(r) /\ LimitsAgree(r, p)

FlowInv ==
    /\ TypeOK
    /\ FlowIsExact
    /\ \A s \in Stream : StreamInv(strm[s], peer[s])
    /\ Sent <= cfcw.limit
    /\ cfcw.limit <= cfcw.recv_off

(* Flow control never leaves the peer waiting for a limit that does not    *)
(* come: a stream that the program keeps reading comes to its end.  (A     *)
(* STOP_SENDING makes stream_reset() forget a MAX_STREAM_DATA frame that   *)
(* was about to be sent; such streams are exempt.)                         *)
EndIsReached ==
    \A s \in Stream :
        <>(\/ {"FIN_REACHED", "RST_RECVD", "U_READ_DONE", "SS_RECVD"}
                \cap strm[s].flags # {}
           \/ strm[s].state = "freed")

(* A stream that the program has closed is destroyed in the end, also when *)
(* it was closed before its final size was known.  (STOP_SENDING cancels   *)
(* the STOP_SENDING that would have made the peer tell its final size.)    *)
ClosedIsFreed ==
    \A s \in Stream :
        {"U_READ_DONE", "U_WRITE_DONE"} \subseteq strm[s].flags
            ~> (strm[s].state = "freed" \/ "SS_RECVD" \in strm[s].flags)
=============================================================================

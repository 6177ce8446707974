----------------------------- MODULE GquicConn -----------------------------
(***************************************************************************)
(* The full connection of Google QUIC (lsquic_full_conn.c): streams coming *)
(* and going with their limits, GOAWAY, acknowledgements, the tick with    *)
(* all its early exits, and the ways the connection ends.  The send        *)
(* controller is reduced to the packets it holds, what a tick may still    *)
(* send (quota) and whether the last packet has room; alarms to whether    *)
(* they are armed, any of which may ring.  The handshake and the headers   *)
(* streams are always there and not among the streams of st: versions     *)
(* without a handshake stream (Q050) are not modelled.  What streams       *)
(* carry is left out, and flow control with it (WINDOW_UPDATE, BLOCKED     *)
(* frames of streams): that is StreamFlow and StreamWrite.                 *)
(***************************************************************************)
EXTENDS Naturals, Sequences, FiniteSets, FiniteSetsExt, Functions, SequencesExt

CONSTANTS GcRoles,      \* subset of {"client", "server"}
          MaxStreamsIn, \* fc_cfg.max_streams_in
          MaxStreamsOut,\* what the peer's MIDS may be, special streams not counted
          GcQuota,      \* packets a tick may send, if any
          Made,         \* bound: streams a client has made to begin with, at most 2
          Offered,      \* sets of versions a version negotiation packet may list
          MaxId,        \* bound: stream IDs we give
          PeerIds,      \* bound: stream IDs in the frames of the peer
          MaxInputs,    \* bound: packets received, calls made and packets lost
          OddWith       \* bound: what may be odd in a tick besides one other thing

GquicConnAssumption ==
    /\ GcRoles \subseteq {"client", "server"} /\ MaxStreamsIn \in Nat
    /\ MaxStreamsOut \subseteq Nat /\ Made \subseteq 0 .. 2 /\ {GcQuota, MaxId, MaxInputs} \subseteq Nat
    /\ PeerIds \subseteq Nat \ {0, 1, 3}      \* the special streams

VARIABLES gc,       \* struct full_conn, with what its streams and packets amount to
          n_in,     \* packets received and calls made so far
          concern   \* what the inputs of this behaviour are about

IMMEDIATE == {"TIMED_OUT", "ERROR", "ABORTED", "HSK_FAILED"}
Ack == <<"ACK", 0>>
Close == <<"CONNECTION_CLOSE", 0>>
Ackable(fr) == fr.t \notin {"ACK", "STOP_WAITING", "PADDING"}

Flag(c, f) == [c EXCEPT !.fl = @ \cup f]
Abort(c) == Flag(c, {"ERROR"})

-----------------------------------------------------------------------------
(* Streams: a set of flags and the number of their frames in flight.  RR,  *)
(* RS: reset received, sent; SR: RST_STREAM to be sent; FS: FIN sent; RD,  *)
(* WD: user is done reading, writing; ON, OC: on_new, on_close called; QC, *)
(* QF: to be serviced; WQ: FIN to be written.                              *)

IsClosed(s) == {"RD", "WD"} \subseteq s.f
IsReset(s) == s.f \cap {"RR", "RS", "SR"} # {}

MaybeScheduleCallOnClose(s, delay) ==
    IF IsClosed(s) /\ "ON" \in s.f /\ s.f \cap {"OC", "QC"} = {} /\ ~(delay /\ s.nu > 0)
    THEN [s EXCEPT !.f = @ \cup {"QC"}] ELSE s

MaybeFinishStream(s) ==
    IF IsClosed(s) /\ s.nu = 0 /\ s.f \cap {"SR", "FI"} = {} /\ s.f \cap {"FS", "RS"} # {}
    THEN [s EXCEPT !.f = @ \cup {"QF", "FI"}] ELSE s

ShutBoth(s) ==
    [s EXCEPT !.f = @ \cup {"RD", "WD"} \cup
                    (IF @ \cap {"FS", "RS", "SR", "WD"} = {} THEN {"WQ"} ELSE {})]
StreamClose(s, delay) ==
    IF IsClosed(s) THEN s ELSE MaybeFinishStream(MaybeScheduleCallOnClose(ShutBoth(s), delay))

StreamReset(s, delay) ==
    IF s.f \cap {"RS", "SR"} # {} THEN s
    ELSE MaybeScheduleCallOnClose([s EXCEPT !.f = (@ \cup {"SR"}) \ {"WQ"}], delay)

MaybeReset(s, delay, close) ==
    IF s.f \cap {"RS", "FS", "WD", "SR"} = {}
    THEN (IF close THEN StreamClose(StreamReset(s, delay), delay) ELSE StreamReset(s, delay))
    ELSE IF close THEN MaybeScheduleCallOnClose([s EXCEPT !.f = @ \cup {"RD"}], delay) ELSE s

RstIn(s, delay) ==
    IF "RR" \in s.f THEN s
    ELSE MaybeScheduleCallOnClose(MaybeFinishStream(
            IF s.f \cap {"RS", "FS", "SR"} = {}
            THEN StreamReset([s EXCEPT !.f = @ \cup {"RR"}], delay)
            ELSE [s EXCEPT !.f = @ \cup {"RR"}]), delay)

\* The peer will not process the stream: nothing more is sent on it.
ReceivedGoaway(s, delay) ==
    MaybeScheduleCallOnClose(MaybeFinishStream(
        [s EXCEPT !.f = (@ \cup {"RR", "RS"}) \ {"SR", "WQ"}]), delay)

StreamAcked(s, delay) ==
    MaybeFinishStream(MaybeScheduleCallOnClose([s EXCEPT !.nu = 0], delay))

-----------------------------------------------------------------------------
(* Which streams there are.                                                *)

IsPeerInitiated(c, id) == ((id % 2) = 1) <=> (c.role = "server")
Special(c) == IF c.http THEN 2 ELSE 1
AllStreams(c) == Cardinality(DOMAIN c.st) + Special(c)
\* The client's count of its own streams has the special ones in it.
CountOurs(c) ==
    Cardinality({id \in DOMAIN c.st : ~IsPeerInitiated(c, id) /\ ~IsClosed(c.st[id])})
    + (IF c.role = "client" THEN Special(c) ELSE 0)
CountPeers(c) ==
    Cardinality({id \in DOMAIN c.st :
                    IsPeerInitiated(c, id) /\ ~IsClosed(c.st[id]) /\ ~IsReset(c.st[id])})
EitherSideGoingAway(c) == "GOING_AWAY" \in c.fl \/ "PEER_GOING_AWAY" \in c.cn
HandshakeDoneOrResume(c) == "HANDSHAKE_DONE" \in c.cn \/ c.resume

\* born: streams the user knows of; again: one came twice.
CallOnNew(c, id) ==
    [c EXCEPT !.st[id].f = @ \cup {"ON"}, !.born = @ \cup {id},
              !.again = @ \/ id \in c.born]
NewStreamQuiet(c, id) ==
    [c EXCEPT !.st = [x \in DOMAIN @ \cup {id} |->
                        IF x = id THEN [f |-> {}, nu |-> 0] ELSE @[x]]]
NewStream(c, id) == CallOnNew(NewStreamQuiet(c, id), id)
NewPeerStream(c, id) ==
    NewStream([c EXCEPT !.max_peer = IF id > @ THEN id ELSE @], id)
GenerateStreamId(c) == [c EXCEPT !.last = @ + 2]
MakeNow(c) == NewStream(GenerateStreamId(c), c.last + 2)

\* create_delayed_streams: all are made before the user hears of the first.
MakeDelayed(c, n) ==
    [c EXCEPT !.last = @ + 2 * n, !.delayed = @ - n,
              !.born = @ \cup {c.last + 2 * i : i \in 1 .. n},
              !.st = [x \in DOMAIN @ \cup {c.last + 2 * i : i \in 1 .. n} |->
                        IF x \in DOMAIN @ THEN @[x] ELSE [f |-> {"ON"}, nu |-> 0]]]
CreateDelayedStreams(c) ==
    IF CountOurs(c) >= c.max_out THEN c
    ELSE MakeDelayed(c, Min({c.delayed, c.max_out - CountOurs(c)}))

MaybeScheduleReset(c, id) ==
    IF id \in c.closed THEN c
    ELSE [c EXCEPT !.resets = Append(@, id), !.closed = @ \cup {id}]

MaybeCloseConn(c) ==
    IF c.role = "server" /\ "GOAWAY_SENT" \in c.fl /\ "CLOSING" \notin c.fl
        /\ AllStreams(c) = Special(c)
    THEN Flag(c, {"RECV_CLOSE", "CLOSING"}) ELSE c

Serviced(c, done, freed) ==
    [c EXCEPT !.closed = @ \cup done,
              !.st = [x \in DOMAIN @ \ freed |->
                        IF x \in done THEN [@[x] EXCEPT !.f = (@ \ {"QC"}) \cup {"OC"}]
                        ELSE @[x]]]
AfterService_bug(c, closed_some) ==
    IF EitherSideGoingAway(c) THEN MaybeCloseConn([c EXCEPT !.delayed = 0]) ELSE c
AfterService(c, closed_some) ==
    IF EitherSideGoingAway(c) THEN MaybeCloseConn([c EXCEPT !.delayed = 0])
    ELSE IF closed_some /\ c.delayed > 0 THEN CreateDelayedStreams(c) ELSE c
Queued(c, f) == {id \in DOMAIN c.st : f \in c.st[id].f}
ServiceStreams(c) ==
    AfterService(Serviced(c, Queued(c, "QC"), Queued(c, "QF")),
                 \E id \in Queued(c, "QC") : ~IsPeerInitiated(c, id))

-----------------------------------------------------------------------------
(* Frames received.  A handler that returns 0 fails the connection.        *)

ProcessStreamFrame(c, fr) ==
    IF fr.init THEN Abort(c)                            \* unencrypted
    ELSE IF "CLOSING" \in c.fl \/ fr.id \in DOMAIN c.st THEN c
    ELSE IF fr.id \in c.closed THEN c
    ELSE IF ~IsPeerInitiated(c, fr.id) THEN Abort(c)    \* never initiated
    ELSE IF CountPeers(c) >= MaxStreamsIn THEN Abort(c)
    ELSE IF "GOING_AWAY" \in c.fl /\ fr.id > c.max_peer THEN MaybeScheduleReset(c, fr.id)
    ELSE NewPeerStream(c, fr.id)

StreamRstIn(c, id) == [c EXCEPT !.st[id] = RstIn(@, c.delay)]
ProcessRstStreamFrame(c, fr) ==
    IF fr.id \in DOMAIN c.st THEN StreamRstIn(c, fr.id)
    ELSE IF fr.id \in c.closed THEN c
    ELSE IF ~IsPeerInitiated(c, fr.id) THEN Abort(c)
    ELSE StreamRstIn(NewPeerStream(c, fr.id), fr.id)

ProcessGoawayFrame(c, fr) ==
    IF "PEER_GOING_AWAY" \in c.cn THEN c
    ELSE [c EXCEPT !.cn = @ \cup {"PEER_GOING_AWAY"}, !.goaway_id = fr.id,
                   !.st = [x \in DOMAIN @ |->
                             IF x > fr.id /\ ~IsPeerInitiated(c, x)
                             THEN ReceivedGoaway(@[x], c.delay) ELSE @[x]]]

\* Kept until the tick; a further one is merged with it or has it processed.
ProcessAckFrame(c, fr) ==
    IF fr.old THEN c ELSE Flag(c, {"HAVE_SAVED_ACK"})
GotAck(c, valid) ==
    IF ~valid THEN Abort(c)
    ELSE [c EXCEPT !.fly = {}, !.n_stop = IF "NSTP" \in c.fl THEN 0 ELSE Min({@ + 1, 2}),
                   !.st = [x \in DOMAIN @ |->
                             IF @[x].nu > 0 /\ \E p \in c.fly : p[2] = x
                             THEN StreamAcked(@[x], c.delay) ELSE @[x]]]

ProcessStopWaitingFrame(c, fr) ==
    IF "NSTP" \in c.fl \/ fr.old THEN c ELSE IF fr.bad THEN Abort(c) ELSE c

\* The stream's own window update is the stream's business (peer_blocked_gquic).
ProcessBlockedFrame(c, fr) == IF fr.id = 0 THEN Flag(c, {"SEND_WUF"}) ELSE c

ProcessConnectionCloseFrame(c) == Flag(c, {"RECV_CLOSE", "CLOSING"})

\* lsquic_full_conn_on_peer_config: the limits of the peer.
OnPeerConfig(c, max_out) == [c EXCEPT !.max_out = max_out]

HskDone(c, ok, max_out) ==
    IF ~ok THEN Flag([c EXCEPT !.armed = @ \ {"HANDSHAKE"}], {"HSK_FAILED"})
    ELSE CreateDelayedStreams(OnPeerConfig(
            [c EXCEPT !.armed = @ \ {"HANDSHAKE"}, !.cn = @ \cup {"HANDSHAKE_DONE"}], max_out))

\* The server turns down the connection ID: everything starts anew.
Srej(c) ==
    IF c.resume THEN HskDone(c, FALSE, 0)
    ELSE [c EXCEPT !.vn = [state |-> "START", tag |-> TRUE, supp |-> c.orig,
                           ver |-> Max(c.orig), agreed |-> FALSE],
                   !.sched = <<>>, !.fly = {}, !.lostq = {}, !.lost_ack = FALSE,
                   !.n_stop = 0, !.owe = FALSE, !.armed = @ \ {"ACK"},
                   !.fl = (@ \ {"ACK_QUEUED", "ACK_HAD_MISS", "NSTP"}) \cup {"GOT_SREJ"}]

\* The handshake stream of the client is read at once.
ProcessHandshakeData(c, fr) ==
    IF "CLOSING" \in c.fl \/ c.role = "server" \/ "HANDSHAKE_DONE" \in c.cn THEN c
    ELSE IF fr.what = "SREJ" THEN Srej(c)
    ELSE HskDone(c, fr.what = "OK", fr.max_out)

ProcessPacketFrame(c, fr) ==
    CASE fr.t = "STREAM" -> ProcessStreamFrame(c, fr)
      [] fr.t = "RST_STREAM" -> ProcessRstStreamFrame(c, fr)
      [] fr.t = "GOAWAY" -> ProcessGoawayFrame(c, fr)
      [] fr.t = "ACK" -> ProcessAckFrame(c, fr)
      [] fr.t = "STOP_WAITING" -> ProcessStopWaitingFrame(c, fr)
      [] fr.t = "BLOCKED" -> ProcessBlockedFrame(c, fr)
      [] fr.t = "CONNECTION_CLOSE" -> ProcessConnectionCloseFrame(c)
      [] fr.t = "HANDSHAKE" -> ProcessHandshakeData(c, fr)
      [] fr.t = "HEADERS" -> IF "CLOSING" \in c.fl THEN c ELSE [c EXCEPT !.unread = TRUE]
      [] fr.t = "INVALID" -> Abort(c)
      [] fr.t \in {"PING", "PADDING"} -> c

Frames ==
    [t : {"STREAM"}, id : PeerIds, init : BOOLEAN]
    \cup [t : {"RST_STREAM", "GOAWAY"}, id : PeerIds]
    \cup [t : {"ACK"}, old : BOOLEAN] \cup [t : {"STOP_WAITING"}, old : {FALSE}, bad : BOOLEAN]
    \cup [t : {"BLOCKED"}, id : {0}]
    \cup [t : {"HANDSHAKE"}, what : {"OK", "FAIL", "SREJ"}, max_out : MaxStreamsOut]
    \cup [t : {"HEADERS", "CONNECTION_CLOSE", "PING", "PADDING", "INVALID"}]

-----------------------------------------------------------------------------
(* Packets received.                                                       *)

TryQueueingAck(c, was_missing) ==
    IF c.slack >= 2 \/ ("ACK_HAD_MISS" \in c.fl /\ was_missing) \/ c.n_stop > 1
    THEN Flag([c EXCEPT !.armed = @ \ {"ACK"}], {"ACK_QUEUED"})
    ELSE IF c.slack > 0 THEN [c EXCEPT !.armed = @ \cup {"ACK"}] ELSE c

\* A PING is not worth an ACK when nothing is left to be kept alive.
WantsAck(c, fr) ==
    /\ Ackable(fr)
    /\ ~(fr.t = "PING" /\ "GOING_AWAY" \in c.fl /\ AllStreams(c) <= 2)
\* owe: an ackable packet that no ACK frame covers (kept for the properties).
QueueAck(c, fr, was_missing) ==
    IF c.fl \cap {"ACK_QUEUED", "GOT_SREJ"} = {}
    THEN (IF WantsAck(c, fr)
          THEN TryQueueingAck([c EXCEPT !.slack = @ + 1, !.owe = TRUE], was_missing)
          ELSE TryQueueingAck(c, was_missing))
    ELSE IF "GOT_SREJ" \in c.fl THEN [c EXCEPT !.fl = @ \ {"GOT_SREJ"}]
    ELSE [c EXCEPT !.owe = @ \/ WantsAck(c, fr)]

\* A packet of the version the client tries ends the negotiation.
VerNegEnd(c) ==
    IF ~c.vn.tag THEN c
    ELSE [c EXCEPT !.vn = [@ EXCEPT !.tag = FALSE, !.state = "END", !.agreed = TRUE],
                   !.fl = @ \cup {"NSTP"}]
ProcessVerNegPacket(c, versions) ==
    IF ~c.vn.tag \/ c.vn.state # "START" THEN c
    ELSE IF c.vn.ver \in versions THEN Abort(c)
    ELSE IF versions \cap c.vn.supp = {} THEN Flag(c, {"HSK_FAILED", "ERROR"})
    ELSE [c EXCEPT !.vn = [@ EXCEPT !.supp = @ \cap versions,
                                    !.ver = Max(c.vn.supp \cap versions),
                                    !.state = "IN_PROGRESS"],
                   !.fly = {}, !.lostq = @ \cup {p \in c.fly : p[1] # "ACK"}]

ProcessRegularPacket(c, p) == QueueAck(ProcessPacketFrame(c, p.fr), p.fr, p.missing)

ProcessIncomingPacket(c, p) ==
    CASE p.k = "regular" -> ProcessRegularPacket(VerNegEnd(c), p)
      [] p.k = "reset" -> Flag(c, {"GOT_PRST", "ERROR"})
      [] p.k = "error" -> Abort(c)              \* the receive history refuses it
      [] p.k = "verneg" -> IF c.role = "server" THEN c ELSE ProcessVerNegPacket(c, p.versions)
      [] p.k = "dropped" -> VerNegEnd(c)        \* not decryptable, or a duplicate

ConnPacketIn(c, p) ==
    IF "ERROR" \in c.fl THEN [c EXCEPT !.armed = @ \cup {"IDLE"}]
    ELSE ProcessIncomingPacket([c EXCEPT !.armed = @ \cup {"IDLE"}], p)

Packets ==
    [k : {"regular"}, fr : Frames, missing : BOOLEAN]
    \cup [k : {"reset", "error", "dropped"}] \cup [k : {"verneg"}, versions : Offered]

-----------------------------------------------------------------------------
(* Calls of the user, and of the headers stream, which brings headers,     *)
(* priorities and push promises.                                           *)

MakeStream(c) ==
    IF HandshakeDoneOrResume(c) /\ CountOurs(c) < c.max_out THEN MakeNow(c)
    ELSE IF EitherSideGoingAway(c) THEN c           \* on_new_stream(NULL)
    ELSE [c EXCEPT !.delayed = @ + 1]

CancelPending(c) == [c EXCEPT !.delayed = IF @ > 0 THEN @ - 1 ELSE 0]

ConnClose(c) ==
    IF "CLOSING" \in c.fl THEN c
    ELSE Flag([c EXCEPT !.st = [x \in DOMAIN @ |-> MaybeReset(@[x], c.delay, TRUE)]],
              {"CLOSING"} \cup (IF "GOAWAY_SENT" \in c.fl THEN {} ELSE {"SEND_GOAWAY"}))

GoingAway(c) ==
    IF c.fl \cap {"CLOSING", "GOING_AWAY"} # {} THEN c
    ELSE Flag(c, {"GOING_AWAY"}
                 \cup (IF "GOAWAY_SENT" \in c.fl THEN {} ELSE {"SEND_GOAWAY"}))

PushStream(c, sent) ==
    IF c.role # "server" \/ ~c.http \/ "SUPPORT_PUSH" \notin c.fl THEN c
    ELSE IF EitherSideGoingAway(c) \/ CountOurs(c) >= c.max_out \/ ~sent THEN c
    ELSE MakeNow(c)         \* had the promise failed, the ID is taken back

\* find_stream_on_non_stream_frame
FindOrMake(c, id) ==
    IF id \in DOMAIN c.st \/ id \in c.closed THEN c
    ELSE IF ~IsPeerInitiated(c, id) \/ CountPeers(c) >= MaxStreamsIn THEN Abort(c)
    ELSE IF "GOING_AWAY" \in c.fl /\ id > c.max_peer THEN MaybeScheduleReset(c, id)
    ELSE NewPeerStream(c, id)
ResetIfThere(c, id) ==
    IF id \in DOMAIN c.st THEN [c EXCEPT !.st[id] = MaybeReset(@, c.delay, FALSE)] ELSE c

\* The stream the promise belongs to must be, or have been, there.
OnPushPromise(c, promised, known) ==
    IF ~known \/ promised \in c.closed \cup DOMAIN c.st \/ ~IsPeerInitiated(c, promised) THEN Abort(c)
    ELSE NewStream(c, promised)

OnEnablePush(c, on) ==
    IF on THEN Flag(c, {"SUPPORT_PUSH"}) ELSE [c EXCEPT !.fl = @ \ {"SUPPORT_PUSH"}]

Call(c, k, id) ==
    CASE k = "make" -> MakeStream(c)
      [] k = "cancel" -> CancelPending(c)
      [] k = "close" -> IF id \in DOMAIN c.st
                        THEN [c EXCEPT !.st[id] = StreamClose(@, c.delay)] ELSE c
      [] k = "conn_close" -> ConnClose(c)
      [] k = "going_away" -> GoingAway(c)
      [] k = "abort" -> Flag(c, {"ABORTED"})
      [] k = "push" -> PushStream(c, TRUE)
      [] k = "push_fails" -> PushStream(c, FALSE)
      [] k = "headers" -> FindOrMake(c, id)         \* and priority
      [] k = "stream_error" -> ResetIfThere(FindOrMake(c, id), id)
      [] k = "promise" -> OnPushPromise(c, id, TRUE)
      [] k = "bad_promise" -> OnPushPromise(c, id, FALSE)
      [] k = "no_push" -> OnEnablePush(c, FALSE)
      [] k = "none" -> c
UserCalls == {"make", "cancel", "conn_close", "going_away", "abort", "push", "push_fails"}
HeadersCalls == {"headers", "stream_error", "promise", "bad_promise", "no_push"}

-----------------------------------------------------------------------------
(* The tick: at says how far it goes on ("run"), or where it has jumped to.*)

ImmediateClose(c) ==
    IF c.fl \cap {"TICK_CLOSE", "GOT_PRST"} # {}
    THEN [c EXCEPT !.at = "close_end", !.tick = @ \cup {"CLOSE"}]
    ELSE IF "TIMED_OUT" \in c.fl /\ c.silent
    THEN [Flag(c, {"TICK_CLOSE"}) EXCEPT !.at = "close_end", !.sched = <<>>,
                                         !.tick = @ \cup {"CLOSE"}]
    ELSE [Flag(c, {"TICK_CLOSE"}) EXCEPT !.at = "close_end", !.sched = <<{Close}>>,
                                         !.tick = @ \cup {"SEND", "CLOSE"}]
CloseIfNecessary(c) ==
    IF c.at # "close_end" /\ c.fl \cap IMMEDIATE # {} THEN ImmediateClose(c) ELSE c
ReturnIfOutOfPackets(c) ==
    IF c.quota > 0 THEN c
    ELSE [c EXCEPT !.at = "end",
                   !.tick = @ \cup {IF c.sched = <<>> THEN "QUIET" ELSE "SEND"}]

\* get_writeable_packet
Writeable(c) == (c.sched # <<>> /\ c.room) \/ c.quota > 0
Put(c, f) ==
    IF c.sched # <<>> /\ c.room THEN [c EXCEPT !.sched[Len(c.sched)] = @ \cup {f}]
    ELSE [c EXCEPT !.sched = Append(@, {f}), !.quota = @ - 1]
PutIf(c, want, f, clear) ==
    IF c.at = "run" /\ want /\ Writeable(c) THEN [Put(c, f) EXCEPT !.fl = @ \ clear] ELSE c

ShouldGenerateAck(c) == "ACK_QUEUED" \in c.fl \/ c.lost_ack
ResetAckState(c) ==
    [c EXCEPT !.slack = 0, !.n_stop = 0, !.fl = @ \ {"ACK_QUEUED"}, !.armed = @ \ {"ACK"}]
WriteAck(c, has_missing) ==
    ResetAckState([c EXCEPT !.sched = Append(@, {Ack}), !.lost_ack = FALSE, !.owe = FALSE,
                            !.quota = IF @ > 0 THEN @ - 1 ELSE 0,
                            !.fl = IF has_missing THEN @ \cup {"ACK_HAD_MISS"}
                                   ELSE @ \ {"ACK_HAD_MISS"}])

\* odd: what is out of the ordinary in this tick; see Oddities.
TickIn(c, odd) ==
    CloseIfNecessary([c EXCEPT !.at = "run", !.tick = {}, !.room = "full" \notin odd,
                               !.quota = IF "no_quota" \in odd THEN 0 ELSE GcQuota])
SavedAck(c, valid) ==
    IF c.at = "run" /\ "HAVE_SAVED_ACK" \in c.fl
    THEN CloseIfNecessary(GotAck([c EXCEPT !.fl = @ \ {"HAVE_SAVED_ACK"}], valid)) ELSE c
RingExpired(c, ring) ==
    IF c.at # "run" THEN c
    ELSE CloseIfNecessary(Flag([c EXCEPT !.armed = @ \ ring],
            (IF "ACK" \in ring THEN {"ACK_QUEUED"} ELSE {})
            \cup (IF "PING" \in ring THEN {"SEND_PING"} ELSE {})
            \cup (IF {"HANDSHAKE", "IDLE"} \cap ring # {} THEN {"TIMED_OUT"} ELSE {})
            \cup (IF "no_progress" \in ring THEN {"ABORTED"} ELSE {})))
\* Reading, the user may call; what has been closed is serviced.
ServiceIfChanged(c, old) ==
    IF Queued(c, "QC") # Queued(old, "QC") \/ Queued(c, "QF") # Queued(old, "QF")
    THEN ServiceStreams(c) ELSE c
ReadEvents(c, k, id) ==
    IF c.at = "run" /\ "HANDSHAKE_DONE" \in c.cn
    THEN CloseIfNecessary(ServiceIfChanged(Call([c EXCEPT !.unread = FALSE], k, id), c)) ELSE c

\* Packets that were not sent last time: those with nothing but an ACK or
\* STOP_WAITING go.  squeezed: an ACK has gone that way.
IsRegen(p) == \A f \in p : f[1] \in {"ACK", "STOP_WAITING"}
SqueezeSched(c) ==
    [c EXCEPT !.sched = SelectSeq(@, LAMBDA p : ~IsRegen(p)),
              !.squeezed = @ \/ \E i \in DOMAIN c.sched : IsRegen(c.sched[i]) /\ Ack \in c.sched[i]]
Delayed(c, pacer) ==
    IF c.at # "run" THEN c
    ELSE IF pacer THEN [c EXCEPT !.at = "end_write"]
    ELSE IF "FIRST_TICK" \in c.fl THEN [c EXCEPT !.fl = @ \ {"FIRST_TICK"}, !.late = FALSE]
    ELSE LET d == SqueezeSched(c) IN [d EXCEPT !.late = d.sched # <<>>]
StopWaiting(c) ==
    PutIf(c, "SEND_STOP_WAITING" \in c.fl, <<"STOP_WAITING", 0>>, {"SEND_STOP_WAITING"})
\* The ACK goes before the delayed packets, and nothing else is added.
AckToFront(c) ==
    IF Ack \in Last(c.sched) THEN [c EXCEPT !.sched = <<Last(@)>> \o Front(@)] ELSE c
AckWritten(c) ==
    IF "NSTP" \in c.fl THEN c ELSE Flag(c, {"SEND_STOP_WAITING"})
AckPhase(c, miss) ==
    IF c.at # "run" \/ ~ShouldGenerateAck(c) THEN c
    ELSE IF c.late THEN AckToFront(StopWaiting(AckWritten(WriteAck(c, miss))))
    ELSE AckWritten(WriteAck(c, miss))
IfDelayed(c) ==
    IF c.at # "run" \/ ~c.late THEN c
    ELSE [c EXCEPT !.tick = @ \cup {"SEND"},
                   !.at = IF "CLOSING" \in c.fl THEN "end_write" ELSE "end"]

GoawayWritten(c) ==
    IF c.at = "run" /\ "SEND_GOAWAY" \in c.fl /\ Writeable(c)
    THEN MaybeCloseConn([Put(c, <<"GOAWAY", 0>>) EXCEPT
                            !.fl = (@ \ {"SEND_GOAWAY"}) \cup {"GOAWAY_SENT"},
                            !.sent_goaway = c.max_peer])
    ELSE c
Reschedule(c) ==
    IF c.at = "run" /\ c.lostq # {} /\ c.quota > 0
    THEN [c EXCEPT !.sched = Append(@, c.lostq), !.lostq = {}, !.quota = @ - 1] ELSE c
StandaloneReset(c) ==
    IF c.at = "run" /\ c.resets # <<>> /\ Writeable(c)
    THEN [Put(c, <<"RST", 0>>) EXCEPT !.resets = Tail(@)] ELSE c
RstFrameSent(c, id) ==
    [Put(c, <<"RST", id>>) EXCEPT
        !.st[id] = MaybeFinishStream([@ EXCEPT !.f = (@ \ {"SR"}) \cup {"RS", "WD"},
                                               !.nu = @ + 1])]
ReadyToSend(c) ==
    IF c.at = "run" /\ Queued(c, "SR") # {} /\ Writeable(c)
    THEN RstFrameSent(c, Min(Queued(c, "SR"))) ELSE c
FinWritten(c, id) ==
    [Put(c, <<"STREAM", id>>) EXCEPT !.st[id].f = (@ \ {"WQ"}) \cup {"FS"}, !.st[id].nu = @ + 1]
WriteEvents(c) ==
    IF c.at = "run" /\ HandshakeDoneOrResume(c) /\ Queued(c, "WQ") # {} /\ Writeable(c)
    THEN FinWritten(c, Min(Queued(c, "WQ"))) ELSE c
WriteFrames(c) ==
    WriteEvents(WriteEvents(ReadyToSend(ReadyToSend(StandaloneReset(Reschedule(GoawayWritten(
        PutIf(StopWaiting(c), "SEND_WUF" \in c.fl, <<"WINDOW_UPDATE", 0>>, {"SEND_WUF"}))))))))

StreamFrames(S) == {f \in S : f[1] = "STREAM"}
ConnOkToClose(c) ==
    \/ c.role = "client" \/ "RECV_CLOSE" \in c.fl
    \/ /\ StreamFrames(UNION Range(c.sched) \cup c.lostq \cup c.fly) = {}
       /\ AllStreams(c) <= 2
WriteClose(c) ==
    IF c.at # "end" THEN [c EXCEPT !.sched = Append(@, {Close}), !.at = "end",
                                   !.tick = @ \cup {"SEND", "CLOSE"}]
    ELSE [c EXCEPT !.hushed = TRUE]
OkToClose(c) ==
    IF "RECV_CLOSE" \in c.fl \/ c.sched # <<>> \/ ~c.silent
    THEN WriteClose(ReturnIfOutOfPackets(
            [Flag(c, {"TICK_CLOSE"}) EXCEPT
                !.tick = @ \cup (IF "RECV_CLOSE" \in c.fl THEN {"CLOSE"} ELSE {})]))
    ELSE [Flag(c, {"TICK_CLOSE"}) EXCEPT !.at = "end", !.tick = @ \cup {"CLOSE"}]
EndWrite(c) ==
    IF c.at \in {"run", "end_write"} /\ "CLOSING" \in c.fl /\ ConnOkToClose(c)
    THEN OkToClose(c) ELSE c
PingWritten(c) ==
    IF c.at = "end" THEN c
    ELSE [Put(c, <<"PING", 0>>) EXCEPT !.fl = @ \ {"SEND_PING"}, !.tick = @ \cup {"SEND"},
                                       !.armed = @ \cup {"PING"}]
Pinging(c) ==
    IF c.at \notin {"run", "end_write"} THEN c
    ELSE IF c.sched # <<>>
    THEN [c EXCEPT !.fl = @ \ {"SEND_PING"}, !.armed = @ \cup {"PING"}, !.tick = @ \cup {"SEND"}]
    ELSE IF "SEND_PING" \in c.fl THEN PingWritten(ReturnIfOutOfPackets(c))
    ELSE [c EXCEPT !.tick = @ \cup {"QUIET"}]
TickEnd(c) == IF c.at = "close_end" THEN c ELSE CloseIfNecessary(ServiceStreams(c))

ConnTick(c, odd, k, id) ==
    TickEnd(Pinging(EndWrite(WriteFrames(IfDelayed(AckPhase(Delayed(
        ReadEvents(RingExpired(SavedAck(TickIn(c, odd), "bad_ack" \notin odd),
                               odd \cap (c.armed \cup {"no_progress"})), k, id),
        "pacer" \in odd), "missing" \in odd))))))

\* The engine sends what the tick has scheduled, or cannot.  told: the peer
\* has been sent a CONNECTION_CLOSE.
Sent(c, all) ==
    IF all THEN [c EXCEPT !.fly = @ \cup UNION Range(c.sched), !.sched = <<>>] ELSE c
AfterTick(c, all) ==
    [Sent(c, all) EXCEPT !.dead = "CLOSE" \in c.tick,
                         !.told = @ \/ \E i \in DOMAIN c.sched : Close \in c.sched[i],
                         !.at = "", !.tick = {}, !.quota = 0, !.room = FALSE, !.late = FALSE]

-----------------------------------------------------------------------------
(* is_tickable: whether the engine, when it can send, should tick.  can: the *)
(* congestion window is open.  Lost packets and standalone resets do not     *)
(* count; the alarms and the packets that bring news see to those.           *)
IsTickable(c, can) ==
    \/ Queued(c, "QC") \cup Queued(c, "QF") # {}
    \/ c.sched # <<>>
    \/ /\ \/ c.fl \cap {"SEND_GOAWAY", "SEND_STOP_WAITING", "SEND_PING", "SEND_WUF"} # {}
          \/ Queued(c, "SR") # {}
          \/ HandshakeDoneOrResume(c) /\ Queued(c, "WQ") # {}
       /\ can
    \/ c.unread
    \/ c.fl \cap IMMEDIATE # {}

-----------------------------------------------------------------------------
NoVersion == [state |-> "END", tag |-> FALSE, supp |-> {}, ver |-> 0, agreed |-> TRUE]
Versions == UNION Offered
NewConn(role, http, delay, silent, resume) ==
    [role |-> role, http |-> http, delay |-> delay, silent |-> silent, resume |-> resume,
     fl |-> {"SUPPORT_PUSH"}, cn |-> {}, st |-> [x \in {} |-> {}], closed |-> {},
     resets |-> <<>>, last |-> IF role = "server" THEN 0 ELSE IF http THEN 3 ELSE 1,
     max_peer |-> IF role = "client" THEN 0 ELSE IF http THEN 3 ELSE 1, goaway_id |-> 0, sent_goaway |-> 0,
     delayed |-> 0, max_out |-> 3, slack |-> 0, n_stop |-> 0, armed |-> {"HANDSHAKE"},
     vn |-> [state |-> "START", tag |-> TRUE, supp |-> {1, 2}, ver |-> 2, agreed |-> FALSE],
     orig |-> {1, 2}, sched |-> <<>>, fly |-> {}, lostq |-> {}, lost_ack |-> FALSE,
     quota |-> 0, room |-> FALSE, late |-> FALSE, at |-> "", tick |-> {},
     born |-> {}, again |-> FALSE, owe |-> FALSE, squeezed |-> FALSE, told |-> FALSE,
     hushed |-> FALSE, unread |-> FALSE, dead |-> FALSE]

\* lsquic_gquic_full_conn_server_new: what the mini connection hands over.  An
\* ACK of its own that is still to be sent covers the packets it hands over.
HandOver(c, unsent_ack) ==
    IF unsent_ack THEN ResetAckState([c EXCEPT !.sched = <<{Ack}>>, !.owe = FALSE]) ELSE c
ServerNew(c, max_out, unsent_ack, pending) ==
    HandOver(LET d == Flag(OnPeerConfig([c EXCEPT !.cn = {"HANDSHAKE_DONE"}, !.vn = NoVersion,
                                                  !.armed = {"IDLE"}], max_out),
                           {"FIRST_TICK", "NSTP"})
             IN IF pending THEN ConnPacketIn(d, [k |-> "regular", missing |-> FALSE,
                                   fr |-> [t |-> "STREAM", id |-> 5, init |-> FALSE]])
                ELSE d, unsent_ack)

\* A behaviour is about one concern: what its inputs are chosen from.
Concern ==
    [streams |-> {"STREAM", "RST_STREAM", "GOAWAY", "HEADERS", "HANDSHAKE", "make", "cancel",
                  "going_away", "push", "push_fails", "close"},
     ends    |-> {"CONNECTION_CLOSE", "INVALID", "HANDSHAKE", "PING", "STREAM", "reset", "error",
                  "verneg", "conn_close", "abort", "make", "going_away"},
     acks    |-> {"ACK", "STOP_WAITING", "STREAM", "PING", "PADDING", "BLOCKED", "dropped",
                  "HANDSHAKE", "make", "close", "lose"}]

\* A client may have done the handshake and made streams (Made) before.
HskOk(m) == [k |-> "regular", missing |-> FALSE,
             fr |-> [t |-> "HANDSHAKE", what |-> "OK", max_out |-> m]]
Client(c, done, m) == IF done THEN ConnPacketIn(c, HskOk(m)) ELSE c
MakeAll(c, n) == IF n = 0 THEN c ELSE IF n = 1 THEN MakeStream(c) ELSE MakeStream(MakeStream(c))
GCInit ==
    /\ n_in = 0 /\ concern \in DOMAIN Concern
    /\ \E role \in GcRoles, delay, silent, x, y \in BOOLEAN, m \in MaxStreamsOut, n \in Made :
        /\ silent => concern = "ends"
        /\ n > 1 => concern = "streams"
        /\ n > 0 => role = "client" /\ y /\ ~x /\ m = Min(MaxStreamsOut)
        /\ gc = IF role = "client"
                THEN MakeAll(Client(NewConn(role, delay, delay, silent, x), y, m), n)
                ELSE ServerNew(NewConn(role, ~delay, delay, silent, FALSE), m, x, y)

Live == ~gc.dead
Input == Live /\ n_in < MaxInputs /\ n_in' = n_in + 1 /\ UNCHANGED concern
Wanted(x) == x \in Concern[concern]

PacketIn == /\ Input
            /\ \E p \in Packets :
                /\ Wanted(IF p.k = "regular" THEN p.fr.t ELSE p.k)
                /\ p.k = "regular" /\ p.missing => "ACK_HAD_MISS" \in gc.fl
                /\ gc' = ConnPacketIn(gc, p)
\* Calls from outside of callbacks.
UserCall == /\ Input
            /\ \E k \in {x \in UserCalls : Wanted(x)} :
                /\ k \in {"make", "push", "push_fails"} =>
                        gc.last + 2 * (gc.delayed + 1) <= MaxId
                /\ gc' = Call(gc, k, 0)
UserCloses == /\ Input /\ Wanted("close") /\ \E id \in DOMAIN gc.st : gc' = Call(gc, "close", id)
\* Packets in flight are deemed lost.
Lose == /\ Input /\ Wanted("lose") /\ gc.fly # {}
        /\ gc' = [gc EXCEPT !.fly = {}, !.lost_ack = @ \/ Ack \in gc.fly,
                            !.lostq = @ \cup {f \in gc.fly : f[1] \notin {"ACK", "STOP_WAITING"}}]
\* The congestion window is full; the last packet scheduled is full; the pacer
\* delays; the engine cannot send; the ACK received is bad; packets are missing;
\* an alarm rings, the idle alarm with or without progress of a stream.
Oddities(c) ==
    {"none", "no_quota", "full", "pacer", "unsent"} \cup c.armed
    \cup (IF "HAVE_SAVED_ACK" \in c.fl THEN {"bad_ack"} ELSE {})
    \cup (IF ShouldGenerateAck(c) THEN {"missing"} ELSE {})
    \cup (IF "IDLE" \in c.armed THEN {"no_progress"} ELSE {})
TickWith(k, id) ==
    \E x \in Oddities(gc), y \in OddWith :
        gc' = AfterTick(ConnTick(gc, {x, y}, k, id), "unsent" \notin {x, y})
Tick == Live /\ TickWith("none", 0) /\ UNCHANGED <<n_in, concern>>
\* A tick in which the user calls from a read event, and one in which the
\* headers stream reads a frame.
TickCalling ==
    /\ Input /\ "HANDSHAKE_DONE" \in gc.cn
    /\ \/ \E k \in {"conn_close", "abort"} : Wanted(k) /\ TickWith(k, 0)
       \/ \E id \in DOMAIN gc.st : Wanted("close") /\ TickWith("close", id)
TickHeaders ==
    /\ Live /\ gc.unread /\ "HANDSHAKE_DONE" \in gc.cn /\ UNCHANGED <<n_in, concern>>
    /\ \E k \in HeadersCalls, id \in PeerIds :
        /\ (k \in {"promise", "bad_promise"} => gc.role = "client") /\ (k \in {"no_push", "bad_promise"} => id = Min(PeerIds))
        /\ TickWith(k, id)

GCNext == PacketIn \/ UserCall \/ UserCloses \/ Lose \/ Tick \/ TickCalling \/ TickHeaders

-----------------------------------------------------------------------------
\* A stream is announced to the user once, and once its closing has been noted
\* it never comes back, whatever late frames arrive for it.
NeverReborn ==
    /\ ~gc.again
    /\ \A id \in gc.closed \cap DOMAIN gc.st : "OC" \in gc.st[id].f
\* A stream that could not be opened is not forgotten: with room for it, it
\* is only waiting for on_close of another to be called.
DelayedNotForgotten ==
    (~gc.dead /\ gc.delayed > 0 /\ "HANDSHAKE_DONE" \in gc.cn /\ ~EitherSideGoingAway(gc))
        => \/ CountOurs(gc) >= gc.max_out
           \/ \E id \in DOMAIN gc.st : /\ ~IsPeerInitiated(gc, id) /\ IsClosed(gc.st[id])
                                       /\ "OC" \notin gc.st[id].f
\* An ackable packet is acknowledged: an ACK is queued, timed or repeated.
\* (One that was squeezed out of a delayed batch is the exception.)
AckOwed ==
    gc.owe /\ ~gc.squeezed /\ ~gc.dead
        => \/ ShouldGenerateAck(gc) \/ "ACK" \in gc.armed \/ gc.fl \cap IMMEDIATE # {}
\* After the server's GOAWAY no stream with a larger ID reaches the user, but to
\* be reset.  (A client takes pushed streams after its own GOAWAY.)
GoawayHolds ==
    gc.role = "server" /\ "GOAWAY_SENT" \in gc.fl
        => \A id \in DOMAIN gc.st : IsPeerInitiated(gc, id) /\ id > gc.sent_goaway
                                    => IsReset(gc.st[id])
\* The peer is told of the end, unless it ended the connection itself, or
\* closing is meant to be silent.  (hushed: a close that had to wait for packets
\* sets FC_TICK_CLOSE; should an error come before it, nothing is sent.)
PeerIsTold ==
    gc.dead => gc.told \/ gc.silent \/ gc.hushed \/ gc.fl \cap {"GOT_PRST", "RECV_CLOSE"} # {}
\* The engine does not spin: when it thinks a connection should be ticked, the
\* tick changes something.  (Data on the headers stream that came before the
\* handshake was done is the exception.)
NoSpinning ==
    \A obstacle \in {"none", "no_quota"} :
       /\ ~gc.dead /\ IsTickable(gc, obstacle = "none")
       /\ ~(gc.unread /\ "HANDSHAKE_DONE" \notin gc.cn)
       => AfterTick(ConnTick(gc, {obstacle}, "none", 0), TRUE) # gc
GquicConnSound ==
    NoSpinning /\ NeverReborn /\ DelayedNotForgotten /\ AckOwed /\ GoawayHolds /\ PeerIsTold
=============================================================================

---------------------------- MODULE StreamWrite ----------------------------
(***************************************************************************)
(* Writing to a stream: the application's writes are buffered in the       *)
(* stream or go into packets, and on an HTTP/3 stream they are cut into    *)
(* frames on the way.  The length of a DATA frame is not known when its    *)
(* header goes into a packet: the header is filled in later, in the memory *)
(* of the packet, before the packet can be sent.                           *)
(*                                                                         *)
(* The packets are an input: a call of a write function is given the room  *)
(* that each packet it asks for has, until there are no more.  Bytes are   *)
(* counted, not named; a varint takes one byte below W1.                   *)
(***************************************************************************)
EXTENDS Integers, Sequences, FiniteSets, SequencesExt, FiniteSetsExt

CONSTANTS
    W1, W2,         \* what a one- and a two-byte varint hold: 2^6, 2^14
    PackSize,       \* stream_get_n_allowed(): size of the stream's buffer
    Thresh,         \* lsquic_stream_flush_threshold()
    PacketRooms,    \* room for stream data that a packet can have
    MaxPackets,     \* packets given to one call
    HblockSize,     \* size of the HEADERS frame's contents
    WriteSizes,     \* sizes of the application's writes
    StreamCredits,  \* values of max_send_off
    ConnCredits,    \* values of cc_max
    IOVECS,         \* PWRITEV_IOVECS
    PreadvMin,      \* preadv() supplies at least this many bytes
    MaxWrites       \* calls of write functions

StreamWriteAssumption ==
    /\ {W1, W2, PackSize, Thresh, HblockSize, IOVECS} \subseteq Nat \ {0}
    /\ PacketRooms \subseteq Nat /\ WriteSizes \subseteq Nat
    /\ W1 < W2 /\ Thresh <= PackSize
    /\ \A r \in PacketRooms: r >= 3
    /\ StreamCredits # {} /\ ConnCredits # {}
    /\ {MaxPackets, PreadvMin, MaxWrites} \subseteq Nat

VARIABLES
    sm,     \* struct lsquic_stream, and the packets it has filled
    app     \* the application: bytes accepted, calls made

swvars == <<sm, app>>

Low(a, b) == IF a < b THEN a ELSE b
SumOf(f(_), s) == FoldLeft(LAMBDA a, x: a + f(x), 0, s)

-----------------------------------------------------------------------------
(***************************************************************************)
(* HTTP/3 frames of the stream: sm_hq_frames.  at is shf_frame_ptr, the    *)
(* place of the header in sm.wire (0: NULL).                               *)
(***************************************************************************)
FrameSize(f) == IF f.fixed THEN (IF f.size < W1 THEN 2 ELSE 3)
                ELSE IF f.two THEN 3
                ELSE 2
FrameEnd(f) == f.off + (IF f.fixed THEN f.size
                        ELSE IF f.two THEN W2 - 1
                        ELSE W1 - 1)
ActiveFrameSizes(s) == SumOf(FrameSize, SelectSeq(s.frames, LAMBDA f: ~f.written))
\* Counts a frame again if its header is written but none of its contents is.
FramesAhead(s) == SumOf(FrameSize, SelectSeq(s.frames, LAMBDA f: f.off >= s.payload))

NewFrame(off, type, fixed, size) ==
    [off |-> off, type |-> type, fixed |-> fixed, size |-> IF fixed THEN size ELSE 0,
     two |-> ~fixed /\ size >= W1, written |-> FALSE, paid |-> FALSE, at |-> 0]
ActivateFrame(s, f) == [s EXCEPT !.frames = Append(@, f)]
FramePut(s, i) == [s EXCEPT !.frames = RemoveAt(@, i)]
FindCur(s) == LET First(F) == IF F = {} THEN 0 ELSE Min(F)
              IN First({i \in DOMAIN s.frames: s.frames[i].off <= s.payload
                                               /\ s.payload < FrameEnd(s.frames[i])})

Asserts(s, p) == [s EXCEPT !.asserted = @ /\ p]
PayConn(s, n) == Asserts([s EXCEPT !.ccSent = @ + n], s.ccSent + n <= s.ccMax)

\* The length goes into the header, wherever it is.
FillIn(s, f, size) == IF f.at = 0 THEN Asserts(s, FALSE) ELSE [s EXCEPT !.wire[f.at].len = size]
FrameClose(s, i) ==
    LET f == s.frames[i]
    IN FramePut(IF f.fixed THEN s ELSE FillIn(s, f, s.payload - f.off), i)

-----------------------------------------------------------------------------
(***************************************************************************)
(* How much may be written.                                                *)
(***************************************************************************)
AvailNoFrames(s) == Low(s.maxOff - s.tosend - s.nbuf, s.ccMax - s.ccSent)

\* A frame's header must be sent and paid for too; 3 bytes are needed for one.
AvailWithFrames(s) ==
    LET Conn(unpaid) == IF unpaid = 0 THEN s.ccMax - s.ccSent
                        ELSE IF unpaid < s.ccMax - s.ccSent THEN s.ccMax - s.ccSent - unpaid ELSE 0
        Enough(avail) == IF avail >= 3 THEN avail ELSE 0
    IN Enough(Low(s.maxOff - s.tosend - s.nbuf - ActiveFrameSizes(s),
                  Conn(SumOf(FrameSize, SelectSeq(s.frames, LAMBDA f: ~f.paid)))))

WriteAvail(s) == IF s.http THEN AvailWithFrames(s) ELSE AvailNoFrames(s)

\* What the reader of the call has left: lsqr_size().  pwritev_size() is 0 when
\* the vectors are used up, and its subtraction is unsigned.
ReaderSize(s) == IF s.pwritev /\ Len(s.iov) >= IOVECS THEN 0
                 ELSE IF s.rd < 0 THEN s.maxOff
                 ELSE s.rd
StdGenSize(s) == Low(ReaderSize(s), WriteAvail(s)) + s.nbuf
GenSize(s) == StdGenSize(s) + (IF s.http THEN FramesAhead(s) ELSE 0)
GenFin(s) == "WRITE_DONE" \in s.flags /\ s.nbuf = 0 /\ ReaderSize(s) = 0

-----------------------------------------------------------------------------
(***************************************************************************)
(* Filling a packet.                                                       *)
(***************************************************************************)
AddPayload(s, n) ==
    IF s.wire = <<>> THEN Asserts(s, n = 0)
    ELSE Asserts([s EXCEPT !.wire[Len(s.wire)].n = @ + n, !.payload = @ + n, !.tosend = @ + n],
                s.tosend + n <= s.maxOff)

\* lsqr_read(): the vectors of pwritev() are only noted, and filled in later.
ReadReader(s, n) ==
    IF s.pwritev
    THEN [s |-> [Asserts(s, Len(s.iov) < IOVECS) EXCEPT
                    !.iov = Append(@, [w |-> Len(s.wire), at |-> s.wire[Len(s.wire)].n, n |-> n]),
                    !.rd = @ - n], n |-> n]
    ELSE [s |-> [s EXCEPT !.rd = @ - Low(n, s.rd)], n |-> Low(n, s.rd)]

\* The buffer first, then the reader.  Returns the number of bytes.
StdGenRead(s, len) ==
    LET Got(r) == [s |-> PayConn(AddPayload(r.s, r.n), r.n), n |-> s.nbuf + r.n]
        Rest(b) == Got(ReadReader(b, Low(len - s.nbuf, WriteAvail(b) + s.nbuf)))
    IN IF s.nbuf > 0 /\ len <= s.nbuf
       THEN [s |-> AddPayload([s EXCEPT !.nbuf = @ - len], len), n |-> len]
       ELSE Rest(AddPayload([s EXCEPT !.nbuf = 0], s.nbuf))

\* The header of frame i is written: with its length if that is known.
WriteHeader(s, i) ==
    LET Written(p, f, fsz) ==
            [p EXCEPT !.wire = Append(@, [type |-> f.type, sz |-> fsz,
                                          len |-> IF f.fixed THEN f.size ELSE -1, n |-> 0]),
                      !.tosend = @ + fsz,
                      !.frames[i].at = IF f.fixed THEN 0 ELSE Len(s.wire) + 1,
                      !.frames[i].paid = TRUE, !.frames[i].written = TRUE]
        Noted(w, f) == Asserts(IF ~f.fixed /\ s.pwritev THEN [w EXCEPT !.hq = Append(@, Len(w.wire))]
                               ELSE w,
                               w.tosend <= w.maxOff)
        Paid(f, fsz) == Noted(Written(IF f.paid THEN s ELSE PayConn(s, fsz), f, fsz), f)
    IN Paid(s.frames[i], FrameSize(s.frames[i]))

\* frame_hq_gen_read()'s loop; g is [s, room, n, stop].
HqStop(g, s) == [g EXCEPT !.s = s, !.stop = TRUE]
HqWasRead(g, r, end, len, j) ==
    [s |-> IF r.n = len /\ end = r.s.payload THEN FrameClose(r.s, j) ELSE r.s,
     room |-> g.room - r.n, n |-> g.n + r.n, stop |-> r.n < len]
HqContents(g, s, end, j, len) ==
    IF len = 0 THEN HqStop(g, s) ELSE HqWasRead(g, StdGenRead(s, len), end, len, j)
HqHeader(g, s, j, fsz) ==
    IF fsz > g.room THEN HqStop(g, g.s)
    ELSE [g EXCEPT !.s = WriteHeader(s, j), !.room = @ - fsz, !.n = @ + fsz]
HqFrame(g, s, j) ==
    IF s.frames[j].off = s.payload /\ ~s.frames[j].written
    THEN HqHeader(g, s, j, FrameSize(s.frames[j]))
    ELSE HqContents(g, s, FrameEnd(s.frames[j]), j,
                    Low(Low(FrameEnd(s.frames[j]) - s.payload, g.room), s.nbuf + WriteAvail(s)))
HqOpen(s, rem) == ActivateFrame(s, NewFrame(s.payload, "DATA", FALSE, rem))
HqAt(g, i, rem) == CASE i > 0 -> HqFrame(g, g.s, i)
                     [] i = 0 /\ rem = 0 -> HqStop(g, g.s)
                     [] OTHER -> HqFrame(g, HqOpen(g.s, rem), Len(g.s.frames) + 1)
HqGenStep(g) ==
    IF g.stop \/ g.room = 0 THEN g ELSE HqAt(g, FindCur(g.s), Low(StdGenSize(g.s), W2 - 1))

HqGenRead(s, len) ==
    FoldLeft(LAMBDA g, k: HqGenStep(g), [s |-> s, room |-> len, n |-> 0, stop |-> FALSE],
             [k \in 1 .. 8 |-> k])

CheckFlushThreshold(s) ==
    IF s.tosend >= s.flushTo THEN [s EXCEPT !.flags = @ \ {"WANT_FLUSH"}] ELSE s

\* A STREAM frame in a packet with this room: [s, n]; n = 0: nothing was written.
FrameWritten(g) == [s |-> IF g.n = 0 THEN g.s ELSE CheckFlushThreshold(g.s), n |-> g.n]
WriteStreamFrame(s, size, room) ==
    CASE GenFin(s) -> [s |-> CheckFlushThreshold(s), n |-> 1]
      [] ~GenFin(s) /\ s.http -> FrameWritten(HqGenRead(s, Low(size, room)))
      [] OTHER -> FrameWritten(StdGenRead(s, Low(size, room)))

\* The frame being written gets its length, which takes in what is buffered.
MaybeCloseVarsize_bug(s) == s
MaybeCloseVarsize(s) ==
    LET Filled(t, i, size) ==
            IF s.nbuf = 0 THEN FramePut(t, i)
            ELSE [t EXCEPT !.frames[i].fixed = TRUE, !.frames[i].size = size]
        Close(i, f, size) ==
            CASE f.fixed -> IF f.off + f.size <= s.payload THEN FramePut(s, i) ELSE s
              [] ~f.fixed /\ f.at = 0 -> s
              [] ~f.fixed /\ f.at # 0 /\ size <= (IF f.two THEN W2 - 1 ELSE W1 - 1) ->
                    Filled(FillIn(s, f, size), i, size)
              [] OTHER -> [FramePut(Asserts(s, s.nbuf > 0), i) EXCEPT !.flags = @ \cup {"ERROR"}]
        At(i) == IF i = 0 THEN s
                 ELSE Close(i, s.frames[i], s.payload + s.nbuf - s.frames[i].off)
    IN IF s.http THEN At(FindCur(s)) ELSE s

MaybeMarkAsBlocked(s) ==
    LET used == s.tosend + s.nbuf + ActiveFrameSizes(s)
    IN [s EXCEPT !.blocked = IF used = s.maxOff THEN used ELSE @,
                 !.ccBlocked = IF s.nbuf = s.ccMax - s.ccSent THEN s.ccMax ELSE @]

-----------------------------------------------------------------------------
(***************************************************************************)
(* stream_write_to_packets(): thresh is 0 for a flush.  st is "go", then   *)
(* "done" (nothing more to write), or "end" (no packet, or the FIN is out).*)
(***************************************************************************)
More(s, thresh) == (IF thresh > 0 THEN GenSize(s) >= thresh ELSE GenSize(s) > 0) \/ GenFin(s)

PacketWritten(l, w) ==
    CASE w.n = 0 -> [s |-> IF l.ok THEN MaybeCloseVarsize(w.s) ELSE w.s, ok |-> l.ok, st |-> "end"]
      [] w.n > 0 /\ GenFin(w.s) ->
            [s |-> [MaybeCloseVarsize(w.s) EXCEPT !.flags = (@ \ {"WANT_FLUSH"}) \cup {"FIN_SENT"}],
             ok |-> TRUE, st |-> "end"]
      [] OTHER -> [s |-> w.s, ok |-> TRUE, st |-> "go"]
PacketStep(l, room, thresh) ==
    CASE l.st # "go" -> l
      [] l.st = "go" /\ ~More(l.s, thresh) -> [l EXCEPT !.st = "done"]
      [] OTHER -> PacketWritten(l, WriteStreamFrame(l.s, GenSize(l.s), room))

\* The packets run out: as if the next were not given.
RanOut(l, thresh) ==
    IF l.st = "end" THEN l
    ELSE [s |-> IF l.ok THEN MaybeCloseVarsize(l.s) ELSE l.s, ok |-> l.ok,
          st |-> IF l.st = "go" /\ More(l.s, thresh) THEN "end" ELSE "done"]
PacketLoop(s, rooms, thresh) ==
    RanOut(FoldLeft(LAMBDA x, r: PacketStep(x, r, thresh), [s |-> s, ok |-> FALSE, st |-> "go"], rooms),
           thresh)

Flushed(l) == IF l.st = "end" THEN l.s
              ELSE MaybeMarkAsBlocked(Asserts(l.s, l.s.nbuf = 0 /\ GenSize(l.s) = 0))
Flush(s, rooms) ==
    Flushed(PacketLoop(Asserts([s EXCEPT !.rd = 0],
                               s.nbuf > 0 \/ ("WRITE_DONE" \in s.flags /\ "FIN_SENT" \notin s.flags)),
                       rooms, 0))

FlushNocheck(s, rooms) ==
    Flush([s EXCEPT !.flushTo = s.tosend + s.nbuf + (IF s.http THEN ActiveFrameSizes(s) ELSE 0),
                    !.flushToPayload = s.payload + s.nbuf, !.flags = @ \cup {"WANT_FLUSH"}],
          rooms)

\* Bytes to be buffered belong to a frame, which may have to take a longer header.
Extendable(f, cur, len) == ~f.two /\ ~f.fixed /\ cur - f.off < W1 /\ cur - f.off + len >= W1
UpdateBufferedFrames(s, len, avail) ==
    LET cur == s.payload + s.nbuf
        Ext(f) == IF Extendable(f, cur, len) THEN 1 ELSE 0
        Grows(x, f, e, i) == /\ e = 1 /\ "WANT_FLUSH" \in s.flags /\ f.off <= s.payload
                             /\ FrameEnd(x.frames[i]) >= s.flushToPayload
        Out(x, f, e, i, room) ==
            [s |-> IF Grows(x, f, e, i) THEN [x EXCEPT !.flushTo = @ + 1] ELSE x,
             n |-> Low(Low(len, FrameEnd(f) + e - cur), room - e)]
        Pay(t, f, i) == IF f.paid THEN t ELSE [PayConn(t, FrameSize(f)) EXCEPT !.frames[i].paid = TRUE]
        Extend(p, e, i) == IF e = 0 THEN p ELSE [PayConn(p, 1) EXCEPT !.frames[i].two = TRUE]
        Use(t, f, e, i, room) == Out(Extend(Pay(t, f, i), e, i), f, e, i, room)
        Open(f) == Use(ActivateFrame(s, f), f, 0, Len(s.frames) + 1, avail - FrameSize(f))
        Old(i) == Use(s, s.frames[i], Ext(s.frames[i]), i, avail)
        Find(F) == IF F = {} THEN Open(NewFrame(cur, "DATA", FALSE, len)) ELSE Old(Min(F))
    IN Find({i \in DOMAIN s.frames: s.frames[i].off <= cur
                                     /\ cur < FrameEnd(s.frames[i]) + Ext(s.frames[i])})

\* [s, n]; the buffer is flushed when nothing more can be written.
MaybeFlush(s, rooms) == IF s.nbuf > 0 /\ WriteAvail(s) = 0
                        THEN [FlushNocheck(s, rooms) EXCEPT !.rd = s.rd] ELSE s
Buffered(r, most, rooms) ==
    [s |-> MaybeFlush(PayConn([Asserts(r.s, most <= PackSize) EXCEPT !.nbuf = @ + r.n], r.n), rooms),
     n |-> r.n]
CopyToBuffer(u, most, rooms) == Buffered(ReadReader(u.s, u.n), most, rooms)
Framed(s, len, avail) == IF s.http THEN UpdateBufferedFrames(s, len, avail) ELSE [s |-> s, n |-> len]
SaveLen(s, len, avail, rooms) ==
    IF len = 0 THEN [s |-> s, n |-> 0] ELSE CopyToBuffer(Framed(s, len, avail), s.nbuf + len, rooms)
SaveToBuffer(s, want, rooms) == SaveLen(s, Low(want, WriteAvail(s)), WriteAvail(s), rooms)

\* What does not fill a packet is buffered.
SaveRest(s, size, buffer) == IF buffer /\ size > 0 THEN SaveToBuffer(s, size, <<>>).s ELSE s
PacketsWritten(l, buffer) ==
    IF l.st = "end" THEN l.s
    ELSE MaybeMarkAsBlocked(SaveRest(l.s, GenSize(l.s) - l.s.nbuf, buffer))
WriteToPackets(s, rooms, buffer) == PacketsWritten(PacketLoop(s, rooms, Thresh), buffer)

\* A small write is buffered: a frame at a time.
Saved(r) == [s |-> r.s, stop |-> r.n = 0]
BufferLoop(s, rooms) ==
    FoldLeft(LAMBDA x, k: IF x.stop \/ x.s.rd <= 0 THEN x
                          ELSE Saved(SaveToBuffer(x.s, x.s.rd, rooms)),
             [s |-> s, stop |-> FALSE], [k \in 1 .. 4 |-> k]).s

\* stream_write() of len bytes; the bytes not taken are left in rd.
WriteTotal(s, total, rooms, buffer) ==
    CASE s.rd = 0 -> s
      [] s.rd > 0 /\ total <= PackSize /\ total < Thresh -> IF buffer THEN BufferLoop(s, rooms) ELSE s
      [] OTHER -> WriteToPackets(s, rooms, buffer)
StreamWriteBytes(s, len, rooms, buffer) ==
    WriteTotal([s EXCEPT !.rd = len], len + (IF s.http THEN FramesAhead(s) ELSE 0) + s.nbuf,
               rooms, buffer)

-----------------------------------------------------------------------------
(***************************************************************************)
(* pwritev(): the packets are allocated first, then the application fills  *)
(* them; what it did not fill is taken back.                               *)
(***************************************************************************)
\* The frames opened by this call are shortened or given up, the last one first.
UnwindFrame(u, w) ==
    LET len == u.s.wire[w].len
        sz == u.s.wire[w].sz
    IN IF len > u.left
       THEN [s |-> [u.s EXCEPT !.wire[w].len = @ - u.left, !.payload = @ - u.left,
                               !.tosend = @ - u.left, !.ccSent = @ - u.left], left |-> 0]
       ELSE [s |-> [u.s EXCEPT !.payload = @ - len, !.tosend = @ - len - sz, !.ccSent = @ - len - sz],
             left |-> u.left - len]

\* The packets are cut after the last byte filled in.
Rollback(s, nw) ==
    LET Upto(k) == SumOf(LAMBDA v: v.n, SubSeq(s.iov, 1, k))
        Cut(v, upto) == [s EXCEPT !.wire = [k \in 1 .. v.w |->
                            IF k = v.w THEN [@[k] EXCEPT !.n = v.at + v.n - (upto - nw)] ELSE @[k]]]
        CutAt(k) == Cut(s.iov[k], Upto(k))
    IN CutAt(CHOOSE k \in DOMAIN s.iov: nw <= Upto(k) /\ (k = 1 \/ nw > Upto(k - 1)))

Unwind(s, nw, short) ==
    LET Frames(u) == Asserts(u.s, u.left = 0 /\ s.hq # <<>>)
    IN Rollback(IF s.http THEN Frames(FoldLeft(UnwindFrame, [s |-> s, left |-> short], Reverse(s.hq)))
                ELSE [s EXCEPT !.payload = @ - short, !.tosend = @ - short, !.ccSent = @ - short],
                nw)

PwritevDone(s, n) ==
    [s |-> [s EXCEPT !.pwritev = FALSE, !.iov = <<>>, !.hq = <<>>, !.rd = 0], n |-> n]
FilledIn(s, total, nw) == PwritevDone(IF nw < total THEN Unwind(s, nw, total - nw) ELSE s, nw)
Preadv(s, total, short) == FilledIn(s, total, IF total - short >= PreadvMin THEN total - short ELSE total)
Allocated(s, short) ==
    IF s.iov = <<>> THEN PwritevDone(s, 0) ELSE Preadv(s, SumOf(LAMBDA v: v.n, s.iov), short)
Pwritev(s, len, rooms, short) ==
    Allocated(StreamWriteBytes([s EXCEPT !.pwritev = TRUE], len, rooms, FALSE), short)

-----------------------------------------------------------------------------
(***************************************************************************)
(* Headers, and the end of the stream.                                     *)
(***************************************************************************)
\* fin: the last packet of the stream is not sent yet and can take the FIN.
WriteIsDone(s, rooms, fin) ==
    CASE "FIN_SENT" \in s.flags -> s
      [] "FIN_SENT" \notin s.flags /\ s.nbuf = 0 /\ fin ->
            [s EXCEPT !.flags = (@ \cup {"FIN_SENT"}) \ {"WANT_FLUSH"}]
      [] OTHER -> FlushNocheck(s, rooms)
ShutdownWrite(s, rooms, fin) ==
    IF "WRITE_DONE" \in s.flags THEN s
    ELSE WriteIsDone([s EXCEPT !.flags = @ \cup {"WRITE_DONE"}], rooms, fin)

\* The whole header block is out; a shutdown that waited for it is done now.
MaybeShutdown(s, rooms) ==
    IF "DELAYED_SW" \in s.flags
    THEN ShutdownWrite([s EXCEPT !.flags = @ \ {"DELAYED_SW"}], rooms, FALSE) ELSE s
HblockSent(s, rooms) == MaybeShutdown([s EXCEPT !.headers = "sent", !.hblock = 0], rooms)

HblockWritten(s, rooms) ==
    IF s.rd = 0 THEN HblockSent(s, rooms) ELSE [s EXCEPT !.hblock = s.rd, !.rd = 0]
WriteHblock(s, rooms) == HblockWritten(StreamWriteBytes(s, s.hblock, rooms, TRUE), rooms)

\* The header block becomes a frame of known size; the encoder stream may have
\* to go first.
SendIfReady(s, rooms) ==
    IF s.headers = "hblock" /\ WriteAvail(s) > 0 THEN WriteHblock(s, rooms) ELSE s
SendHeaders(s, rooms, full) ==
    SendIfReady(ActivateFrame([s EXCEPT !.headers = IF full THEN "hblock" ELSE "enc", !.hblock = HblockSize],
                              NewFrame(s.payload + s.nbuf, "HEADERS", TRUE, HblockSize)),
                rooms)

-----------------------------------------------------------------------------
PacketFills == UNION {[1 .. n -> PacketRooms]: n \in 0 .. MaxPackets}

SWInit ==
    /\ sm \in {[http |-> h, maxOff |-> Min(StreamCredits), ccMax |-> Min(ConnCredits), ccSent |-> 0,
                tosend |-> 0, payload |-> 0, nbuf |-> 0, rd |-> 0, frames |-> <<>>, flags |-> {},
                flushTo |-> 0, flushToPayload |-> 0, blocked |-> 0, ccBlocked |-> 0, hblock |-> 0,
                headers |-> IF h THEN "none" ELSE "sent",
                wire |-> IF h THEN <<>> ELSE <<[type |-> "plain", sz |-> 0, len |-> -1, n |-> 0]>>,
                pwritev |-> FALSE, iov |-> <<>>, hq |-> <<>>, asserted |-> TRUE]: h \in BOOLEAN}
    /\ app = [took |-> 0, calls |-> 0]

Writable == sm.headers = "sent" /\ sm.flags \cap {"WRITE_DONE", "FIN_SENT", "ERROR"} = {}
Call(n) == /\ app.calls < MaxWrites
           /\ app' = [took |-> app.took + n, calls |-> app.calls + 1]

\* lsquic_stream_send_headers().  The headers must go first, and once.
DoSendHeaders ==
    /\ sm.headers = "none" /\ Call(HblockSize)
    /\ \E r \in PacketFills, full \in BOOLEAN: sm' = SendHeaders(sm, r, full)

\* The encoder stream's bytes are out, or the stream is writeable again.
DoHeaderWrapper ==
    /\ sm.headers \in {"enc", "hblock"} /\ WriteAvail(sm) > 0
    /\ \E r \in PacketFills: sm' = WriteHblock([sm EXCEPT !.headers = "hblock"], r)
    /\ UNCHANGED app

DoWrite ==
    /\ Writable
    /\ \E n \in WriteSizes, r \in PacketFills:
        \E t \in {StreamWriteBytes(sm, n, r, TRUE)}:
            sm' = [t EXCEPT !.rd = 0] /\ Call(n - t.rd)

DoPwritev ==
    /\ Writable
    /\ \E n \in WriteSizes, r \in PacketFills, short \in {0, 1, 2}:
        \E p \in {Pwritev(sm, n, r, short)}: sm' = p.s /\ Call(p.n)

\* lsquic_stream_flush()
DoFlush ==
    /\ "WRITE_DONE" \notin sm.flags /\ "ERROR" \notin sm.flags /\ sm.nbuf > 0 /\ Call(0)
    /\ \E r \in PacketFills: sm' = FlushNocheck(sm, r)

DoShutdown ==
    /\ sm.headers # "none" /\ sm.flags \cap {"WRITE_DONE", "DELAYED_SW", "ERROR"} = {}
    /\ \E r \in PacketFills, fin \in BOOLEAN:
        sm' = IF sm.headers = "sent" THEN ShutdownWrite(sm, r, fin)
              ELSE [sm EXCEPT !.flags = @ \cup {"DELAYED_SW"}]
    /\ UNCHANGED app

\* A tick of the connection: a flush that did not finish goes on.
Dispatch ==
    /\ "WANT_FLUSH" \in sm.flags /\ "ERROR" \notin sm.flags
    /\ \E r \in PacketFills: sm' = Flush(sm, r)
    /\ UNCHANGED app

WindowUpdate ==
    /\ UNCHANGED app
    /\ \/ \E m \in StreamCredits: m > sm.maxOff /\ sm' = [sm EXCEPT !.maxOff = m]
       \/ \E m \in ConnCredits: m > sm.ccMax /\ sm' = [sm EXCEPT !.ccMax = m]

SWNext == \/ DoSendHeaders \/ DoHeaderWrapper \/ DoWrite \/ DoPwritev \/ DoFlush \/ DoShutdown
          \/ Dispatch \/ WindowUpdate

SWSpec == SWInit /\ [][SWNext]_swvars

-----------------------------------------------------------------------------
\* Between calls every header in a packet has its length, and that many bytes
\* follow it, or will: they are buffered, or of a header block being sent.
WireIsFramed ==
    sm.http => \A k \in DOMAIN sm.wire:
        LET h == sm.wire[k]
        IN IF k < Len(sm.wire) THEN h.len = h.n ELSE h.len \in h.n .. h.n + sm.nbuf + sm.hblock

\* Offsets count what is in the packets.
OffsetsAreRight ==
    /\ sm.tosend = SumOf(LAMBDA h: h.sz + h.n, sm.wire)
    /\ sm.payload = SumOf(LAMBDA h: h.n, sm.wire)

\* Every byte the application got rid of is in a packet, in the buffer, or in
\* the header block; after the FIN, all of them are in packets.
NothingIsLost ==
    /\ app.took = sm.payload + sm.nbuf + sm.hblock
    /\ "FIN_SENT" \in sm.flags => sm.nbuf = 0 /\ sm.frames = <<>>

\* Flow control: the credit taken is what was sent and what is buffered, and
\* no frame was counted twice.
CreditIsExact ==
    sm.ccSent = sm.tosend + sm.nbuf + SumOf(FrameSize, SelectSeq(sm.frames, LAMBDA f: f.paid /\ ~f.written))

\* A flush is pending only if there is something to flush (the assertion of
\* stream_flush(), run at the next tick).
FlushIsNeeded ==
    "WANT_FLUSH" \in sm.flags => \/ sm.nbuf > 0
                                 \/ "WRITE_DONE" \in sm.flags /\ "FIN_SENT" \notin sm.flags

\* Whatever the sizes of writes and packets, the limits and the order of calls,
\* the peer gets a well-formed sequence of frames with all that was written.
WritesAreFramed ==
    "ERROR" \notin sm.flags =>
        /\ sm.asserted
        /\ WireIsFramed /\ OffsetsAreRight /\ NothingIsLost /\ CreditIsExact /\ FlushIsNeeded
=============================================================================

----------------------------- MODULE GquicFrames ----------------------------
(***************************************************************************)
(* The frames of Google QUIC (lsquic_parse_gquic_be.c), whose fields have  *)
(* widths told by the type byte, and the merging of the ACK frames of one  *)
(* tick (lsquic_merge_acks()).  The type byte is kept as the fields it is  *)
(* made of; the other bytes take BASE values (256 in the code).            *)
(***************************************************************************)
EXTENDS Wire, FiniteSets

CONSTANTS BASE,         \* values of a byte
          MANTISSA,     \* bits of the mantissa of a 16-bit float: 11
          EXPONENT,     \* ... and of its exponent: 5
          GRooms,       \* sizes of the packet payload
          GNumbers,     \* stream IDs and offsets
          GSizes,       \* sizes of data
          GPacknos,     \* packet numbers that may be acknowledged
          GDelays,      \* how long ago the largest of them arrived
          OUT_RANGES,   \* lsquic_merge_acks(): 256 ranges
          GMaxFrames    \* bound: frames in a packet

GquicFramesAssumption ==
    /\ {BASE, MANTISSA, EXPONENT, OUT_RANGES} \subseteq Nat \ {0}
    /\ GRooms \cup GNumbers \cup GSizes \cup GPacknos \cup GDelays \subseteq Nat

VARIABLES g_room, g_payload, g_frames

gfvars == <<g_room, g_payload, g_frames>>

NoRoom == <<>>
IfRoom(cells, avail) == IF Len(cells) > avail THEN NoRoom ELSE cells
Type(rec) == <<[k |-> "type", v |-> rec, w |-> 1]>>
Least(a, b) == IF a < b THEN a ELSE b
Sorted(S, Before(_, _)) ==
    [i \in 1..Cardinality(S) |->
        CHOOSE x \in S : Cardinality({y \in S : Before(y, x)}) = i - 1]
MaxOf(S) == CHOOSE x \in S : \A y \in S : y <= x

-----------------------------------------------------------------------------
(* Times *)

\* lsquic_gquic_be_write_float_time16(): the loop finds the largest power, the
\* hidden bit of what is left adds one to the exponent.
WriteFloat(t) ==
    CASE t < 2^MANTISSA -> t
      [] t > (2^(MANTISSA + 1) - 1) * 2^(2^EXPONENT - 2) -> 2^(MANTISSA + EXPONENT) - 1
      [] OTHER ->
            LET step(x, i) == IF x.t >= 2^(MANTISSA + i)
                              THEN [t |-> x.t \div 2^i, high |-> x.high + i] ELSE x
                r == FoldLeft(step, [t |-> t, high |-> 0],
                              [j \in 1..EXPONENT |-> 2^(EXPONENT - j)])
            IN  r.t + r.high * 2^MANTISSA

\* lsquic_gquic_be_read_float_time16()
ReadFloat(val) ==
    LET exp == val \div 2^MANTISSA IN
    IF exp = 0 THEN val ELSE ((val % 2^MANTISSA) + 2^MANTISSA) * 2^(exp - 1)

-----------------------------------------------------------------------------
(* Frames of fixed layout *)

\* Those without data: type, and numbers of 4 and 8 bytes
GenFixed(f, avail) ==
    LET type == Type([t |-> f.t]) IN
    IfRoom(CASE f.t = "WINDOW_UPDATE" -> type \o Uint(f.stream_id, 4) \o Uint(f.offset, 8)
             [] f.t = "BLOCKED"       -> type \o Uint(f.stream_id, 4)
             [] f.t = "RST_STREAM"    -> type \o Uint(f.stream_id, 4) \o Uint(f.offset, 8)
                                              \o Uint(f.error_code, 4)
             [] f.t = "PING"          -> type,
           avail)

ParseFixed(r, t) ==
    CASE t = "WINDOW_UPDATE" -> ReadUint(ReadUint(r, "stream_id", 4), "offset", 8)
      [] t = "BLOCKED"       -> ReadUint(r, "stream_id", 4)
      [] t = "RST_STREAM"    ->
            ReadUint(ReadUint(ReadUint(r, "stream_id", 4), "offset", 8), "error_code", 4)
      [] t = "PING"          -> r

\* Reasons are preceded by two bytes of length
ReadReason(s) == IF s.ok THEN ReadData(s, "reason", s.f.reason) ELSE s
GenClose(f, avail) ==
    IfRoom(Type([t |-> "CONNECTION_CLOSE"]) \o Uint(f.error_code, 4) \o Uint(f.reason, 2)
            \o Data(f.reason), avail)
ParseClose(r) ==
    ReadReason(ReadUint(ReadUint(r, "error_code", 4), "reason", 2))

GenGoaway(f, avail) ==
    IfRoom(Type([t |-> "GOAWAY"]) \o Uint(f.error_code, 4) \o Uint(f.last_good, 4)
            \o Uint(f.reason, 2) \o Data(f.reason), avail)
ParseGoaway(r) ==
    ReadReason(ReadUint(ReadUint(ReadUint(r, "error_code", 4), "last_good", 4), "reason", 2))

\* STOP_WAITING: the distance to the packet's own number, in as many bytes as the
\* header gives to the latter
GenStopWaiting(f, avail) ==
    IfRoom(Type([t |-> "STOP_WAITING"]) \o Uint(f.cur - f.least, f.packno_len), avail)
ParseStopWaiting(r, cur, packno_len) ==
    LET Base(s) ==
            IF ~s.ok THEN s
            ELSE [s EXCEPT !.f = [cur |-> cur, packno_len |-> packno_len, least |-> cur - s.f.delta]]
    IN  Base(ReadUint(r, "delta", packno_len))

-----------------------------------------------------------------------------
(* STREAM: 1fdoooss *)

\* Bytes of a stream ID: 1 to 4; of an offset: none, or 2 to 8
IdLen(id) == 1 + Cardinality({i \in 1..3 : id >= BASE^i})
OffLen(off) ==
    (IF off > 0 THEN 2 ELSE 0) + Cardinality({i \in 2..7 : off >= BASE^i})

\* gsf_read() fills the space if the stream has that much
GenStream(f, avail) ==
    LET slen == IdLen(f.stream_id)
        olen == OffLen(f.offset)
        left == avail - 1 - slen - olen
        dlen == IF f.size < left THEN 2 ELSE 0
        nr   == Least(f.size, left - dlen)
        head(fin, d) == Type([t |-> "STREAM", fin |-> fin, dlen |-> d, olen |-> olen,
                              slen |-> slen])
                        \o Uint(f.stream_id, slen)
                        \o (IF olen > 0 THEN Uint(f.offset, olen) ELSE <<>>)
    IN  CASE f.size > 0 /\ 1 + slen + olen + dlen + 1 <= avail ->
                head(f.fin /\ nr = f.size, dlen)
                \o (IF dlen > 0 THEN Uint(nr, 2) ELSE <<>>) \o Data(nr)
          [] f.size = 0 /\ 1 + slen + olen + 2 <= avail -> head(TRUE, 2) \o Uint(0, 2)
          [] OTHER -> NoRoom

\* lsquic_calc_stream_frame_header_sz_gquic()
StreamHeaderSize(f) == 1 + IdLen(f.stream_id) + OffLen(f.offset)

ParseStream(r, type) ==
    LET Offset(a) == IF type.olen > 0 THEN ReadUint(a, "offset", type.olen)
                     ELSE Take(a, "offset", 0, 0)
        Sized(c) == IF c.ok THEN ReadData(c, "size", c.f.size) ELSE c
        Bytes(b) == IF type.dlen = 0 THEN ReadData(b, "size", Len(b.rest))
                    ELSE Sized(ReadUint(b, "size", 2))
        NotEmpty(d) == IF d.ok /\ d.f.size = 0 /\ ~type.fin THEN Failed(d) ELSE d
    IN  NotEmpty(Bytes(Offset(ReadUint(Take(r, "fin", type.fin, 0), "stream_id", type.slen))))

\* lsquic_turn_on_fin_Q035_thru_Q046(), lsquic_gquic_be_dec_stream_frame_size()
TurnOnFin(b) == [b EXCEPT ![1].v.fin = TRUE]
DecStreamFrameSize(b, new_size) ==
    LET type == b[1].v IN
    IF type.dlen = 0 THEN b ELSE [b EXCEPT ![2 + type.olen + type.slen].v = new_size]

-----------------------------------------------------------------------------
(* ACK: 01nullmm *)

Len1246(n) == IF n < BASE THEN 1 ELSE IF n < BASE^2 THEN 2 ELSE IF n < BASE^4 THEN 4 ELSE 6

\* Large gaps take several blocks: the blocks of zero length that go before the
\* range's own
Chunks(gap) == [i \in 1..((gap - 1) \div (BASE - 1)) |-> BASE - 1]

\* The additional blocks: a gap and a length each
GBlocks(ranges) ==
    FlattenSeq([i \in 1..(Len(ranges) - 1) |->
        LET gap == ranges[i].low - ranges[i + 1].high - 1
            zs  == IF gap < BASE THEN <<>> ELSE Chunks(gap)
            sum == Len(zs) * (BASE - 1)
        IN  [j \in DOMAIN zs |-> [gap |-> zs[j], length |-> 0]]
            \o <<[gap |-> gap - sum,
                  length |-> ranges[i + 1].high - ranges[i + 1].low + 1]>>])

\* lsquic_gquic_be_gen_ack_frame(): blocks until there are no more, no room, or as
\* many as their number can count
GenAck(f, avail) ==
    LET maxno  == f.ranges[1].high
        lens   == {f.ranges[i].high - f.ranges[i].low + 1 : i \in DOMAIN f.ranges}
        ll     == Len1246(maxno)
        mm     == Len1246(MaxOf(lens))
        first  == Uint(maxno - f.ranges[1].low + 1, mm)
        blocks == GBlocks(f.ranges)
        many   == Len(f.ranges) > 1
        hdr    == 1 + ll + 2 + mm + (IF many THEN 1 ELSE 0)
        fit    == Least(Least(Len(blocks), BASE - 1), (avail - hdr - 1) \div (mm + 1))
        n      == IF fit < 1 THEN 1 ELSE fit
    IN  IF hdr + 1 > avail \/ (many /\ hdr + mm + 1 + 1 > avail) THEN NoRoom
        ELSE Type([t |-> "ACK", many |-> many, ll |-> ll, mm |-> mm])
             \o Uint(maxno, ll) \o Uint(WriteFloat(f.delay), 2)
             \o (IF many THEN Byte(n) ELSE <<>>) \o first
             \o (IF many THEN FlattenSeq([i \in 1..n |-> Byte(blocks[i].gap)
                                                        \o Uint(blocks[i].length, mm)])
                 ELSE <<>>)
             \o Byte(0)

\* The blocks of an ACK frame; gaps add up over blocks of zero length
ParseBlocks(r, mm) ==
    LET Block(t, gap, high) ==
            IF t.f.length = 0 THEN Take(t, "gap", gap, 0)
            ELSE Take(Take(t, "gap", 0, 0), "ranges",
                      Append(t.f.ranges, [high |-> high, low |-> high - t.f.length + 1]), 0)
        Below(t, gap) == Block(t, gap, t.f.ranges[Len(t.f.ranges)].low - gap - 1)
        Step(x, t) == IF t.ok THEN Below(t, x.f.gap + t.f.g) ELSE Failed(x)
    IN  FoldLeft(LAMBDA x, i : Step(x, ReadUint(ReadUint(x, "g", 1), "length", mm)),
                 Take(r, "gap", 0, 0), [i \in 1..r.f.n |-> i])

\* lsquic_gquic_be_parse_ack_frame()
ParseAck(r, type) ==
    LET Count(a) == IF type.many THEN ReadUint(a, "n", 1) ELSE a
        First(c) == IF ~c.ok THEN c
                    ELSE Take(c, "ranges", <<[high |-> c.f.high, low |-> c.f.high - c.f.first + 1]>>, 0)
        Blocks(d) == IF d.ok /\ type.many THEN ParseBlocks(d, type.mm) ELSE d
        Frame(g) == IF ~g.ok THEN g
                    ELSE [g EXCEPT !.f = [delay |-> ReadFloat(g.f.float), ranges |-> g.f.ranges]]
    IN  Frame(ReadUint(Blocks(First(ReadUint(Count(ReadUint(ReadUint(r, "high", type.ll), "float", 2)),
                                             "first", type.mm))),
                       "timestamps", 1))

-----------------------------------------------------------------------------
(* Merging *)

Covered(ranges) == UNION {ranges[i].low..ranges[i].high : i \in DOMAIN ranges}

Touches(range, last) == range.high + 1 >= last.low

\* The ranges of both, highest first, the older frame's before the newer's
ByHigh(dst, src) ==
    LET at(x) == IF x[2] = 0 THEN dst[x[1]] ELSE src[x[1]]
        Ranges(s) == [i \in DOMAIN s |-> at(s[i])]
    IN  Ranges(Sorted({<<i, 0>> : i \in DOMAIN dst} \cup {<<i, 1>> : i \in DOMAIN src},
                      LAMBDA x, y : at(x).high > at(y).high
                                    \/ (at(x).high = at(y).high /\ x[2] < y[2])))

\* lsquic_merge_acks(): <<>> when it fails
MergeAcks(dst, src) ==
    LET Step(out, range) ==
            IF out = <<>> THEN <<range>>
            ELSE IF Touches(range, out[Len(out)]) THEN [out EXCEPT ![Len(out)].low = range.low]
            ELSE Append(out, range)
        Limit(out) == IF Len(out) > OUT_RANGES THEN <<>> ELSE out
    IN  Limit(FoldLeft(Step, <<>>, ByHigh(dst, src)))

-----------------------------------------------------------------------------
(* The packet *)

GenFrame(f, avail) ==
    CASE f.t \in {"WINDOW_UPDATE", "BLOCKED", "RST_STREAM", "PING"} -> GenFixed(f, avail)
      [] f.t = "CONNECTION_CLOSE" -> GenClose(f, avail)
      [] f.t = "GOAWAY"           -> GenGoaway(f, avail)
      [] f.t = "STOP_WAITING"     -> GenStopWaiting(f, avail)
      [] f.t = "STREAM"           -> GenStream(f, avail)
      [] f.t = "ACK"              -> GenAck(f, avail)

ParseBody(t, r, type) ==
    CASE t \in {"WINDOW_UPDATE", "BLOCKED", "RST_STREAM", "PING"} -> ParseFixed(r, t)
      [] t = "CONNECTION_CLOSE" -> ParseClose(r)
      [] t = "GOAWAY"           -> ParseGoaway(r)
      [] t = "STOP_WAITING"     -> ParseStopWaiting(r, 50, 2)
      [] t = "STREAM"           -> ParseStream(r, type)
      [] t = "ACK"              -> ParseAck(r, type)

\* The frame at the beginning of the buffer, in packet 50 with a number of two bytes
ParseFrame(b) ==
    LET Typed(s) == [s EXCEPT !.f = [n \in DOMAIN @ \cup {"t"} |->
                                        IF n = "t" THEN b[1].v.t ELSE @[n]]]
    IN  Typed(ParseBody(b[1].v.t, [Reader(b) EXCEPT !.rest = Tail(b)], b[1].v))

\* The ranges that cover a set of packet numbers, highest first
RangesOf(S) ==
    LET highs == Sorted({n \in S : n + 1 \notin S}, LAMBDA x, y : x > y)
    IN  [i \in DOMAIN highs |->
            [high |-> highs[i],
             low |-> MaxOf({n \in S : n <= highs[i] /\ n - 1 \notin S})]]

Frames(n) ==
    [t : {"WINDOW_UPDATE"}, stream_id : {3}, offset : {n}]
    \cup [t : {"BLOCKED"}, stream_id : {n}] \cup [t : {"PING"}]
    \cup [t : {"RST_STREAM"}, stream_id : {n}, offset : {n + 1}, error_code : {2}]
    \cup [t : {"STREAM"}, stream_id : {n, 1}, offset : {0, n}, size : GSizes, fin : {TRUE}]
    \cup [t : {"STREAM"}, stream_id : {1}, offset : {0, n}, size : GSizes \ {0}, fin : {FALSE}]
    \cup [t : {"CONNECTION_CLOSE"}, error_code : {9}, reason : GSizes]
    \cup [t : {"GOAWAY"}, error_code : {9}, last_good : {n}, reason : GSizes]
    \cup [t : {"STOP_WAITING"}, cur : {50}, least : {50 - (n % 40)}, packno_len : {2}]

Acks(delay) ==
    {[t |-> "ACK", delay |-> delay, ranges |-> RangesOf(S)] : S \in SUBSET GPacknos \ {{}}}

\* The ranges whose blocks were written: those the room and the count allow
Reported(f, cells) ==
    LET want == GBlocks(f.ranges)
        n == IF cells[1].v.many THEN cells[1 + cells[1].v.ll + 2 + 1].v ELSE 0
    IN  1 + Cardinality({i \in 1..n : want[i].length > 0})

NData(cells) == Cardinality({i \in DOMAIN cells : cells[i].k = "data"})

Written(f, cells) ==
    CASE f.t = "ACK"    -> [f EXCEPT !.ranges = SubSeq(@, 1, Reported(f, cells))]
      [] f.t = "STREAM" -> [f EXCEPT !.size = NData(cells), !.fin = @ /\ NData(cells) = f.size]
      [] OTHER          -> f

GFInit == g_room \in GRooms /\ g_payload = <<>> /\ g_frames = <<>>

OpenEnded(b) == b[1].v.t = "STREAM" /\ b[1].v.dlen = 0
MayAppend == g_frames # <<>> => ~OpenEnded(g_payload[Len(g_payload)])

Add(f) ==
    /\ Len(g_frames) < GMaxFrames /\ MayAppend
    /\ \E cells \in {GenFrame(f, g_room - Len(FlattenSeq(g_payload)))} :
        /\ cells # NoRoom
        /\ g_payload' = Append(g_payload, cells)
        /\ g_frames' = Append(g_frames, Written(f, cells))
    /\ UNCHANGED g_room

AddFrame == \E n \in GNumbers : \E f \in Frames(n) : Add(f)
AddAck == \E d \in GDelays : \E f \in Acks(d) :
            (g_frames # <<>> => g_frames[1].t = "ACK") /\ Add(f)

LateFin ==
    \E i \in DOMAIN g_frames :
        /\ g_frames[i].t = "STREAM" /\ ~g_frames[i].fin
        /\ g_payload' = [g_payload EXCEPT ![i] = TurnOnFin(@)]
        /\ g_frames' = [g_frames EXCEPT ![i].fin = TRUE]
        /\ UNCHANGED g_room

Rollback ==
    LET i == Len(g_frames) IN
    /\ i > 0 /\ g_frames[i].t = "STREAM" /\ ~g_frames[i].fin
    /\ \E n \in 1..(Least(g_frames[i].size, 3) - 1) :
        /\ g_payload' = [g_payload EXCEPT ![i] =
                DecStreamFrameSize(SubSeq(@, 1, Len(@) - (g_frames[i].size - n)), n)]
        /\ g_frames' = [g_frames EXCEPT ![i].size = n]
    /\ UNCHANGED g_room

GFNext == AddFrame \/ AddAck \/ LateFin \/ Rollback

GFSpec == GFInit /\ [][GFNext]_gfvars

-----------------------------------------------------------------------------
(* Properties *)

Advance(got, r) == [ok |-> r.ok, rest |-> r.rest, got |-> Append(got, r.f)]
Walk(b) ==
    FoldLeft(LAMBDA x, i :
                IF ~x.ok \/ x.rest = <<>> THEN Failed(x)
                ELSE Advance(x.got, ParseFrame(x.rest)),
             [ok |-> TRUE, rest |-> b, got |-> <<>>],
             [i \in 1..Len(g_frames) |-> i])

\* Times lose no more than the mantissa cannot hold.
DelayKept(got, sent) ==
    LET max == (2^(MANTISSA + 1) - 1) * 2^(2^EXPONENT - 2) IN
    IF sent > max THEN got = max ELSE got <= sent /\ (sent - got) * 2^MANTISSA <= sent

Same(got, sent) ==
    IF sent.t = "ACK" THEN got.ranges = sent.ranges /\ DelayKept(got.delay, sent.delay)
    ELSE got = sent

\* What the receiver of a Google QUIC packet finds are the frames that were
\* written, with the data and the ranges there was room for (gaps too large for
\* a byte included); and ACK frames merged in any order acknowledge nothing
\* that neither of them does, in ranges that are apart and descend.
GquicRoundTrip ==
    LET Walked(w) == /\ w.ok /\ w.rest = <<>>
                     /\ \A i \in DOMAIN g_frames : Same(w.got[i], g_frames[i])
        Merged(m, a, b) == /\ Covered(m) \subseteq Covered(a) \cup Covered(b)
                           /\ \A k \in 1..(Len(m) - 1) : m[k].low > m[k + 1].high + 1
    IN  /\ Len(FlattenSeq(g_payload)) <= g_room
        /\ Walked(Walk(FlattenSeq(g_payload)))
        /\ \A i, j \in DOMAIN g_frames :
            (g_frames[i].t = "ACK" /\ g_frames[j].t = "ACK") =>
                Merged(MergeAcks(g_frames[i].ranges, g_frames[j].ranges),
                       g_frames[i].ranges, g_frames[j].ranges)
=============================================================================

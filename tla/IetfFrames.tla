----------------------------- MODULE IetfFrames -----------------------------
(***************************************************************************)
(* The frames of IETF QUIC (lsquic_parse_ietf_v1.c): what the generators   *)
(* write into a packet of limited room, and what the parsers make of it.   *)
(* An endpoint fills a packet with frames of every kind; the receiver      *)
(* walks it.                                                               *)
(***************************************************************************)
EXTENDS Wire, FiniteSets

CONSTANTS Rooms,        \* sizes of the packet payload
          Numbers,      \* numbers carried by the fields
          Sizes,        \* sizes of data the application has
          RangeCounts,  \* how many ranges an ACK reports
          MAX_RANGES,   \* struct ack_info: 256
          MinAckRoom,   \* ACK frames go into new packets of at least this size
          MaxFrames     \* bound: frames in a packet

IetfFramesAssumption ==
    /\ Rooms \cup Numbers \cup Sizes \subseteq Nat
    /\ RangeCounts \subseteq Nat \ {0}
    /\ MAX_RANGES \in Nat \ {0} /\ {MinAckRoom, MaxFrames} \subseteq Nat

VARIABLES room, payload, frames

ifvars == <<room, payload, frames>>

NoRoom == <<>>                          \* the generators' -1
IfRoom(cells, avail) == IF Len(cells) > avail THEN NoRoom ELSE cells
Bit(b) == IF b THEN 1 ELSE 0
Least(a, b) == IF a < b THEN a ELSE b

SRESET_TOKEN_SZ == 16
MAX_CID_LEN == 20
ACK_FREQUENCY == 175                    \* FRAME_TYPE_ACK_FREQUENCY
TIMESTAMP == 757                        \* FRAME_TYPE_TIMESTAMP
ACK_DELAY_EXP == 3                      \* TP_DEF_ACK_DELAY_EXP

-----------------------------------------------------------------------------
(* Frames that are a type and a few numbers *)

\* ietf_v1_gen_one_varint() and its callers: the type byte
OneVarintType(f) ==
    CASE f.t = "MAX_DATA"        -> 16
      [] f.t = "MAX_STREAMS"     -> 18 + Bit(f.uni)
      [] f.t = "BLOCKED"         -> 20
      [] f.t = "STREAMS_BLOCKED" -> 22 + Bit(f.uni)
      [] f.t = "RETIRE_CID"      -> 25
OneVarint == {"MAX_DATA", "BLOCKED", "RETIRE_CID"}
OneVarintDir == {"MAX_STREAMS", "STREAMS_BLOCKED"}
GenOneVarint(f, avail) == IfRoom(Byte(OneVarintType(f)) \o Vint(f.val), avail)

\* ietf_v1_parse_one_varint(); the streams frames take the direction from the type
ParseOneVarint(r) == ReadVint(r, "val")
ParseMaxStreams(r, type) == Take(ReadVint(r, "val"), "uni", type # 18, 0)
ParseStreamsBlocked(r, type) == Take(ReadVint(r, "val"), "uni", type # 22, 0)

\* ietf_v1_gen_two_varints() and its callers
TwoVarintsType(f) ==
    CASE f.t = "STOP_SENDING"    -> 5
      [] f.t = "MAX_STREAM_DATA" -> 17
      [] f.t = "STREAM_BLOCKED"  -> 21
GenTwoVarints(f, avail) ==
    IfRoom(Byte(TwoVarintsType(f)) \o Vints(<<f.stream_id, f.val>>), avail)
ParseTwoVarints(r) == ReadVints(r, <<"stream_id", "val">>)
ParseStopSending(r) == ReadVints(r, <<"stream_id", "val">>)

\* RESET_STREAM: the generator's parameters come in another order
RstFrameSize(f) == 1 + VintSize(f.stream_id) + VintSize(f.error_code) + VintSize(f.final_size)
GenRst(f, avail) ==
    IF avail < RstFrameSize(f) THEN NoRoom
    ELSE Byte(4) \o Vints(<<f.stream_id, f.error_code, f.final_size>>)
ParseRst(r) == ReadVints(r, <<"stream_id", "error_code", "final_size">>)

\* ACK_FREQUENCY and TIMESTAMP have types of two bytes
GenAckFrequency(f, avail) ==
    LET Write(nums) == IF Len(nums) >= avail THEN NoRoom ELSE nums \o Byte(Bit(f.ignore))
    IN  Write(Vints(<<ACK_FREQUENCY, f.seqno, f.pack_tol, f.upd_mad>>))
ParseAckFrequency(r) ==
    LET Flag(s) == IF s.ok /\ s.f.ignore < 2 THEN [s EXCEPT !.f.ignore = @ = 1] ELSE Failed(s)
    IN  Flag(ReadUint(ReadVints(r, <<"seqno", "pack_tol", "upd_mad">>), "ignore", 1))
AckFrequencySize(f) == 1 + Len(Vints(<<ACK_FREQUENCY, f.seqno, f.pack_tol, f.upd_mad>>))
GenTimestamp(f, avail) == IfRoom(Vints(<<TIMESTAMP, f.val>>), avail)
ParseTimestamp(r) == ReadVint(r, "val")

\* PING, HANDSHAKE_DONE, PATH_CHALLENGE and PATH_RESPONSE
GenEmpty(f, avail) == IfRoom(Byte(IF f.t = "PING" THEN 1 ELSE 30), avail)
GenPath(f, avail) ==
    IfRoom(Byte(IF f.t = "PATH_CHALLENGE" THEN 26 ELSE 27) \o Uint(f.val, 8), avail)
ParsePath(r) == ReadUint(r, "val", 8)

-----------------------------------------------------------------------------
(* Frames with a payload *)

\* NEW_TOKEN
NewTokenSize(f) == 1 + VintSize(f.size) + f.size
GenNewToken(f, avail) ==
    IF avail < NewTokenSize(f) THEN NoRoom ELSE Byte(7) \o Vint(f.size) \o Data(f.size)
ReadSized(s) == IF s.ok THEN ReadData(s, "size", s.f.size) ELSE s
ParseNewToken(r) == ReadSized(ReadVint(r, "size"))

\* NEW_CONNECTION_ID: nothing is ever asked to be retired
NewConnectionIdSize(f) == 1 + VintSize(f.seqno) + 1 + 1 + f.cid + SRESET_TOKEN_SZ
GenNewConnectionId(f, avail) ==
    IF avail < NewConnectionIdSize(f) THEN NoRoom
    ELSE Byte(24) \o Vint(f.seqno) \o Byte(0) \o Byte(f.cid) \o Data(f.cid)
            \o Uint(f.token, SRESET_TOKEN_SZ)
ParseNewConnectionId(r) ==
    LET Rest(s) == IF ~s.ok \/ s.f.cid = 0 \/ s.f.cid > MAX_CID_LEN THEN Failed(s)
                   ELSE ReadUint(ReadData(s, "cid", s.f.cid), "token", SRESET_TOKEN_SZ)
    IN  Rest(ReadUint(ReadVints(r, <<"seqno", "rpt">>), "cid", 1))

\* CONNECTION_CLOSE: the frame type, always zero, only with transport errors
ConnectCloseSize(f) ==
    1 + VintSize(f.error_code) + (IF f.app_error THEN 0 ELSE VintSize(0))
      + VintSize(f.reason) + f.reason
GenConnectClose(f, avail) ==
    IfRoom(Byte(28 + Bit(f.app_error)) \o Vint(f.error_code)
            \o (IF f.app_error THEN <<>> ELSE Byte(0)) \o Vint(f.reason) \o Data(f.reason),
           avail)
ParseConnectClose(r, type) ==
    LET FrameType(a) == IF type = 29 THEN a ELSE ReadVint(a, "reason")
        Reason(c) == IF c.ok THEN ReadData(c, "reason", c.f.reason) ELSE c
    IN  Reason(ReadVint(FrameType(ReadVint(Take(r, "app_error", type = 29, 0), "error_code")),
                        "reason"))

\* CRYPTO: the length field is as wide as the size asked for, the data may be
\* less.
GenCrypto(f, avail) ==
    LET olen == VintSize(f.offset)
        dlen == VintSize(f.size)
        nr   == Least(f.size, avail - 1 - olen - dlen)
    IN  IF 1 + olen + dlen + 1 > avail THEN NoRoom
        ELSE Byte(6) \o VintWrite(f.offset, olen) \o VintWrite(nr, dlen) \o Data(nr)
CryptoHeaderSize(f) == 1 + VintSize(f.offset) + VintSize(f.size)
ParseCrypto(r) ==
    ReadSized(ReadVints(r, <<"offset", "size">>))

\* DATAGRAM: always with a length, as wide as the minimum or the buffer asks for.
\* The application writes f.size bytes, or as many as there is room for.
GenDatagram(f, avail) ==
    LET len_sz == VintSize(IF f.min > 0 THEN f.min ELSE avail)
        nw     == IF f.min > 0 THEN f.min ELSE Least(f.size, avail - 1 - len_sz)
    IN  IF 1 + len_sz + f.min > avail \/ nw < 0 THEN NoRoom
        ELSE Byte(49) \o VintWrite(nw, len_sz) \o Data(nw)
ParseDatagram(r, type) ==
    IF type = 48 THEN ReadData(r, "size", Len(r.rest)) ELSE ReadSized(ReadVint(r, "size"))

\* STREAM: 00001<off><len><fin>.  The length is left out when the data fills the
\* packet.  gsf_read() returns what the stream has, and FIN with the last byte.
StreamType(off, len, fin) == 8 + 4 * Bit(off) + 2 * Bit(len) + Bit(fin)

\* A slip: the length field is not taken off the space left for the data
StreamSpace_bug(f, avail) ==
    LET n_avail == avail - 1 - VintSize(f.stream_id)
                    - (IF f.offset > 0 THEN VintSize(f.offset) ELSE 0)
    IN  IF f.size < n_avail THEN [dlen |-> VintSize(f.size), size |-> f.size]
        ELSE [dlen |-> 0, size |-> n_avail]

\* How the space is shared between the length field and the data
StreamSpace(f, avail) ==
    LET n_avail == avail - 1 - VintSize(f.stream_id)
                    - (IF f.offset > 0 THEN VintSize(f.offset) ELSE 0)
        dlen == VintSize(f.size)
    IN  IF f.size < n_avail THEN [dlen |-> dlen, size |-> Least(f.size, n_avail - dlen)]
        ELSE [dlen |-> 0, size |-> n_avail]

GenStream(f, avail) ==
    LET slen == VintSize(f.stream_id)
        olen == IF f.offset > 0 THEN VintSize(f.offset) ELSE 0
        head == Vint(f.stream_id) \o (IF olen > 0 THEN Vint(f.offset) ELSE <<>>)
        sp   == StreamSpace(f, avail)
        data == 1 + slen + olen + sp.dlen + 1 <= avail
        dlen == 1 + slen + olen < avail
    IN  CASE f.size > 0 /\ data ->
                Byte(StreamType(olen > 0, sp.dlen > 0, f.fin /\ sp.size = f.size))
                \o head \o (IF sp.dlen > 0 THEN VintWrite(sp.size, sp.dlen) ELSE <<>>)
                \o Data(sp.size)
          [] f.size = 0 /\ 1 + slen + olen + Bit(dlen) <= avail ->
                Byte(StreamType(olen > 0, dlen, TRUE)) \o head
                \o (IF dlen THEN VintWrite(0, 1) ELSE <<>>)
          [] OTHER -> NoRoom

StreamHeaderSize(f) ==
    1 + VintSize(f.stream_id) + VintSize(f.size)
      + (IF f.offset > 0 THEN VintSize(f.offset) ELSE 0)

ParseStream(r, type) ==
    LET Offset(a) == IF (type \div 4) % 2 = 1 THEN ReadVint(a, "offset") ELSE Take(a, "offset", 0, 0)
        Bytes(b) == IF (type \div 2) % 2 = 0 THEN ReadData(b, "size", Len(b.rest))
                    ELSE ReadSized(ReadVint(b, "size"))
    IN  Bytes(Offset(ReadVint(Take(r, "fin", type % 2 = 1, 0), "stream_id")))

\* ietf_v1_turn_on_fin(): the type byte of a frame already written
TurnOnFin(b) == [b EXCEPT ![1].v = IF @ % 2 = 0 THEN @ + 1 ELSE @]

\* ietf_v1_dec_stream_frame_size(): the length of a frame already written
DecStreamFrameSize(b, new_size) ==
    LET type == b[1].v
        at   == 1 + b[2].w + (IF (type \div 4) % 2 = 1 THEN b[2 + b[2].w].w ELSE 0) + 1
    IN  IF (type \div 2) % 2 = 0 THEN b ELSE [b EXCEPT ![at].v = new_size]

-----------------------------------------------------------------------------
(* ACK *)

\* One more block: the gap below the previous range, less one, and the size
AckBlock(low, range) == Vint(low - range.high - 2) \o Vint(range.high - range.low)

\* The blocks, as many as there seems to be room for.  The V1-th widens the block
\* count by a byte, which the check of the room does not include (nor does the
\* first check include the ECN counts: a new packet has room for them).
AckBlocks(ranges, hdr, ecn_needs, avail) ==
    FoldLeft(LAMBDA x, i :
                LET blk   == AckBlock(ranges[i - 1].low, ranges[i])
                    grown == x.len + Len(blk) + (IF x.n = V1 - 1 THEN 1 ELSE 0)
                IN  IF x.full \/ ecn_needs + Len(blk) > avail - x.len
                    THEN [x EXCEPT !.full = TRUE]
                    ELSE [x EXCEPT !.cells = @ \o blk, !.n = @ + 1, !.len = grown],
             [cells |-> <<>>, n |-> 0, len |-> hdr, full |-> FALSE],
             [k \in 1..(Len(ranges) - 1) |-> k + 1])

\* ietf_v1_gen_ack_frame().  ecn is <<>> or the counts of ECT(1), ECT(0), CE,
\* which go out as ECT(0), ECT(1), CE (ecnmap).
GenAck(f, avail) ==
    LET Frame(head, first, ecn, bl) ==
            Byte(2 + Bit(f.ecn # <<>>)) \o head
                \o VintWrite(bl.n, IF bl.n >= V1 THEN 2 ELSE 1) \o first \o bl.cells \o ecn
        Write(head, first, ecn, hdr) ==
            IF hdr > avail THEN NoRoom
            ELSE Frame(head, first, ecn, AckBlocks(f.ranges, hdr, Len(ecn), avail))
        Fields(head, first, ecn) == Write(head, first, ecn, 1 + Len(head) + 1 + Len(first))
    IN  Fields(Vint(f.ranges[1].high) \o Vint(f.delay \div 2^ACK_DELAY_EXP),
               Vint(f.ranges[1].high - f.ranges[1].low),
               IF f.ecn = <<>> THEN <<>> ELSE Vints(<<f.ecn[2], f.ecn[1], f.ecn[3]>>))

\* The ranges of a parsed ACK frame: what does not fit the array is skipped
ParseRange(x, t, high, i) ==
    IF ~t.ok THEN Failed(x)
    ELSE IF i >= MAX_RANGES THEN t
    ELSE IF high < 0 \/ t.f.block > high THEN Failed(t)
    ELSE Take(t, "ranges", Append(t.f.ranges, [high |-> high, low |-> high - t.f.block]), 0)
ParseRanges(r) ==
    LET Below(t) == IF t.ok THEN t.f.ranges[Len(t.f.ranges)].low - t.f.gap - 2 ELSE 0
        Step(x, t, i) == ParseRange(x, t, Below(t), i)
        Rest(s) ==
            IF ~s.ok \/ s.f.block > s.f.high THEN Failed(s)
            ELSE FoldLeft(LAMBDA x, i : Step(x, ReadVints(x, <<"gap", "block">>), i),
                          Take(s, "ranges", <<[high |-> s.f.high, low |-> s.f.high - s.f.block]>>, 0),
                          [i \in 1..s.f.count |-> i])
    IN  Rest(ReadVint(ReadVint(r, "count"), "block"))

\* ietf_v1_parse_ack_frame()
ParseAck(r, type) ==
    LET Ecn(s) == IF type = 3 THEN ReadVints(s, <<"ect0", "ect1", "ce">>) ELSE s
        Frame(e) ==
            IF ~e.ok THEN e
            ELSE [e EXCEPT !.f =
                    [delay |-> e.f.delay * 2^ACK_DELAY_EXP, ranges |-> e.f.ranges,
                     ecn |-> IF type = 3 THEN <<e.f.ect1, e.f.ect0, e.f.ce>> ELSE <<>>]]
    IN  Frame(Ecn(ParseRanges(ReadVints(r, <<"high", "delay">>))))

-----------------------------------------------------------------------------
(* The packet *)

GenFrame(f, avail) ==
    CASE f.t \in OneVarint \cup OneVarintDir -> GenOneVarint(f, avail)
      [] f.t \in {"STOP_SENDING", "MAX_STREAM_DATA", "STREAM_BLOCKED"} -> GenTwoVarints(f, avail)
      [] f.t = "RST_STREAM"                  -> GenRst(f, avail)
      [] f.t = "ACK_FREQUENCY"               -> GenAckFrequency(f, avail)
      [] f.t = "TIMESTAMP"                   -> GenTimestamp(f, avail)
      [] f.t \in {"PING", "HANDSHAKE_DONE"}  -> GenEmpty(f, avail)
      [] f.t \in {"PATH_CHALLENGE", "PATH_RESPONSE"} -> GenPath(f, avail)
      [] f.t = "NEW_TOKEN"                   -> GenNewToken(f, avail)
      [] f.t = "NEW_CONNECTION_ID"           -> GenNewConnectionId(f, avail)
      [] f.t = "CONNECTION_CLOSE"            -> GenConnectClose(f, avail)
      [] f.t = "CRYPTO"                      -> GenCrypto(f, avail)
      [] f.t = "DATAGRAM"                    -> GenDatagram(f, avail)
      [] f.t = "STREAM"                      -> GenStream(f, avail)
      [] f.t = "ACK"                         -> GenAck(f, avail)

\* lsquic_iquic_byte2type
Byte2Type(n) ==
    CASE n = 1 -> "PING" [] n \in {2, 3} -> "ACK" [] n = 4 -> "RST_STREAM"
      [] n = 5 -> "STOP_SENDING" [] n = 6 -> "CRYPTO" [] n = 7 -> "NEW_TOKEN"
      [] n \in 8..15 -> "STREAM" [] n = 16 -> "MAX_DATA" [] n = 17 -> "MAX_STREAM_DATA"
      [] n \in {18, 19} -> "MAX_STREAMS" [] n = 20 -> "BLOCKED" [] n = 21 -> "STREAM_BLOCKED"
      [] n \in {22, 23} -> "STREAMS_BLOCKED" [] n = 24 -> "NEW_CONNECTION_ID"
      [] n = 25 -> "RETIRE_CID" [] n = 26 -> "PATH_CHALLENGE" [] n = 27 -> "PATH_RESPONSE"
      [] n \in {28, 29} -> "CONNECTION_CLOSE" [] n = 30 -> "HANDSHAKE_DONE"
      [] n \in {48, 49} -> "DATAGRAM" [] OTHER -> "INVALID"

\* ietf_v1_parse_frame_type(): one byte below 64, or a minimal number
ParseFrameType(c) ==
    CASE c.w = 1 /\ c.v < 64 -> Byte2Type(c.v)
      [] c.k = "vint" /\ c.v = ACK_FREQUENCY /\ c.w = VintSize(c.v) -> "ACK_FREQUENCY"
      [] c.k = "vint" /\ c.v = TIMESTAMP /\ c.w = VintSize(c.v) -> "TIMESTAMP"
      [] OTHER -> "INVALID"

ParseBody(t, r, type) ==
    CASE t \in OneVarint          -> ParseOneVarint(r)
      [] t = "MAX_STREAMS"        -> ParseMaxStreams(r, type)
      [] t = "STREAMS_BLOCKED"    -> ParseStreamsBlocked(r, type)
      [] t \in {"MAX_STREAM_DATA", "STREAM_BLOCKED"} -> ParseTwoVarints(r)
      [] t = "STOP_SENDING"       -> ParseStopSending(r)
      [] t = "RST_STREAM"         -> ParseRst(r)
      [] t = "ACK_FREQUENCY"      -> ParseAckFrequency(r)
      [] t = "TIMESTAMP"          -> ParseTimestamp(r)
      [] t \in {"PING", "HANDSHAKE_DONE"} -> r
      [] t \in {"PATH_CHALLENGE", "PATH_RESPONSE"} -> ParsePath(r)
      [] t = "NEW_TOKEN"          -> ParseNewToken(r)
      [] t = "NEW_CONNECTION_ID"  -> ParseNewConnectionId(r)
      [] t = "CONNECTION_CLOSE"   -> ParseConnectClose(r, type)
      [] t = "CRYPTO"             -> ParseCrypto(r)
      [] t = "DATAGRAM"           -> ParseDatagram(r, type)
      [] t = "STREAM"             -> ParseStream(r, type)
      [] t = "ACK"                -> ParseAck(r, type)
      [] OTHER                    -> Failed(r)

\* The frame at the beginning of the buffer
ParseFrame(b) ==
    LET Typed(t, s) ==
            [s EXCEPT !.f = [n \in DOMAIN @ \cup {"t"} |-> IF n = "t" THEN t ELSE @[n]]]
        Parse(t) == Typed(t, ParseBody(t, [Reader(b) EXCEPT !.rest = SubSeq(b, b[1].w + 1, Len(b))],
                                       b[1].v))
    IN  Parse(ParseFrameType(b[1]))

\* Ranges of an ACK: of one packet each, a gap of one between them, the last
\* one reaching down to low numbers
Ranges(n, low) ==
    [i \in 1..n |-> LET h == low + 3 * (n - i) + 1 IN
                    [high |-> h, low |-> IF i = n THEN 1 ELSE h]]

SimpleFrames(n) ==
    [t : OneVarint \cup {"TIMESTAMP", "PATH_CHALLENGE", "PATH_RESPONSE"}, val : {n}]
    \cup [t : OneVarintDir, val : {n}, uni : BOOLEAN]
    \cup [t : {"STOP_SENDING", "MAX_STREAM_DATA", "STREAM_BLOCKED"}, stream_id : {5}, val : {n}]
    \cup [t : {"RST_STREAM"}, stream_id : {n}, error_code : {9}, final_size : {V2}]
    \cup [t : {"ACK_FREQUENCY"}, seqno : {1}, pack_tol : {2}, upd_mad : {n}, ignore : BOOLEAN]
    \cup [t : {"PING", "HANDSHAKE_DONE"}]
    \cup [t : {"NEW_CONNECTION_ID"}, seqno : {n}, cid : {8}, token : {77}]
SizedFrames(n) ==
    [t : {"NEW_TOKEN"}, size : {n}]
    \cup [t : {"CONNECTION_CLOSE"}, error_code : {0, V1}, app_error : BOOLEAN, reason : {n}]
    \cup [t : {"CRYPTO"}, offset : {0, V1}, size : {n} \ {0}]
    \cup [t : {"DATAGRAM"}, size : {n}, min : {0, n}]
    \cup [t : {"STREAM"}, stream_id : {4}, offset : {0, V1}, size : {n}, fin : {TRUE}]
    \cup [t : {"STREAM"}, stream_id : {V1}, offset : {0, V2}, size : {n} \ {0},
          fin : BOOLEAN]
AckFrames ==
    {[t |-> "ACK", ranges |-> Ranges(n, low), delay |-> 29, ecn |-> e] :
        n \in RangeCounts, low \in {3, V3}, e \in {<<>>, <<1, V1, V2>>}}

\* What a frame says about itself once it is written: sized frames carry what
\* there was room for, a parsed NEW_CONNECTION_ID has a Retire Prior To field.
Sized == {"STREAM", "DATAGRAM", "CRYPTO"}

\* The frame as it was put into the packet: shortened to nr bytes
Put(f, nr) ==
    CASE f.t = "STREAM"   -> [f EXCEPT !.size = nr, !.fin = @ /\ nr = f.size]
      [] f.t = "DATAGRAM" -> [t |-> f.t, size |-> nr]
      [] f.t = "CRYPTO"   -> [f EXCEPT !.size = nr]
      [] f.t = "NEW_CONNECTION_ID" ->
            [t |-> f.t, seqno |-> f.seqno, rpt |-> 0, cid |-> f.cid, token |-> f.token]
      [] OTHER -> f

NData(cells) == Cardinality({i \in DOMAIN cells : cells[i].k = "data"})
NBlocks(cells) == LET at == 2 + cells[2].w IN cells[at + cells[at].w].v

Written(f, cells) ==
    IF f.t = "ACK" THEN [f EXCEPT !.ranges = SubSeq(@, 1, 1 + NBlocks(cells))]
    ELSE Put(f, NData(cells))

IFInit == room \in Rooms /\ payload = <<>> /\ frames = <<>>

\* No frame goes behind one that extends to the end of the packet.
OpenEnded(b) == b[1].v \in 8..15 /\ (b[1].v \div 2) % 2 = 0
MayAppend == frames # <<>> => ~OpenEnded(payload[Len(payload)])

Add(f) ==
    /\ Len(frames) < MaxFrames /\ MayAppend
    /\ \E cells \in {GenFrame(f, room - Len(FlattenSeq(payload)))} :
        /\ cells # NoRoom
        /\ payload' = Append(payload, cells)
        /\ frames' = Append(frames, Written(f, cells))
    /\ UNCHANGED room

AddSimple == \E n \in Numbers : \E f \in SimpleFrames(n) : Add(f)
AddSized == \E n \in Sizes : \E f \in SizedFrames(n) : Add(f)
AddAck == frames = <<>> /\ room >= MinAckRoom /\ \E f \in AckFrames : Add(f)

\* lsquic_packet_out_turn_on_fin(): the stream has been shut down since
LateFin ==
    \E i \in DOMAIN frames :
        /\ frames[i].t = "STREAM" /\ ~frames[i].fin
        /\ payload' = [payload EXCEPT ![i] = TurnOnFin(@)]
        /\ frames' = [frames EXCEPT ![i].fin = TRUE]
        /\ UNCHANGED room

\* lsquic_send_ctl_rollback(): less data could be had than the last frame holds
Rollback ==
    LET i == Len(frames) IN
    /\ i > 0 /\ frames[i].t = "STREAM" /\ ~frames[i].fin
    /\ \E n \in 1..(Least(frames[i].size, 3) - 1) :
        /\ payload' = [payload EXCEPT ![i] =
                         DecStreamFrameSize(SubSeq(@, 1, Len(@) - (frames[i].size - n)), n)]
        /\ frames' = [frames EXCEPT ![i].size = n]
    /\ UNCHANGED room

IFNext == AddSimple \/ AddSized \/ AddAck \/ LateFin \/ Rollback

IFSpec == IFInit /\ [][IFNext]_ifvars

-----------------------------------------------------------------------------
(* Properties *)

\* lsquic_*_parse_*(): the receiver walks the packet frame by frame
Advance(got, r) == [ok |-> r.ok, rest |-> r.rest, got |-> Append(got, r.f)]
Walk(b) ==
    FoldLeft(LAMBDA x, i :
                IF ~x.ok \/ x.rest = <<>> THEN Failed(x)
                ELSE Advance(x.got, ParseFrame(x.rest)),
             [ok |-> TRUE, rest |-> b, got |-> <<>>],
             [i \in 1..Len(frames) |-> i])

\* The size functions, which callers use to find a packet with enough room
SizeOf(f) ==
    CASE f.t = "RST_STREAM"        -> RstFrameSize(f)
      [] f.t = "NEW_CONNECTION_ID" -> NewConnectionIdSize(f)
      [] f.t = "CONNECTION_CLOSE"  -> ConnectCloseSize(f)
      [] f.t = "NEW_TOKEN"         -> NewTokenSize(f)
      [] f.t = "ACK_FREQUENCY"     -> AckFrequencySize(f)

\* The receiver has room for so many ranges, and the delay is rounded down
Kept(f) ==
    IF f.t # "ACK" THEN f
    ELSE [f EXCEPT !.ranges = SubSeq(@, 1, Least(Len(@), MAX_RANGES)),
                   !.delay = @ - (@ % 2^ACK_DELAY_EXP)]

\* The frames a receiver finds in a packet are the frames that were written
\* into it, with the data and the ranges there was room for, whatever the widths
\* of their fields and even if they were changed afterwards; no generator writes
\* past the end of the packet; and the size functions that choose it are right.
FramesRoundTrip ==
    /\ Len(FlattenSeq(payload)) <= room
    /\ Walk(FlattenSeq(payload)) =
        [ok |-> TRUE, rest |-> <<>>, got |-> [i \in DOMAIN frames |-> Kept(frames[i])]]
    /\ \A i \in DOMAIN frames :
        frames[i].t \in {"RST_STREAM", "NEW_CONNECTION_ID", "CONNECTION_CLOSE", "NEW_TOKEN",
                         "ACK_FREQUENCY"}
            => SizeOf(frames[i]) = Len(payload[i])
=============================================================================

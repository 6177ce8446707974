--------------------------- MODULE PacketHeaders ---------------------------
(***************************************************************************)
(* Packet headers of all versions (lsquic_parse_common.c and the           *)
(* lsquic_parse_*.c of the versions): an endpoint writes packets into a    *)
(* datagram, the other end's engine takes it apart.                        *)
(***************************************************************************)
EXTENDS Wire, FiniteSets

CONSTANTS ScidLens,     \* es_scid_len of the receiver
          TokenLens,    \* sizes of the address validation token
          DataSizes,    \* sizes of packet payloads
          MaxCoalesced  \* bound: packets in a datagram

PacketHeadersAssumption ==
    /\ ScidLens \cup TokenLens \cup DataSizes \subseteq Nat
    /\ MaxCoalesced \in Nat

VARIABLES conn,     \* the sender: struct lsquic_conn
          dgram,    \* bytes of the datagram, by packet
          sent      \* the packets in it: struct lsquic_packet_out

phvars == <<conn, dgram, sent>>

Ietf  == {"I001", "I002"}
Gquic == {"Q043", "Q046", "Q050"}
GQUIC_CID_LEN == 8
MAX_CID_LEN == 20
MIN_INITIAL_DCID_LEN == 8
TAG_LEN == 16       \* esf_tag_len; the hash of Google QUIC's packets is shorter
HASH_SZ == 12
NONCE_SZ == 32

Bit(b) == IF b THEN 1 ELSE 0
HasBit(n, b) == (n \div b) % 2 = 1

\* Version tags, as far as the readers look at them
Tag(ver) == CASE ver = "I001" -> 1 [] ver = "I002" -> 2 [] ver = "Q046" -> 46
              [] ver = "Q050" -> 50 [] ver = "Q043" -> 43
Tag2Ver(t) == IF t = 0 THEN "VERNEG" ELSE CHOOSE ver \in Ietf \cup Gquic : Tag(ver) = t

-----------------------------------------------------------------------------
(* Writing.  A packet p has a header type, the bits of its number's length,  *)
(* its number, payload size, token size and flags.                           *)

Longs == {"INITIAL", "0RTT", "HANDSHAKE", "RETRY"}

\* header_type_to_bin, header_type_to_bin_v2
TypeToBin(ver, ht) ==
    LET v1 == CASE ht = "INITIAL" -> 0 [] ht = "0RTT" -> 1 [] ht = "HANDSHAKE" -> 2
                [] ht = "RETRY" -> 3
    IN  IF ver = "I002" THEN (v1 + 1) % 4 ELSE v1
BinToType(ver, b) == CHOOSE ht \in Longs : TypeToBin(ver, ht) = b

PacknoLen(p) == p.bits + 1

\* ietf_v1_packout_header_size_long_by_packet(), ..._by_flags() (which knows of
\* no token), ..._short()
SizeLongByPacket(c, p) ==
    9 + c.dcid.len + c.scid.len + PacknoLen(p)
      + (IF p.ht = "INITIAL" THEN VintSize(p.token) + p.token ELSE 0)
SizeLongByFlags(c, p) ==
    9 + c.dcid.len + c.scid.len + PacknoLen(p) + Bit(p.ht = "INITIAL")
SizeShort(c, p) == 1 + c.dcid.len + PacknoLen(p)

\* A slip: the packet number is not part of the payload length
PayloadLen_bug(p, tag) == p.size + tag

\* The length field covers the packet number, the payload and the tag.
PayloadLen(p, tag) == p.size + tag + PacknoLen(p)

\* gen_long_pkt_header(), gen_short_pkt_header() of the IETF versions
GenIetf(c, p) ==
    IF p.ht = "SHORT"
    THEN Byte(64 + 32 * p.spin + 4 * p.kp + p.bits) \o Cid(c.dcid) \o Uint(p.no, PacknoLen(p))
    ELSE Byte(192 + 16 * TypeToBin(c.ver, p.ht) + p.bits) \o Uint(Tag(c.ver), 4)
            \o Byte(c.dcid.len) \o Cid(c.dcid) \o Byte(c.scid.len) \o Cid(c.scid)
            \o (IF p.ht = "INITIAL" THEN Vint(p.token) \o Data(p.token) ELSE <<>>)
            \o VintWrite(PayloadLen(p, TAG_LEN), 2) \o Uint(p.no, PacknoLen(p))

\* Q046: the lengths of the two connection IDs share a byte, less three each;
\* a long header has all of the packet number and, from the server, a nonce.
Size046(c, p) ==
    IF p.ht = "SHORT" THEN 1 + (IF c.server THEN 0 ELSE 8) + PacknoLen(p)
    ELSE 18 + (IF c.server /\ p.nonce THEN NONCE_SZ ELSE 0)
Gen046(c, p) ==
    IF p.ht = "SHORT"
    THEN Byte(64 + p.bits) \o (IF c.server THEN <<>> ELSE Cid(c.dcid)) \o Uint(p.no, PacknoLen(p))
    ELSE Byte(192 + 16 * TypeToBin(c.ver, p.ht) + 3) \o Uint(46, 4)
            \o Byte(IF c.server THEN 5 ELSE 80) \o Cid(c.scid) \o Uint(p.no, 4)
            \o (IF p.nonce THEN Uint(7, NONCE_SZ) ELSE <<>>)

\* Q050: the one connection ID is the client's destination, the server's source
Size050(c, p) ==
    IF p.ht = "SHORT" THEN 1 + (IF c.server THEN 0 ELSE 8) + PacknoLen(p)
    ELSE 9 + c.scid.len + Bit(p.ht = "INITIAL") + PacknoLen(p) + (IF p.nonce THEN NONCE_SZ ELSE 0)
Gen050(c, p) ==
    IF p.ht = "SHORT"
    THEN Byte(64 + p.bits) \o (IF c.server THEN <<>> ELSE Cid(c.dcid)) \o Uint(p.no, PacknoLen(p))
    ELSE Byte(192 + 16 * TypeToBin(c.ver, p.ht) + p.bits) \o Uint(50, 4)
            \o (IF c.server THEN Byte(0) \o Byte(c.scid.len) \o Cid(c.scid)
                            ELSE Byte(c.scid.len) \o Cid(c.scid) \o Byte(0))
            \o (IF p.ht = "INITIAL" THEN Vint(0) ELSE <<>>)
            \o VintWrite(PayloadLen(p, TAG_LEN) + (IF p.nonce THEN NONCE_SZ ELSE 0), 2)
            \o Uint(p.no, PacknoLen(p)) \o (IF p.nonce THEN Uint(7, NONCE_SZ) ELSE <<>>)

\* Q043: public flags; numbers of one, two, four or six bytes
Len1246(bits) == <<1, 2, 4, 6>>[bits + 1]
Size043(p) ==
    1 + (IF p.connid THEN 8 ELSE 0) + (IF p.version THEN 4 ELSE 0)
      + (IF p.nonce THEN NONCE_SZ ELSE 0) + Len1246(p.bits)
Gen043(c, p) ==
    Byte(8 * Bit(p.connid) + 16 * p.bits + 4 * Bit(p.nonce) + Bit(p.version))
        \o (IF p.connid THEN Cid(c.scid) ELSE <<>>)
        \o (IF p.version THEN Uint(43, 4) ELSE <<>>)
        \o (IF p.nonce THEN Uint(7, NONCE_SZ) ELSE <<>>)
        \o Uint(p.no, Len1246(p.bits))

\* lsquic_iquic_gen_retry_pkt(): the type bits are those of version 1
GenRetry(c, p) ==
    Byte(192 + 16 * 3 + p.bits) \o Uint(Tag(c.ver), 4) \o Byte(c.dcid.len) \o Cid(c.dcid)
        \o Byte(c.scid.len) \o Cid(c.scid) \o Data(p.token) \o Uint(9, TAG_LEN)

\* The version negotiation packets of the three header styles, each with n versions
GenVerneg(c, p) ==
    LET tags == FlattenSeq([i \in 1..p.token |-> Uint(i, 4)]) IN
    CASE c.ver \in Ietf -> Byte(192 + p.bits) \o Uint(0, 4) \o Byte(c.dcid.len) \o Cid(c.dcid)
                                \o Byte(c.scid.len) \o Cid(c.scid) \o tags
      [] c.ver = "Q050" -> Byte(192 + p.bits) \o Uint(0, 4) \o Byte(0) \o Byte(8)
                                \o Cid(c.scid) \o tags
      [] c.ver = "Q046" -> Byte(192 + p.bits) \o Uint(0, 4) \o Byte(5) \o Cid(c.scid) \o tags
      [] c.ver = "Q043" -> Byte(9) \o Cid(c.scid) \o tags

\* lsquic_generate_gquic_reset()
GenReset(c) == Byte(10) \o Cid(c.scid) \o Data(24)

\* pf_gen_reg_pkt_header() and the payload behind it
GenHeader(c, p) ==
    CASE c.ver \in Ietf -> GenIetf(c, p)
      [] c.ver = "Q046" -> Gen046(c, p)
      [] c.ver = "Q050" -> Gen050(c, p)
      [] c.ver = "Q043" -> Gen043(c, p)
TagLen(c) == IF c.ver \in {"Q043", "Q046"} THEN HASH_SZ ELSE TAG_LEN
GenPacket(c, p) ==
    CASE p.ht = "RETRY"  -> GenRetry(c, p)
      [] p.ht = "VERNEG" -> GenVerneg(c, p)
      [] p.ht = "RESET"  -> GenReset(c)
      [] OTHER -> GenHeader(c, p) \o Data(p.size) \o Uint(9, TagLen(c))

\* pf_packout_size()
PackoutSize(c, p) ==
    p.size + TagLen(c) +
    CASE c.ver = "Q043" -> Size043(p) [] c.ver = "Q046" -> Size046(c, p)
      [] c.ver = "Q050" -> Size050(c, p)
      [] OTHER -> IF p.ht = "SHORT" THEN SizeShort(c, p) ELSE SizeLongByPacket(c, p)

-----------------------------------------------------------------------------
(* Reading.  A parsed packet has ok, ht, dcid, gquic (PI_GQUIC), hasid       *)
(* (PI_CONN_ID), the sizes of its token and header, and its own size.        *)

Bad == [ok |-> FALSE]
In(b, r, ht, dcid, token, len) ==
    [ok |-> r.ok, ht |-> ht, dcid |-> dcid, hasid |-> dcid.len > 0, token |-> token,
     hsz |-> Used(b, r), len |-> len, gquic |-> FALSE]

\* What follows the connection IDs in the long headers of Q050 and of the IETF
\* versions: token, length, and what both tell about the size of the packet.
LongRest(b, r, ht, dcid, server) ==
    LET Length(t) == ReadVint(IF t.ok THEN ReadData(t, "token", t.f.token) ELSE t, "len")
        Sized(l) == IF \/ ~l.ok \/ (~server /\ l.f.token > 0)
                       \/ l.f.len > Len(l.rest) \/ Len(l.rest) < 4
                    THEN Bad
                    ELSE In(b, l, ht, dcid, l.f.token, Used(b, l) + l.f.len)
        ToEnd(token) == In(b, [r EXCEPT !.rest = <<>>], ht, dcid, token, Len(b))
    IN  CASE ht = "VERNEG" ->
                IF r.rest = <<>> \/ Len(r.rest) % 4 # 0 THEN Bad ELSE ToEnd(Len(r.rest) \div 4)
          [] ht = "RETRY" ->
                IF Len(r.rest) < 1 + TAG_LEN THEN Bad ELSE ToEnd(Len(r.rest) - TAG_LEN)
          [] OTHER -> Sized(Length(IF ht = "INITIAL" THEN ReadVint(r, "token")
                                   ELSE Take(r, "token", 0, 0)))

\* Type, version, and the two connection IDs with their lengths
CidAfter(r, len, name) == IF r.ok THEN ReadCid(r, name, r.f[len]) ELSE r
TwoCids(b) ==
    CidAfter(ReadUint(CidAfter(ReadUint(ReadUint(ReadUint(Reader(b), "type", 1), "tag", 4),
                                        "dcil", 1),
                               "dcil", "dcid"),
                      "scil", 1),
             "scil", "scid")

\* lsquic_ietf_v1_parse_packet_in_long_begin()
LongIetf(b, server) ==
    LET Type(ver, type) == IF ver = "VERNEG" THEN ver ELSE BinToType(ver, (type \div 16) % 4)
        Rest(s, ht) ==
            IF \/ s.f.dcil > MAX_CID_LEN \/ s.f.scil > MAX_CID_LEN
               \/ (ht = "INITIAL" /\ server /\ s.f.dcil < MIN_INITIAL_DCID_LEN)
            THEN Bad
            ELSE LongRest(b, s, ht, s.f.dcid, server)
        Ids(s) == IF s.ok THEN Rest(s, Type(Tag2Ver(s.f.tag), s.f.type)) ELSE Bad
    IN  IF Len(b) < 6 THEN Bad ELSE Ids(TwoCids(b))

\* lsquic_Q050_parse_packet_in_long_begin(): whichever ID is there becomes the
\* connection's
Long050(b, server) ==
    LET Type(s) == IF s.f.tag = 0 THEN "VERNEG" ELSE BinToType("I001", (s.f.type \div 16) % 4)
        Ids(s) == IF ~s.ok \/ (server /\ s.f.scil > 0) \/ (~server /\ s.f.dcil > 0) THEN Bad
                  ELSE LongRest(b, s, Type(s), IF s.f.scil > 0 THEN s.f.scid ELSE s.f.dcid, server)
    IN  Ids(TwoCids(b))

\* lsquic_Q046_parse_packet_in_long_begin()
Long046(b, server) ==
    LET Nonce(n, ht) == IF ~server /\ ht = "0RTT" THEN ReadUint(n, "nonce", NONCE_SZ) ELSE n
        Number(x, ht) == IF x.ok THEN In(b, x, ht, x.f.cid, 0, Len(b)) ELSE Bad
        Rest(c, ht) == Number(Nonce(ReadUint(c, "no", 1 + (c.f.type % 4)), ht), ht)
        Id(c) == IF ~c.ok \/ c.f.lens # (IF server THEN 80 ELSE 5) THEN Bad
                 ELSE IF c.f.tag = 0 THEN LongRest(b, c, "VERNEG", c.f.cid, server)
                 ELSE Rest(c, BinToType("I001", (c.f.type \div 16) % 4))
    IN  Id(ReadCid(ReadUint(ReadUint(ReadUint(Reader(b), "type", 1), "tag", 4), "lens", 1),
                   "cid", GQUIC_CID_LEN))

\* lsquic_ietf_v1_parse_packet_in_short_begin(), gquic_Q046_parse_packet_in_finish():
\* the ID's length is the receiver's own; only Q046 has its number in the clear
Short(b, cid_len, q046) ==
    LET Number(c) == IF c.ok /\ q046 THEN ReadUint(c, "no", 1 + (c.f.type % 4)) ELSE c
        Read(n) == IF n.ok THEN In(b, n, "SHORT", n.f.cid, 0, Len(b)) ELSE Bad
    IN  Read(Number(ReadCid(ReadUint(Reader(b), "type", 1), "cid", cid_len)))

\* lsquic_gquic_parse_packet_in_begin(): what has a version is a version
\* negotiation packet to the client
Parse043(b, server) ==
    LET flags == b[1].v
        Read(r, ht, token) ==
            IF r.ok THEN [In(b, r, ht, r.f.cid, token, Len(b)) EXCEPT !.gquic = TRUE] ELSE Bad
        Id(a) == IF HasBit(flags, 8) THEN ReadCid(a, "cid", GQUIC_CID_LEN)
                 ELSE Take(a, "cid", NoCid, 0)
        Version(c) == IF HasBit(flags, 1) THEN ReadUint(c, "ver", 4) ELSE c
        Nonce(v) == IF ~server /\ HasBit(flags, 4) THEN ReadUint(v, "nonce", NONCE_SZ) ELSE v
        Verneg(c) == IF Len(c.rest) % 4 # 0 \/ c.rest = <<>> THEN Bad
                     ELSE Read([c EXCEPT !.rest = <<>>], "VERNEG", Len(c.rest) \div 4)
        Rest(c) ==
            IF HasBit(flags, 1) /\ ~server THEN Verneg(c)
            ELSE IF HasBit(flags, 2) /\ ~HasBit(flags, 1) THEN Read(Nonce(Version(c)), "RESET", 0)
            ELSE Read(ReadUint(Nonce(Version(c)), "no", Len1246((flags \div 16) % 4)), "NOT_SET", 0)
    IN  Rest(Id(ReadUint(Reader(b), "type", 1)))

LongByVersion(b, server) ==
    CASE Len(b) < 6 -> Bad
      [] Len(b) >= 6 /\ Tag2Ver(b[2].v) = "Q046" -> Long046(b, server)
      [] Len(b) >= 6 /\ Tag2Ver(b[2].v) = "Q050" -> Long050(b, server)
      [] OTHER -> LongIetf(b, server)

\* lsquic_parse_packet_in_server_begin(): parse_begin_funcs[] goes by five bits.
\* The readers of short headers leave the number to pf_parse_packet_in_finish()
\* of the connection, whose version they do not know.
ServerBegin(b, cid_len, ver) ==
    LET type == b[1].v IN
    CASE type >= 128 -> LongByVersion(b, TRUE)
      [] type \in 64..127 -> Short(b, cid_len, ver = "Q046")
      [] type < 64 /\ HasBit(type, 8) -> Parse043(b, TRUE)
      [] OTHER -> Bad           \* lsquic_Q046_parse_packet_in_short_begin()

\* The client knows its connection when it has no CIDs (ENG_CONNS_BY_ADDR),
\* as it always does with Q046 and Q050; else it goes by the first byte.
ClientBegin(b, cid_len, ver) ==
    LET type == b[1].v
        long == type >= 128
    IN  CASE ver = "Q043" -> Parse043(b, FALSE)
          [] ver = "Q046" -> IF long THEN Long046(b, FALSE) ELSE Short(b, 0, TRUE)
          [] ver = "Q050" -> IF long THEN Long050(b, FALSE) ELSE Short(b, 0, FALSE)
          [] OTHER -> IF long THEN LongIetf(b, FALSE)
                      ELSE IF type >= 64 \/ cid_len = 0 THEN Short(b, cid_len, FALSE)
                      ELSE Parse043(b, FALSE)

Begin(b, c) ==
    IF c.server THEN ClientBegin(b, c.dcid.len, c.ver) ELSE ServerBegin(b, c.dcid.len, c.ver)

\* lsquic_dcid_from_packet(): where the ID is, without parsing the packet
DcidFromPacket(b, cid_len) ==
    LET type == b[1].v IN
    CASE Len(b) < 9 -> NoCid
      [] Len(b) >= 9 /\ type >= 128 ->
            IF Len(b) < 14 THEN NoCid
            ELSE IF b[2].v = 46
            THEN IF b[6].v = 80 THEN ReadCid([Reader(b) EXCEPT !.rest = SubSeq(b, 7, Len(b))],
                                             "cid", GQUIC_CID_LEN).f.cid ELSE NoCid
            ELSE ReadCid([Reader(b) EXCEPT !.rest = SubSeq(b, 7, Len(b))], "cid", b[6].v).f.cid
      [] OTHER ->
            IF type >= 64 \/ HasBit(type, 8)
            THEN ReadCid([Reader(b) EXCEPT !.rest = Tail(b)], "cid", cid_len).f.cid
            ELSE NoCid

\* lsquic_is_valid_ietf_v1_or_Q046plus_hs_packet(): may this start a connection?
IsValidHs(b) ==
    LET type == b[1].v
        Opens(ver, d, s) ==
            /\ BinToType(ver, (type \div 16) % 4) = "INITIAL"
            /\ IF ver = "Q046" THEN d = 80 /\ Len(b) - 6 >= GQUIC_CID_LEN + (type % 4)
               ELSE /\ d >= MIN_INITIAL_DCID_LEN
                    /\ ver = "Q050" => d = 8 /\ s.f.scil = 0
                    /\ LongRest(b, s, "INITIAL", NoCid, TRUE).ok
    IN  Len(b) >= 6 /\ b[2].v # 0 /\ Opens(Tag2Ver(b[2].v), b[6].v, TwoCids(b))

-----------------------------------------------------------------------------
(* Behaviour *)

Packet(ht, bits, size, token, nonce, connid, version) ==
    [ht |-> ht, bits |-> bits, no |-> 5, size |-> size, token |-> token, nonce |-> nonce,
     connid |-> connid, version |-> version, spin |-> bits % 2, kp |-> bits \div 2]

\* Client and server of a connection: in Google QUIC both use one ID
PHInit ==
    /\ dgram = <<>> /\ sent = <<>>
    /\ \E server \in BOOLEAN :
        \/ \E ver \in Ietf, n \in ScidLens :
            conn = [ver |-> ver, server |-> server,
                    dcid |-> IF server /\ n = 0 THEN NoCid ELSE [id |-> 1, len |-> IF server THEN n ELSE 8],
                    scid |-> IF ~server /\ n = 0 THEN NoCid ELSE [id |-> 2, len |-> IF server THEN 8 ELSE n]]
        \/ \E ver \in Gquic :
            conn = [ver |-> ver, server |-> server, dcid |-> [id |-> 1, len |-> 8],
                    scid |-> [id |-> 1, len |-> 8]]

Put(p) ==
    /\ dgram' = Append(dgram, GenPacket(conn, p))
    /\ sent' = Append(sent, p)
    /\ UNCHANGED conn

\* What the packets before it are, a datagram may end in
MayFollow == sent # <<>> => /\ conn.ver \in Ietf
                            /\ sent[Len(sent)].ht \in {"INITIAL", "0RTT", "HANDSHAKE"}

\* Handshake packets; only a client has tokens and 0-RTT data, only a server of
\* Google QUIC nonces, on its 0-RTT packets
SendLong ==
    \E bits \in 0..3, size \in DataSizes, ht \in {"INITIAL", "0RTT", "HANDSHAKE"},
       token \in {0} \cup TokenLens, nonce \in BOOLEAN :
        /\ Len(sent) < MaxCoalesced /\ MayFollow /\ conn.ver # "Q043"
        /\ token > 0 => ht = "INITIAL" /\ ~conn.server /\ conn.ver \in Ietf
        /\ nonce <=> ht = "0RTT" /\ conn.server
        /\ ht = "0RTT" => (conn.server <=> conn.ver \notin Ietf)
        /\ Put(Packet(ht, bits, size, token, nonce, TRUE, TRUE))

SendShort ==
    \E bits \in 0..3, size \in DataSizes :
        /\ Len(sent) < MaxCoalesced /\ MayFollow /\ conn.ver # "Q043"
        /\ Put(Packet("SHORT", bits, size, 0, FALSE, TRUE, FALSE))

\* Only the client tells its version, only the server has a nonce, and only the
\* server may leave the ID out (es_support_tcid0).
Send043 ==
    \E bits \in 0..3, size \in DataSizes, connid, version, nonce \in BOOLEAN :
        /\ conn.ver = "Q043" /\ sent = <<>>
        /\ version => ~conn.server
        /\ nonce => conn.server
        /\ connid \/ conn.server
        /\ Put(Packet("NOT_SET", bits, size, 0, nonce, connid, version))

\* lsquic_pr_queue.c: packets of a server that has no connection
SendStateless ==
    \E ht \in {"RETRY", "VERNEG", "RESET"}, bits \in 0..3, n \in TokenLens :
        /\ conn.server /\ sent = <<>> /\ n > 0
        /\ ht = "RETRY" => conn.ver \in Ietf
        /\ ht = "RESET" => conn.ver = "Q043"
        /\ Put(Packet(ht, bits, 0, IF ht = "RESET" THEN 0 ELSE n, FALSE, TRUE, FALSE))

PHNext == SendLong \/ SendShort \/ Send043 \/ SendStateless

PHSpec == PHInit /\ [][PHNext]_phvars

-----------------------------------------------------------------------------
(* Properties *)

NextPacket(b, in) == SubSeq(b, in.len + 1, Len(b))

\* lsquic_engine_packet_in(): the packets of a datagram.  Those that follow the
\* first one must have its ID.
EnginePacketIn(b) ==
    LET Step(x, in, i) ==
            IF ~in.ok THEN [x EXCEPT !.stop = TRUE]
            ELSE IF x.ietf /\ i > 1 /\ ~(in.hasid /\ ~in.gquic /\ in.dcid = x.cid)
            THEN [x EXCEPT !.rest = NextPacket(x.rest, in)]
            ELSE [x EXCEPT !.rest = NextPacket(x.rest, in), !.cid = in.dcid,
                           !.got = Append(@, in), !.ietf = ~in.gquic]
    IN  FoldLeft(LAMBDA x, i : IF x.rest = <<>> \/ x.stop THEN x
                               ELSE Step(x, Begin(x.rest, conn), i),
                 [rest |-> b, got |-> <<>>, cid |-> NoCid, ietf |-> FALSE, stop |-> FALSE],
                 [i \in 1..MaxCoalesced |-> i])

HeaderSize(c, p) == Len(GenHeader(c, p))

\* What the header has that cannot be read until the packet is decrypted
Sealed(p) == IF conn.ver \in {"Q043", "Q046"} THEN 0
             ELSE PacknoLen(p) + (IF p.nonce THEN NONCE_SZ ELSE 0)

\* A parsed packet is the packet that was sent: Google QUIC's short headers and
\* its IDs are the connection's own business.
Matches(in, p, cells) ==
    /\ in.len = Len(cells)
    /\ in.ht = p.ht
    /\ in.token = p.token
    /\ in.dcid = CASE conn.ver \in Ietf -> conn.dcid
                   [] conn.ver = "Q043" -> IF p.connid THEN conn.dcid ELSE NoCid
                   [] OTHER -> IF conn.server /\ p.ht = "SHORT" THEN NoCid ELSE conn.dcid
    /\ p.ht \in {"INITIAL", "0RTT", "HANDSHAKE", "SHORT", "NOT_SET"} =>
        /\ PackoutSize(conn, p) = Len(cells)
        /\ in.hsz = HeaderSize(conn, p) - Sealed(p)
        /\ conn.ver \in Ietf /\ p.ht # "SHORT"
                => HeaderSize(conn, p) = SizeLongByFlags(conn, p) + p.token + VintSize(p.token) - 1

\* Does the engine read every packet?  An Initial packet with a short ID is not
\* for a server; a client without IDs and Retry in version 2 are findings.
Readable(i) == /\ conn.dcid.len > 0 \/ i = 1
               /\ ~(sent[i].ht = "RETRY" /\ conn.ver = "I002")

\* The engine takes a datagram apart into the packets that were put into it:
\* types, connection IDs, tokens and sizes, for all versions, packet number
\* lengths and ID lengths; the functions that predict the size of a packet are
\* right; and the shortcuts, finding the connection ID and recognizing a packet
\* that may open a connection, agree with the parser.
HeadersRoundTrip ==
    LET Agree(got) ==
            /\ Len(got) = Len(sent)
            /\ \A i \in DOMAIN sent : Matches(got[i], sent[i], dgram[i])
            /\ (sent # <<>> /\ ~conn.server) =>
                /\ DcidFromPacket(FlattenSeq(dgram), conn.dcid.len) = got[1].dcid
                /\ dgram[1][1].v >= 128 => (sent[1].ht = "INITIAL" <=> IsValidHs(FlattenSeq(dgram)))
    IN  (\A i \in DOMAIN sent : Readable(i)) => Agree(EnginePacketIn(FlattenSeq(dgram)).got)

\* Retry packets are recognized as such, in every version (header_type_to_bin_v2
\* gives the type bits of version 2).
RetryIsRecognized ==
    \A i \in DOMAIN sent :
        sent[i].ht = "RETRY" => \E in \in {Begin(dgram[i], conn)} : in.ok /\ in.ht = "RETRY"

\* Of the packets of a datagram only those with another destination connection
\* ID than the first are ignored (comment in lsquic_engine_packet_in).
CoalescedAreRead ==
    (\A i \in DOMAIN sent : sent[i].ht # "RETRY") =>
        Len(EnginePacketIn(FlattenSeq(dgram)).got) = Len(sent)
=============================================================================

---------------------------- MODULE TransParams ----------------------------
(***************************************************************************)
(* Transport parameters (lsquic_trans_params.c, and their use in           *)
(* lsquic_enc_sess_ietf.c): one end generates and encodes its parameters,  *)
(* the other end decodes them and checks them against what it knows of the *)
(* handshake.  Numbers are scaled down; their order, limits and defaults   *)
(* are the code's.  lsquic_tp_encode_27() and lsquic_tp_decode_27() treat  *)
(* the parameters that version has in the same way.                        *)
(***************************************************************************)
EXTENDS Wire, FiniteSets

CONSTANTS BUFSZ,        \* size of the buffer the parameters are written to
          Limits        \* values of the flow control settings

TransParamsAssumption ==
    /\ BUFSZ \in Nat /\ Limits \subseteq Nat
    /\ V1 > 32 /\ V1 < V2 /\ V2 < V3

VARIABLES us,       \* the sending end: its side, settings and handshake
          them,     \* the receiving end
          msg,      \* the encoded parameters
          outcome   \* what the receiver made of them

tpvars == <<us, them, msg, outcome>>

-----------------------------------------------------------------------------
(* enum transport_param_id, in order, with the code points.  Only the size   *)
(* of a code point matters beyond its being unique.                          *)

WithDefault == {"max_idle", "udp_payload", "max_data", "data_local", "data_remote",
                "data_uni", "streams_bidi", "streams_uni", "ack_exp", "max_ack_delay",
                "cid_limit"}
Numeric == WithDefault \cup {"min_ack_delay", "min_ack_delay_02", "timestamps",
                             "dgram_size", "loss_bits"}
Empty == {"grease", "no_migration"}
CidParams == {"odcid", "iscid", "rscid"}
TPI == <<"max_idle", "udp_payload", "max_data", "data_local", "data_remote", "data_uni",
         "streams_bidi", "streams_uni", "ack_exp", "max_ack_delay", "cid_limit",
         "min_ack_delay", "min_ack_delay_02", "timestamps", "dgram_size", "loss_bits",
         "grease", "no_migration", "pref_addr", "odcid", "iscid", "rscid",
         "version_info", "sreset">>

enum_2_tpi_val(t) ==
    CASE t = "min_ack_delay_02" -> V3 + 2
      [] t = "min_ack_delay" -> V2 + 1
      [] t = "timestamps" -> V2 + 2
      [] t = "loss_bits" -> V1 + 1
      [] t = "grease" -> V1 + 2
      [] OTHER -> CHOOSE i \in DOMAIN TPI : TPI[i] = t
Known(v) == \E i \in DOMAIN TPI : enum_2_tpi_val(TPI[i]) = v
tpi_val_2_enum(v) == TPI[CHOOSE i \in DOMAIN TPI : enum_2_tpi_val(TPI[i]) = v]

VINT_MAX == 5 * V3
USEC == 10              \* microseconds in a millisecond, scaled
TP_MIN_ACK_DELAY == 100
def_vals(t) == CASE t = "udp_payload" -> 4 * V3 [] t = "ack_exp" -> 3
                 [] t = "max_ack_delay" -> 25 [] t = "cid_limit" -> 2 [] OTHER -> 0
max_vals(t) == CASE t = "ack_exp" -> 20 [] t = "max_ack_delay" -> V2 - 1
                 [] t = "loss_bits" -> 1 [] t = "timestamps" -> 3
                 [] t \in {"min_ack_delay", "min_ack_delay_02"} -> V3 - 1
                 [] t \in {"streams_bidi", "streams_uni"} -> 4 * V3
                 [] OTHER -> VINT_MAX
min_vals(t) == CASE t = "udp_payload" -> V1 + 50 [] t = "cid_limit" -> 2
                 [] t \in {"min_ack_delay", "min_ack_delay_02", "timestamps"} -> 1
                 [] OTHER -> 0
InRange(t, v) == v >= min_vals(t) /\ v <= max_vals(t)

SRST_SZ == 4            \* sizes of a stateless reset token and of the addresses
ADDRS_SZ == 6
PrefAddrSize(p) == ADDRS_SZ + 1 + p.pref.len + SRST_SZ

ZeroParams == [set |-> {}, num |-> [t \in Numeric |-> 0],
               cid |-> [odcid |-> NoCid, iscid |-> NoCid, rscid |-> NoCid],
               pref |-> NoCid, vers |-> <<>>]
\* TP_INITIALIZER()
InitParams == [ZeroParams EXCEPT
                 !.set = WithDefault,
                 !.num = [t \in DOMAIN @ |-> IF t \in WithDefault THEN def_vals(t) ELSE 0]]

-----------------------------------------------------------------------------
(* gen_trans_params().  The settings of an end: es.                          *)

\* set_tp_version_info()
VersionInfo(ver, supp) ==
    <<ver>> \o (IF "I002" \in supp THEN <<"I002">> ELSE <<>>)
            \o (IF "I001" \in supp THEN <<"I001">> ELSE <<>>)

SetNum(p, t, v) == [p EXCEPT !.set = @ \cup {t}, !.num[t] = v]
SetCid(p, t, c) == [p EXCEPT !.set = @ \cup {t}, !.cid[t] = c]
Put(cond, p, t) == IF cond THEN [p EXCEPT !.set = @ \cup {t}] ELSE p
PutNum(cond, p, t, v) == IF cond THEN SetNum(p, t, v) ELSE p
PutCid(cond, p, t, c) == IF cond THEN SetCid(p, t, c) ELSE p

HandshakeIds(e) ==
    PutCid(e.server /\ e.rscid # NoCid,
        PutCid(e.server /\ e.odcid # NoCid,
            Put(e.server, PutCid(e.ver # "ID27", ZeroParams, "iscid", e.scid), "sreset"),
            "odcid", e.odcid),
        "rscid", e.rscid)
FlowLimits(es, p) ==
    [p EXCEPT !.set = @ \cup (WithDefault \ {"udp_payload"}),
              !.num = [t \in DOMAIN @ |->
                 CASE t = "max_data" -> es.max_data
                   [] t \in {"data_local", "data_remote", "data_uni"} -> es.data
                   [] t \in {"streams_bidi", "streams_uni"} -> es.streams
                   [] t \in {"ack_exp", "max_ack_delay"} -> def_vals(t)
                   [] t = "max_idle" -> es.idle
                   [] t = "cid_limit" -> 8
                   [] OTHER -> @[t]]]
Extensions(es, p) ==
    PutNum(es.timestamps,
        PutNum(es.delayed_acks,
            PutNum(es.delayed_acks,
                PutNum(es.ql_bits > 0,
                    Put(~es.migration, PutNum(es.udp_rx > 0, p, "udp_payload", es.udp_rx),
                        "no_migration"),
                    "loss_bits", es.ql_bits - 1),
                "min_ack_delay", TP_MIN_ACK_DELAY),
            "min_ack_delay_02", TP_MIN_ACK_DELAY),
        "timestamps", 2)
Datagrams(es, p) ==
    PutNum(es.datagrams, p, "dgram_size",
           IF "udp_payload" \in p.set THEN p.num["udp_payload"] ELSE def_vals("udp_payload"))
Versions(e, p) ==
    IF e.supp = {e.ver} THEN p
    ELSE [p EXCEPT !.set = @ \cup {"version_info"}, !.vers = VersionInfo(e.ver, e.supp)]

GenTransParams(e) ==
    Versions(e, Datagrams(e.es, Extensions(e.es, FlowLimits(e.es, HandshakeIds(e)))))

\* lsquic_enc_sess_ietf_gen_quic_ctx(): what a server promises to 0-RTT clients
SERVER_0RTT_TPS == (WithDefault \ {"ack_exp", "max_ack_delay"})
                    \cup {"no_migration", "dgram_size", "min_ack_delay", "min_ack_delay_02",
                          "timestamps"}
GenQuicCtx(e) ==
    [GenTransParams([e EXCEPT !.ver = "ID27", !.supp = {"ID27"}, !.odcid = NoCid,
                              !.rscid = NoCid])
        EXCEPT !.set = @ \cap SERVER_0RTT_TPS]

-----------------------------------------------------------------------------
(* lsquic_tp_encode(): the sizes are added up first, the bytes then have to  *)
(* come to the same sum.                                                     *)

\* A number that is the default is not sent.
Elided(p, t) == t \in WithDefault /\ p.num[t] = def_vals(t)
ToSend(p) == {t \in p.set : t \in Numeric => ~Elided(p, t)}

BodySize(p, t) ==
    CASE t \in Numeric -> VintSize(p.num[t])
      [] t \in CidParams -> p.cid[t].len
      [] t \in Empty -> 0
      [] t = "sreset" -> SRST_SZ
      [] t = "pref_addr" -> PrefAddrSize(p)
      [] t = "version_info" -> 4 * Len(p.vers)
Need(p, t) == VintSize(enum_2_tpi_val(t)) + VintSize(BodySize(p, t)) + BodySize(p, t)

Ver2Tag(v) == CASE v = "ID27" -> 27 [] v = "ID29" -> 29 [] v = "I001" -> 1 [] v = "I002" -> 2
                [] OTHER -> 10
Body(p, t) ==
    CASE t \in Numeric -> Vint(p.num[t])
      [] t \in CidParams -> Cid(p.cid[t])
      [] t \in Empty -> <<>>
      [] t = "sreset" -> Data(SRST_SZ)
      [] t = "pref_addr" -> Data(ADDRS_SZ) \o Byte(p.pref.len) \o Cid(p.pref) \o Data(SRST_SZ)
      [] t = "version_info" -> FlattenSeq([i \in DOMAIN p.vers |-> Uint(Ver2Tag(p.vers[i]), 4)])
Param(t, body) == Vint(enum_2_tpi_val(t)) \o Vint(Len(body)) \o body

Refused == [ok |-> FALSE, b |-> <<>>]
Encode(p, bufsz) ==
    LET Write(send) ==
            IF \/ \E t \in ToSend(p) : t \in Numeric /\ ~InRange(t, p.num[t])
               \/ FoldLeft(LAMBDA n, t : n + Need(p, t), 0, send) > bufsz
            THEN Refused
            ELSE [ok |-> TRUE,
                  b |-> FlattenSeq([i \in DOMAIN send |-> Param(send[i], Body(p, send[i]))])]
    IN  Write(SelectSeq(TPI, LAMBDA t : t \in ToSend(p)))

-----------------------------------------------------------------------------
(* lsquic_tp_decode(), one parameter after the other.                        *)

DecodeNumber(p, t, body) ==
    LET Accept(r) == IF Len(body) \in {1, 2, 4, 8} /\ r.ok /\ r.rest = <<>> /\ InRange(t, r.f.v)
                   THEN [ok |-> TRUE, p |-> SetNum(p, t, r.f.v)] ELSE [ok |-> FALSE, p |-> p]
    IN  Accept(ReadVint(Reader(body), "v"))

DecodePrefAddr(p, body) ==
    LET CidAndToken(r) == ReadData(ReadCid(r, "cid", r.f.len), "srst", SRST_SZ)
        Accept(r) == IF r.ok /\ r.f.len <= 20 /\ r.rest = <<>>
                   THEN [ok |-> TRUE, p |-> [p EXCEPT !.pref = r.f.cid]]
                   ELSE [ok |-> FALSE, p |-> p]
    IN  Accept(CidAndToken(ReadUint(ReadData(Reader(body), "addrs", ADDRS_SZ), "len", 1)))

Tag2Ver(tag) == IF \E v \in {"ID27", "ID29", "I001", "I002"} : Ver2Tag(v) = tag
                THEN CHOOSE v \in {"ID27", "ID29", "I001", "I002"} : Ver2Tag(v) = tag
                ELSE "N_LSQVER"
VERSIONS_MAX == 7
\* The first version is the chosen one and, in a client's list, is listed again.
DecodeVersions(p, body, isServer) ==
    LET n == Len(body) \div 4
        Keep(r, vers) ==
            IF /\ Len(body) % 4 = 0 /\ r.ok /\ \A i \in 1..n : r.f[i] # 0
               /\ isServer \/ (n > 0 /\ \E i \in 2..n : vers[i] = vers[1])
            THEN [ok |-> TRUE,
                  p |-> [p EXCEPT !.vers = SubSeq(vers, 1, IF n < VERSIONS_MAX THEN n
                                                           ELSE VERSIONS_MAX)]]
            ELSE [ok |-> FALSE, p |-> p]
        Accept(r) == Keep(r, [i \in 1..n |-> Tag2Ver(r.f[i])])
    IN  Accept(FoldLeft(LAMBDA x, i : ReadUint(x, i, 4), Reader(body), [i \in 1..n |-> i]))

ServerOnly == {"sreset", "odcid", "rscid", "pref_addr"}

DecodeCid(p, t, r, len) ==
    IF len <= 20 /\ r.ok THEN [ok |-> TRUE, p |-> [p EXCEPT !.cid[t] = r.f.cid]]
    ELSE [ok |-> FALSE, p |-> p]

DecodeValue(p, t, body, isServer) ==
    CASE t \in Numeric -> DecodeNumber(p, t, body)
      [] t \in Empty -> [ok |-> body = <<>>, p |-> p]
      [] t = "sreset" -> [ok |-> Len(body) = SRST_SZ, p |-> p]
      [] t \in CidParams -> DecodeCid(p, t, ReadCid(Reader(body), "cid", Len(body)), Len(body))
      [] t = "pref_addr" -> DecodePrefAddr(p, body)
      [] t = "version_info" -> DecodeVersions(p, body, isServer)
DecodeBody(p, t, body, isServer) ==
    IF t \in ServerOnly /\ ~isServer THEN [ok |-> FALSE, p |-> p]
    ELSE DecodeValue(p, t, body, isServer)

DecodeOne(d, isServer) ==
    LET Took(t, rest, x) ==
            [d EXCEPT !.rest = rest, !.p = [x.p EXCEPT !.set = @ \cup {t}],
                      !.ok = x.ok /\ t \notin d.seen, !.seen = @ \cup {t}]
        Known1(t, body, rest) == Took(t, rest, DecodeBody(d.p, t, body, isServer))
        Split(r) ==
            IF ~r.ok \/ r.f.len > Len(r.rest) THEN [d EXCEPT !.ok = FALSE]
            ELSE IF ~Known(r.f.id) THEN [d EXCEPT !.rest = SubSeq(r.rest, r.f.len + 1, Len(r.rest))]
            ELSE Known1(tpi_val_2_enum(r.f.id), SubSeq(r.rest, 1, r.f.len),
                        SubSeq(r.rest, r.f.len + 1, Len(r.rest)))
    IN  Split(ReadVint(ReadVint(Reader(d.rest), "id"), "len"))

AckDelaysAgree(p) ==
    \A t \in {"min_ack_delay", "min_ack_delay_02"} \cap p.set :
        p.num[t] <= p.num["max_ack_delay"] * USEC

Decode(b, isServer) ==
    LET Checked(d) == [d EXCEPT !.ok = @ /\ AckDelaysAgree(d.p)]
    IN  Checked(FoldLeft(LAMBDA x, i : IF x.ok /\ x.rest # <<>> THEN DecodeOne(x, isServer) ELSE x,
                         [ok |-> TRUE, rest |-> b, p |-> InitParams, seen |-> {}],
                         [i \in 1..(Len(TPI) + 2) |-> i]))

-----------------------------------------------------------------------------
(* get_peer_transport_params(): the receiver e.                              *)

REDUCTION_PROHIBITED == {"cid_limit", "max_data", "streams_uni", "streams_bidi",
                         "data_local", "data_remote", "data_uni"}
NotReduced(old, new) == \A t \in REDUCTION_PROHIBITED : new.num[t] >= old.num[t]

MustHave(e) == CASE e.ver # "ID27" -> {"iscid"} \cup (IF e.server THEN {} ELSE {"odcid"})
                                        \cup (IF e.retry /\ ~e.server THEN {"rscid"} ELSE {})
                 [] OTHER -> IF e.retry /\ ~e.server THEN {"odcid"} ELSE {}
MustNotHave(e) == IF e.ver = "ID27" THEN {}
                  ELSE (IF e.server THEN {"odcid"} ELSE {})
                        \cup (IF e.retry /\ ~e.server THEN {} ELSE {"rscid"})
OwnCid(e, t) == CASE t = "odcid" -> e.odcid [] t = "rscid" -> e.rscid [] t = "iscid" -> e.iscid

CidsAgree(e, p) ==
    /\ \A t \in MustHave(e) : t \in p.set /\ OwnCid(e, t) # NoCid /\ OwnCid(e, t) = p.cid[t]
    /\ MustNotHave(e) \cap p.set = {}

LossBits(e, p) ==
    CASE "loss_bits" \notin p.set \/ e.es.ql_bits = 0 -> {}
      [] OTHER -> (IF p.num["loss_bits"] = 1 THEN {"RECV"} ELSE {})
                    \cup (IF e.es.ql_bits = 2 THEN {"SEND"} ELSE {})

SANE == 50      \* 0x1000
TpSanity(e, p) ==
    e.es.sanity => /\ p.num[IF e.server THEN "data_local" ELSE "data_remote"] >= SANE
                   /\ p.num["max_data"] >= SANE

GetPeerTransportParams(e, b) ==
    LET Judge(d) == [ok |-> /\ d.ok
                            /\ e.zeroRtt # <<>> => NotReduced(e.zeroRtt[1], d.p)
                            /\ CidsAgree(e, d.p) /\ TpSanity(e, d.p),
                     decoded |-> d.ok, p |-> d.p, ql |-> LossBits(e, d.p)]
    IN  Judge(Decode(b, ~e.server))

-----------------------------------------------------------------------------
(* The two ends of a handshake.  A server behind a Retry knows three         *)
(* connection IDs of it, any other two.                                      *)

CidOf(n, len) == [id |-> n, len |-> len]
Settings == [max_data |-> 60, data |-> 60, streams |-> 3, idle |-> 30, udp_rx |-> 0,
             migration |-> TRUE, ql_bits |-> 0, delayed_acks |-> FALSE, timestamps |-> FALSE,
             datagrams |-> FALSE, sanity |-> FALSE]
Variations ==
    {[Settings EXCEPT !.max_data = m, !.data = d, !.streams = s, !.sanity = x] :
        m, d \in Limits, s \in {0, 3}, x \in BOOLEAN}
    \cup {[Settings EXCEPT !.udp_rx = u, !.datagrams = g, !.idle = i] :
            u \in {0, V1, V1 + 50, 4 * V3, 4 * V3 + 1}, g \in BOOLEAN, i \in {0, 30, V3}}
    \cup {[Settings EXCEPT !.ql_bits = q, !.delayed_acks = a, !.timestamps = t, !.migration = m] :
            q \in 0..2, a, t, m \in BOOLEAN}
Supported == {{"I001"}, {"I001", "I002"}, {"I002"}, {"ID27"}, {"ID29"}, {"ID29", "I001"}, {"ID27", "ID29"}}
NewestOf(supp) == IF "I002" \in supp THEN "I002" ELSE IF "I001" \in supp THEN "I001"
                  ELSE IF "ID29" \in supp THEN "ID29" ELSE "ID27"

End(server, es, supp, retry) ==
    [server |-> server, es |-> es, ver |-> NewestOf(supp), supp |-> supp, retry |-> retry,
     scid |-> IF server THEN CidOf(2, 8) ELSE CidOf(1, 4),
     odcid |-> CidOf(3, 8),
     rscid |-> IF retry THEN CidOf(4, 8) ELSE NoCid,
     iscid |-> IF server THEN CidOf(1, 4) ELSE CidOf(2, 8),
     zeroRtt |-> <<>>]
\* A server of the ID27 version tells the original CID only after a Retry; its
\* version information is sent only when it changed the version.
AsServer(e) == [e EXCEPT !.odcid = IF e.ver = "ID27" /\ ~e.retry THEN NoCid ELSE @,
                         !.rscid = IF e.ver = "ID27" THEN NoCid ELSE @,
                         !.supp = IF e.ver = "I002" /\ "I001" \in @ THEN @ ELSE {e.ver}]

Pending == [ok |-> FALSE, decoded |-> FALSE, p |-> InitParams, ql |-> {}]

\* The settings vary, or the versions do.
Configs == {<<es, {"I001", "I002"}>> : es \in Variations} \cup {<<Settings, supp>> : supp \in Supported}
TPInit == /\ us \in {End(FALSE, c[1], c[2], FALSE) : c \in Configs}
                    \cup {AsServer(End(TRUE, c[1], c[2], retry)) : c \in Configs, retry \in BOOLEAN}
          /\ them = us
          /\ msg = [kind |-> "none", b |-> <<>>]
          /\ outcome = Pending

\* The receiver, with settings of its own; a client may hold parameters from an
\* earlier connection to the same server.
Peers(e) == {[End(~e.server, Settings, e.supp, e.retry) EXCEPT
                !.ver = e.ver, !.es = [Settings EXCEPT !.ql_bits = q, !.sanity = e.es.sanity],
                !.zeroRtt = z] :
                q \in 0..2, z \in {<<>>} \cup (IF e.server THEN {<<GenQuicCtx(e)>>} ELSE {})}

Send == /\ msg.kind = "none"
        /\ \E peer \in Peers(us), x \in {Encode(GenTransParams(us), BUFSZ)} :
            /\ msg' = IF x.ok THEN [kind |-> "honest", b |-> x.b]
                              ELSE [kind |-> "refused", b |-> <<>>]
            /\ them' = peer
        /\ UNCHANGED <<us, outcome>>

\* Other implementations, and broken ones: a parameter this code does not know
\* is added, one is repeated or belongs to the other side, one is cut off; the
\* CIDs or the 0-RTT limits are not those of this handshake.
Foreign == Vint(V1 + 9) \o Vint(3) \o Data(3)
Alter == /\ msg.kind = "honest" /\ outcome = Pending /\ them.es.ql_bits = 0
         /\ \/ msg' = [kind |-> "foreign", b |-> Foreign \o msg.b] /\ UNCHANGED them
            \/ \E t \in {"ack_exp", "iscid"} : 
                 /\ msg' = [kind |-> "bad",
                            b |-> msg.b \o Param(t, IF t = "iscid" THEN Cid(us.scid) ELSE Vint(4))
                                        \o Param(t, IF t = "iscid" THEN Cid(us.scid) ELSE Vint(5))]
                 /\ UNCHANGED them
            \/ /\ ~us.server
               /\ \E t \in ServerOnly : 
                    msg' = [kind |-> "bad",
                            b |-> msg.b \o Param(t, IF t \in CidParams THEN Cid(us.odcid)
                                                    ELSE Body([InitParams EXCEPT !.pref = us.scid], t))]
               /\ UNCHANGED them
            \/ /\ us.server
               /\ msg' = [kind |-> "foreign", b |-> msg.b \o
                            Param("pref_addr", Body([InitParams EXCEPT !.pref = us.scid], "pref_addr"))]
               /\ UNCHANGED them
            \/ /\ us.ver # "ID27"
               /\ msg' = [msg EXCEPT !.kind = "bad"]
               /\ them' = [them EXCEPT !.iscid = CidOf(9, 8)]
            \/ /\ them.zeroRtt # <<>>
               /\ msg' = [msg EXCEPT !.kind = "bad"]
               /\ them' = [them EXCEPT !.zeroRtt[1].num["max_data"] = us.es.max_data + 1]
         /\ UNCHANGED <<us, outcome>>

Receive == /\ msg.kind \in {"honest", "foreign", "bad"} /\ outcome = Pending
           /\ outcome' = GetPeerTransportParams(them, msg.b)
           /\ UNCHANGED <<us, them, msg>>

TPNext == Send \/ Alter \/ Receive

TPSpec == TPInit /\ [][TPNext]_tpvars

-----------------------------------------------------------------------------
\* What the receiver works with is what the sender meant, defaults included.
SameMeaning(p, q) ==
    /\ \A t \in WithDefault :
            q.num[t] = IF t \in p.set THEN p.num[t] ELSE def_vals(t)
    /\ \A t \in Numeric \ WithDefault :
            (t \in p.set) = (t \in q.set) /\ (t \in p.set => q.num[t] = p.num[t])
    /\ \A t \in {"odcid", "iscid", "rscid"} : t \in p.set => t \in q.set /\ q.cid[t] = p.cid[t]
    /\ q.vers = p.vers

SaneEnough == them.es.sanity => us.es.data >= SANE /\ us.es.max_data >= SANE

\* Of the versions a client lists, the chosen one is there again.
ListsChosen == us.server \/ us.supp = {us.ver} \/ us.ver \in {"I001", "I002"}

\* The parameters of an honest peer arrive as they were meant and are accepted;
\* duplicates, parameters of the other side, foreign CIDs and reduced 0-RTT limits
\* are not.
TransParamsAgree ==
    /\ msg.kind \in {"honest", "foreign"} /\ outcome # Pending =>
            /\ outcome.decoded => SameMeaning(GenTransParams(us), outcome.p)
            /\ outcome.ok = (SaneEnough /\ ListsChosen)
            /\ outcome.ql = {} \/ us.es.ql_bits > 0
            /\ "SEND" \in outcome.ql => them.es.ql_bits = 2
    /\ msg.kind = "bad" => ~outcome.ok
    /\ msg.kind = "refused" => us.es.udp_rx \in 1..(min_vals("udp_payload") - 1)
=============================================================================

------------------------------ MODULE MiniConn ------------------------------
(***************************************************************************)
(* The IETF mini connection of a server (lsquic_mini_conn_ietf.c): it      *)
(* answers a client's first packets, carries the TLS handshake over CRYPTO *)
(* frames, repeats what is lost, sends no more than three times what an    *)
(* unvalidated client has sent, and hands its packets and histories to the *)
(* full connection it is promoted to.                                      *)
(*                                                                         *)
(* imc is the connection object.  The client is honest: it repeats the     *)
(* chunks of its ClientHello, answers the server's flight, and             *)
(* acknowledges what reached it.  The network loses, delays and duplicates *)
(* packets in both directions.  TLS is external: it reads the ClientHello, *)
(* writes one chunk at the Initial level and HskLen at the Handshake level *)
(* and is done when the client's Finished is read.                         *)
(***************************************************************************)
EXTENDS Integers, Sequences, FiniteSets, SequencesExt, FiniteSetsExt, TLC

CONSTANTS
    MAX_PACKETS,    \* highest packet number the bit masks hold
    MAX_STASHED,    \* IMICO_MAX_STASHED_FRAMES
    MIN_BUFFERED,   \* what must be buffered (lsquic_mini_conn_ietf.h:125)
    ChloLen,        \* chunks of the ClientHello
    HskLen,         \* chunks of the server's flight at the Handshake level
    CliNos,         \* packet numbers of the client
    MaxIn,          \* bound on the packets that arrive
    MiniEvents      \* subset of {"early_data", "alert", "close", "resegment"}

VARIABLES imc, wire, got

mcvars == <<imc, wire, got>>

(***************************************************************************)
(* Sizes, in units: of a client's datagram, of the frames the server       *)
(* writes, and of the largest packet.                                      *)
(***************************************************************************)
DgramSz == 2
PackSz == 3
FrameSz(f) == IF f = "CRYPTO" THEN 2 ELSE 1

Pns == {"INIT", "HSK"}
QueuedAck(pns) == IF pns = "INIT" THEN "QUEUED_ACK_INIT" ELSE "QUEUED_ACK_HSK"

Set(c, f) == [c EXCEPT !.flags = @ \cup f]
Has(c, f) == f \in c.flags

-----------------------------------------------------------------------------
(***************************************************************************)
(* Outgoing packets                                                        *)
(***************************************************************************)
NewPacket(no, lev) ==
    [no |-> no, lev |-> lev, frames |-> {}, chunk |-> -1, sz |-> 0,
     sent |-> FALSE, retx |-> 0]

(* The packets that still have room for need units at this level.          *)
WithRoom(c, lev, need) ==
    {i \in DOMAIN c.out : ~c.out[i].sent /\ c.out[i].lev = lev
                          /\ PackSz - c.out[i].sz >= need}

GetPacketOut(c, lev, need) ==
    LET room == IF need = 0 THEN {} ELSE WithRoom(c, lev, need) IN
    IF room # {}
    THEN [c |-> c, i |-> CHOOSE i \in room : \A j \in room : i <= j]
    ELSE IF c.next >= MAX_PACKETS
    THEN [c |-> c, i |-> 0]
    ELSE [c |-> [c EXCEPT !.next = @ + 1,
                          !.out = Append(@, NewPacket(c.next, lev))],
          i |-> Len(c.out) + 1]

AddFrame(c, i, f, chunk) ==
    [c EXCEPT !.out[i].frames = @ \cup {f},
              !.out[i].sz = @ + FrameSz(f),
              !.out[i].chunk = IF f = "CRYPTO" THEN chunk ELSE @]

(* A frame is written into a packet with room for need units.              *)
Written(g, f, chunk) ==
    IF g.i = 0 THEN [ok |-> FALSE, c |-> g.c]
               ELSE [ok |-> TRUE, c |-> AddFrame(g.c, g.i, f, chunk)]
Write(c, lev, need, f, chunk) == Written(GetPacketOut(c, lev, need), f, chunk)

(* Results of what may fail: what follows is done, or the error is passed. *)
Ok(c) == [ok |-> TRUE, c |-> c]
Then(w, Next(_)) == IF w.ok THEN Next(w.c) ELSE w
IfOk(w, Next(_)) == IF w.ok THEN [w EXCEPT !.c = Next(@)] ELSE w

(* imico_generate_ack(): always a packet of its own.  During a repeated    *)
(* handshake a PING makes an Initial ACK packet ack-eliciting.             *)
GenerateAck(c, pns) ==
    LET Acked(d) == [d EXCEPT !.flags = @ \ {QueuedAck(pns)}]
        Pinged(d) == IF pns = "INIT" /\ d.hsk_count > 0
                     THEN AddFrame(d, Len(d.out), "PING", -1) ELSE d
    IN IfOk(IfOk(Write(c, pns, 0, "ACK", -1), Acked), Pinged)

GenerateAcks(c) ==
    LET Init(d) == IF Has(d, "QUEUED_ACK_INIT") /\ ~Has(d, "IGNORE_INIT")
                   THEN GenerateAck(d, "INIT") ELSE Ok(d)
        Hsk(d) == IF Has(d, "QUEUED_ACK_HSK") THEN GenerateAck(d, "HSK") ELSE Ok(d)
    IN Then(Init(c), Hsk)

GenerateHandshakeDone(c) ==
    IfOk(Write(c, "APP", 1, "DONE", -1), LAMBDA d : Set(d, {"HSK_DONE_SENT"}))

(* The levels at which CONNECTION_CLOSE is sent, in order: those at which  *)
(* the client may be able to read it.                                      *)
CloseLevels(c) ==
    IF c.max_pns = "HSK" THEN <<"HSK">>
    ELSE IF Has(c, "HSK_PACKET_SENT") THEN <<"INIT", "HSK">> ELSE <<"INIT">>

GenerateConnClose(c) ==
    FoldLeft(LAMBDA w, lev : IF w.ok THEN Write(w.c, lev, 1, "CLOSE", -1) ELSE w,
             Ok(c), CloseLevels(c)).c

-----------------------------------------------------------------------------
(***************************************************************************)
(* The crypto streams                                                      *)
(***************************************************************************)
(* imico_stream_write() of n chunks; a write at the ignored Initial level  *)
(* is swallowed, and a queued ACK goes before the ServerHello.             *)
StreamWrite(c, lev, n) ==
    LET acked == IF lev = "INIT" /\ Has(c, "QUEUED_ACK_INIT")
                 THEN GenerateAck(c, "INIT").c ELSE c
        One(d) == Write(d, lev, FrameSz("CRYPTO"), "CRYPTO", d.write_off[lev])
        Chunk(w, k) == IfOk(Then(w, One), LAMBDA d : [d EXCEPT !.write_off[lev] = @ + 1])
    IN IF lev = "INIT" /\ Has(c, "IGNORE_INIT") THEN Ok(c)
       ELSE FoldLeft(Chunk, Ok(acked), [k \in 1..n |-> k])

(* imico_find_stream_frame() and imico_stream_readf(): the new frame last  *)
(* and the stashed ones are read as long as one begins where the stream is.*)
AtReadOff(c, lev) ==
    {i \in DOMAIN c.stash : c.stash[i].lev = lev /\ c.stash[i].off = c.read_off[lev]}

ReadOne(c, lev) ==
    IF c.last # <<>> /\ c.last[1].off = c.read_off[lev]
    THEN [c EXCEPT !.read_off[lev] = @ + c.last[1].len, !.last = <<>>]
    ELSE IF AtReadOff(c, lev) = {} THEN c
    ELSE LET i == CHOOSE x \in AtReadOff(c, lev) : \A y \in AtReadOff(c, lev) : x <= y
         IN [c EXCEPT !.read_off[lev] = @ + c.stash[i].len,
                      !.stash = RemoveAt(@, i)]

ReadAll(c, lev) ==
    FoldLeft(LAMBDA d, k : ReadOne(d, lev), c, [k \in 1..(Len(c.stash) + 1) |-> k])

(* External: what TLS does with what it has read.  early tells that the    *)
(* handshake counts as done when the flight is written (early data); alert *)
(* that the ClientHello is refused.                                        *)
HskFailed(c) == Set(c, {"HSK_FAILED", "ERROR"})
Tls(c, outcome) ==
    IF c.tls = "chlo" /\ c.read_off["INIT"] = ChloLen
    THEN IF outcome = "alert" THEN Set(c, {"ERROR", "TLS_ALERT"})
         ELSE LET Flight(d) == StreamWrite(d, "HSK", HskLen)
                  End(w) == IF ~w.ok THEN HskFailed(w.c)
                            ELSE [w.c EXCEPT !.tls = "flight",
                                    !.flags = @ \cup IF outcome = "early" THEN {"HSK_OK"} ELSE {}]
              IN End(Then(StreamWrite(c, "INIT", 1), Flight))
    ELSE IF c.tls = "flight" /\ c.read_off["HSK"] = 1
    THEN [Set(c, {"HSK_OK"}) EXCEPT !.tls = "done"]
    ELSE c

(* esfi_in_init()                                                          *)
InInit(c) == c.tls # "done"

Stash(c, frame) ==
    IF Len(c.stash) >= MAX_STASHED THEN [ok |-> FALSE, c |-> c]
    ELSE [ok |-> TRUE, c |-> [c EXCEPT !.stash = Append(@, frame)]]

(* imico_process_crypto_frame()                                            *)
ProcessCrypto(c, frame, outcome) ==
    LET off == c.read_off[frame.lev] IN
    IF off < frame.off THEN Stash(c, frame)
    ELSE IF off >= frame.off + frame.len THEN [ok |-> TRUE, c |-> c]
    ELSE LET Rest(d) == IF d.last # <<>> THEN Stash([d EXCEPT !.last = <<>>], frame)
                        ELSE Ok(d)
         IN Rest(Tls(ReadAll([c EXCEPT !.last = <<frame>>], frame.lev), outcome))

(* imico_process_ack_frame(): acknowledged packets are destroyed; news in  *)
(* it starts the count of repetitions afresh.                              *)
ProcessAck(c, pns, nos) ==
    IF ~(nos \subseteq c.sent) THEN [ok |-> FALSE, c |-> c]
    ELSE [ok |-> TRUE,
          c |-> [c EXCEPT !.out = SelectSeq(@, LAMBDA p : p.no \notin nos),
                          !.hsk_count = IF nos \subseteq c.acked[pns] THEN @ ELSE 0,
                          !.acked[pns] = @ \cup nos]]

(* imico_process_connection_close_frame(): reported as a failure, which    *)
(* ends the connection without an answer.                                  *)
ProcessClose(c) ==
    [ok |-> FALSE, c |-> Set([c EXCEPT !.out = <<>>], {"CLOSE_RECVD"})]

ProcessFrame(c, pkt, outcome) ==
    CASE pkt.kind = "CRYPTO" -> ProcessCrypto(c, [lev |-> pkt.pns, off |-> pkt.off,
                                                  len |-> pkt.len], outcome)
      [] pkt.kind = "ACK" -> ProcessAck(c, pkt.pns, pkt.nos)
      [] pkt.kind = "CLOSE" -> ProcessClose(c)

-----------------------------------------------------------------------------
(***************************************************************************)
(* Incoming packets                                                        *)
(***************************************************************************)
(* ignore_init(): from the first Handshake packet on, Initial is history.  *)
IgnoreInit(c) ==
    [c EXCEPT !.flags = (@ \cup {"IGNORE_INIT"}) \ {"QUEUED_ACK_INIT"},
              !.out = SelectSeq(@, LAMBDA p : p.lev # "INIT")]

(* imico_maybe_delay_processing(): a packet that cannot be read yet waits  *)
(* for the full connection, if not too many do.                            *)
Delay(c) ==
    LET limit == IF Has(c, "ADDR_VALIDATED") THEN 2 ELSE 1
    IN [c EXCEPT !.delayed = IF @ < limit THEN @ + 1 ELSE @]

(* What precedes the decryption: bytes are counted for every packet, and   *)
(* one that uses the ID the server chose validates the client's address.   *)
CountIn(c, pkt) ==
    LET d == [c EXCEPT !.bytes_in = @ + DgramSz, !.flags = @ \ {"AMP_CAPPED"}]
    IN IF ~Has(c, "ERROR") /\ pkt.dcid = "server" THEN Set(d, {"ADDR_VALIDATED"})
       ELSE d

(* The packet number is recorded before the frames are processed; beyond   *)
(* the bit masks the history becomes a trechist.                           *)
Record(c, pkt) ==
    [c EXCEPT !.recvd[pkt.pns] = @ \cup {pkt.no},
              !.flags = @ \cup {QueuedAck(pkt.pns)}
                    \cup IF pkt.no > MAX_PACKETS THEN {"TRECHIST"} ELSE {}]

EnterHsk(c) ==
    LET d == [Set(c, {"ADDR_VALIDATED"}) EXCEPT !.max_pns = "HSK"]
    IN IF Has(d, "IGNORE_INIT") THEN d ELSE IgnoreInit(d)

Parsed(c, pkt, outcome) ==
    LET Done(d) == IF Has(d, "HSK_OK") /\ ~InInit(d) THEN GenerateHandshakeDone(d) ELSE Ok(d)
        End(w) == IF w.ok THEN w.c ELSE Set(w.c, {"ERROR"})
    IN End(Then(ProcessFrame(Record(c, pkt), pkt, outcome), Done))

(* ietf_mini_conn_ci_packet_in()                                           *)
PacketIn(c0, pkt, outcome) ==
    LET c == CountIn(c0, pkt) IN
    IF Has(c, "ERROR") \/ (pkt.pns = "INIT" /\ Has(c, "IGNORE_INIT")) THEN c
    ELSE IF pkt.pns = "HSK" /\ c.tls = "chlo" THEN Delay(c)
    ELSE LET d == IF pkt.pns = "HSK" THEN EnterHsk(c) ELSE c
         IN IF pkt.no \in d.recvd[pkt.pns] THEN d ELSE Parsed(d, pkt, outcome)

-----------------------------------------------------------------------------
(***************************************************************************)
(* Ticking and sending                                                     *)
(***************************************************************************)
CanSend(c, size) ==
    Has(c, "ADDR_VALIDATED") \/ c.bytes_in * 3 >= c.bytes_out + size

(* IQUIC_FRAME_RETX_MASK                                                   *)
Retransmittable(p) == p.frames \cap {"CRYPTO", "DONE", "CLOSE"} # {}

(* imico_repackage_packet(): a lost packet gets a new number, if any is    *)
(* left, and goes to the end of the queue.                                 *)
Repackage_bug(c, p) ==
    [c EXCEPT !.out = Append(@, [p EXCEPT !.sent = FALSE, !.retx = @ + 1])]
Repackage(c, p) ==
    [c EXCEPT !.next = @ + 1,
              !.out = IF c.next > MAX_PACKETS THEN @
                      ELSE Append(@, [p EXCEPT !.no = c.next, !.sent = FALSE,
                                               !.retx = @ + 1])]

(* imico_handle_losses_and_have_unsent(): the walk stops at the first      *)
(* packet that may not be sent.  lost are the numbers whose time is up.    *)
HandleLosses(c, lost) ==
    LET stops == {i \in DOMAIN c.out : ~c.out[i].sent /\ ~CanSend(c, c.out[i].sz)}
        k == IF stops = {} THEN Len(c.out) + 1
             ELSE CHOOSE i \in stops : \A j \in stops : i <= j
        seen == SubSeq(c.out, 1, k - 1)
        Lost(p) == p.sent /\ Retransmittable(p) /\ p.no \in lost
        Kept(p) == ~p.sent \/ (Retransmittable(p) /\ p.no \notin lost)
        Fresh(p) == IF p.sent /\ c.hsk_count = 0 THEN [p EXCEPT !.retx = 0] ELSE p
        again == SelectSeq(seen, Lost)
        left == [i \in DOMAIN seen |-> Fresh(seen[i])]
        d == [c EXCEPT
                !.out = SelectSeq(left, Kept) \o SubSeq(c.out, k, Len(c.out)),
                !.hsk_count = IF again # <<>> THEN @ + 1 ELSE @]
    IN FoldLeft(LAMBDA x, p : Repackage(x, Fresh(p)), d, again)

(* ietf_mini_conn_ci_tick() of a connection that has not expired           *)
CloseOnError(c) ==
    [IF Has(c, "CLOSE_RECVD") THEN c ELSE GenerateConnClose(c)
        EXCEPT !.state = "closed"]

Ticked(c, lost) ==
    LET Losses(d) == HandleLosses(d, lost)
        Done(d) == IF Has(d, "HSK_OK") /\ ~InInit(d) THEN GenerateHandshakeDone(d) ELSE Ok(d)
        Promoting(w) == IF w.ok THEN [Losses(w.c) EXCEPT !.state = "promoting"]
                        ELSE Losses(CloseOnError(w.c))
        End(w) == IF ~w.ok THEN [Set(w.c, {"ERROR"}) EXCEPT !.state = "closed"]
                  ELSE IF Has(w.c, "ERROR") THEN Losses(CloseOnError(w.c))
                  ELSE IF ~Has(w.c, "HSK_OK") THEN Losses(w.c)
                  ELSE Promoting(Done(w.c))
    IN End(GenerateAcks(c))

FirstUnsent(c) ==
    LET u == {i \in DOMAIN c.out : ~c.out[i].sent}
    IN IF u = {} THEN 0 ELSE CHOOSE i \in u : \A j \in u : i <= j

(* remove_ack_frame(): the ACK frame of a repeated Initial packet becomes  *)
(* padding.                                                                *)
RemoveAck(p) ==
    IF p.lev = "INIT" /\ p.retx > 0 THEN [p EXCEPT !.frames = @ \ {"ACK", "PING"}]
    ELSE p

(* ietf_mini_conn_ci_next_packet_to_send() with ci_packet_sent(), or with  *)
(* ci_packet_not_sent() when the engine could not send it.                 *)
MayGo(c, p) ==
    /\ (p.lev = "INIT" /\ p.retx > 0) => CanSend(c, PackSz)
    /\ CanSend(c, p.sz)

NextPacketToSend(c, i) ==
    [c EXCEPT !.out[i] = [RemoveAck(c.out[i]) EXCEPT !.sent = TRUE],
              !.bytes_out = @ + c.out[i].sz]

PacketSent(c, i) ==
    [c EXCEPT !.sent = @ \cup {c.out[i].no},
              !.flags = @ \cup IF c.out[i].lev = "HSK" THEN {"HSK_PACKET_SENT"} ELSE {}]

PacketNotSent(c, i) == [c EXCEPT !.out[i].sent = FALSE,
                                 !.bytes_out = @ - c.out[i].sz]

-----------------------------------------------------------------------------
(***************************************************************************)
(* Promotion: pre_promote and lsquic_ietf_full_conn_server_new()           *)
(***************************************************************************)
(* The full connection takes over the packets in order: sent ones become   *)
(* unacknowledged, the others are scheduled; numbers before each packet    *)
(* that is left count as sent.                                             *)
HandOver(c) ==
    [c EXCEPT !.state = "promoted",
       !.full = [cur_packno |-> c.next - 1,
                 senhist |-> IF c.out = <<>> THEN -1
                             ELSE LET l == Last(c.out)
                                  IN IF l.no \in c.sent THEN l.no ELSE l.no - 1,
                 unacked |-> SelectSeq(c.out, LAMBDA p : p.no \in c.sent),
                 scheduled |-> SelectSeq(c.out, LAMBDA p : p.no \notin c.sent)]]
Promoted(c) == HandOver(GenerateAcks(c).c)

-----------------------------------------------------------------------------
(***************************************************************************)
(* Actions                                                                 *)
(***************************************************************************)
MiniInit ==
    /\ imc = [state |-> "mini", flags |-> {}, bytes_in |-> 0, bytes_out |-> 0,
              next |-> 0, out |-> <<>>, sent |-> {},
              acked |-> [p \in Pns |-> {}], recvd |-> [p \in Pns |-> {}],
              read_off |-> [p \in Pns |-> 0], write_off |-> [p \in Pns |-> 0],
              stash |-> <<>>, last |-> <<>>, delayed |-> 0, hsk_count |-> 0,
              max_pns |-> "INIT", tls |-> "chlo", full |-> <<>>]
    /\ wire = {} /\ got = {}

(***************************************************************************)
(* What the client may have sent so far and the network may bring now, in  *)
(* any order: chunks of its ClientHello, its answer to the server's        *)
(* flight, acknowledgements of what had reached it at some moment.  It     *)
(* uses the server's connection ID when it has heard from it.              *)
(***************************************************************************)
GotNos(lev) == {p.no : p \in {q \in got : q.lev = lev}}
GotFlight == \A lev \in Pns, k \in 0..HskLen - 1 :
                (lev = "HSK" \/ k = 0) =>
                    \E p \in got : p.lev = lev /\ p.chunk = k
Crypto(pns, off, len) == [pns |-> pns, kind |-> "CRYPTO", off |-> off, len |-> len]

ClientHellos ==
    {Crypto("INIT", off, len) : off \in 0..ChloLen - 1,
        len \in IF "resegment" \in MiniEvents THEN 1..ChloLen ELSE {1}}
ClientAcks ==
    UNION {{[pns |-> pns, kind |-> "ACK", nos |-> nos] :
                nos \in SUBSET GotNos(pns) \ {{}}} : pns \in Pns}
ClientPackets ==
    {f \in ClientHellos : f.off + f.len <= ChloLen}
    \cup ClientAcks
    \cup (IF GotFlight THEN {Crypto("HSK", 0, 1)} ELSE {})
    \cup (IF "close" \in MiniEvents THEN {[pns |-> "INIT", kind |-> "CLOSE"]} ELSE {})

(* A packet arrives for the first time, under one of the client's numbers. *)
(* The numbers' order does not matter: the next one is taken.              *)
Outcomes == {"ok"} \cup (IF "early_data" \in MiniEvents THEN {"early"} ELSE {})
                   \cup (IF "alert" \in MiniEvents THEN {"alert"} ELSE {})
Dcids(pkt) == (IF pkt.pns = "INIT" THEN {"orig"} ELSE {})
                    \cup (IF got # {} THEN {"server"} ELSE {})

Receive(pkt, no, dcid, outcome) ==
    /\ imc.state = "mini"
    /\ imc.bytes_in < DgramSz * MaxIn
    /\ imc' = PacketIn(imc, [no |-> no, dcid |-> dcid] @@ pkt, outcome)
    /\ UNCHANGED <<wire, got>>

ServerReceives(pkt) ==
    \E no \in CliNos \ imc.recvd[pkt.pns], dcid \in Dcids(pkt), o \in Outcomes :
       /\ \A n \in CliNos \ imc.recvd[pkt.pns] : no <= n
       /\ Receive(pkt, no, dcid, o)

(* A packet that arrived arrives again.                                    *)
ServerReceivesDuplicate(pkt) ==
    \E no \in imc.recvd[pkt.pns] : Receive(pkt, no, "orig", "ok")

(* ietf_mini_conn_ci_count_garbage(): bytes that are no packet count, too. *)
CountGarbage ==
    /\ imc.state = "mini" /\ imc.bytes_in < DgramSz * MaxIn
    /\ imc.bytes_in % DgramSz = 0          \* bound: once
    /\ imc' = [imc EXCEPT !.bytes_in = @ + 1, !.flags = @ \ {"AMP_CAPPED"}]
    /\ UNCHANGED <<wire, got>>

(* The network brings a server's packet to the client, if it brings it.    *)
ClientReceives(p) == got' = got \cup {p} /\ UNCHANGED <<imc, wire>>

Tick(lost) ==
    /\ imc.state = "mini" /\ imc.bytes_in > 0
    /\ imc' = Ticked(imc, lost)
    /\ UNCHANGED <<wire, got>>

Expire ==
    /\ imc.state = "mini" /\ imc.bytes_in > 0
    /\ imc' = [imc EXCEPT !.state = "closed"]
    /\ UNCHANGED <<wire, got>>

SendPacket(ok) ==
    LET i == FirstUnsent(imc) IN
    /\ imc.state \in {"mini", "closed"} /\ i # 0
    /\ IF MayGo(imc, imc.out[i])
       THEN LET c == NextPacketToSend(imc, i) IN
            /\ imc' = IF ok THEN PacketSent(c, i) ELSE PacketNotSent(c, i)
            /\ wire' = IF ok THEN wire \cup {c.out[i]} ELSE wire
       ELSE imc' = Set(imc, {"AMP_CAPPED"}) /\ UNCHANGED wire
    /\ UNCHANGED got

Promote ==
    /\ imc.state = "promoting"
    /\ imc' = Promoted(imc)
    /\ UNCHANGED <<wire, got>>

MiniNext ==
    \/ \E p \in wire \ got : ClientReceives(p)
    \/ \E pkt \in ClientPackets : ServerReceives(pkt)
    \/ \E pkt \in {Crypto(pns, 0, 1) : pns \in Pns} : ServerReceivesDuplicate(pkt)
    \/ imc.bytes_in > 0 /\ CountGarbage
    \/ \E lost \in SUBSET {p.no : p \in Range(imc.out)} : Tick(lost)
    \/ Expire
    \/ \E ok \in BOOLEAN : SendPacket(ok)
    \/ Promote

MiniSpec == MiniInit /\ [][MiniNext]_mcvars

-----------------------------------------------------------------------------
(***************************************************************************)
(* Properties                                                              *)
(***************************************************************************)
(* bytes_out, which decides whether more may be sent, is what went out,    *)
(* and before the client's address is validated that is at most three      *)
(* times what came in, whatever is lost, repeated or could not be sent.    *)
OnWire == MapThenSumSet(LAMBDA p : p.sz, wire)
AmplificationLimited ==
    /\ imc.bytes_out = OnWire
    /\ ~Has(imc, "ADDR_VALIDATED") => OnWire <= 3 * imc.bytes_in

(* No packet number is used for two packets, at whatever level: one set of *)
(* sent numbers serves to validate all ACK frames.                         *)
NumbersUnique == \A p, q \in wire : p.no = q.no => p = q

(* What TLS has written and the client has not acknowledged is still in    *)
(* exactly one packet, until the level is given up, the client closes the  *)
(* connection, or the packet numbers run out.                              *)
Delivered(lev, k) ==
    \E p \in wire : p.lev = lev /\ p.chunk = k /\ p.no \in imc.acked[lev]
FlightIsKept ==
    \A lev \in Pns, k \in 0..HskLen - 1 :
       k < imc.write_off[lev] =>
          \/ Delivered(lev, k)
          \/ lev = "INIT" /\ Has(imc, "IGNORE_INIT")
          \/ Has(imc, "CLOSE_RECVD") \/ imc.next > MAX_PACKETS
          \/ Cardinality({i \in DOMAIN imc.out :
                    imc.out[i].lev = lev /\ imc.out[i].chunk = k}) = 1

(* Once a Handshake packet has been received no Initial packet is kept or  *)
(* made, whatever arrives late.                                            *)
InitialIsOver ==
    Has(imc, "IGNORE_INIT") =>
        /\ \A i \in DOMAIN imc.out : imc.out[i].lev # "INIT"
        /\ ~Has(imc, "QUEUED_ACK_INIT")

(* An honest client is never refused: neither its ACK frames nor its       *)
(* repeated CRYPTO frames are errors, unless packet numbers have run out.  *)
HonestClientServed ==
    /\ "ERROR" \in imc.flags => \/ {"CLOSE_RECVD", "TLS_ALERT"} \cap imc.flags # {}
                                \/ imc.next >= MAX_PACKETS
    /\ Len(imc.stash) <= MAX_STASHED

(* Out-of-order CRYPTO data is buffered up to the minimum that the comment *)
(* on IMICO_MAX_BUFFERED_CRYPTO quotes.                                    *)
BuffersEnough ==
    "ERROR" \in imc.flags => \/ {"CLOSE_RECVD", "TLS_ALERT"} \cap imc.flags # {}
                            \/ imc.next >= MAX_PACKETS
                            \/ Len(imc.stash) >= MIN_BUFFERED

(* The full connection can work with what it is given: its unacknowledged  *)
(* and its scheduled packets are in the order of their numbers, the        *)
(* scheduled ones after all that was sent; the number it continues with is *)
(* new; and it accepts an acknowledgement of anything that was sent.       *)
PromotionIsFaithful ==
    imc.state = "promoted" =>
        LET f == imc.full
            all == f.unacked \o f.scheduled
        IN /\ \A i, j \in DOMAIN all : i < j => all[i].no < all[j].no
           /\ \A n \in imc.sent : n <= f.cur_packno /\ n <= f.senhist
           /\ \A i \in DOMAIN all : all[i].no <= f.cur_packno

HandshakeIsSound ==
    /\ NumbersUnique
    /\ FlightIsKept
    /\ InitialIsOver
    /\ HonestClientServed
    /\ PromotionIsFaithful
=============================================================================

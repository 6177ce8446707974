----------------------------- MODULE GquicMini -----------------------------
(***************************************************************************)
(* The server's mini connection for Google QUIC (Q043, Q046 and Q050): it  *)
(* answers the client's CHLO messages with REJ and SHLO, holds back what   *)
(* it cannot decrypt yet, acknowledges, retransmits, and is replaced by a  *)
(* full connection once SHLO is made.  Packet numbers are limited: sets of *)
(* them are bit masks.                                                     *)
(*                                                                         *)
(* The client first sends an inchoate CHLO (one chunk), and after the REJ  *)
(* a full one in two chunks, followed by encrypted data; any packet may be *)
(* lost, repeated or reordered, and any chunk sent again in a new packet.  *)
(* Which sent packets have waited past the retransmission timeout is       *)
(* chosen when the connection ticks.                                       *)
(***************************************************************************)
EXTENDS Integers, Sequences, FiniteSets, SequencesExt, FiniteSetsExt

CONSTANTS
    GM_MAX_PACKETS,     \* MINICONN_MAX_PACKETS
    GM_MAX_DEFERRED,    \* MINI_CONN_MAX_DEFERRED
    RejPackets,         \* packets that a REJ takes
    GmVersions,         \* subset of {43, 46, 50}
    MaxArrivals         \* datagrams that arrive

GquicMiniAssumption ==
    /\ {GM_MAX_PACKETS, GM_MAX_DEFERRED, RejPackets} \subseteq Nat \ {0}
    /\ GmVersions \subseteq {43, 46, 50}
    /\ MaxArrivals \in Nat

VARIABLES
    mc,     \* struct mini_conn
    cli     \* the client and the network

gmvars == <<mc, cli>>

Nos == 1 .. GM_MAX_PACKETS
Has(c, f) == f \in c.flags
Set(c, f) == [c EXCEPT !.flags = @ \cup f]
Clear(c, f) == [c EXCEPT !.flags = @ \ f]
Fail(c) == Set(c, {"ERROR"})

-----------------------------------------------------------------------------
(***************************************************************************)
(* What is sent.                                                           *)
(***************************************************************************)
\* A packet number is taken even if no packet comes of it; 0: there are no more.
NextPackno(c) == IF c.cur < GM_MAX_PACKETS THEN c.cur + 1 ELSE 0
TakePackno(c) == IF NextPackno(c) = 0 THEN Set(c, {"OO_PACKNOS"})
                 ELSE [c EXCEPT !.cur = NextPackno(c)]

\* what: [data |-> n] of the response, at an encryption level and an offset;
\* or [ack |-> ranges], with the STOP_WAITING frame's value (0: none).
AllocatePacketOut(c, what) ==
    LET d == TakePackno(c)
    IN IF NextPackno(c) = 0 THEN Fail(d)
       ELSE [d EXCEPT !.out = Append(@, [no |-> d.cur, sent |-> FALSE, frame |-> what])]

\* One response packet holds one unit.  In Q050 the encrypted SHLO starts at offset 0.
ToPacket(c, data, nonce) ==
    LET reset == c.ver = 50 /\ nonce /\ ~Has(c, "WR_OFF_RESET")
        d == IF reset THEN Set([c EXCEPT !.writeOff = 0], {"WR_OFF_RESET"}) ELSE c
        e == AllocatePacketOut(d, [data |-> data, lvl |-> IF c.ver = 50 /\ nonce THEN 1 ELSE 0,
                                   off |-> d.writeOff])
    IN IF Has(e, "ERROR") THEN e ELSE [e EXCEPT !.writeOff = @ + 1]

\* Stops at the packet that cannot be had; the packets already made stay.
PacketizeResponse(c, units, nonce) ==
    FoldLeft(LAMBDA d, u: IF Has(d, "ERROR") THEN d
                          ELSE [ToPacket(d, u, nonce) EXCEPT !.made = Append(@, u)], c, units)

\* The ranges of received packet numbers, highest first.
RecRanges(S) ==
    LET starts == {n \in S: n - 1 \notin S}
        high(l) == CHOOSE h \in S: h >= l /\ h + 1 \notin S /\ l .. h \subseteq S
    IN SetToSortSeq({<<l, high(l)>>: l \in starts}, LAMBDA a, b: a[1] > b[1])

LeastUnacked(c) == IF c.sent \subseteq c.acked THEN Max(c.sent) + 1 ELSE Min(c.sent \ c.acked)

GenerateAckAndStopWaiting(c) ==
    LET stop == IF Has(c, "STOP_WAIT_ON") /\ c.sent # {} THEN LeastUnacked(c) ELSE 0
        d == AllocatePacketOut(c, [ack |-> RecRanges(c.rcvd), stop |-> stop])
    IN IF Has(d, "ERROR") THEN d ELSE Set(Clear(d, {"GEN_ACK"}), {"UNSENT_ACK"})

-----------------------------------------------------------------------------
(***************************************************************************)
(* The handshake.                                                          *)
(***************************************************************************)
\* External (lsquic_handshake.c): the message at the read offset, whole or not.
HandleChlo(c, size) == CASE c.readOff = 0 -> "HS_1RTT"
                         [] c.readOff = 1 /\ size = 2 -> "HS_SHLO"
                         [] OTHER -> "DATA_NOT_ENOUGH"

Chunks(c) == {k \in DOMAIN c.pin: c.pin[k].hsk}
SortedChunks(c) ==
    SetToSortSeq(Chunks(c), LAMBDA a, b: \/ c.pin[a].off < c.pin[b].off
                                         \/ c.pin[a].off = c.pin[b].off /\ a < b)
\* How many chunks, from the first, follow each other without a gap or an overlap.
Contiguous(c, s) ==
    Max({n \in 1 .. Len(s): \A k \in 2 .. n: c.pin[s[k]].off = c.pin[s[k - 1]].off + 1})

\* The chunks used up are not handed over again.
Consume(c, used) ==
    [c EXCEPT !.readOff = @ + Cardinality(used),
              !.pin = [k \in DOMAIN @ |-> IF k \in used THEN [@[k] EXCEPT !.hsk = FALSE] ELSE @[k]]]

Respond(c, units, nonce, used) ==
    LET Out(d) == IF Has(d, "ERROR") THEN d ELSE Consume(d, used)
    IN Out(PacketizeResponse(Set(c, IF c.ver < 46 THEN {"STOP_WAIT_ON"} ELSE {}), units, nonce))

\* bad: the crypto code finds the message wrong.
Answer(c, he, used) ==
    CASE he = "DATA_NOT_ENOUGH" -> c
      [] he = "HS_1RTT" -> Respond(c, [k \in 1 .. RejPackets |-> k], FALSE, used)
      [] he = "HS_SHLO" -> Respond(Set([c EXCEPT !.keys = TRUE], {"PROMOTE"}),
                                   <<RejPackets + 1>>, TRUE, used)
      [] OTHER -> Set(c, {"HSK_ERR", "ERROR"})
HandleChunks(c, s, n, bad) ==
    IF c.pin[s[1]].off # c.readOff THEN c
    ELSE Answer(c, IF bad THEN "HS_ERROR" ELSE HandleChlo(c, n), {s[k]: k \in 1 .. n})
ChunksFound(c, s, bad) == HandleChunks(c, s, Contiguous(c, s), bad)
ContinueHandshake(c, bad) == ChunksFound(c, SortedChunks(c), bad)

-----------------------------------------------------------------------------
(***************************************************************************)
(* What arrives.  A packet is [no, enc, hsk (offset of the chunk, -1: none),*)
(* ack (set of packet numbers), end]; end is "ok", "close" (CONNECTION_     *)
(* CLOSE) or "wrong" (a frame that cannot be parsed, or not allowed here).  *)
(***************************************************************************)
\* Only the newest packet's ACK counts, and it may only name packets sent.
ProcessAckFrame(c, p) ==
    IF p.ack = {} \/ p.no <= c.maxAck THEN c
    ELSE IF ~(p.ack \subseteq c.sent) THEN Fail([c EXCEPT !.maxAck = p.no])
    ELSE [c EXCEPT !.maxAck = p.no, !.acked = @ \cup p.ack,
                   !.out = SelectSeq(@, LAMBDA o: o.no \notin p.ack)]

\* A chunk from below the read offset is a duplicate.
ProcessStreamFrame(c, p) == IF p.hsk >= c.readOff THEN Set(c, {"HAVE_NEW_HSK"}) ELSE c

DropPacketsOut(c) == [c EXCEPT !.out = <<>>]

ProcessRest(c, p) ==
    CASE p.end = "close" -> Fail(DropPacketsOut(c))
      [] p.end = "wrong" -> Fail(c)
      [] OTHER -> Set(c, {"GEN_ACK"})
AckProcessed(c, p) ==
    IF Has(c, "ERROR") THEN c
    ELSE ProcessRest(IF p.hsk >= 0 THEN ProcessStreamFrame(c, p) ELSE c, p)
ProcessFrames(c, p) == AckProcessed(ProcessAckFrame(c, p), p)

\* External: until SHLO only unencrypted packets can be read; after it, only
\* encrypted ones, and Initial packets of Q050.
Decrypts(c, p) == IF p.enc THEN c.keys ELSE ~c.keys \/ c.ver = 50

\* KEEP, DROP or DEFER.  No second look at whether the number was seen before.
Defer(c, p) == IF Len(c.deferred) < GM_MAX_DEFERRED THEN [c EXCEPT !.deferred = Append(@, p)] ELSE c
MaybeContinue(c, bad) ==
    IF Has(c, "HAVE_NEW_HSK") THEN Clear(ContinueHandshake(c, bad), {"HAVE_NEW_HSK"}) ELSE c
KeepPacket(c, p, bad) ==
    IF Has(c, "ERROR") THEN c
    ELSE MaybeContinue([c EXCEPT !.pin = Append(@, [no |-> p.no, off |-> p.hsk,
                                                    hsk |-> p.hsk >= 0 /\ p.hsk >= c.readOff])],
                       bad)
ProcessPacket(c, p, bad) ==
    CASE ~Decrypts(c, p) /\ c.keys -> c
      [] ~Decrypts(c, p) /\ ~c.keys -> Defer(c, p)
      [] OTHER -> KeepPacket(ProcessFrames([c EXCEPT !.rcvd = @ \cup {p.no}], p), p, bad)

InsertIntoDeferred(c, p) ==
    LET k == Cardinality({j \in DOMAIN c.deferred: c.deferred[j].no <= p.no})
    IN [c EXCEPT !.deferred = SubSeq(@, 1, k) \o <<p>> \o SubSeq(@, k + 1, Len(@))]

\* Each packet held back is tried once; one that must wait again goes to the tail.
ProcessDeferred(c, bad) ==
    FoldLeft(LAMBDA d, p: ProcessPacket([d EXCEPT !.deferred = Tail(@)], p, bad), c, c.deferred)

\* A Google QUIC header: bad packet numbers end the connection, repeats are dropped.
PacketInStandard(c, p, bad) ==
    IF p.no = 0 \/ p.no > GM_MAX_PACKETS THEN Fail(c)
    ELSE IF p.no \in c.rcvd THEN c
    ELSE IF p.no \in Nos \ c.rcvd /\ c.deferred # <<>> /\ Len(c.deferred) < GM_MAX_DEFERRED
    THEN ProcessDeferred(InsertIntoDeferred(c, p), bad)
    ELSE LET Rest(d) == IF c.deferred = <<>> THEN d ELSE ProcessDeferred(d, bad)
         IN Rest(ProcessPacket(c, p, bad))

\* Q050: neither is looked at, and what is held back waits for the full connection.
PacketInQ050(c, p, bad) == ProcessPacket(c, p, bad)

PacketIn(c, p, bad) == CASE Has(c, "ERROR") -> c
                         [] ~Has(c, "ERROR") /\ c.ver = 50 -> PacketInQ050(c, p, bad)
                         [] OTHER -> PacketInStandard(c, p, bad)

-----------------------------------------------------------------------------
(***************************************************************************)
(* Ticking and sending.                                                    *)
(***************************************************************************)
\* A lost packet with response data goes out again under a new number, if there
\* is one; a lost ACK does not.
RepackagePacket(c, o) ==
    LET d == TakePackno(c)
    IN IF NextPackno(c) = 0 THEN d
       ELSE [d EXCEPT !.out = Append(@, [o EXCEPT !.no = d.cur, !.sent = FALSE])]

\* Sent packets up to number last have waited too long.
HandleLosses(c, last) ==
    LET lost == SelectSeq(c.out, LAMBDA o: o.sent /\ o.no <= last)
        resend == SelectSeq(lost, LAMBDA o: "data" \in DOMAIN o.frame)
        d == [c EXCEPT !.out = SelectSeq(@, LAMBDA o: ~(o.sent /\ o.no <= last))]
    IN FoldLeft(RepackagePacket, d, resend)

\* The full connection takes the packets over: those sent enter its history of
\* sent packets, with the numbers skipped between them; the others are scheduled.
SenhistLargest(c) ==
    LET numbers == {o.no: o \in Range(c.out)}
        sent == {o.no: o \in {p \in Range(c.out): p.no \in c.sent}}
    IN Max({0} \cup sent \cup {n - 1: n \in numbers})
Promoted(c) == [c EXCEPT !.st = "full", !.senhist = SenhistLargest(c)]

Ticked(c, last) ==
    LET d == IF Has(c, "GEN_ACK") /\ ~Has(c, "UNSENT_ACK") THEN GenerateAckAndStopWaiting(c) ELSE c
        e == HandleLosses(d, last)
    IN IF Has(c, "ERROR") THEN [c EXCEPT !.st = "closed"]
       ELSE IF Has(d, "ERROR") THEN [d EXCEPT !.st = "closed"]
       ELSE IF Has(e, "PROMOTE") THEN Promoted(e)
       ELSE e

Unsent(c) == {k \in DOMAIN c.out: ~c.out[k].sent}

\* The first unsent packet is handed to the engine, which sends it or does not.
NextPacketToSend(c) == Min(Unsent(c))
PacketSent(c, k) ==
    LET d == [c EXCEPT !.out[k].sent = TRUE, !.sent = @ \cup {c.out[k].no}]
    IN IF "ack" \in DOMAIN c.out[k].frame
       THEN [Clear(d, {"UNSENT_ACK"}) EXCEPT !.asserted = @ /\ Has(c, "UNSENT_ACK")] ELSE d

-----------------------------------------------------------------------------
(***************************************************************************)
(* The client and the engine.                                              *)
(***************************************************************************)
\* What a client may have sent: the full CHLO, and data, follow the whole REJ.
Payloads(c) ==
    LET rej == \A u \in 1 .. RejPackets: \E s \in cli.sent: s[2] = u
        chlo == [enc |-> FALSE, hsk |-> 0]
    IN {chlo} \cup (IF rej THEN {[enc |-> FALSE, hsk |-> 1], [enc |-> FALSE, hsk |-> 2],
                                 [enc |-> TRUE, hsk |-> -1]} ELSE {})
Acks(c) == {{}, c.sent} \cup (IF c.sent = {} THEN {} ELSE {{Max(c.sent)}})
\* Packets overtake each other by one.
FreshNos(c) == LET used == DOMAIN cli.packets
                   next == Min((Nos \cup {GM_MAX_PACKETS + 1}) \ used)
               IN {n \in {next, next + 1} \ used: n <= GM_MAX_PACKETS + (IF c.ver = 50 THEN 0 ELSE 1)}

New(v) == [ver |-> v, flags |-> {}, rcvd |-> {}, sent |-> {}, acked |-> {}, cur |-> 0,
           readOff |-> 0, writeOff |-> 0, maxAck |-> 0, deferred |-> <<>>, pin |-> <<>>,
           out |-> <<>>, made |-> <<>>, keys |-> FALSE, st |-> "mini", asserted |-> TRUE,
           senhist |-> 0]

GMInit == /\ mc \in {New(v): v \in GmVersions}
          /\ cli = [packets |-> <<>>, sent |-> {}, n |-> 0]

\* A packet arrives for the first time.  A number past the limit is only sent
\* to a version that looks at it.
Arrive ==
    /\ mc.st = "mini" /\ cli.n < MaxArrivals
    /\ \E no \in FreshNos(mc),
          x \in Payloads(mc), a \in Acks(mc), bad \in BOOLEAN,
          end \in {"ok", "close", "wrong"}:
        LET p == [no |-> no, enc |-> x.enc, hsk |-> x.hsk, ack |-> a, end |-> end]
        IN /\ bad => x.hsk = 2
           /\ a # {} => x.hsk # 0
           /\ end # "ok" => x.enc /\ a = {}
           /\ no > GM_MAX_PACKETS => x.enc /\ a = {} /\ end = "ok"
           /\ mc' = PacketIn(mc, p, bad)
           /\ cli' = [cli EXCEPT !.n = @ + 1,
                                 !.packets = [n \in DOMAIN @ \cup {no} |-> IF n = no THEN p ELSE @[n]]]

\* The network repeats a packet.
Repeat ==
    /\ mc.st = "mini" /\ cli.n < MaxArrivals
    /\ \E no \in DOMAIN cli.packets: mc' = PacketIn(mc, cli.packets[no], FALSE)
    /\ cli' = [cli EXCEPT !.n = @ + 1]

Tick ==
    /\ mc.st = "mini"
    /\ \E last \in {0} \cup {o.no: o \in {p \in Range(mc.out): p.sent}}: mc' = Ticked(mc, last)
    /\ UNCHANGED cli

\* After a tick the engine sends what there is, or cannot for now.
Send ==
    /\ mc.st = "mini" /\ Unsent(mc) # {}
    /\ mc' = PacketSent(mc, NextPacketToSend(mc))
    /\ LET o == mc.out[NextPacketToSend(mc)]
       IN cli' = [cli EXCEPT !.sent = IF "data" \in DOMAIN o.frame
                                      THEN @ \cup {<<o.no, o.frame.data>>} ELSE @]

\* The handshake took too long.
Expire ==
    /\ mc.st = "mini"
    /\ mc' = [New(mc.ver) EXCEPT !.st = "closed"]
    /\ cli' = [packets |-> <<>>, sent |-> {}, n |-> 0]

GMNext == Arrive \/ Repeat \/ Tick \/ Send \/ Expire

GMSpec == GMInit /\ [][GMNext]_gmvars

-----------------------------------------------------------------------------
\* Each response is made once and in order, whatever is repeated.
RespondsOnce == mc.made = [k \in DOMAIN mc.made |-> k]

\* What was made stays to be sent until the client has it, or numbers run out.
ResponseIsKept ==
    mc.st # "closed" /\ mc.flags \cap {"ERROR", "OO_PACKNOS"} = {} =>
        \A u \in Range(mc.made):
            \/ \E o \in Range(mc.out): "data" \in DOMAIN o.frame /\ o.frame.data = u
            \/ \E s \in cli.sent: s[2] = u /\ s[1] \in mc.acked

\* An ACK waiting to go out names packets that were read, and STOP_WAITING none
\* that the client still has to report.
AcksAreTrue ==
    \A o \in Range(mc.out): "ack" \in DOMAIN o.frame =>
        /\ UNION {r[1] .. r[2]: r \in Range(o.frame.ack)} \subseteq DOMAIN cli.packets \cap mc.rcvd
        /\ ~o.sent => \A n \in mc.sent \ mc.acked: o.frame.stop <= n

\* The full connection knows every number used as one that may be acknowledged;
\* and the packets it takes over are in order.
HandOverIsSound ==
    /\ \A j, k \in DOMAIN mc.out: j < k => /\ mc.out[j].no < mc.out[k].no
                                           /\ mc.out[k].sent => mc.out[j].sent
    /\ mc.st = "full" => \A n \in mc.sent: n <= mc.senhist

\* Nothing the client or the network does makes the mini connection repeat or
\* lose a response, acknowledge what it has not read, trip over an assertion or
\* hand over a state the full connection cannot go on from.
GquicMiniSound == mc.asserted /\ RespondsOnce /\ ResponseIsKept /\ AcksAreTrue /\ HandOverIsSound
=============================================================================

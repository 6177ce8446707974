-------------------------- MODULE ClientHandshake --------------------------
(***************************************************************************)
(* The client's side of the IETF QUIC handshake: version negotiation,      *)
(* Retry, 0-RTT packets, the crypto streams and the TLS object, and how    *)
(* the Initial and Handshake packet number spaces are abandoned            *)
(* (lsquic_full_conn_ietf.c, with lsquic_send_ctl.c for the packets and    *)
(* lsquic_enc_sess_ietf.c for the keys).                                   *)
(*                                                                         *)
(* The client has four packets to send: "chlo", the Initial packet with    *)
(* the ClientHello; "early", a 0-RTT packet; "fin", the Handshake packet   *)
(* with its Finished; "ack", a packet with nothing but an ACK.  The        *)
(* network loses, repeats, delays and reorders everything.  The server's   *)
(* part is what a server of this library answers, as far as the client     *)
(* sees it.                                                                *)
(***************************************************************************)
EXTENDS Integers, FiniteSets, FiniteSetsExt

CONSTANTS
    CliVers,    \* the sets of versions a client may be told to use
    SrvVers     \* versions the server speaks

ClientHandshakeAssumption ==
    /\ CliVers \subseteq (SUBSET Nat) \ {{}}
    /\ SrvVers \subseteq Nat /\ SrvVers # {}

VARIABLES
    c,      \* struct ietf_full_conn and its struct enc_sess_iquic
    pk,     \* the client's packets
    down,   \* what the server has sent: any of it may arrive, at any time and again
    srv     \* the server

chvars == <<c, pk, down, srv>>

\* highest_bit_set()
HighestBitSet(versions) == Max(versions)

Absent == [q |-> "none", hety |-> "init", token |-> FALSE, sealed |-> <<>>]

-----------------------------------------------------------------------------
(* Initial state *)

\* set_versions() and init_ver_neg()
SetVersions(s, versions, ver) == [s EXCEPT !.supp = versions, !.vnver = ver, !.ver = ver]

\* lsquic_ietf_full_conn_client_new(): I001 or the newest version unless the
\* resumption information names another; the crypto stream of the first level
\* exists and has written the ClientHello
NewClient(versions, ver, ticket, early) ==
    SetVersions(
        [ver |-> ver, vnver |-> ver, supp |-> versions, vn |-> "start",
         dcid |-> "orig", dcid_set |-> FALSE, retried |-> FALSE,
         retry |-> FALSE, token |-> FALSE, late |-> {},
         keys |-> [ver |-> ver, cid |-> "orig"],
         streams |-> {"init"}, proc_crypto |-> TRUE,
         levels |-> {"init"}, ssl |-> "shaking", want_ticket |-> ticket,
         early |-> early, confirmed |-> FALSE, unread |-> FALSE,
         hsk_done |-> FALSE, closed |-> "no",
         ignored |-> {}, ackq |-> {}, retx |-> {}, ticket_alarm |-> FALSE,
         hsk_alarm |-> TRUE, packets_out |-> 0, hsk_sent |-> FALSE,
         broken |-> FALSE], versions, ver)

ClientInit ==
    /\ \E versions \in CliVers, ticket, early \in BOOLEAN : \E ver \in versions :
          c = NewClient(versions, ver, ticket, early)
    /\ pk = [i \in {"chlo", "early", "fin", "ack"} |->
                CASE i = "chlo" -> [Absent EXCEPT !.q = "sched"]
                  [] i = "early" /\ c.early -> [Absent EXCEPT !.q = "sched", !.hety = "0rtt"]
                  [] OTHER -> Absent]
    /\ down = {}
    /\ \E retries \in BOOLEAN :      \* does it validate addresses with a Retry?
          srv = [ver |-> 0, cid |-> "none", retries |-> retries, proc_crypto |-> TRUE,
                 early |-> FALSE]

-----------------------------------------------------------------------------
(* The server: it answers what reaches it, and does so at once; what it    *)
(* sends may take as long as it likes                                      *)

Answer(S) == down' = down \cup S

\* a version it does not speak; the answer carries the IDs it saw
SrvVerNeg(u) ==
    /\ u.hety = "init" /\ u.ver \notin SrvVers
    /\ Answer({[t |-> "verneg", cid |-> u.cid]})
    /\ UNCHANGED srv

\* an Initial packet without a token, when addresses are validated
SrvRetry(u) ==
    /\ srv.retries /\ u.hety = "init" /\ u.ver \in SrvVers /\ ~u.token /\ srv.ver = 0
    /\ Answer({[t |-> "retry", ver |-> u.ver, cid |-> u.cid,
                new |-> IF u.cid = "orig" THEN "retry" ELSE "other"]})
    /\ UNCHANGED srv

\* the ClientHello, if it can be opened: the server may choose another version
\* of those the client lists
SrvAccept(u) ==
    /\ u.id = "chlo" /\ u.ver \in SrvVers /\ srv.ver = 0 /\ u.token = srv.retries
    /\ u.keys = [ver |-> u.ver, cid |-> u.cid]
    /\ \E ver \in {u.ver} \cup (SrvVers \cap c.supp), early \in BOOLEAN :
          /\ srv' = [srv EXCEPT !.ver = ver, !.cid = u.cid, !.early = early]
          /\ Answer({[t |-> "init", ver |-> ver, keys |-> [ver |-> ver, cid |-> u.cid]],
                     [t |-> "hsk", ver |-> ver, what |-> "crypto", early |-> early]})

\* process_crypto_frame_server() with the Finished
SrvFinished(u) ==
    /\ u.id = "fin" /\ srv.proc_crypto
    /\ srv' = [srv EXCEPT !.proc_crypto = FALSE]
    /\ Answer({[t |-> "hsk", ver |-> srv.ver, what |-> "ack", early |-> FALSE]}
              \cup {[t |-> "app", ver |-> srv.ver, what |-> w] : w \in {"done", "ticket"}})

\* the client's data
SrvAckEarly(u) ==
    /\ u.id = "early" /\ srv.ver # 0 /\ (u.hety = "0rtt" => srv.early)
    /\ Answer({[t |-> "app", ver |-> srv.ver, what |-> "ack"]})
    /\ UNCHANGED srv

\* a datagram reaches the server, or does not
Deliver(u) ==
    \/ UNCHANGED <<down, srv>>
    \/ SrvVerNeg(u) \/ SrvRetry(u) \/ SrvAccept(u) \/ SrvFinished(u) \/ SrvAckEarly(u)

-----------------------------------------------------------------------------
(* The client's packets *)

\* lsquic_hety2pns
Pns(hety) == IF hety \in {"0rtt", "short"} THEN "app" ELSE hety
In(p, q, pns) == p.q \in q /\ Pns(p.hety) = pns
Batched == {i \in DOMAIN pk : pk[i].q = "out"}

\* the engine has returned every packet before the connection is called again
Idle == c.closed = "no" /\ Batched = {}

\* lsquic_send_ctl_empty_pns(): ACKs of the space are not owed either
EmptyPns(p, pns) ==
    [i \in DOMAIN p |-> IF In(p[i], {"sched", "unacked", "lost"}, pns) THEN Absent ELSE p[i]]

\* ignore_init() and ignore_hsk()
Ignore(s, pns) ==
    [s EXCEPT !.ignored = @ \cup {pns}, !.ackq = @ \ {pns}, !.retx = @ \ {pns},
              !.streams = @ \ {pns}]

\* send_ctl_expire(EXFI_ALL) in one packet number space: an ACK is not repeated
Expire(p, pns) ==
    [i \in DOMAIN p |-> IF In(p[i], {"unacked"}, pns) THEN [p[i] EXCEPT !.q = "lost"] ELSE p[i]]

\* lsquic_send_ctl_expire_all()
ExpireAll(p) == Expire(Expire(Expire(p, "init"), "hsk"), "app")

\* lsquic_send_ctl_retry(): the packets that were sent are to be sent again with
\* the token; a packet that waits in the scheduled queue is left as it is
SendCtlRetry(p) ==
    [i \in DOMAIN p |->
        IF In(Expire(p, "init")[i], {"lost"}, "init")
        THEN [Expire(p, "init")[i] EXCEPT !.token = TRUE] ELSE Expire(p, "init")[i]]

\* lsquic_send_ctl_stash_0rtt_packets()
Stash0Rtt(p) ==
    [i \in DOMAIN p |->
        IF p[i].q = "unacked" /\ p[i].hety = "0rtt" THEN [p[i] EXCEPT !.q = "stash"] ELSE p[i]]

\* lsquic_send_ctl_0rtt_to_1rtt()
ZeroRttTo1Rtt(p) ==
    [i \in DOMAIN p |->
        IF p[i].hety = "0rtt"
        THEN [p[i] EXCEPT !.hety = "short", !.sealed = <<>>,
                          !.q = IF p[i].q = "stash" THEN "lost" ELSE p[i].q]
        ELSE p[i]]

\* iquic_esf_encrypt_packet() on an Initial packet: the header names the version
\* and the DCID in use, the keys are those of the last setup_handshake_keys()
Sealed(s, i, p) ==
    IF p.hety # "init" THEN [id |-> i, hety |-> p.hety]
    ELSE [id |-> i, hety |-> p.hety, ver |-> s.ver, cid |-> s.dcid, keys |-> s.keys,
          token |-> p.token]

\* pre_hsk_packet_sent_or_delayed(), while the wrappers are installed
PreHsk(s, p) ==
    IF "init" \in s.ignored THEN s
    ELSE [s EXCEPT !.packets_out = @ - 1, !.hsk_sent = @ \/ p.hety = "hsk"]
MayIgnoreInit(s) == "init" \notin s.ignored /\ s.packets_out = 0 /\ s.hsk_sent
AfterBatch(s) == IF MayIgnoreInit(s) THEN Ignore(s, "init") ELSE s
PacketsAfterBatch(s, p) == IF MayIgnoreInit(s) THEN EmptyPns(p, "init") ELSE p

\* ietf_full_conn_ci_next_packet_to_send_pre_hsk(), then the engine encrypts;
\* a delayed packet is encrypted already
NextPacketToSend(i) ==
    /\ c.closed = "no" /\ pk[i].q = "sched"
    /\ pk' = [pk EXCEPT ![i].q = "out",
                        ![i].sealed = IF @ = <<>> THEN <<Sealed(c, i, pk[i])>> ELSE @]
    /\ c' = IF "init" \in c.ignored THEN c ELSE [c EXCEPT !.packets_out = @ + 1]
    /\ UNCHANGED <<down, srv>>

\* ietf_full_conn_ci_packet_sent_pre_hsk(), lsquic_send_ctl_sent_packet(): the
\* retransmission alarm is set for a packet that may have to be repeated
PacketSent(i) ==
    /\ pk[i].q = "out"
    /\ Deliver(pk[i].sealed[1])
    /\ \E s \in {PreHsk([c EXCEPT !.retx = IF i = "ack" THEN @ ELSE @ \cup {Pns(pk[i].hety)}],
                        pk[i])} :
          /\ c' = AfterBatch(s)
          /\ pk' = PacketsAfterBatch(s, [pk EXCEPT
                       ![i] = IF i = "ack" THEN Absent
                              ELSE [@ EXCEPT !.q = "unacked", !.sealed = <<>>]])

\* ietf_full_conn_ci_packet_not_sent_pre_hsk(): the packet goes back as it is
PacketNotSent(i) ==
    /\ pk[i].q = "out"
    /\ \E s \in {PreHsk(c, pk[i])} :
          /\ c' = AfterBatch(s)
          /\ pk' = PacketsAfterBatch(s, [pk EXCEPT ![i].q = "sched"])
    /\ UNCHANGED <<down, srv>>

\* retx_alarm_rings(): what was sent in the space is lost
RetxAlarm(pns) ==
    /\ Idle /\ pns \in c.retx
    /\ pk' = Expire(pk, pns)
    /\ c' = [c EXCEPT !.retx = @ \ {pns}]
    /\ UNCHANGED <<down, srv>>

\* lsquic_send_ctl_reschedule_packets() at the next tick
Reschedule(i) ==
    /\ Idle /\ pk[i].q = "lost"
    /\ pk' = [pk EXCEPT ![i].q = "sched"]
    /\ UNCHANGED <<c, down, srv>>

\* generate_ack_frame_for_pns(): send_ctl_allocate_packet() gives a new Initial
\* packet the token
GenerateAck(pns) ==
    /\ Idle /\ pns \in c.ackq /\ pk["ack"].q = "none"
    /\ pk' = [pk EXCEPT !["ack"] = [q |-> "sched", hety |-> pns, sealed |-> <<>>,
                                    token |-> pns = "init" /\ c.token]]
    /\ c' = [c EXCEPT !.ackq = @ \ {pns}]
    /\ UNCHANGED <<down, srv>>

-----------------------------------------------------------------------------
(* The crypto streams and the TLS object *)

NoKeys == [ver |-> 0, cid |-> "none"]

\* drop_crypto_streams()
DropCryptoStreams(s) == [s EXCEPT !.streams = {}, !.proc_crypto = FALSE]

\* drop_SSL(): a second call would use a freed object
DropSSL(s) ==
    [DropCryptoStreams(s) EXCEPT !.ssl = "gone", !.keys = NoKeys,
                                 !.broken = @ \/ s.ssl = "gone"]

\* maybe_drop_SSL(): a client that wants a session ticket waits for it a while
MaybeDropSSL(s) ==
    IF ~(s.confirmed /\ s.ssl = "ok") THEN s
    ELSE IF s.want_ticket THEN [s EXCEPT !.ticket_alarm = TRUE]
    ELSE DropSSL(s)

\* ietf_full_conn_ci_hsk_done(), handshake_failed()
HskFailed(s) == [s EXCEPT !.hsk_alarm = FALSE, !.closed = "failed"]
\* handshake_ok(), after iquic_esfi_handshake() has installed the last keys
HandshakeOk(s) ==
    [s EXCEPT !.hsk_alarm = FALSE, !.hsk_done = TRUE, !.ssl = "ok",
              !.levels = @ \cup {"app"}]
\* ... the TLS object has written the Finished, 0-RTT packets become 1-RTT ones
FinScheduled(p) == [p EXCEPT !["fin"] = [Absent EXCEPT !.q = "sched", !.hety = "hsk"]]
PacketsHandshakeOk(p) == ZeroRttTo1Rtt(FinScheduled(p))

\* iquic_esfi_shake_stream(): the handshake is complete, or it has failed, or
\* the transport parameters turn out to be unacceptable
Complete(s, p) ==
    \/ c' = MaybeDropSSL(HandshakeOk(s)) /\ pk' = PacketsHandshakeOk(p)
    \/ c' = HskFailed(s) /\ pk' = p
    \/ c' = HskFailed(HandshakeOk(s)) /\ pk' = FinScheduled(p)

\* iquic_esfi_handshake() with the server's Handshake messages: when the server
\* refuses early data, the rest is done when the stream is next written to
Shake(s, p, accepted) ==
    IF s.early /\ ~accepted
    THEN c' = [s EXCEPT !.ssl = "rejected"] /\ pk' = Stash0Rtt(p)
    ELSE Complete(s, p)

\* chsk_ietf_on_write() of the Handshake stream
OnWrite ==
    /\ Idle /\ c.ssl = "rejected" /\ "hsk" \in c.streams
    /\ Complete(c, pk)
    /\ UNCHANGED <<down, srv>>

\* chsk_ietf_on_read() of the application level: iquic_esfi_post_handshake() calls
\* iquic_new_session_cb(); without a TLS object the data is thrown away
OnRead ==
    /\ Idle /\ c.unread /\ "app" \in c.streams
    /\ c' = IF c.ssl = "gone" THEN [c EXCEPT !.unread = FALSE]
            ELSE MaybeDropSSL([c EXCEPT !.unread = FALSE, !.want_ticket = FALSE,
                                        !.ticket_alarm = FALSE])
    /\ UNCHANGED <<pk, down, srv>>

\* no_sess_ticket()
NoSessTicket ==
    /\ Idle /\ c.ticket_alarm
    /\ c' = DropSSL([c EXCEPT !.ticket_alarm = FALSE])
    /\ UNCHANGED <<pk, down, srv>>

\* handshake_alarm_expired()
HandshakeAlarm ==
    /\ Idle /\ c.hsk_alarm
    /\ c' = [c EXCEPT !.hsk_alarm = FALSE, !.closed = "timed_out"]
    /\ UNCHANGED <<pk, down, srv>>

-----------------------------------------------------------------------------
(* Packets from the server *)

\* verify_retry_packet(): the tag covers the DCID and depends on the version
Verified(m) == m.cid = c.dcid /\ m.ver = c.ver

\* iquic_esfi_reset_dcid()
ResetDcid(s, cid) ==
    [s EXCEPT !.retry = TRUE, !.keys = [ver |-> s.ver, cid |-> cid],
              !.broken = @ \/ s.keys = NoKeys]

\* process_retry_packet()
ProcessRetry(m) ==
    IF c.retried \/ m.new = c.dcid \/ ~Verified(m) THEN UNCHANGED <<c, pk>>
    ELSE /\ pk' = SendCtlRetry(pk)
         /\ c' = [ResetDcid(c, m.new)
                     EXCEPT !.token = TRUE, !.retried = TRUE, !.dcid = m.new, !.retx = {},
                            !.late = {i \in DOMAIN pk : In(pk[i], {"sched"}, "init")}]

\* process_incoming_packet_verneg() of a Version Negotiation packet
ProcessVerNeg(m) ==
    IF c.vn # "start" \/ m.cid # c.dcid \/ c.vnver \in SrvVers THEN UNCHANGED <<c, pk>>
    ELSE IF c.supp \cap SrvVers = {} THEN c' = [c EXCEPT !.closed = "failed"] /\ UNCHANGED pk
    ELSE /\ c' = [SetVersions(c, c.supp \cap SrvVers, HighestBitSet(c.supp \cap SrvVers))
                     EXCEPT !.vn = "in_progress", !.retx = {}]
         /\ pk' = ExpireAll(pk)

\* switch_version(), iquic_esfi_switch_version()
SwitchVersion(s, ver) ==
    IF ver = s.ver THEN s
    ELSE [s EXCEPT !.ver = ver, !.broken = @ \/ s.keys = NoKeys,
                   !.keys = [ver |-> ver, cid |-> IF s.retry THEN "retry" ELSE "orig"]]

\* process_incoming_packet_verneg() of any other packet ends the negotiation
EndVerNeg(s, m) == [SwitchVersion(s, m.ver) EXCEPT !.vn = "end"]

\* decryption in process_regular_packet()
Opens(s, m) ==
    \/ m.t = "init" /\ m.keys = s.keys
    \/ m.t \in {"hsk", "app"} /\ m.t \in s.levels /\ (m.t = "app" \/ s.ssl # "gone")

\* ... of a packet that opens: no Retry from now on, and record_dcid()
Accepted(s) == [s EXCEPT !.retried = TRUE, !.dcid_set = TRUE, !.dcid = "srv"]

\* process_crypto_frame_client() throws a frame away
Discarded(s, level) == ~s.proc_crypto \/ (s.hsk_done /\ level # "app")

\* an ACK frame takes the packet out of every queue
Acked(p, i) == [p EXCEPT ![i] = Absent]

\* An Initial packet: the server's first message and the ACK of ours
ProcessInit(s) ==
    /\ pk' = Acked(pk, "chlo")
    /\ c' = IF Discarded(s, "init") THEN [s EXCEPT !.ackq = @ \cup {"init"}]
            ELSE [s EXCEPT !.levels = @ \cup {"hsk"}, !.ackq = @ \cup {"init"}]

\* A Handshake packet: the server's messages, or the ACK of our Finished
ProcessHsk(s, m) ==
    IF m.what = "ack" THEN pk' = Acked(pk, "fin") /\ c' = s
    ELSE IF Discarded(s, "hsk") \/ s.ssl # "shaking"
    THEN c' = [s EXCEPT !.ackq = @ \cup {"hsk"}] /\ UNCHANGED pk
    ELSE Shake([s EXCEPT !.ackq = @ \cup {"hsk"}, !.streams = @ \cup {"hsk"}], pk, m.early)

\* iquic_esfi_handshake_confirmed()
TlsConfirmed(s) ==
    IF s.confirmed THEN s ELSE MaybeDropSSL([s EXCEPT !.confirmed = TRUE])

\* handshake_confirmed()
HandshakeConfirmed(s) == TlsConfirmed(Ignore(s, "hsk"))

\* A 1-RTT packet: HANDSHAKE_DONE, a session ticket, or the ACK of our data
ProcessApp(s, m) ==
    \/ m.what = "done" /\ c' = HandshakeConfirmed(s) /\ pk' = EmptyPns(pk, "hsk")
    \/ /\ m.what = "ticket" /\ UNCHANGED pk
       /\ c' = IF Discarded(s, "app") THEN s
               ELSE [s EXCEPT !.streams = @ \cup {"app"}, !.unread = TRUE]
    \/ m.what = "ack" /\ c' = s /\ pk' = Acked(pk, "early")

\* process_regular_packet(): packets of an abandoned space and those that do
\* not open are dropped
ProcessRegular(s, m) ==
    IF m.t \in s.ignored \/ ~Opens(s, m) THEN c' = s /\ UNCHANGED pk
    ELSE \/ m.t = "init" /\ ProcessInit(Accepted(s))
         \/ m.t = "hsk" /\ ProcessHsk(Accepted(s), m)
         \/ m.t = "app" /\ ProcessApp(Accepted(s), m)

\* ietf_full_conn_ci_packet_in()
PacketIn(m) ==
    /\ Idle
    /\ CASE m.t = "verneg" -> IF c.vn = "end" THEN UNCHANGED <<c, pk>> ELSE ProcessVerNeg(m)
         [] m.t = "retry" -> ProcessRetry(m)
         [] OTHER -> IF c.vn # "end" /\ m.ver \notin c.supp THEN UNCHANGED <<c, pk>>
                     ELSE ProcessRegular(IF c.vn = "end" THEN c ELSE EndVerNeg(c, m), m)
    /\ UNCHANGED <<down, srv>>

\* ... unless a packet that does not open ends in the stateless reset token that
\* came with the transport parameters: is_stateless_reset()
StatelessReset ==
    /\ Idle /\ c.hsk_done /\ ~srv.proc_crypto
    /\ c' = [c EXCEPT !.closed = "reset"]
    /\ UNCHANGED <<pk, down, srv>>

-----------------------------------------------------------------------------
ClientNext ==
    \/ \E i \in DOMAIN pk : NextPacketToSend(i) \/ PacketSent(i) \/ PacketNotSent(i)
                              \/ Reschedule(i)
    \/ \E pns \in {"init", "hsk", "app"} : RetxAlarm(pns) \/ GenerateAck(pns)
    \/ OnWrite \/ OnRead \/ NoSessTicket \/ HandshakeAlarm
    \/ \E m \in down : PacketIn(m)
    \/ StatelessReset

ClientSpec == ClientInit /\ [][ClientNext]_chvars

-----------------------------------------------------------------------------
(* Properties *)

\* What the client encrypts with is what its packets announce: the Initial keys
\* belong to the DCID the server has seen first and to the version in use.
\* There is one exception, a Version Negotiation packet: it changes the version
\* and leaves the keys (process_incoming_packet_verneg() does not call
\* switch_version()), and no server can open what follows until a Retry makes
\* the keys anew.
KeysMatch ==
    c.ssl # "gone" =>
        /\ c.keys.cid = IF c.retry THEN "retry" ELSE "orig"
        /\ c.keys.ver = c.ver \/ (c.vn = "in_progress" /\ ~c.retry)

\* Once a packet of the server has been opened, the client addresses the server
\* by the ID the server chose: no Retry, however late, takes that back.
AddressesTheServer == c.dcid_set => c.dcid = "srv"

\* The server answers in the version the client uses, and with the keys it has.
AgreesWithServer ==
    c.dcid_set => srv.ver = c.ver /\ (c.ssl # "gone" => c.keys.cid = srv.cid)

\* After a Retry, an Initial packet without the token is one that was waiting to
\* be sent when the Retry arrived.
TokenIsCarried ==
    \A i \in DOMAIN pk :
        c.retry /\ pk[i].q # "none" /\ pk[i].hety = "init" /\ ~pk[i].token => i \in c.late

\* A packet number space that was abandoned has no packet, crypto stream, alarm
\* or pending ACK, though the engine may hold packets when it is abandoned; the
\* packets that the engine holds are counted until then.
AbandonedIsEmpty ==
    /\ \A pns \in c.ignored :
          /\ \A i \in DOMAIN pk : pk[i].q # "none" => Pns(pk[i].hety) # pns
          /\ pns \notin c.streams \cup c.ackq \cup c.retx
    /\ "init" \notin c.ignored => c.packets_out = Cardinality(Batched)

\* Nothing the client has to say is lost: the ClientHello until the server has
\* answered it, the Finished until the handshake is confirmed, early data until
\* it is acknowledged, whatever becomes of 0-RTT.
NothingIsLost ==
    /\ "hsk" \notin c.levels => pk["chlo"].q # "none"
    /\ c.hsk_done /\ srv.proc_crypto => pk["fin"].q # "none"
    /\ c.early /\ pk["early"].q = "none" =>
          \E m \in down : m.t = "app" /\ m.what = "ack"

\* After the handshake no packet is a 0-RTT packet or waits for the handshake.
EarlyIsConverted ==
    c.hsk_done /\ c.closed = "no" =>
        \A i \in DOMAIN pk : pk[i].q # "none" => pk[i].hety # "0rtt" /\ pk[i].q # "stash"

\* A packet in flight has its retransmission alarm, except for 0-RTT packets
\* after a Retry, which unsets the alarms of all spaces.
RetxAlarmIsSet ==
    \A i \in DOMAIN pk :
        pk[i].q = "unacked" =>
            Pns(pk[i].hety) \in c.retx \/ (i = "early" /\ c.retry)

\* The TLS object is used while it exists and dropped once, when the handshake
\* is confirmed and the ticket has come or is given up; no crypto stream is left.
TlsIsUsedWell ==
    /\ ~c.broken
    /\ c.ssl = "gone" => c.confirmed /\ c.hsk_done /\ c.streams = {} /\ ~c.ticket_alarm
    /\ c.confirmed /\ c.ssl # "gone" => c.want_ticket /\ (c.ticket_alarm \/ c.closed # "no")

\* All of the above.
ClientIsSound ==
    /\ KeysMatch
    /\ AddressesTheServer
    /\ AgreesWithServer
    /\ TokenIsCarried
    /\ AbandonedIsEmpty
    /\ NothingIsLost
    /\ EarlyIsConverted
    /\ RetxAlarmIsSet
    /\ TlsIsUsedWell
=============================================================================

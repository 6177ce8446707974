-------------------------- MODULE PacketProtection --------------------------
(***************************************************************************)
(* Truncated packet numbers and key phases of the application packet       *)
(* number space: the send controller picks the length of the number it     *)
(* writes (lsquic_send_ctl.c, lsquic_parse_ietf_v1.c), the receiver's      *)
(* encryption session reconstructs it from the largest number it has seen  *)
(* and picks the key (lsquic_enc_sess_ietf.c).                             *)
(*                                                                         *)
(* The network between them loses, reorders and duplicates packets and     *)
(* delays acknowledgements.  The sender is also the end that initiates key *)
(* updates: it does so only after a packet of the current phase has been   *)
(* acknowledged.  A byte of a packet number takes BASE values here (256   *)
(* in the code) so that truncation is met with a handful of packets.       *)
(***************************************************************************)
EXTENDS Integers, FiniteSets, Sequences, SequencesExt

CONSTANTS
    BASE,           \* values of one byte of an encoded packet number
    MAX_BITS,       \* sc_max_packno_bits
    N_IN_FLIGHT,    \* cwnd / SC_PACK_SIZE
    REORDER_THRESH, \* sc_reord_thresh (N_NACKS_BEFORE_RETX)
    NEXT_LIMIT,     \* sc_next_limit after a retransmission timeout
    FIRST_PACKNO,   \* first number of the space (the handshake used some)
    MaxPackets,     \* bound: packets sent
    MaxUnretx,      \* bound: unretransmittable packets (ACKs)
    MaxRtos,        \* bound: retransmission timeouts
    MaxGen          \* bound: key updates

PacketProtectionAssumption ==
    /\ {BASE, N_IN_FLIGHT, REORDER_THRESH} \subseteq Nat \ {0}
    /\ {NEXT_LIMIT, FIRST_PACKNO, MAX_BITS, MaxUnretx, MaxPackets, MaxRtos, MaxGen} \subseteq Nat

VARIABLES
    snd,    \* the sender's send controller
    wire,   \* packets on their way: any of them may arrive next, or never
    esi,    \* the receiver's struct enc_sess_iquic
    rcvd    \* packet numbers received whose acknowledgement is outstanding

ppvars == <<snd, wire, esi, rcvd>>

INVALID_PACKNO == -1    \* IQUIC_INVALID_PACKNO; esi_max_packno not yet set

Maxi(S) == CHOOSE x \in S : \A y \in S : y <= x
Mini(S) == CHOOSE x \in S : \A y \in S : x <= y

Init ==
    /\ snd = [cur |-> FIRST_PACKNO - 1, unacked |-> {}, lost |-> <<>>, ackRecv |-> FALSE,
              unretx |-> 0, rtos |-> 0, limit |-> -1, gen |-> 0, genAcked |-> FALSE]
    /\ wire = {}
    /\ rcvd = {}
    /\ esi = [max_packno |-> INVALID_PACKNO, key_phase |-> 0, secret |-> 0,
              pairs |-> [k \in 0..1 |->
                         [open |-> IF k = 0 THEN 0 ELSE -1,
                          seal |-> IF k = 0 THEN 0 ELSE -1,
                          thresh |-> INVALID_PACKNO]]]

-----------------------------------------------------------------------------
(* The length of the packet number *)

\* ietf_v1_calc_packno_bits()
CalcBits(packno, least_unacked) ==
    LET delta == 4 * Maxi({packno - least_unacked, N_IN_FLIGHT})
    IN  Cardinality({k \in 1..3 : delta >= BASE^k})

\* lsquic_send_ctl_smallest_unacked(): a loss record will do
SmallestUnacked(s) ==
    IF s.unacked = {} THEN s.cur ELSE Mini({p.no : p \in s.unacked})

\* lsquic_send_ctl_calc_packno_bits()
SendCtlCalcBits(s) ==
    Mini({CalcBits(s.cur + 1, SmallestUnacked(s)), MAX_BITS})

\* lsquic_send_ctl_packno_bits(): the whole number until the first ACK
PacknoBits(s) ==
    IF s.ackRecv THEN SendCtlCalcBits(s)
    ELSE Cardinality({k \in 1..3 : 4 * (s.cur + 1) >= BASE^k})

-----------------------------------------------------------------------------
(* The sender *)

Put(s, retx, bits, chain) ==
    [s EXCEPT !.cur = @ + 1,
              !.unretx = IF retx THEN @ ELSE @ + 1,
              !.unacked = @ \cup {[no |-> s.cur + 1, retx |-> retx, bits |-> bits,
                                   rec |-> FALSE, chain |-> chain,
                                   gen |-> s.gen]}]

\* What iquic_esf_encrypt_packet() leaves of the packet: the low bits of the
\* number, the key phase, and a body sealed with the phase's key.
Encrypt(s, bits, fresh) ==
    [no |-> s.cur + 1, bits |-> bits, gen |-> s.gen, fresh |-> fresh]

InFlight(s) == {p \in s.unacked : ~p.rec}

\* The congestion window, and lsquic_send_ctl_next_packet_to_send(): until an
\* acknowledgement comes only a few packets follow a timeout (limit = -1: no
\* timeout is pending).
CanSend(s) == Cardinality(InFlight(s)) < N_IN_FLIGHT /\ s.limit # 0
DecLimit(s) == [s EXCEPT !.limit = IF @ > 0 THEN @ - 1 ELSE @]

\* A new packet.  Unretransmittable packets (ACKs) are not held back by the
\* congestion window.
SendNew ==
    \E retx \in BOOLEAN :
        LET bits == PacknoBits(snd) IN
        /\ snd.cur + 1 < FIRST_PACKNO + MaxPackets
        /\ IF retx THEN CanSend(snd) ELSE snd.unretx < MaxUnretx
        /\ snd' = Put(IF retx THEN DecLimit(snd) ELSE snd, retx, bits, snd.cur + 1)
        /\ wire' = wire \cup {Encrypt(snd, bits, TRUE)}
        /\ UNCHANGED <<esi, rcvd>>

\* update_for_resending(): a new number in as many bytes as the old one.  The
\* loss record of the previous transmission stays on the unacked list.
Resend ==
    LET q == Head(snd.lost) IN
    /\ snd.lost # <<>> /\ snd.cur + 1 < FIRST_PACKNO + MaxPackets
    /\ CanSend(snd)
    /\ snd' = [Put(DecLimit(snd), TRUE, q.bits, q.chain) EXCEPT !.lost = Tail(@)]
    /\ wire' = wire \cup {Encrypt(snd, q.bits, FALSE)}
    /\ UNCHANGED <<esi, rcvd>>

\* send_ctl_handle_lost_packet(): what has to be resent is queued and leaves a
\* loss record behind, the rest is forgotten.
Lose(s, gone) ==
    LET retx == {p \in gone : p.retx}
        ord  == SetToSortSeq(retx, LAMBDA p, q : p.no < q.no)
    IN  [s EXCEPT !.unacked = (@ \ gone) \cup {[p EXCEPT !.rec = TRUE] : p \in retx},
                  !.lost = @ \o [i \in DOMAIN ord |->
                                   [bits |-> ord[i].bits, chain |-> ord[i].chain]]]

\* The retransmission timer: everything in flight is lost (EXFI_ALL).
Rto ==
    /\ InFlight(snd) # {} /\ snd.rtos < MaxRtos
    /\ snd' = [Lose(snd, InFlight(snd)) EXCEPT !.rtos = @ + 1, !.limit = NEXT_LIMIT]
    /\ UNCHANGED <<wire, esi, rcvd>>

\* lsquic_send_ctl_got_ack(): acknowledged packets leave with the other members
\* of their loss chains, and packets far enough behind are declared lost.
GotAck(s, S) ==
    LET hit    == {p \in s.unacked : p.no \in S}
        chains == {p.chain : p \in hit}
        left   == {p \in s.unacked : p.chain \notin chains}
        t == [s EXCEPT !.unacked = left, !.ackRecv = TRUE, !.limit = -1,
                       !.lost = SelectSeq(@, LAMBDA q : q.chain \notin chains),
                       !.genAcked = @ \/ \E p \in hit : p.gen = s.gen]
    IN  Lose(t, {p \in InFlight(t) : p.no + REORDER_THRESH < Maxi(S)})

\* An acknowledgement of what had arrived up to some number gets through.
AckArrives ==
    \E k \in rcvd :
        /\ \E p \in snd.unacked : p.no = k
        /\ snd' = GotAck(snd, {n \in rcvd : n <= k})
        /\ rcvd' = {n \in rcvd : \E p \in snd'.unacked : p.no = n}
        /\ UNCHANGED <<wire, esi>>

\* The peer moves to the next key phase.
UpdateKeys ==
    /\ snd.genAcked /\ snd.gen < MaxGen
    /\ snd' = [snd EXCEPT !.gen = @ + 1, !.genAcked = FALSE]
    /\ UNCHANGED <<wire, esi, rcvd>>

-----------------------------------------------------------------------------
(* The receiver *)

Abs(n) == IF n < 0 THEN -n ELSE n

\* A slip: the number is taken to lie in the epoch of the largest one.
DecodePackno_bug(max, packno, epoch) == (max \div epoch) * epoch + packno

\* decode_packno(): of three candidates, the one nearest to the largest number
\* seen, the lowest of two that are equally near.
DecodePackno(max, packno, epoch) ==
    LET cand  == [i \in 0..2 |-> (max \div epoch) * epoch + packno + (i - 1) * epoch]
        diff  == [i \in 0..2 |-> Abs(cand[i] - max)]
        near  == IF diff[1] < diff[0] THEN 1 ELSE 0
    IN  cand[IF diff[2] < diff[near] THEN 2 ELSE near]

\* strip_hp(): the first packet of the space carries its whole number.
StripHp(e, p) ==
    LET epoch  == BASE^(p.bits + 1)
        packno == p.no % epoch
    IN  IF e.max_packno = INVALID_PACKNO THEN packno
        ELSE DecodePackno(e.max_packno, packno, epoch)

\* The key iquic_esf_decrypt_packet() picks: of the current phase, a new one
\* derived from the traffic secret, or the one kept from the previous phase.
PickKey(e, packno, phase) ==
    LET thresh == e.pairs[e.key_phase].thresh IN
    CASE phase = e.key_phase -> [new |-> FALSE, gen |-> e.pairs[phase].open]
      [] phase # e.key_phase /\ (thresh = INVALID_PACKNO \/ packno > thresh) ->
            [new |-> TRUE, gen |-> e.secret + 1]
      [] OTHER -> [new |-> FALSE, gen |-> e.pairs[phase].open]

\* The rotation of the keys after the first packet of a new phase.
Rotate(e, packno, phase) ==
    [e EXCEPT !.pairs[phase] = [open |-> e.secret + 1, seal |-> e.secret + 1,
                                thresh |-> packno],
              !.secret = @ + 1,
              !.key_phase = phase]

\* The largest numbers seen, in the space and in the phase of the packet.
NoteLargest(e, packno, phase) ==
    [e EXCEPT !.max_packno = Maxi({@, packno}),
              !.pairs[phase].thresh =
                    IF @ # INVALID_PACKNO THEN Maxi({@, packno}) ELSE @]

\* iquic_esf_decrypt_packet(): the body opens if both the key and the number
\* (the nonce) are the sender's; otherwise nothing changes.
DecryptPacket(e, p) ==
    LET packno == StripHp(e, p)
        phase  == p.gen % 2
        key    == PickKey(e, packno, phase)
        ok     == key.gen = p.gen /\ packno = p.no
    IN  [ok |-> ok,
         e  |-> IF ~ok THEN e
                ELSE NoteLargest(IF key.new THEN Rotate(e, packno, phase) ELSE e,
                                 packno, phase)]

Deliver ==
    \E p \in wire :
        LET d == DecryptPacket(esi, p) IN
        /\ d.ok
        /\ esi' = d.e
        /\ rcvd' = {n \in rcvd \cup {p.no} : \E q \in snd.unacked : q.no = n}
        /\ wire' = wire \ {p}
        /\ UNCHANGED snd

Next == SendNew \/ Resend \/ Rto \/ AckArrives \/ UpdateKeys \/ Deliver

Spec == Init /\ [][Next]_ppvars

-----------------------------------------------------------------------------
(* Properties *)

\* Has the packet been overtaken by so many that its number is ambiguous?
Overtaken(p) == 2 * (esi.max_packno - p.no) > BASE^(p.bits + 1)

\* The receiver is at most one key update behind and never ahead, seals with the
\* keys of the phase it is in, and picks for every packet that is at most one phase
\* behind, however late it comes, the keys it was sealed with.
KeysAgree ==
    /\ \A p \in wire : p.gen >= esi.secret - 1 => PickKey(esi, p.no, p.gen % 2).gen = p.gen
    /\ esi.pairs[esi.key_phase].seal = esi.secret
    /\ esi.pairs[esi.key_phase].open = esi.secret
    /\ esi.key_phase = esi.secret % 2
    /\ snd.gen - 1 <= esi.secret /\ esi.secret <= snd.gen

\* Whatever was lost, reordered, retransmitted or acknowledged late, a packet
\* whose number length was chosen when it was made (a resent packet keeps its
\* old length) and that is at most one key phase behind opens when it arrives,
\* with the right key and the right number; and packets go out under the key
\* phase the peer's packets last arrived in.
PacketsOpen ==
    /\ \A p \in wire : (p.fresh /\ ~Overtaken(p) /\ p.gen >= esi.secret - 1)
                            => DecryptPacket(esi, p).ok
    /\ KeysAgree

=============================================================================

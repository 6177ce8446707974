------------------------------ MODULE ConnIds ------------------------------
(***************************************************************************)
(* Connection IDs and network paths of an IETF full connection             *)
(* (lsquic_full_conn_ietf.c): the IDs this end issues and the peer uses    *)
(* and retires, the IDs the peer issues, and the paths it validates and    *)
(* switches between.  The peer keeps to RFC 9000; its frames are lost,     *)
(* repeated and reordered.                                                 *)
(***************************************************************************)
EXTENDS Integers, Sequences, FiniteSets, SequencesExt

CONSTANTS N_CCES,       \* MAX_SCID
          N_DCES,       \* MAX_IETF_CONN_DCIDS
          N_PATHS,      \* slots of ifc_paths
          N_CHALS,      \* slots of cop_path_chals
          PeerLimit,    \* the peer's active_connection_id_limit
          Addrs,        \* addresses of the peer; it starts at 0
          Modes,        \* what the peer does: "retire" retires this end's IDs and asks to
                        \* retire its own, "migrate" changes addresses, "both" does both
          MaxSeq,       \* bound: sequence numbers of the peer's IDs
          MaxScid,      \* bound: sequence numbers of this end's IDs
          MaxChals      \* bound: challenges sent

ConnIdsAssumption ==
    /\ {N_CCES, N_DCES, N_PATHS, N_CHALS, PeerLimit, MaxSeq, MaxScid, MaxChals} \subseteq Nat \ {0}
    /\ Modes \subseteq {"retire", "migrate", "both"}
    /\ Addrs \subseteq Nat /\ 0 \in Addrs /\ N_PATHS > 1 /\ N_CCES > 1

VARIABLES ifc,      \* struct ietf_full_conn, as far as IDs and paths go
          remote    \* the peer

cidvars == <<ifc, remote>>

None == [seq |-> -9, flag |-> FALSE]    \* an empty slot of cn_cces or ifc_dces
Orig == -1                  \* number of the ID the client made up (no CCE_SEQNO)
ZeroCid == -2

Slots(f) == {i \in DOMAIN f : f[i] # None}
First(S) == CHOOSE i \in S : \A j \in S : i <= j

NoPath == [addr |-> -1, init |-> FALSE, valid |-> FALSE, nonprob |-> FALSE, pad |-> FALSE,
           dcid |-> ZeroCid, cce |-> 1, chals |-> <<>>, inc |-> 0]

-----------------------------------------------------------------------------
(* IDs this end issues.  In ifc.cces the flag is CCE_USED.                   *)

Ours(c) == {i \in Slots(c.cces) : c.cces[i].seq >= 0}

CanIssueCids(c) == /\ Slots(c.cces) # DOMAIN c.cces
                   /\ c.count < c.limit

\* maybe_get_rate_available_scid_slot(): throttled when IDs are issued faster
\* than es_scid_iss_rate
RateSlot(c, throttled) ==
    IF throttled THEN [c EXCEPT !.throt = TRUE, !.newcid = FALSE]
                 ELSE [c EXCEPT !.newcid = TRUE]

\* generate_new_cid_frame() with ietf_full_conn_add_scid()
NewCid(c) ==
    LET i  == First(DOMAIN c.cces \ Slots(c.cces))
        c1 == [c EXCEPT !.cces[i] = [seq |-> c.scid_seqno, flag |-> FALSE],
                        !.scid_seqno = @ + 1, !.count = @ + 1]
    IN  IF Slots(c.cces) = DOMAIN c.cces THEN [c EXCEPT !.aborted = TRUE]
        ELSE [c1 EXCEPT !.newcid = @ /\ CanIssueCids(c1)]

\* A slip: the ID is not taken off the count
RetireCid_bug(c, i, throttled) ==
    LET c1 == [c EXCEPT !.cces[i] = None]
    IN  IF CanIssueCids(c1) /\ ~c1.throt THEN RateSlot(c1, throttled) ELSE c1

\* retire_cid()
RetireCid(c, i, throttled) ==
    LET c1 == [c EXCEPT !.cces[i] = None, !.count = IF c.cces[i].seq >= 0 THEN @ - 1 ELSE @]
    IN  IF CanIssueCids(c1) /\ ~c1.throt THEN RateSlot(c1, throttled) ELSE c1

FindCce(c, cid) == {i \in Slots(c.cces) : c.cces[i].seq = cid}

\* process_retire_connection_id_frame()
RetireConnectionId(c, seq, dcid, throttled) ==
    LET S  == FindCce(c, seq)
        i  == First(S)
        c1 == RetireCid(c, i, throttled)
        k  == First(FindCce(c1, dcid))
    IN  IF seq >= c.scid_seqno THEN [c EXCEPT !.aborted = TRUE]
        ELSE IF S = {} THEN c
        ELSE IF seq = dcid THEN [c EXCEPT !.aborted = TRUE]
        ELSE IF c.cur_cce # i \/ FindCce(c1, dcid) = {} THEN c1
        ELSE [c1 EXCEPT !.cces[k].flag = TRUE, !.cur_cce = k]

\* on_dcid_change(): the peer uses a new ID, this end follows
OnDcidChange(c, dcid) ==
    LET S == FindCce(c, dcid) \ {c.cur_cce}
        i == First(S)
    IN  IF S = {} THEN [c EXCEPT !.aborted = TRUE]
        ELSE IF c.cces[i].flag THEN c
        ELSE [c EXCEPT !.cces[i].flag = TRUE, !.cur_cce = i]

-----------------------------------------------------------------------------
(* IDs the peer issues.  In ifc.dces the flag is DE_ASSIGNED.                *)

CurDcid(c) == c.paths[c.cur].dcid

\* retire_dcid()
RetireDcid(c, i) ==
    [c EXCEPT !.to_retire = Append(@, c.dces[i].seq), !.dces[i] = None, !.retire = TRUE]

\* retire_seqno()
RetireSeqno(c, seq) == [c EXCEPT !.to_retire = Append(@, seq), !.retire = TRUE]

\* insert_new_dcid(): the ID that replaces the current one is not marked as assigned
InsertNewDcid(c, seq, update) ==
    LET free == DOMAIN c.dces \ Slots(c.dces)
        c1 == [c EXCEPT !.dces[First(free)] = [seq |-> seq, flag |-> FALSE]]
    IN  CASE \E i \in Slots(c.dces) : c.dces[i].seq = seq -> c
          [] (\A i \in Slots(c.dces) : c.dces[i].seq # seq) /\ free = {} ->
                [c EXCEPT !.aborted = TRUE]
          [] OTHER -> IF update THEN [c1 EXCEPT !.paths[c.cur].dcid = seq] ELSE c1

\* retire_dcids_prior_to(): slot after slot
RetirePriorTo(c, rpt) ==
    LET old == SelectSeq([i \in 1..N_DCES |-> i],
                         LAMBDA i : c.dces[i] # None /\ c.dces[i].seq < rpt)
    IN  [c EXCEPT !.to_retire = @ \o [k \in DOMAIN old |-> c.dces[old[k]].seq],
                  !.dces = [i \in 1..N_DCES |-> IF i \in ToSet(old) THEN None ELSE @[i]],
                  !.retire = @ \/ old # <<>>]

\* process_new_connection_id_frame()
NewConnectionId(c, seq, rpt) ==
    LET newer == rpt > c.last_rpt
        c1 == IF newer THEN RetirePriorTo([c EXCEPT !.last_rpt = rpt], rpt) ELSE c
        update == newer /\ \E i \in Slots(c.dces) : c.dces[i].seq < rpt
                                                    /\ c.dces[i].seq = CurDcid(c)
    IN  CASE rpt > seq -> [c EXCEPT !.aborted = TRUE]
          [] rpt <= seq /\ seq < c.last_rpt -> RetireSeqno(c, seq)
          [] OTHER -> InsertNewDcid(c1, seq, update)

\* maybe_retire_dcid(); "unassigned" when its assertion fails
MaybeRetireDcid(c, dcid) ==
    LET D == {i \in Slots(c.dces) : c.dces[i].flag /\ c.dces[i].seq = dcid}
    IN  CASE Cardinality({p \in 1..N_PATHS : c.paths[p].dcid = dcid}) > 1 -> c
          [] OTHER -> IF D = {} THEN [c EXCEPT !.unassigned = TRUE] ELSE RetireDcid(c, First(D))

\* ietf_full_conn_ci_retire_cid()
CiRetireCid(c) ==
    LET old == {i \in Slots(c.dces) : c.dces[i].seq = CurDcid(c)}
        new == Slots(c.dces) \ old
    IN  IF old = {} THEN [c EXCEPT !.aborted = TRUE]
        ELSE IF new = {} THEN c
        ELSE RetireDcid([c EXCEPT !.paths[c.cur].dcid = c.dces[First(new)].seq], First(old))

-----------------------------------------------------------------------------
(* Paths *)

\* ietf_full_conn_ci_record_addrs(): a slot for a new pair of addresses, be it
\* one that another path has
RecordAddrs(c, addr) ==
    LET P == 1..N_PATHS
        same  == {p \in c.used : c.paths[p].addr = addr}
        unval == {p \in c.used : ~c.paths[p].valid}
        other == c.used \ (IF unval = {} THEN {} ELSE {First(unval)})
        put(p) == [c |-> [c EXCEPT !.paths[p].addr = addr, !.used = @ \cup {p}], id |-> p]
    IN  CASE c.paths[c.cur].addr = addr -> [c |-> c, id |-> c.cur]
          [] c.paths[c.cur].addr # addr /\ same # {} -> [c |-> c, id |-> First(same)]
          [] OTHER -> IF P \ c.used # {} THEN put(First(P \ c.used))
                      ELSE IF unval # {} THEN put(First(unval)) ELSE put(First(other))

WipePath(c, p) == [c EXCEPT !.paths[p] = NoPath, !.used = @ \ {p}]

\* switch_path_to()
SwitchPathTo(c, p) ==
    LET old == c.cur
        c1 == MaybeRetireDcid(c, CurDcid(c))
        c2 == [c1 EXCEPT !.cur = p, !.cur_cce = c1.paths[p].cce,
                         !.chal = @ \ {old}, !.resp = @ \ {old}, !.alarms = @ \ {old}]
    IN  IF c.server THEN WipePath(c2, old) ELSE c2

\* init_new_path()
InitNewPath(c, p, changed) ==
    LET D == {i \in Slots(c.dces) : ~c.dces[i].flag}
        i == First(D)
    IN  CASE D # {} -> [ok |-> TRUE, c |-> [c EXCEPT !.paths[p].dcid = c.dces[i].seq,
                                                     !.dces[i].flag = TRUE]]
          [] D = {} /\ ~changed -> [ok |-> TRUE, c |-> [c EXCEPT !.paths[p].dcid = CurDcid(c)]]
          [] OTHER -> [ok |-> FALSE, c |-> c]

\* on_new_or_unconfirmed_path(): a packet came on path p, not the current one
OnNewPath(c, p, dcid, nonprob, big) ==
    LET c0 == IF nonprob THEN [c EXCEPT !.paths[p].nonprob = TRUE] ELSE c
        S  == FindCce(c0, dcid)
        k  == First(S)
        n  == InitNewPath(c0, p, ~c0.cces[k].flag)
        c1 == [n.c EXCEPT !.paths[p].init = TRUE, !.paths[p].pad = @ \/ big, !.chal = @ \cup {p}]
        c2 == IF c0.paths[p].valid /\ c0.paths[p].nonprob THEN SwitchPathTo(c0, p) ELSE c0
        cancel(x) == [x EXCEPT !.resp = @ \ {p}]
        use(x) == [x EXCEPT !.paths[p].cce = k, !.cces[k].flag = TRUE]
    IN  IF S = {} THEN cancel([c0 EXCEPT !.aborted = TRUE])
        ELSE IF c0.paths[p].init THEN use(c2)
        ELSE IF n.ok THEN use(c1) ELSE cancel(c0)

\* process_path_challenge_frame()
PathChallenge(c, p, n) == [c EXCEPT !.paths[p].inc = n, !.resp = @ \cup {p}]

ChallengedPaths(c, id) ==
    {p \in c.used : \E i \in DOMAIN c.paths[p].chals : c.paths[p].chals[i] = id}

\* process_path_response_frame(): a path is validated twice, the second time
\* with packets of full size
PathResponse(c, id) ==
    LET S  == ChallengedPaths(c, id)
        p  == First(S)
        c1 == IF c.paths[p].pad
              THEN [c EXCEPT !.paths[p].valid = TRUE, !.chal = @ \ {p}, !.alarms = @ \ {p}]
              ELSE [c EXCEPT !.paths[p].valid = TRUE, !.paths[p].pad = TRUE, !.chal = @ \cup {p}]
    IN  IF S = {} THEN [c EXCEPT !.aborted = TRUE]
        ELSE IF p # c.cur /\ (c.paths[p].nonprob \/ ~c.server) THEN SwitchPathTo(c1, p)
        ELSE c1

MigraIsOn(c, p) == p \in c.chal \cup c.alarms

\* try_to_begin_migration() of a client to the server's preferred address, whose
\* ID has the number 1; maybe_start_migration() when it may not
MaybeStartMigration(c, addr, allowed) ==
    LET free == DOMAIN c.dces \ Slots(c.dces) IN
    IF ~allowed THEN InsertNewDcid(c, 1, FALSE)
    ELSE IF free = {} THEN [c EXCEPT !.aborted = TRUE]
    ELSE [c EXCEPT !.dces[First(free)] = [seq |-> 1, flag |-> TRUE],
                   !.paths[2] = [NoPath EXCEPT !.addr = addr, !.init = TRUE, !.dcid = 1],
                   !.mig = 2, !.used = @ \cup {2}, !.chal = @ \cup {2}]

\* process_regular_packet(), as far as paths and IDs go: the frame, then the path.
\* "latest": its number is above ifc_max_non_probing.
Frame(c, p, pkt) ==
    CASE pkt.frame = "NEW_CONNECTION_ID" -> NewConnectionId(c, pkt.seq, pkt.rpt)
      [] pkt.frame = "RETIRE_CONNECTION_ID" -> RetireConnectionId(c, pkt.seq, pkt.dcid, pkt.throttled)
      [] pkt.frame = "PATH_CHALLENGE" -> PathChallenge(c, p, pkt.seq)
      [] pkt.frame = "PATH_RESPONSE" -> PathResponse(c, pkt.seq)
      [] pkt.frame = "DATA" -> c

NonProbing(pkt) == pkt.frame \in {"DATA", "RETIRE_CONNECTION_ID"}

\* The frame of a packet that came on path p has been processed: c, which was c0.
AfterFrame(c0, c, p, pkt) ==
    IF c.cur # c0.cur THEN c
    ELSE IF c.cur # p THEN OnNewPath(c, p, pkt.dcid, NonProbing(pkt) /\ pkt.latest, pkt.big)
    ELSE IF /\ c0.cces[c0.cur_cce].seq # pkt.dcid
            /\ c.cces[c.cur_cce].seq # pkt.dcid
    THEN OnDcidChange(c, pkt.dcid) ELSE c
OnPath(c, p, pkt) ==
    IF p # c.cur /\ ~c.server /\ ~(p = c.mig /\ MigraIsOn(c, p)) THEN c
    ELSE AfterFrame(c, Frame(c, p, pkt), p, pkt)
Recorded(r, pkt) == OnPath(r.c, r.id, pkt)
ProcessPacket(c, pkt) == Recorded(RecordAddrs(c, pkt.addr), pkt)

-----------------------------------------------------------------------------
(* Behaviour *)

Conn(server) ==
    [server |-> server, aborted |-> FALSE, unassigned |-> FALSE,
     cces |-> [i \in 1..N_CCES |-> IF server /\ i = 1 THEN [seq |-> Orig, flag |-> TRUE]
                                   ELSE IF i = (IF server THEN 2 ELSE 1) THEN [seq |-> 0, flag |-> TRUE]
                                   ELSE None],
     cur_cce |-> IF server THEN 2 ELSE 1, scid_seqno |-> 1, count |-> 1,
     limit |-> IF PeerLimit > N_CCES THEN N_CCES ELSE PeerLimit,
     newcid |-> FALSE, throt |-> FALSE,
     dces |-> [i \in 1..N_DCES |-> IF i = 1 THEN [seq |-> 0, flag |-> TRUE] ELSE None],
     to_retire |-> <<>>, retire |-> FALSE, last_rpt |-> 0,
     paths |-> [p \in 1..N_PATHS |-> IF p = 1 THEN [NoPath EXCEPT !.addr = 0, !.init = server,
                                     !.valid = TRUE, !.pad = server, !.dcid = 0] ELSE NoPath],
     used |-> {1}, cur |-> 1, mig |-> 1, chal |-> {}, resp |-> {}, alarms |-> {}]

\* The connection after its handshake: handshake_ok().  Of the peer: the numbers
\* of the IDs it has issued, with the Retire Prior To that each came with; which
\* of them it knows to be retired; which of ours it has, and has retired; the
\* challenges it was sent, by address; the addresses that are known to be its own.
CidsInit ==
    \E server \in BOOLEAN, mode \in Modes :
        /\ ifc = LET c == Conn(server) IN [c EXCEPT !.newcid = CanIssueCids(c)]
        /\ remote = [issued |-> 0, rpts |-> <<>>, retired |-> {}, has |-> {0}, gone |-> {},
                     chals |-> <<>>, proven |-> {0}, seen |-> {0}, migrated |-> FALSE,
                     mode |-> mode]

Live == ~ifc.aborted /\ ~ifc.unassigned

\* es_scid_iss_rate is reached, or not; it is no matter of paths
Rates == {FALSE, remote.mode # "migrate"}

\* The tick: SF_SEND_NEW_CID.  The loop ends when no packet has room for another
\* frame, so it may end after any.
SendNewCid ==
    /\ Live /\ ifc.newcid /\ ifc.scid_seqno <= MaxScid
    /\ LET c == NewCid(ifc) IN
        \E throttled \in Rates :
            /\ throttled => c.newcid
            /\ ifc' = IF c.newcid THEN RateSlot(c, throttled) ELSE c
    /\ UNCHANGED remote

\* cid_throt_alarm_expired()
ThrottleExpires ==
    /\ Live /\ ifc.throt
    /\ ifc' = [ifc EXCEPT !.throt = FALSE, !.newcid = TRUE]
    /\ UNCHANGED remote

\* ret_cids_alarm_expired(), some time after the handshake
RetireOriginal ==
    /\ Live
    /\ \E i \in Slots(ifc.cces), throttled \in Rates :
        /\ ifc.cces[i].seq = Orig
        /\ ifc' = RetireCid(ifc, i, throttled)
    /\ UNCHANGED remote

\* SF_SEND_RETIRE_CID: generate_retire_cid_frames()
SendRetireCid ==
    /\ Live /\ ifc.retire
    /\ IF Len(ifc.to_retire) >= 3 * N_DCES
       THEN ifc' = [ifc EXCEPT !.aborted = TRUE] /\ UNCHANGED remote
       ELSE /\ ifc' = [ifc EXCEPT !.to_retire = Tail(@), !.retire = Len(ifc.to_retire) > 1]
            /\ remote' = [remote EXCEPT !.retired = @ \cup {Head(ifc.to_retire)}]

\* generate_path_chal_frame(): challenges are repeated on validated paths only
SendPathChal ==
    \E p \in ifc.chal :
        LET id == Len(remote.chals) + 1
            old == ifc.paths[p].chals
        IN  /\ Live /\ id <= MaxChals
            /\ ifc' = [ifc EXCEPT !.paths[p].chals =
                                    Append(IF Len(old) >= N_CHALS THEN Tail(old) ELSE old, id),
                                  !.chal = @ \ {p},
                                  !.alarms = IF ifc.paths[p].valid THEN @ \cup {p} ELSE @]
            /\ remote' = [remote EXCEPT !.chals = Append(@, ifc.paths[p].addr)]

\* generate_path_resp_frame()
SendPathResp ==
    \E p \in ifc.resp :
        /\ Live
        /\ ifc' = [ifc EXCEPT !.resp = @ \ {p}]
        /\ UNCHANGED remote

\* path_chal_alarm_expired()
PathChalExpires ==
    \E p \in ifc.alarms :
        LET c == [ifc EXCEPT !.alarms = @ \ {p}] IN
        /\ Live
        /\ ifc' = CASE Len(c.paths[p].chals) < N_CHALS -> [c EXCEPT !.chal = @ \cup {p}]
                    [] Len(c.paths[p].chals) >= N_CHALS /\ p # c.cur -> WipePath(c, p)
                    [] OTHER -> c
        /\ UNCHANGED remote

\* The application of this end asks for another ID (lsquic_conn_retire_cid)
RetireOwn ==
    /\ Live /\ remote.mode # "migrate"
    /\ ifc' = CiRetireCid(ifc) /\ UNCHANGED remote

\* handshake_confirmed() of a client: the preferred address is address 1
Confirmed ==
    /\ Live /\ ~ifc.server /\ ~remote.migrated /\ remote.issued = 0 /\ 1 \in Addrs
    /\ \E allowed \in {FALSE, remote.mode # "retire"} : ifc' = MaybeStartMigration(ifc, 1, allowed)
    /\ remote' = [remote EXCEPT !.migrated = TRUE, !.issued = 1, !.rpts = <<0>>,
                                !.seen = @ \cup {1}]

\* A NEW_CONNECTION_ID frame of ours gets there
PeerLearnsCid ==
    \E i \in Ours(ifc) :
        LET seq == ifc.cces[i].seq IN
        /\ Live /\ seq \notin remote.has \cup remote.gone
        /\ remote' = [remote EXCEPT !.has = @ \cup {seq}]
        /\ UNCHANGED ifc

\* The peer issues an ID: as many as it may, asking to retire others when it
\* wants to.  The frame may arrive or not, and again with each retransmission.
PeerIssues ==
    \E rpt \in 0..(remote.issued + 1) :
        /\ Live /\ remote.issued < MaxSeq /\ (rpt > 0 => remote.mode # "migrate")
        /\ rpt >= (IF remote.rpts = <<>> THEN 0 ELSE remote.rpts[Len(remote.rpts)])
        /\ Cardinality({s \in 0..(remote.issued + 1) : s >= rpt /\ s \notin remote.retired}) <= N_DCES
        /\ remote' = [remote EXCEPT !.issued = @ + 1, !.rpts = Append(@, rpt)]
        /\ UNCHANGED ifc

\* A packet of the peer arrives, with an ID that the engine still knows
Packets ==
    [frame : {"DATA"}, seq : {0}, rpt : {0}, throttled : {FALSE}]
    \cup [frame : {"PATH_CHALLENGE"}, seq : {1}, rpt : {0}, throttled : {FALSE}]
    \cup [frame : {"PATH_RESPONSE"}, seq : DOMAIN remote.chals, rpt : {0}, throttled : {FALSE}]
    \cup {[frame |-> "NEW_CONNECTION_ID", seq |-> s, rpt |-> remote.rpts[s], throttled |-> FALSE] :
            s \in 1..remote.issued}
    \cup [frame : {"RETIRE_CONNECTION_ID"}, rpt : {0},
          seq : IF remote.mode = "migrate" THEN {} ELSE remote.has \cup remote.gone,
          throttled : IF ifc.throt THEN {FALSE} ELSE Rates]

\* This end does not remember the IDs it retired unasked and would take such an
\* ID for a new one, were the frame with it retransmitted: left out (see README).
\* Frames of an ID whose retirement waits to be sent are not repeated meanwhile.
Forgotten(seq) == \/ seq >= ifc.last_rpt /\ seq \in remote.retired
                  \/ seq \in ToSet(ifc.to_retire)

\* Nor the challenges of paths it has given up: a late response to one is taken
\* for a violation of the protocol.
Remembered(id) == \E p \in ifc.used : \E i \in DOMAIN ifc.paths[p].chals : ifc.paths[p].chals[i] = id

PacketIn ==
    /\ Live
    /\ \E dcid \in {d \in remote.has : FindCce(ifc, d) # {}}, addr \in Addrs :
        /\ ~ifc.server => addr \in remote.seen
        /\ remote.mode = "retire" => addr = 0
        /\ \E pkt \in Packets :
            /\ pkt.frame = "RETIRE_CONNECTION_ID" => dcid # pkt.seq
            /\ (pkt.frame = "PATH_RESPONSE" /\ remote.mode # "both") => Remembered(pkt.seq)
            /\ pkt.frame = "NEW_CONNECTION_ID" => ~Forgotten(pkt.seq)
            /\ \E latest \in (IF pkt.frame = "DATA" /\ addr # ifc.paths[ifc.cur].addr
                               THEN BOOLEAN ELSE {TRUE}),
                  big \in (IF addr # ifc.paths[ifc.cur].addr THEN BOOLEAN ELSE {FALSE}) :
                ifc' = ProcessPacket(ifc, [frame |-> pkt.frame, seq |-> pkt.seq, rpt |-> pkt.rpt,
                            throttled |-> pkt.throttled, addr |-> addr, dcid |-> dcid,
                            latest |-> latest, big |-> big])
            /\ remote' = CASE pkt.frame = "RETIRE_CONNECTION_ID" ->
                                [remote EXCEPT !.has = @ \ {pkt.seq}, !.gone = @ \cup {pkt.seq}]
                           [] pkt.frame = "PATH_RESPONSE" ->
                                [remote EXCEPT !.proven = @ \cup {remote.chals[pkt.seq]}]
                           [] OTHER -> remote

CidsNext == \/ SendNewCid \/ ThrottleExpires \/ RetireOriginal \/ SendRetireCid \/ SendPathChal
            \/ SendPathResp \/ PathChalExpires \/ RetireOwn \/ Confirmed
            \/ PeerLearnsCid \/ PeerIssues \/ PacketIn

CidsSpec == CidsInit /\ [][CidsNext]_cidvars

-----------------------------------------------------------------------------
(* Properties *)

Held == {ifc.dces[i].seq : i \in Slots(ifc.dces)}

\* The IDs issued are counted exactly and stay within the peer's limit; while
\* more may be issued, and only then, either a frame is due or the alarm that makes
\* it due is set: an ID that is due always finds a free slot.
IssueIsExact ==
    /\ ifc.count = Cardinality(Ours(ifc)) /\ ifc.count <= ifc.limit
    /\ CanIssueCids(ifc) <=> ifc.newcid \/ ifc.throt

\* An ID of the peer is held, about to be retired, or retired, and only one of
\* these; the ID of the current path is held.
NoIdIsLost ==
    /\ Held \cap (remote.retired \cup ToSet(ifc.to_retire)) = {}
    /\ \A i, j \in Slots(ifc.dces) : ifc.dces[i].seq = ifc.dces[j].seq => i = j
    /\ CurDcid(ifc) \in Held
    /\ ifc.retire <=> ifc.to_retire # <<>>

\* The address packets go to is one the peer has answered a challenge from.
CurrentIsProven == ifc.paths[ifc.cur].addr \in remote.proven

\* A peer that keeps to the rules is never refused, whatever the order in which
\* its frames arrive, repeated and late ones included; both ends' IDs are
\* accounted for; and migration goes to validated addresses only.
IdsAndPathsSound == ~ifc.aborted /\ IssueIsExact /\ NoIdIsLost /\ CurrentIsProven

\* When this end leaves a path, the ID used on it is one marked as assigned
\* (assertion in maybe_retire_dcid).
DcidIsAssigned == ~ifc.unassigned
=============================================================================

----------------------------- MODULE HttpControl -----------------------------
(***************************************************************************)
(* The HTTP/3 control stream (lsquic_hcso_writer.c, lsquic_hcsi_reader.c   *)
(* and the handlers of lsquic_full_conn_ietf.c) and the classification of  *)
(* the peer's unidirectional streams.  One end writes frames to its        *)
(* control stream; the other end gets the bytes in whatever pieces they    *)
(* arrive and is fed each piece by its resumable reader, whose callbacks   *)
(* act on the connection.                                                  *)
(***************************************************************************)
EXTENDS Wire, Integers, Sequences, FiniteSets, TLC, SequencesExt

CONSTANTS HcRoles,          \* roles of the reading end
          HcVersions,       \* 27: draft 27; 29: draft 29 and later
          HcStreams,        \* request streams, by number: stream ID / 4
          HcMaxSaid,        \* bound: frames written
          PfvBuf,           \* sizeof(hr_u.prio_state.buf)
          UniStreams,       \* the peer's unidirectional streams
          HcModes           \* what is explored: "contents", "classes"

HttpControlAssumption ==
    /\ HcRoles \subseteq {"client", "server"} /\ HcVersions \subseteq {27, 29}
    /\ HcMaxSaid \in Nat /\ PfvBuf \in Nat

VARIABLES how,      \* the writer: frames it wrote, bytes in its list, want_write
          wire,     \* bytes on their way
          hr,       \* the reader
          hc,       \* the reading connection
          uni       \* the peer's unidirectional streams

hcvars == <<how, wire, hr, hc, uni>>

Number == {"GOAWAY", "CANCEL_PUSH", "MAX_PUSH_ID"}
Priority == {"PRIO_STREAM", "PRIO_PUSH"}
Unwanted == {"DATA", "HEADERS", "PUSH_PROMISE"}
DefaultPrio == 3

-----------------------------------------------------------------------------
(***************************************************************************)
(* The writer.  A frame is [t, id, vals, off]: off # 0 is a peer that      *)
(* declares a length that does not match.  The payload of PRIORITY_UPDATE  *)
(* is the ID and the Priority Field Value.                                 *)
(***************************************************************************)
Frame(t, id, vals) == [t |-> t, id |-> id, vals |-> vals, off |-> 0]

\* "u=N", nothing when it is the default; lsquic_http_parse_pfv()
Pfv(prio) ==
    IF prio = DefaultPrio THEN <<>> ELSE [i \in 1..3 |-> [k |-> "pfv", v |-> prio, w |-> i]]
ParsePfv(cells) ==
    CASE cells = <<>> -> DefaultPrio
      [] cells # <<>> /\ cells = Pfv(Head(cells).v) -> Head(cells).v
      [] OTHER -> -1

Body(f) ==
    CASE f.t = "SETTINGS" ->        \* lsquic_hcso_write_settings()
            FlattenSeq([i \in DOMAIN f.vals |-> VintWrite(f.vals[i][1], 1) \o Vint(f.vals[i][2])])
      [] f.t \in Number -> Vint(f.id)                   \* hcso_write_number_frame()
      [] f.t \in Priority -> Vint(f.id) \o Pfv(f.vals)  \* lsquic_hcso_write_priority_update()
      [] OTHER -> Data(f.id)        \* frames another implementation may send
Encoded(f) ==
    VintWrite(f.t, IF f.t \in Priority THEN 4 ELSE 1)
        \o VintWrite(Len(Body(f)) + f.off, 1) \o Body(f)
\* A callback of the reader
Call(cb, t, id, val) == [cb |-> cb, t |-> t, id |-> id, val |-> val]

CallOf(t) == CASE t = "GOAWAY" -> "on_goaway"
               [] t = "CANCEL_PUSH" -> "on_cancel_push"
               [] t = "MAX_PUSH_ID" -> "on_max_push_id"

\* What the frames mean: the callbacks, in order, up to the first malformed frame.
Means(f, first) ==
    CASE first /\ f.t # "SETTINGS" -> <<Call("on_frame_error", f.t, 0, "MISSING_SETTINGS")>>
      [] f.t = "SETTINGS" ->
            [i \in 1..(Len(f.vals) - (IF f.off # 0 THEN 1 ELSE 0)) |->
                Call("on_setting", f.t, f.vals[i][1], f.vals[i][2])]
            \o <<IF f.off # 0 THEN Call("abort_error", f.t, 0, "FRAME")
                 ELSE Call("on_settings_frame", f.t, 0, 0)>>
      [] ~first /\ f.t \in Unwanted -> <<Call("on_frame_error", f.t, 0, "UNEXPECTED")>>
      [] ~first /\ f.t \in Number /\ f.off # 0 -> <<Call("abort_error", f.t, 0, "FRAME")>>
      [] ~first /\ f.t \in Number /\ f.off = 0 -> <<Call(CallOf(f.t), f.t, f.id, 0)>>
      [] ~first /\ f.t \in Priority -> <<Call("on_priority_update", f.t, f.id, f.vals)>>
      [] OTHER -> <<>>
Fatal(calls) == calls # <<>> /\ calls[Len(calls)].cb \in {"on_frame_error", "abort_error"}
Meant ==
    LET all[k \in 0..Len(how.said)] ==
            IF k = 0 THEN <<>>
            ELSE LET before == all[k - 1] IN
                 IF Fatal(before) THEN before ELSE before \o Means(how.said[k], k = 1)
    IN all[Len(how.said)]
\* lsquic_frab_list_write() and lsquic_stream_wantwrite() when it was empty.
\* Bounds: nothing is read before all is said, since what is not read yet has no
\* effect; and nothing follows a malformed frame.
Say(f) ==
    /\ hc.mode = "contents" /\ Len(how.said) < HcMaxSaid /\ hr.fed = 0 /\ ~Fatal(Meant)
    /\ how' = [said |-> Append(how.said, f), fral |-> how.fral \o Encoded(f), want |-> TRUE]
    /\ UNCHANGED <<wire, hr, hc, uni>>

\* lsquic_frab_list_empty()
Unwritten(rest) == rest # <<>>
\* hcso_on_write(): as many bytes as the stream takes
HcsoOnWrite(n) ==
    /\ how.want /\ n <= Len(how.fral)
    /\ how' = [how EXCEPT !.fral = SubSeq(how.fral, n + 1, Len(how.fral)),
                          !.want = Unwritten(SubSeq(how.fral, n + 1, Len(how.fral)))]
    /\ wire' = wire \o SubSeq(how.fral, 1, n)
    /\ UNCHANGED <<hr, hc, uni>>

-----------------------------------------------------------------------------
(***************************************************************************)
(* Handlers: the callbacks of the reader, [cb, t, id, val].                *)
(***************************************************************************)
Aborted(c, code) == [c EXCEPT !.err = code]     \* ABORT_QUIETLY(): the last code counts

\* on_cancel_push_client() with CLIENT_PUSH_SUPPORT 0; on_cancel_push_server()
OnCancelPush(c, id) ==
    CASE c.role = "client" -> IF id > 0 THEN Aborted(c, "ID") ELSE c
      [] c.role = "server" -> IF id >= c.next_push THEN Aborted(c, "ID")
                              ELSE [c EXCEPT !.promises = @ \ {id}]

OnMaxPushId(c, id) ==
    CASE c.role = "client" -> Aborted(c, "UNEXPECTED")
      [] c.role = "server" /\ id > c.max_push -> [c EXCEPT !.max_push = id]
      [] c.role = "server" /\ id < c.max_push -> Aborted(c, "ID")
      [] OTHER -> c

\* on_settings_frame(): the QPACK encoder stream is created, or its wish is noted
OnSettingsFrame(c) ==
    IF c.have_set THEN Aborted(c, "UNEXPECTED")
    ELSE [c EXCEPT !.have_set = TRUE, !.encoder = c.table,
                   !.qenc = IF c.uni_avail > 0 THEN "open" ELSE "blocked"]

OnSetting(c, id, val) ==
    CASE id = "TABLE" -> [c EXCEPT !.table = val]
      [] id = "HTTP2" -> Aborted(c, "SETTINGS")
      [] OTHER -> c

\* on_goaway_client(_27)() and on_goaway_server(_27)(); stream IDs by number, -1
\* is an ID that is not of a request stream
Refuse(c, id) == [c EXCEPT !.refused = @ \cup {s \in c.open : s > id}]
OnGoawayClient(c, id) ==
    CASE id = -1 -> Aborted(c, "ID")
      [] id # -1 /\ c.going_away /\ (c.ver = 27 \/ id = c.min_goaway) -> c
      [] id # -1 /\ c.going_away /\ c.ver # 27 /\ id > c.min_goaway -> Aborted(c, "ID")
      [] id # -1 /\ c.going_away /\ c.ver # 27 /\ id < c.min_goaway -> Refuse(c, id)
      [] OTHER -> Refuse([c EXCEPT !.going_away = TRUE, !.min_goaway = id], id)
OnGoawayServer(c, id) ==
    IF c.ver = 27 THEN Aborted(c, "UNEXPECTED")
    ELSE [c EXCEPT !.promises = {p \in @ : p <= id}]

\* buffer_priority_update(): the last one for a stream counts
BufferUpdate(c, id, prio) == [c EXCEPT !.bpus = (id :> prio) @@ @]

\* on_priority_update_client(), on_priority_update_server()
OnPriorityUpdate(c, t, id, prio) ==
    CASE ~c.ext_prio -> c
      [] c.ext_prio /\ c.role = "client" -> Aborted(c, "UNEXPECTED")
      [] c.ext_prio /\ c.role = "server" /\ t = "PRIO_STREAM" ->
            (IF id \notin HcStreams THEN Aborted(c, "ID")
             ELSE IF id \in HcStreams \ c.closed /\ prio = -1 THEN Aborted(c, "FRAME")
             ELSE IF id \in c.open THEN [c EXCEPT !.prio[id] = prio]
             ELSE IF id \in c.closed THEN c
             ELSE BufferUpdate(c, id, prio))
      [] c.ext_prio /\ c.role = "server" /\ t = "PRIO_PUSH" ->
            IF id >= c.next_push THEN Aborted(c, "ID") ELSE c

Handle(c, x) ==
    CASE x.cb = "on_cancel_push" -> OnCancelPush(c, x.id)
      [] x.cb = "on_max_push_id" -> OnMaxPushId(c, x.id)
      [] x.cb = "on_settings_frame" -> OnSettingsFrame(c)
      [] x.cb = "on_setting" -> OnSetting(c, x.id, x.val)
      [] x.cb = "on_goaway" ->
            IF c.role = "client" THEN OnGoawayClient(c, x.id) ELSE OnGoawayServer(c, x.id)
      [] x.cb = "on_priority_update" -> OnPriorityUpdate(c, x.t, x.id, x.val)
      [] x.cb = "on_frame_error" -> Aborted(c, x.val)
      [] x.cb = "abort_error" -> Aborted(c, x.val)

-----------------------------------------------------------------------------
(***************************************************************************)
(* lsquic_varint_read_nb() and lsquic_varint_read_two(): v is a number of  *)
(* which some bytes are missing yet.                                       *)
(***************************************************************************)
NoVint == [on |-> FALSE, val |-> 0, left |-> 0]
Missing(val, need, cells) ==
    IF need <= Len(cells)
    THEN [done |-> TRUE, v |-> [NoVint EXCEPT !.val = val],
          rest |-> SubSeq(cells, need + 1, Len(cells))]
    ELSE [done |-> FALSE, v |-> [on |-> TRUE, val |-> val, left |-> need - Len(cells)],
          rest |-> <<>>]
ReadNb(v, cells) ==
    CASE cells = <<>> -> [done |-> FALSE, v |-> v, rest |-> <<>>]
      [] cells # <<>> /\ v.on -> Missing(v.val, v.left, cells)
      [] cells # <<>> /\ ~v.on /\ Head(cells).k = "vint" ->
            Missing(Head(cells).v, Head(cells).w, cells)
      [] OTHER -> Missing("garbage", 1, cells)

SecondOf(one, r) == [done |-> r.done, one |-> one, has |-> TRUE, v |-> r.v, rest |-> r.rest]
ReadTwo(h, cells) ==
    IF h.has THEN SecondOf(h.one, ReadNb(h.v, cells))
    ELSE LET r == ReadNb(h.v, cells) IN
         IF r.done THEN SecondOf(r.v.val, ReadNb(NoVint, r.rest))
         ELSE [done |-> FALSE, one |-> 0, has |-> FALSE, v |-> r.v, rest |-> r.rest]

(***************************************************************************)
(* lsquic_hcsi_reader_feed(): x is the reader, the connection it calls,    *)
(* what is left of the piece, and the value to return.  BEGIN and CONTINUE *)
(* states are one: nothing was read yet when it begins.                    *)
(***************************************************************************)
Reading(h, st) == [h EXCEPT !.st = st, !.has = FALSE, !.one = 0, !.v = NoVint, !.nread = 0]
Enter(x, st) == [x EXCEPT !.h = Reading(@, st)]
Emit(x, call) == [x EXCEPT !.c = Handle(@, call), !.h.heard = Append(@, call)]
Reject(x, call, st) == [Enter(Emit(x, call), st) EXCEPT !.rest = <<>>, !.ret = -1]
Used2(x, r) == Len(x.rest) - Len(r.rest)

FrameHead(x) ==
    LET t == x.h.type IN
    CASE ~x.h.rcvd_setting /\ t # "SETTINGS" ->
            Reject(x, Call("on_frame_error", t, 0, "MISSING_SETTINGS"), "STUCK")
      [] t = "SETTINGS" /\ x.h.len > 0 -> Enter([x EXCEPT !.h.rcvd_setting = TRUE], "SETTING")
      [] t = "SETTINGS" /\ x.h.len = 0 ->
            Enter(Emit([x EXCEPT !.h.rcvd_setting = TRUE],
                       Call("on_settings_frame", t, 0, 0)), "FRAME")
      [] x.h.rcvd_setting /\ t \in Number \cup Priority -> Enter(x, "VARINT")
      [] x.h.rcvd_setting /\ t \in Unwanted ->
            Reject(x, Call("on_frame_error", t, 0, "UNEXPECTED"), "STUCK")
      [] OTHER -> Enter(x, "SKIPPING")

TwoRead(x, r) == [x EXCEPT !.h.has = r.has, !.h.one = r.one, !.h.v = r.v, !.rest = r.rest]
ReadFrame(x, r) ==
    IF r.done
    THEN FrameHead([TwoRead(x, r) EXCEPT !.h.type = r.one, !.h.len = r.v.val])
    ELSE TwoRead(x, r)

\* len bytes of Priority Field Value follow: all here, to be collected in the
\* buffer, or too many for it
PriorityValue_bug(x, id, len) ==
    IF len <= Len(x.rest)
    THEN Enter([Emit(x, Call("on_priority_update", x.h.type, id,
                             ParsePfv(SubSeq(x.rest, 1, len))))
                EXCEPT !.rest = SubSeq(@, len + 1, Len(@))], "FRAME")
    ELSE [Enter(x, "PRIORITY") EXCEPT !.h.one = id, !.h.buf = <<>>]
PriorityValue(x, id, len) ==
    CASE len <= Len(x.rest) ->
            Enter([Emit(x, Call("on_priority_update", x.h.type, id,
                                ParsePfv(SubSeq(x.rest, 1, len))))
                   EXCEPT !.rest = SubSeq(@, len + 1, Len(@))], "FRAME")
      [] len > Len(x.rest) /\ len <= PfvBuf ->
            [Enter(x, "PRIORITY") EXCEPT !.h.len = len, !.h.one = id, !.h.buf = <<>>]
      [] OTHER -> [Enter(x, "FRAME") EXCEPT !.rest = <<>>]
VarintRead(x, r, nread) ==
    CASE ~r.done -> [x EXCEPT !.h.v = r.v, !.h.nread = nread, !.rest = <<>>]
      [] r.done /\ x.h.type \in Number /\ nread # x.h.len ->
            Reject(x, Call("abort_error", x.h.type, 0, "FRAME"), "ERROR")
      [] r.done /\ x.h.type \in Number /\ nread = x.h.len ->
            Enter(Emit([x EXCEPT !.rest = r.rest],
                       Call(CallOf(x.h.type), x.h.type, r.v.val, 0)), "FRAME")
      [] r.done /\ x.h.type \in Priority ->
            PriorityValue([x EXCEPT !.rest = r.rest], r.v.val, x.h.len - nread)

Skip(x, n) ==
    IF n = x.h.len THEN Enter([x EXCEPT !.rest = SubSeq(@, n + 1, Len(@))], "FRAME")
    ELSE [x EXCEPT !.rest = <<>>, !.h.len = @ - n]

SettingRead(x, r, nread) ==
    CASE nread > x.h.len -> Reject(x, Call("abort_error", "SETTINGS", 0, "FRAME"), "ERROR")
      [] nread <= x.h.len /\ ~r.done -> [TwoRead(x, r) EXCEPT !.h.nread = nread]
      [] nread = x.h.len /\ r.done ->
            Enter(Emit(Emit(TwoRead(x, r), Call("on_setting", "SETTINGS", r.one, r.v.val)),
                       Call("on_settings_frame", "SETTINGS", 0, 0)), "FRAME")
      [] nread < x.h.len /\ r.done ->
            [Enter(Emit(TwoRead(x, r), Call("on_setting", "SETTINGS", r.one, r.v.val)),
                   "SETTING") EXCEPT !.h.nread = nread]

Collect(x, n, buf) ==
    IF x.h.nread + n = x.h.len
    THEN Enter([Emit(x, Call("on_priority_update", x.h.type, x.h.one, ParsePfv(buf)))
                EXCEPT !.rest = SubSeq(@, n + 1, Len(@))], "FRAME")
    ELSE [x EXCEPT !.rest = <<>>, !.h.nread = @ + n, !.h.buf = buf]

Lower(a, b) == IF a < b THEN a ELSE b
\* After on_frame_error() the state is left as it was: what follows is refused again.
FeedStep(x) ==
    CASE x.h.st = "FRAME" -> ReadFrame(x, ReadTwo(x.h, x.rest))
      [] x.h.st = "VARINT" ->
            VarintRead(x, ReadNb(x.h.v, x.rest),
                       x.h.nread + Used2(x, ReadNb(x.h.v, x.rest)))
      [] x.h.st = "SKIPPING" -> Skip(x, Lower(Len(x.rest), x.h.len))
      [] x.h.st = "SETTING" ->
            SettingRead(x, ReadTwo(x.h, x.rest),
                        x.h.nread + Used2(x, ReadTwo(x.h, x.rest)))
      [] x.h.st = "PRIORITY" ->
            LET n == Lower(Len(x.rest), x.h.len - x.h.nread) IN
            Collect(x, n, x.h.buf \o SubSeq(x.rest, 1, n))
      [] x.h.st \in {"ERROR", "STUCK"} -> [x EXCEPT !.rest = <<>>, !.ret = -1]

\* Every second step consumes a byte.
Feed(x0) ==
    LET run[k \in 0..(2 * Len(x0.rest))] ==
            IF k = 0 THEN x0
            ELSE LET x == run[k - 1] IN IF x.rest = <<>> THEN x ELSE FeedStep(x)
    IN run[2 * Len(x0.rest)]

(***************************************************************************)
(* hcsi_on_read(): lsquic_stream_readf() feeds the reader a piece of n     *)
(* bytes, and perhaps another one, whose result then counts.  An aborted   *)
(* connection may be fed until its next tick.                              *)
(***************************************************************************)
HcsiOnRead(n) ==
    /\ hc.want_read /\ n <= Len(wire) /\ how.fral = <<>>
    /\ \E x \in {Feed([h |-> hr, c |-> hc, rest |-> SubSeq(wire, 1, n), ret |-> 0])} :
          /\ hr' = [x.h EXCEPT !.fed = @ + n]
          /\ \E more \in IF x.ret = 0 THEN {TRUE} ELSE BOOLEAN :
                hc' = [x.c EXCEPT !.want_read = more]
    /\ wire' = SubSeq(wire, n + 1, Len(wire))
    /\ UNCHANGED <<how, uni>>

\* The connection's own steps.  A request stream is created when the client opens
\* it: new_stream() applies the priority that came before, if any.
OpenRequest(s) ==
    [hc EXCEPT !.open = @ \cup {s},
               !.prio[s] = IF s \in DOMAIN hc.bpus THEN hc.bpus[s] ELSE DefaultPrio,
               !.bpus = [x \in DOMAIN @ \ {s} |-> @[x]]]
RequestOpens(s) ==
    /\ hc.mode = "contents" /\ how.said # <<>> /\ how.fral = <<>>
    /\ hc.err = "none" /\ s \notin hc.open \cup hc.closed
    /\ hc.role = "server" \/ (~hc.going_away /\ \A x \in hc.open \cup hc.closed : x < s)
    /\ hc' = OpenRequest(s)
    /\ UNCHANGED <<how, wire, hr, uni>>
RequestCloses(s) ==
    /\ s \in hc.open /\ hc.role = "server"
    /\ hc' = [hc EXCEPT !.open = @ \ {s}, !.closed = @ \cup {s}]
    /\ UNCHANGED <<how, wire, hr, uni>>

\* ietf_full_conn_ci_push_stream(): see PushPromise
PushStream ==
    /\ hc.err = "none" /\ hc.role = "server" /\ hc.next_push = 0
    /\ hc.max_push # -1 /\ hc.next_push <= hc.max_push
    /\ hc' = [hc EXCEPT !.promises = @ \cup {hc.next_push}, !.next_push = @ + 1]
    /\ UNCHANGED <<how, wire, hr, uni>>

-----------------------------------------------------------------------------
(***************************************************************************)
(* Unidirectional streams of the peer.  unicla_on_read() reads the stream  *)
(* type, a number of w bytes, and apply_uni_stream_class() gives the       *)
(* stream to its handler, once for each of the critical ones.              *)
(***************************************************************************)
Critical == {"CONTROL", "QPACK_ENC", "QPACK_DEC"}
StreamTypes == Critical \cup {"PUSH", "UNKNOWN"}

UniOpens(u, type, w) ==
    /\ hc.mode = "classes" /\ uni[u].st = "none" /\ hc.err = "none"
    /\ uni' = [uni EXCEPT ![u] = [st |-> "typed", type |-> type, left |-> w]]
    /\ UNCHANGED <<how, wire, hr, hc>>

Served(type) == \E x \in UniStreams : uni[x].st = "served" /\ uni[x].type = type
Classified(u, type) ==
    CASE type \in Critical /\ ~Served(type) ->
            /\ uni' = [uni EXCEPT ![u].st = "served", ![u].left = 0]
            /\ UNCHANGED hc
      [] type \in Critical /\ Served(type) ->
            /\ uni' = [uni EXCEPT ![u].st = "closed", ![u].left = 0]
            /\ hc' = Aborted(hc, "CREATION")
      [] type = "PUSH" /\ hc.role = "server" ->
            /\ uni' = [uni EXCEPT ![u].st = "closed", ![u].left = 0]
            /\ hc' = Aborted(hc, "CREATION")
      [] OTHER ->       \* maybe_schedule_ss_for_stream()
            /\ uni' = [uni EXCEPT ![u].st = "closed", ![u].left = 0]
            /\ hc' = [hc EXCEPT !.stop_sending = @ \cup {u}]

\* n bytes, and perhaps the end of the stream, are read
UniclaOnRead(u, n, fin) ==
    /\ uni[u].st = "typed" /\ n <= uni[u].left /\ (n > 0 \/ fin) /\ hc.err = "none"
    /\ \/ n = uni[u].left /\ Classified(u, uni[u].type)
       \/ /\ n < uni[u].left
          /\ uni' = [uni EXCEPT ![u].left = @ - n, ![u].st = IF fin THEN "closed" ELSE @]
          /\ UNCHANGED hc
    /\ UNCHANGED <<how, wire, hr>>

\* hcsi_on_read(), qdh_in_on_read(), qeh_in_on_read() find the end of the stream
CriticalEnds(u) ==
    /\ uni[u].st = "served" /\ hc.err = "none"
    /\ hc' = Aborted(hc, "CLOSED_CRITICAL")
    /\ uni' = [uni EXCEPT ![u].st = "closed"]
    /\ UNCHANGED <<how, wire, hr>>

-----------------------------------------------------------------------------
HCInit ==
    \E role \in HcRoles, ver \in HcVersions, mode \in HcModes :
    /\ how = [said |-> <<>>, fral |-> <<>>, want |-> FALSE]
    /\ wire = <<>>
    /\ hr = [st |-> "FRAME", rcvd_setting |-> FALSE, nread |-> 0, type |-> "", len |-> 0,
             has |-> FALSE, one |-> 0, v |-> NoVint, buf |-> <<>>, heard |-> <<>>,
             fed |-> 0]
    /\ hc = [mode |-> mode, role |-> role, ver |-> ver, ext_prio |-> TRUE, err |-> "none",
             want_read |-> TRUE, uni_avail |-> IF ver = 29 THEN 1 ELSE 0, have_set |-> FALSE, table |-> 0,
             encoder |-> 0, qenc |-> "none", max_push |-> -1, next_push |-> 0,
             promises |-> {}, going_away |-> FALSE, min_goaway |-> 0, open |-> {},
             closed |-> {}, refused |-> {}, prio |-> [s \in HcStreams |-> DefaultPrio],
             bpus |-> <<>>, stop_sending |-> {}]
    /\ uni = [u \in UniStreams |-> [st |-> "none", type |-> "UNKNOWN", left |-> 0]]

\* What a peer may say, well-formed or not.
Settings == {Frame("SETTINGS", 0, <<>>), Frame("SETTINGS", 0, << <<"TABLE", V1>> >>),
             [Frame("SETTINGS", 0, << <<"OTHER", 1>>, <<"TABLE", V1>> >>) EXCEPT !.off = -1],
             Frame("SETTINGS", 0, << <<"TABLE", 1>>, <<"HTTP2", 1>> >>)}
Ignored == {Frame("GREASE", n, 0) : n \in {0, 2}}
Menu(role) ==
    IF how.said = <<>> THEN Settings \cup Ignored
    ELSE Ignored \cup {Frame("DATA", 1, 0), Frame("SETTINGS", 0, << <<"TABLE", 1>> >>)} \cup
    IF role = "server"
    THEN {Frame("MAX_PUSH_ID", n, 0) : n \in {0, 1}}
         \cup {Frame("PRIO_STREAM", 1, p) : p \in {1, DefaultPrio}}
         \cup {Frame("CANCEL_PUSH", 0, 0), Frame("PRIO_PUSH", 0, 1), Frame("GOAWAY", 0, 0),
               [Frame("MAX_PUSH_ID", V1, 0) EXCEPT !.off = -1]}
    ELSE {Frame("GOAWAY", n, 0) : n \in HcStreams \cup {-1}}
         \cup {Frame("CANCEL_PUSH", n, 0) : n \in {0, 1}}
         \cup {Frame("MAX_PUSH_ID", 0, 0), Frame("PRIO_STREAM", 0, 1),
               [Frame("GOAWAY", 0, 0) EXCEPT !.off = 1]}

HCNext ==
    \/ \E f \in Menu(hc.role) : Say(f)
    \/ \E n \in {1, Len(how.fral)} : HcsoOnWrite(n)
    \/ \E n \in 1..Len(wire) : HcsiOnRead(n)
    \/ \E s \in HcStreams : RequestOpens(s) \/ RequestCloses(s)
    \/ PushStream
    \/ \E u \in UniStreams :
          \/ \E type \in StreamTypes, w \in {1, 2} : UniOpens(u, type, w)
          \/ \E n \in 0..2, fin \in BOOLEAN : UniclaOnRead(u, n, fin)
          \/ CriticalEnds(u)

HCSpec == HCInit /\ [][HCNext]_hcvars
-----------------------------------------------------------------------------
AllRead == how.fral = <<>> /\ wire = <<>>

(***************************************************************************)
(* In whatever pieces the control stream arrives, the callbacks are those  *)
(* of the frames that were written, in their order; nothing stays behind   *)
(* in the writer without a wish to write it.                               *)
(***************************************************************************)
HeardIsSaid ==
    /\ IsPrefix(hr.heard, Meant)
    /\ AllRead => hr.heard = Meant
    /\ how.fral # <<>> => how.want

\* What an endpoint that follows the protocol writes; push IDs apart.
Legit(role, ver, said) ==
    /\ said # <<>> => said[1].t = "SETTINGS"
    /\ \A k \in DOMAIN said :
        LET f == said[k]
            same == {j \in 1..(k - 1) : said[j].t = f.t} IN
        /\ f.off = 0 /\ f.t \notin Unwanted
        /\ f.t = "SETTINGS" => k = 1 /\ \A i \in DOMAIN f.vals : f.vals[i][1] # "HTTP2"
        /\ f.t = "MAX_PUSH_ID" => role = "server" /\ \A j \in same : said[j].id <= f.id
        /\ f.t = "GOAWAY" /\ role = "server" => ver # 27
        /\ f.t = "GOAWAY" /\ role = "client" =>
              /\ f.id # -1
              /\ ver # 27 /\ same # {} =>
                    f.id <= said[CHOOSE j \in same : \A i \in same : j <= i].id
        /\ f.t = "PRIO_STREAM" => role = "server"
(***************************************************************************)
(* The connection is aborted if and only if the peer broke the protocol.   *)
(***************************************************************************)
AbortIsDeserved ==
    (/\ hc.mode = "contents"
     /\ \A k \in DOMAIN how.said : how.said[k].t \notin {"CANCEL_PUSH", "PRIO_PUSH"})
    => /\ hc.err # "none" => ~Legit(hc.role, hc.ver, how.said)
       /\ AllRead /\ hc.err = "none" => Legit(hc.role, hc.ver, how.said)

(***************************************************************************)
(* A request has the last priority the client gave it, also when it was    *)
(* given before the request came; the QPACK encoder is set up from the     *)
(* first SETTINGS only.                                                    *)
(***************************************************************************)
HeardOf(cb) == {k \in DOMAIN hr.heard : hr.heard[k].cb = cb}
PriorityKept ==
    hc.role = "server" =>
        \A s \in hc.open :
            LET mine == {k \in HeardOf("on_priority_update") :
                            hr.heard[k].t = "PRIO_STREAM" /\ hr.heard[k].id = s} IN
            hc.prio[s] = IF mine = {} THEN DefaultPrio
                         ELSE hr.heard[CHOOSE k \in mine : \A j \in mine : j <= k].val
SettingsOnce ==
    /\ hc.have_set => /\ \E v \in {0, 1, V1} : hc.encoder = v
                      /\ \A i \in DOMAIN how.said[1].vals :
                            how.said[1].vals[i][1] = "TABLE" => hc.encoder = how.said[1].vals[i][2]
                      /\ how.said[1].vals = <<>> => hc.encoder = 0
    /\ hc.have_set <=> hc.qenc # "none"

\* The requests a server gave up with GOAWAY are told, and no others; none is
\* opened afterwards.
GoawayRefuses ==
    hc.role = "client" /\ hc.err = "none" =>
        LET ids == {hr.heard[k].id : k \in HeardOf("on_goaway")}
            first == {hr.heard[k].id : k \in {j \in HeardOf("on_goaway") :
                            \A i \in HeardOf("on_goaway") : j <= i}} IN
        \A s \in hc.open :
            s \in hc.refused <=> \E id \in (IF hc.ver = 27 THEN first ELSE ids) : id < s

\* One stream of each critical kind is served, and the connection does not
\* outlive one that ends.
CriticalStreams ==
    hc.mode = "classes" =>
        /\ \A u, w \in UniStreams :
              uni[u].st = "served" /\ uni[w].st = "served" /\ uni[u].type = uni[w].type
                => u = w
        /\ \A u \in UniStreams :
              hc.err = "none" /\ uni[u].type \in Critical /\ uni[u].st = "closed"
                => uni[u].left > 0      \* it ended before its type was known

HttpControlSound ==
    HeardIsSaid /\ AbortIsDeserved /\ PriorityKept /\ SettingsOnce /\ GoawayRefuses
        /\ CriticalStreams
=============================================================================

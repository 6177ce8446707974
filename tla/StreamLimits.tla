---------------------------- MODULE StreamLimits ----------------------------
(***************************************************************************)
(* Which streams an IETF connection may have: stream IDs, the limits the   *)
(* two sides give each other with MAX_STREAMS, streams the application     *)
(* asked for before the peer allowed them, and GOAWAY.  The peer is honest *)
(* but the network delays, reorders and repeats what either side sends.    *)
(* What a stream does while it is open is the subject of StreamFlow.       *)
(***************************************************************************)
EXTENDS Integers, Sequences, FiniteSets, FiniteSetsExt

CONSTANTS
    StreamsIn,      \* ifc_max_streams_in, in either direction
    PeerLimits,     \* initial limits the peer may give us
    MaxRaise,       \* how far the peer raises them
    MaxOpened,      \* streams of one direction either side opens at most
    MaxPending      \* bound on ifc_n_delayed_streams

StreamLimitsAssumption ==
    /\ {StreamsIn, MaxRaise, MaxOpened, MaxPending} \subseteq Nat \ {0}
    /\ PeerLimits \subseteq Nat

VARIABLES
    ifl,    \* struct ietf_full_conn, as far as stream limits go
    far     \* the peer and the network

slvars == <<ifl, far>>

Dirs == {"bidi", "uni"}                     \* enum stream_dir
Id(who, sd, n) == [who |-> who, sd |-> sd, n |-> n]
SendMaxStreams(sd) == [f |-> "SEND_MAX_STREAMS", sd |-> sd]
StreamsBlocked(sd) == [f |-> "SEND_STREAMS_BLOCKED", sd |-> sd]
StopSending == [f |-> "SEND_STOP_SENDING", sd |-> "any"]

AbortError(c) == [c EXCEPT !.flags = @ \cup {"ERROR"}]
GoingAway(c) == c.flags \cap {"GOING_AWAY", "PEER_GOING_AWAY"} # {}

-----------------------------------------------------------------------------
(***************************************************************************)
(* Streams we open.                                                        *)
(***************************************************************************)
\* The assertion of avail_streams_count() is AssertHolds below.
AvailStreams(c, sd) == IF c.max["us"][sd] >= c.created[sd]
                       THEN c.max["us"][sd] - c.created[sd] ELSE 0

GenerateStreamId(c, sd) == Id("us", sd, c.created[sd])

CreateStreamOut(c, sd) == [c EXCEPT !.streams = @ \cup {GenerateStreamId(c, sd)},
                                    !.created[sd] = @ + 1]

UndoStreamCreation(c, sd) == [c EXCEPT !.streams = @ \ {Id("us", sd, c.created[sd] - 1)},
                                       !.created[sd] = @ - 1]

QueueStreamsBlocked(c, sd) ==
    IF StreamsBlocked(sd) \in c.sf THEN c
    ELSE [c EXCEPT !.sf = @ \cup {StreamsBlocked(sd)}, !.blocked[sd] = c.max["us"][sd]]

\* As many of the delayed streams as the peer's limit now allows.
MaybeCreateDelayed_bug(c) == IF c.pending > 0 /\ AvailStreams(c, "bidi") > 0
                             THEN [CreateStreamOut(c, "bidi") EXCEPT !.pending = @ - 1] ELSE c
MaybeCreateDelayed(c) ==
    LET n == Min({c.pending, AvailStreams(c, "bidi")})
    IN [c EXCEPT !.streams = @ \cup {Id("us", "bidi", c.created["bidi"] + i) : i \in 0 .. n - 1},
                 !.created["bidi"] = @ + n,
                 !.pending = @ - n]

\* The control stream, then the QPACK decoder stream if the limit allows it.
InitHttp(c) ==
    IF AvailStreams(c, "uni") = 0 THEN AbortError(c)
    ELSE LET d == CreateStreamOut(c, "uni")
             e == IF AvailStreams(d, "uni") > 0 THEN CreateStreamOut(d, "uni")
                  ELSE QueueStreamsBlocked(d, "uni")
         IN [e EXCEPT !.flags = @ \cup {"HTTP_INITED"}]

Each(bidi, uni) == [sd \in Dirs |-> IF sd = "bidi" THEN bidi ELSE uni]
ApplyTransParams(c, bidi, uni) == [c EXCEPT !.max["us"] = Each(bidi, uni)]

HandshakeOk(c, bidi, uni) ==
    LET a == ApplyTransParams([c EXCEPT !.flags = @ \cup {"HANDSHAKE_DONE"}], bidi, uni)
        h == IF c.http /\ "HTTP_INITED" \notin c.flags THEN InitHttp(a) ELSE a
    IN IF "ERROR" \in h.flags THEN h ELSE MaybeCreateDelayed(h)

\* lsquic_conn_make_stream().  With 0-RTT a stream can be had before the handshake
\* is done.
MakeStreamOp(c) ==
    IF (c.zeroRtt \/ "HANDSHAKE_DONE" \in c.flags) /\ AvailStreams(c, "bidi") > 0
    THEN CreateStreamOut(c, "bidi")
    ELSE IF GoingAway(c) THEN [c EXCEPT !.refused = @ + 1]
    ELSE [c EXCEPT !.pending = @ + 1]

IsPushEnabled(c) == /\ c.server /\ c.http /\ "PUSH" \in c.flags /\ ~GoingAway(c)
                    /\ AvailStreams(c, "uni") > 0

-----------------------------------------------------------------------------
(***************************************************************************)
(* Streams the peer opens, and the credit it gets when they close.         *)
(***************************************************************************)
\* An HTTP server holds credit for requests back while the QPACK decoder stream
\* has much unsent data; sched_max_bidi_streams() is called when it is sent.
CanGiveCredit(c, sd) ==
    ~(c.server /\ c.http /\ sd = "bidi" /\ (c.delayed \/ c.qdhUnsent))

Threshold(c, sd) == c.closedPeer[sd] + StreamsIn \div 2 >= c.max["peer"][sd]

\* conn_mark_stream_closed() of each of ids; credit is due once, however many
\* of them close.
MarkClosed(c, ids) ==
    LET fresh(sd) == {id \in ids \ c.closedIds : id.who = "peer" /\ id.sd = sd}
        d == [c EXCEPT !.closedPeer = [sd \in Dirs |-> @[sd] + Cardinality(fresh(sd))],
                       !.closedIds = @ \cup ids]
        due == {sd \in Dirs : fresh(sd) # {} /\ SendMaxStreams(sd) \notin c.sf /\ Threshold(d, sd)}
    IN [d EXCEPT !.sf = @ \cup {SendMaxStreams(sd) : sd \in {x \in due : CanGiveCredit(d, x)}},
                 !.delayed = @ \/ \E sd \in due : ~CanGiveCredit(d, sd)]

\* A request after our GOAWAY is rejected and will not be heard of again.
RejectStream(c, id) == MarkClosed([c EXCEPT !.toStop = Append(@, id),
                                            !.sf = @ \cup {StopSending}], {id})

NewStream(c, id) == [c EXCEPT !.streams = @ \cup {id}]
NoteRequest(c, id) == IF id.sd = "bidi" THEN [c EXCEPT !.maxReq = Max({@, id.n})] ELSE c

SendOnly(id) == id.who = "us" /\ id.sd = "uni"
RecvOnly(id) == id.who = "peer" /\ id.sd = "uni"
NotAllowed(c, id) == c.http /\ ~c.server /\ id.who = "peer" /\ id.sd = "bidi"

\* A frame for a stream that does not exist; what it does to one that does is not
\* modelled here.
StreamFrame(c, id) ==
    IF SendOnly(id) \/ NotAllowed(c, id) THEN AbortError(c)
    ELSE IF "CLOSING" \in c.flags \/ id \in c.streams \cup c.closedIds THEN c
    ELSE IF id.who = "us" \/ id.n >= c.max["peer"][id.sd] THEN AbortError(c)
    ELSE IF "GOING_AWAY" \in c.flags THEN RejectStream(c, id)
    ELSE NoteRequest(NewStream(c, id), id)

RstStreamFrame(c, id) ==
    IF SendOnly(id) THEN AbortError(c)
    ELSE IF id \in c.streams \cup c.closedIds THEN c
    ELSE IF id.who = "us" THEN AbortError(c)
    ELSE NewStream(c, id)

StopSendingFrame(c, id) ==
    IF RecvOnly(id) THEN AbortError(c)
    ELSE IF id \in c.streams \cup c.closedIds THEN c
    ELSE IF id.who = "us" \/ id.n >= c.max["peer"][id.sd] THEN AbortError(c)
    ELSE IF "GOING_AWAY" \in c.flags THEN RejectStream(c, id)
    ELSE NewStream(c, id)

MaxStreamDataFrame(c, id) ==
    IF RecvOnly(id) THEN AbortError(c)
    ELSE IF id \in c.streams \cup c.closedIds THEN c
    ELSE IF id.who = "us" \/ NotAllowed(c, id) THEN AbortError(c)
    ELSE IF "CLOSING" \in c.flags THEN c
    ELSE IF id.n >= c.max["peer"][id.sd] THEN AbortError(c)
    ELSE IF "GOING_AWAY" \in c.flags THEN RejectStream(c, id)
    ELSE NoteRequest(NewStream(c, id), id)

StreamBlockedFrame(c, id) == IF SendOnly(id) THEN AbortError(c) ELSE c

MaxStreamsFrame(c, sd, n) == IF n > c.max["us"][sd] THEN [c EXCEPT !.max["us"][sd] = n] ELSE c

\* The frame goes out with the limit as it is now, which may be higher than when
\* it was scheduled.
GenMaxStreams(c, sd) ==
    LET limit == c.closedPeer[sd] + StreamsIn
    IN [c EXCEPT !.sf = @ \ {SendMaxStreams(sd)}, !.max["peer"][sd] = limit]

\* The streams in gone are finished on both sides; then the delayed ones.
FreeStreams(c, gone) == MarkClosed([c EXCEPT !.streams = @ \ gone], gone)

ServiceFinished(c, gone) ==
    LET f == FreeStreams(c, gone)
    IN IF GoingAway(f) THEN [f EXCEPT !.refused = @ + f.pending, !.pending = 0]
       ELSE MaybeCreateDelayed(f)

-----------------------------------------------------------------------------
Conn(server, http, zeroRtt) ==
    [server |-> server, http |-> http, zeroRtt |-> zeroRtt, flags |-> {},
     created |-> [sd \in Dirs |-> 0], closedPeer |-> [sd \in Dirs |-> 0],
     max |-> [who \in {"us", "peer"} |-> [sd \in Dirs |-> IF who = "us" THEN 0 ELSE StreamsIn]],
     blocked |-> [sd \in Dirs |-> 0], closedIds |-> {}, streams |-> {}, sf |-> {},
     toStop |-> <<>>, delayed |-> FALSE, qdhUnsent |-> FALSE, pending |-> 0, refused |-> 0,
     maxReq |-> -1, ticked |-> TRUE]

\* A server is promoted after the handshake; a client that resumes a session has
\* the peer's limits from the last one, which the peer does not lower.  The limits
\* of the two sides and of the two directions do not interact: a behaviour is about
\* the streams that one side (scope.who) opens in one direction (scope.sd).
SLInit ==
    \E server, http, zeroRtt \in BOOLEAN, bidi, uni \in PeerLimits,
       who \in {"us", "peer"}, dir \in Dirs :
        /\ zeroRtt => ~server
        /\ http => uni > 0
        /\ far = [limit |-> Each(bidi, uni), opened |-> [sd \in Dirs |-> 0],
                  allowed |-> [sd \in Dirs |-> StreamsIn], wire |-> {},
                  scope |-> [who |-> who, sd |-> dir]]
        /\ ifl = LET c == Conn(server, http, zeroRtt)
                     a == ApplyTransParams(c, bidi, uni)
                 IN IF server THEN HandshakeOk(c, bidi, uni)
                    ELSE IF zeroRtt THEN (IF http THEN InitHttp(a) ELSE a)
                    ELSE c

InScope(who, sd) == far.scope = [who |-> who, sd |-> sd]
Done == "HANDSHAKE_DONE" \in ifl.flags

HskDone == /\ ~Done
           /\ ifl' = HandshakeOk(ifl, far.limit["bidi"], far.limit["uni"])
           /\ UNCHANGED far

MakeStream == /\ InScope("us", "bidi") /\ ifl.pending < MaxPending /\ ifl.refused < MaxPending
              /\ ifl.created["bidi"] < MaxOpened
              /\ ifl' = MakeStreamOp(ifl)
              /\ UNCHANGED far

CancelPending == /\ ifl.pending > 0
                 /\ \E n \in 1 .. ifl.pending : ifl' = [ifl EXCEPT !.pending = n - 1]
                 /\ UNCHANGED far

\* The pushed stream is created first; a later step that fails takes it back.
PushStream ==
    /\ InScope("us", "uni") /\ Done /\ IsPushEnabled(ifl) /\ ifl.created["uni"] < MaxOpened
    /\ LET c == CreateStreamOut(ifl, "uni")
       IN ifl' \in {c, UndoStreamCreation(c, "uni")}
    /\ UNCHANGED far

\* MAX_PUSH_ID from the client
PushAllowed == /\ InScope("us", "uni") /\ ifl.server /\ ifl.http /\ "PUSH" \notin ifl.flags
               /\ ifl' = [ifl EXCEPT !.flags = @ \cup {"PUSH"}]
               /\ UNCHANGED far

\* lsquic_conn_going_away(), or GOAWAY from a server
GoAway == /\ Done /\ ifl.http
          /\ IF ifl.server THEN "CLOSING" \notin ifl.flags
                                /\ ifl' = [ifl EXCEPT !.flags = @ \cup {"GOING_AWAY"}]
             ELSE ifl' = [ifl EXCEPT !.flags = @ \cup {"PEER_GOING_AWAY"}, !.ticked = FALSE]
          /\ UNCHANGED far

Close == /\ ifl' = [ifl EXCEPT !.flags = @ \cup {"CLOSING"}]
         /\ UNCHANGED far

\* QPACK decoder stream data piles up and is sent.
QdhUnsent == /\ InScope("peer", "bidi") /\ ifl.server /\ ifl.http /\ ~ifl.qdhUnsent
             /\ ifl' = [ifl EXCEPT !.qdhUnsent = TRUE]
             /\ UNCHANGED far
QdhSent == /\ ifl.qdhUnsent
           /\ ifl' = IF ifl.delayed
                     THEN [ifl EXCEPT !.qdhUnsent = FALSE, !.delayed = FALSE,
                                      !.sf = @ \cup {SendMaxStreams("bidi")}]
                     ELSE [ifl EXCEPT !.qdhUnsent = FALSE]
           /\ UNCHANGED far

\* A tick: the finished streams are freed, then frames go out if a packet can be
\* had.
TickStreams ==
    /\ Done
    /\ \E gone \in SUBSET {id \in ifl.streams : InScope(id.who, id.sd)}, send \in BOOLEAN :
        LET c == ServiceFinished(ifl, gone)
            d == IF send /\ SendMaxStreams("bidi") \in c.sf THEN GenMaxStreams(c, "bidi") ELSE c
            e == IF send /\ SendMaxStreams("uni") \in d.sf THEN GenMaxStreams(d, "uni") ELSE d
        IN /\ ifl' = [e EXCEPT !.ticked = TRUE,
                               !.sf = IF send THEN @ \ {StopSending, StreamsBlocked("uni")} ELSE @,
                               !.toStop = IF send THEN <<>> ELSE @]
           /\ far' = [far EXCEPT !.wire = @ \cup {[sd |-> sd, n |-> e.max["peer"][sd]] :
                          sd \in {x \in Dirs : SendMaxStreams(x) \in c.sf /\ SendMaxStreams(x) \notin e.sf}}]

\* The peer, which opens streams within what it was given.
PeerOpens(sd) == /\ InScope("peer", sd) /\ far.opened[sd] < far.allowed[sd] /\ far.opened[sd] < MaxOpened
                 /\ ~(ifl.http /\ ~ifl.server /\ sd = "bidi")
                 /\ far' = [far EXCEPT !.opened[sd] = @ + 1]
                 /\ UNCHANGED ifl
PeerLearns(w) == /\ far' = [far EXCEPT !.wire = @ \ {w},
                                       !.allowed[w.sd] = Max({@, w.n})]
                 /\ UNCHANGED ifl
PeerRaises(sd) == /\ InScope("us", sd) /\ Done /\ far.limit[sd] < MaxRaise
                  /\ far' = [far EXCEPT !.limit[sd] = @ + 1]
                  /\ UNCHANGED ifl

\* MAX_STREAMS frames may arrive in any order.
ReceiveMaxStreams ==
    /\ Done
    /\ \E sd \in Dirs, n \in 1 .. MaxRaise :
        /\ InScope("us", sd) /\ n <= far.limit[sd]
        /\ ifl' = [MaxStreamsFrame(ifl, sd, n) EXCEPT !.ticked = FALSE]
    /\ UNCHANGED far

\* A frame for any stream that was ever opened, however late it comes.
PeerFrames(id) == {"RESET_STREAM", "STREAM", "STOP_SENDING", "MAX_STREAM_DATA", "STREAM_DATA_BLOCKED"}
    \ CASE SendOnly(id) -> {"RESET_STREAM", "STREAM", "STREAM_DATA_BLOCKED"}
        [] RecvOnly(id) -> {"STOP_SENDING", "MAX_STREAM_DATA"}
        [] OTHER -> {}
Opened == {Id("us", sd, n) : sd \in Dirs, n \in 0 .. MaxOpened - 1}
          \cup {Id("peer", sd, n) : sd \in Dirs, n \in 0 .. MaxOpened - 1}
ReceiveFrame ==
    /\ Done
    /\ \E id \in Opened : \E t \in PeerFrames(id) :
        /\ InScope(id.who, id.sd)
        /\ id.n < (IF id.who = "us" THEN ifl.created[id.sd] ELSE far.opened[id.sd])
        /\ ifl' = CASE t = "STREAM" -> StreamFrame(ifl, id)
                    [] t = "RESET_STREAM" -> RstStreamFrame(ifl, id)
                    [] t = "STOP_SENDING" -> StopSendingFrame(ifl, id)
                    [] t = "MAX_STREAM_DATA" -> MaxStreamDataFrame(ifl, id)
                    [] OTHER -> StreamBlockedFrame(ifl, id)
    /\ UNCHANGED far

SLNext == /\ "ERROR" \notin ifl.flags
          /\ \/ HskDone \/ MakeStream \/ CancelPending \/ PushStream \/ PushAllowed \/ GoAway
             \/ Close \/ QdhUnsent \/ QdhSent \/ TickStreams \/ ReceiveMaxStreams \/ ReceiveFrame
             \/ \E sd \in Dirs : PeerOpens(sd) \/ PeerRaises(sd)
             \/ \E w \in far.wire : PeerLearns(w)

SLSpec == SLInit /\ [][SLNext]_slvars

-----------------------------------------------------------------------------
\* The peer never has more streams open than it was promised, never learns of a
\* limit we do not honour, and is never taken for an offender.
PeerIsServed ==
    /\ "ERROR" \notin ifl.flags
    /\ \A sd \in Dirs :
        /\ Cardinality({id \in ifl.streams : id.who = "peer" /\ id.sd = sd}) <= StreamsIn
        /\ far.allowed[sd] <= ifl.max["peer"][sd]

\* A peer that has used up its streams and has seen them all close gets new ones:
\* a MAX_STREAMS frame is scheduled, waits for the QPACK decoder stream, or is on
\* its way.
CreditIsNotForgotten ==
    \A sd \in Dirs :
        /\ far.opened[sd] = far.allowed[sd]
        /\ \A n \in 0 .. far.opened[sd] - 1 : Id("peer", sd, n) \in ifl.closedIds
        => \/ SendMaxStreams(sd) \in ifl.sf
           \/ sd = "bidi" /\ ifl.delayed /\ ifl.qdhUnsent
           \/ [sd |-> sd, n |-> ifl.max["peer"][sd]] \in far.wire

\* We stay within the peer's limit whatever the order of its MAX_STREAMS frames
\* (the assertion in avail_streams_count()), and after a tick no stream the
\* application waits for is left waiting that could have been opened or refused.
OwnStreamsSound ==
    /\ \A sd \in Dirs : ifl.created[sd] <= ifl.max["us"][sd] /\ ifl.max["us"][sd] <= far.limit[sd]
    /\ Done /\ ifl.ticked /\ ifl.pending > 0 => AvailStreams(ifl, "bidi") = 0

\* Stream limits on both sides, over every order of frames, closes and ticks.
StreamLimitsSound == PeerIsServed /\ CreditIsNotForgotten /\ OwnStreamsSound
=============================================================================

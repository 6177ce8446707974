----------------------------- MODULE MCProtocol -----------------------------
(***************************************************************************)
(* Model checking of what the two ends of a connection have to agree on:   *)
(* the formats of frames, packets and parameters, the limits on streams,   *)
(* what is said on control streams, how connections begin and end. One run *)
(* explores each by itself: focus, chosen in the initial state, is the     *)
(* part that moves; what is complete stays as it is.                       *)
(***************************************************************************)
EXTENDS ConnLife, StreamLimits

CONSTANTS V1, V2, V3, Rooms, Numbers, Sizes, RangeCounts, MinAckRoom, MAX_RANGES,
          MaxFrames,                                            \* IetfFrames
          BASE, MANTISSA, EXPONENT, GRooms, GNumbers, GSizes, GPacknos, GDelays,
          OUT_RANGES, GMaxFrames,                               \* GquicFrames
          ScidLens, TokenLens, DataSizes, MaxCoalesced,         \* PacketHeaders
          TV1, TV2, TV3, BUFSZ, Limits,                         \* TransParams
          GM_MAX_PACKETS, GM_MAX_DEFERRED, RejPackets, GmVersions, MaxArrivals, \* GquicMini
          GcRoles, MaxStreamsIn, MaxStreamsOut, GcQuota, Made, Offered, MaxId, PeerIds,
          MaxInputs, OddWith,                                   \* GquicConn
          HcRoles, HcVersions, HcStreams, HcMaxSaid, PfvBuf, UniStreams,
          HcModes                                               \* HttpControl

VARIABLES room, payload, frames, g_room, g_payload, g_frames,
          conn, dgram, sent, us, them, msg, outcome,
          mc, cli, gc, n_in, concern,
          how, wire, hr, hc, uni,
          focus

(***************************************************************************)
(* Formats.  Widths are scaled down, so that fields of every width occur   *)
(* with small numbers.                                                     *)
(***************************************************************************)
I == INSTANCE IetfFrames
G == INSTANCE GquicFrames
H == INSTANCE PacketHeaders
T == INSTANCE TransParams WITH V1 <- TV1, V2 <- TV2, V3 <- TV3

\* The life of connections, with ConnLife, and their streams, with StreamLimits.
M == INSTANCE GquicMini
C == INSTANCE GquicConn
X == INSTANCE HttpControl

ASSUME /\ I!IetfFramesAssumption /\ G!GquicFramesAssumption
       /\ H!PacketHeadersAssumption /\ T!TransParamsAssumption
       /\ StreamLimitsAssumption /\ X!HttpControlAssumption
       /\ M!GquicMiniAssumption /\ C!GquicConnAssumption

ivars == <<room, payload, frames>>
gvars == <<g_room, g_payload, g_frames>>
hvars == <<conn, dgram, sent>>
tvars == <<us, them, msg, outcome>>
xvars == <<how, wire, hr, hc, uni>>
allvars == <<ivars, gvars, hvars, tvars, ifl, far, fc, env, mc, cli,
             gc, n_in, concern, xvars, focus>>

MCInit ==
    /\ focus \in {"ietf_frames", "gquic_frames", "headers", "params", "limits", "life",
                  "gquic_mini", "gquic_conn", "http_control"}
    /\ IF focus = "ietf_frames" THEN I!IFInit ELSE room = 0 /\ payload = 0 /\ frames = 0
    /\ IF focus = "gquic_frames" THEN G!GFInit
       ELSE g_room = 0 /\ g_payload = 0 /\ g_frames = 0
    /\ IF focus = "headers" THEN H!PHInit ELSE conn = 0 /\ dgram = 0 /\ sent = 0
    /\ IF focus = "params" THEN T!TPInit
       ELSE us = 0 /\ them = 0 /\ msg = 0 /\ outcome = 0
    /\ SLInit
    /\ focus # "limits" => /\ ifl.server /\ ~ifl.http /\ InScope("us", "bidi")
                           /\ LET n == CHOOSE x \in PeerLimits : TRUE IN far.limit = Each(n, n)
    /\ LifeInit /\ (focus # "life" => fc.server /\ fc.silent)
    /\ IF focus = "gquic_mini" THEN M!GMInit ELSE mc = 0 /\ cli = 0
    /\ IF focus = "gquic_conn" THEN C!GCInit ELSE gc = 0 /\ n_in = 0 /\ concern = 0
    /\ IF focus = "http_control" THEN X!HCInit
       ELSE how = 0 /\ wire = 0 /\ hr = 0 /\ hc = 0 /\ uni = 0

MCNext ==
    /\ UNCHANGED focus
    /\ \/ focus = "ietf_frames" /\ I!IFNext
       \/ focus # "ietf_frames" /\ UNCHANGED ivars
    /\ \/ focus = "gquic_frames" /\ G!GFNext
       \/ focus # "gquic_frames" /\ UNCHANGED gvars
    /\ \/ focus = "headers" /\ H!PHNext
       \/ focus # "headers" /\ UNCHANGED hvars
    /\ \/ focus = "params" /\ T!TPNext
       \/ focus # "params" /\ UNCHANGED tvars
    /\ \/ focus = "limits" /\ SLNext
       \/ focus # "limits" /\ UNCHANGED <<ifl, far>>
    /\ \/ focus = "life" /\ LifeNext
       \/ focus # "life" /\ UNCHANGED <<fc, env>>
    /\ \/ focus = "gquic_mini" /\ M!GMNext
       \/ focus # "gquic_mini" /\ UNCHANGED <<mc, cli>>
    /\ \/ focus = "gquic_conn" /\ C!GCNext
       \/ focus # "gquic_conn" /\ UNCHANGED <<gc, n_in, concern>>
    /\ \/ focus = "http_control" /\ X!HCNext
       \/ focus # "http_control" /\ UNCHANGED xvars

MCSpec == MCInit /\ [][MCNext]_allvars

-----------------------------------------------------------------------------
\* IetfFrames and GquicFrames: whatever frames are written into a packet, as
\* they fit, the peer's parser reads the same frames from it.
FramesRoundTrip ==
    /\ focus = "ietf_frames" => I!FramesRoundTrip
    /\ focus = "gquic_frames" => G!GquicRoundTrip
\* PacketHeaders: the receiver of a datagram finds in it the packets that were
\* coalesced, each with its type, IDs, token and extent.
HeadersRoundTrip == focus = "headers" => H!HeadersRoundTrip
\* TransParams: both ends agree on the parameters, and the checks let through
\* an honest peer only.
TransParamsAgree == focus = "params" => T!TransParamsAgree
\* GquicMini: a Google QUIC handshake loses nothing, whatever is lost, repeated
\* or out of order, and hands over a sound state.  GquicConn: whatever the peer,
\* the user and the alarms do between two ticks, streams come and go once, delayed
\* streams, ACKs and GOAWAY are not forgotten, the engine does not spin, and the
\* peer is told of the end.
GquicSound ==
    /\ focus = "gquic_mini" => M!GquicMiniSound
    /\ focus = "gquic_conn" => C!GquicConnSound
\* HttpControl: in whatever pieces the control stream arrives, the frames that
\* were written take effect, once and in order, and only a peer that breaks the
\* protocol is refused.
HttpControlSound == focus = "http_control" => X!HttpControlSound
=============================================================================

------------------------------ MODULE ConnLife ------------------------------
(***************************************************************************)
(* The life of an IETF full connection after the handshake: ticks, the     *)
(* idle, no-progress and ping alarms, and the ways it ends (idle timeout,  *)
(* error, abort, lsquic_conn_close(), GOAWAY, the peer's CONNECTION_CLOSE, *)
(* stateless reset).  Times are counted down: an alarm at 0 rings in the   *)
(* next tick.  The send controller is reduced to the number of scheduled   *)
(* packets and to whether stream frames are outstanding.                   *)
(***************************************************************************)
EXTENDS Integers, FiniteSets, FiniteSetsExt

CONSTANTS
    IdleTo,         \* ifc_idle_to; 0: no idle timeout
    NoprogTo,       \* enp_noprog_timeout
    MaxRtt,         \* a live peer answers within this time
    MaxStreams,     \* bidirectional streams open at once
    MaxCalls        \* lsquic_conn_close(), _abort() and _going_away() calls

Off == IdleTo + NoprogTo + MaxRtt + 1       \* an alarm that is not set

ASSUME ConnLifeAssumption ==
    /\ {IdleTo, NoprogTo, MaxRtt, MaxStreams, MaxCalls} \subseteq Nat
    /\ 2 * MaxRtt < IdleTo

VARIABLES
    fc,     \* struct ietf_full_conn
    env     \* the peer, the network, and what the engine does with the connection

lifevars == <<fc, env>>

IMMEDIATE == {"TIMED_OUT", "ERROR", "ABORTED", "HSK_FAILED", "GOT_PRST"}
Immediate(c) == c.flags \cap IMMEDIATE # {}
Abort(c) == [c EXCEPT !.flags = @ \cup {"ERROR"}]

-----------------------------------------------------------------------------
(***************************************************************************)
(* Closing.                                                                *)
(***************************************************************************)
\* A server lets its responses out first, unless the client is gone already.
ConnOkToClose_bug(c) == TRUE
ConnOkToClose(c) == \/ ~c.server \/ "RECV_CLOSE" \in c.flags
                    \/ c.bidi = 0 /\ ~c.unacked

StartClosing(c, why) ==
    LET d == [c EXCEPT !.flags = @ \cup {"CLOSING"} \cup why]
    IN IF ConnOkToClose(d) THEN [d EXCEPT !.sf = @ \cup {"CONN_CLOSE"}] ELSE d

\* lsquic_conn_close(): the bidirectional streams are reset.
CiClose(c) == IF "CLOSING" \in c.flags THEN c
              ELSE StartClosing([c EXCEPT !.reset = c.bidi], {})

MaybeCloseConn(c) ==
    IF /\ c.server /\ "GOING_AWAY" \in c.flags /\ "CLOSING" \notin c.flags
       /\ c.bidi = 0
    THEN StartClosing(c, {"GOAWAY_CLOSE"}) ELSE c

CiGoingAway(c) ==
    IF c.http /\ c.flags \cap {"CLOSING", "GOING_AWAY"} = {}
    THEN MaybeCloseConn([c EXCEPT !.flags = @ \cup {"GOING_AWAY"}]) ELSE c

CiAbort(c) == [c EXCEPT !.flags = @ \cup {"ABORTED"}]

ConnectionCloseFrame(c) == [c EXCEPT !.flags = @ \cup {"RECV_CLOSE", "CLOSING"}]

AddClosePacket(c) == [c EXCEPT !.sched = 1, !.closePack = @ + 1,
                               !.mflags = @ \cup {"CONN_CLOSE_PACK"}]

\* Nothing but the CONNECTION_CLOSE goes out, and not even that for a silent close.
\* alloc: a packet could be had.
ImmediateClose(c, alloc) ==
    LET d == [c EXCEPT !.flags = @ \cup {"TICK_CLOSE"}, !.sched = 0, !.tick = @ \cup {"CLOSE"}]
    IN IF c.flags \cap {"TICK_CLOSE", "GOT_PRST"} # {} THEN [c EXCEPT !.tick = @ \cup {"CLOSE"}]
       ELSE IF (c.flags \cap {"TIMED_OUT", "HSK_FAILED"} # {} /\ c.silent) \/ ~alloc THEN d
       ELSE [AddClosePacket(d) EXCEPT
                !.tick = @ \cup {"SEND"},
                !.asserted = @ /\ c.flags \cap {"ERROR", "ABORTED", "HSK_FAILED"} # {}]

\* The end of a tick of a connection that is closing and may go.
GracefulClose(c, alloc) ==
    LET d == [c EXCEPT !.flags = @ \cup {"TICK_CLOSE"}, !.tick = @ \cup {"CLOSE"}]
    IN IF /\ "CONN_CLOSE_PACK" \notin c.mflags
          /\ \/ ~c.server /\ "HSK_FAILED" \notin c.flags
             \/ "GOAWAY_CLOSE" \in c.flags
             \/ "RECV_CLOSE" \in c.flags /\ ~(c.server /\ c.silent)
             \/ c.sched > 0
       THEN IF alloc THEN [AddClosePacket(d) EXCEPT !.tick = @ \cup {"SEND"},
                                                    !.sf = @ \ {"CONN_CLOSE"}]
            ELSE [Abort(d) EXCEPT !.tick = @ \cup {"SEND"}]
       ELSE d

Status(c) ==
    IF c.flags \cap (IMMEDIATE \cup {"CLOSING", "GOING_AWAY"}) = {} THEN "CONNECTED"
    ELSE IF "ERROR" \in c.flags THEN "ERROR"
    ELSE IF "TIMED_OUT" \in c.flags THEN "TIMED_OUT"
    ELSE IF "ABORTED" \in c.flags THEN "USER_ABORTED"
    ELSE IF "GOT_PRST" \in c.flags THEN "RESET"
    ELSE IF "HSK_FAILED" \in c.flags THEN "HSK_FAILURE"
    ELSE IF "CLOSING" \in c.flags THEN "CLOSED"
    ELSE "GOING_AWAY"

-----------------------------------------------------------------------------
(***************************************************************************)
(* Alarms.                                                                 *)
(***************************************************************************)
\* Expiry of the no-progress timeout, counted from now.
NoprogIn(c) == Max({0, NoprogTo - c.sinceProg})

\* The earlier of the idle and the no-progress timeout, set when a packet comes in.
SetEarliestIdleAlarm(c) ==
    LET to == IF c.noprog THEN Min({IdleTo, NoprogIn(c)}) ELSE IdleTo
    IN IF IdleTo > 0 THEN [c EXCEPT !.idle = to] ELSE c

\* ... and brought forward by a tick.
MaybeSetNoprogressAlarm(c) ==
    IF c.noprog /\ NoprogIn(c) < c.idle THEN [c EXCEPT !.idle = NoprogIn(c)] ELSE c

IdleAlarmExpired(c) ==
    IF c.noprog /\ c.sinceProg >= NoprogTo THEN Abort(c)
    ELSE [c EXCEPT !.flags = @ \cup {"TIMED_OUT"}]

PingAlarmExpired(c) == [c EXCEPT !.sf = @ \cup {"PING"}]

RingExpired(c) ==
    LET p == IF c.ping = 0 THEN PingAlarmExpired([c EXCEPT !.ping = Off]) ELSE c
    IN IF c.idle = 0 THEN IdleAlarmExpired([p EXCEPT !.idle = Off]) ELSE p

PingPeriod(c) == IF c.pings THEN IdleTo \div 2 ELSE 0

-----------------------------------------------------------------------------
(***************************************************************************)
(* ietf_full_conn_ci_tick().  e says what the rest of the connection does: *)
(* e.app: a call the application makes from a stream callback;             *)
(* e.err: an internal error occurs while frames are written;               *)
(* e.wrote: packets written; e.canSend: the congestion window allows more; *)
(* e.pacer: the pacer does not; e.alloc: a packet can be allocated;        *)
(* e.blocked: the engine cannot send what was scheduled.                   *)
(* at is the label the control has reached: "run", "end_write", "end" or   *)
(* "close_end".                                                            *)
(***************************************************************************)
CloseIfNecessary(c, e) ==
    IF c.at \in {"run", "end"} /\ Immediate(c)
    THEN [ImmediateClose(c, e.alloc) EXCEPT !.at = "close_end"] ELSE c
Then(c, e, Part(_, _)) == IF c.at = "run" THEN CloseIfNecessary(Part(c, e), e) ELSE c

AppCalls(c, e) == CASE e.app = "close" -> CiClose(c)
                    [] e.app = "abort" -> CiAbort(c)
                    [] e.app = "going_away" -> CiGoingAway(c)
                    [] OTHER -> c

\* Packets left over from the last tick are sent before anything new is written.
Leftovers(c, e) ==
    IF e.pacer THEN [c EXCEPT !.at = "end_write"]
    ELSE IF c.sched > 0
    THEN [c EXCEPT !.tick = @ \cup {"SEND"}, !.sched = Max({@, e.acks}),
                   !.at = IF "CLOSING" \in c.flags THEN "end_write" ELSE "end"]
    ELSE [c EXCEPT !.sched = e.acks]

\* All frames and stream data; SEND_PING is one of the flags with a function.
WriteFrames(c, e) ==
    IF e.err THEN Abort(c)
    ELSE LET d == [c EXCEPT !.sched = Max({@, e.wrote}), !.unacked = @ \/ e.wrote > 0]
         IN IF "PING" \in c.sf /\ e.canSend
            THEN [d EXCEPT !.sf = @ \ {"PING"}, !.sched = Max({@, 1}), !.elicits = TRUE]
            ELSE [d EXCEPT !.elicits = @ \/ e.wrote > 0]

\* end_write: close, ping, or note that something goes out.
EndWrite(c, e) ==
    IF "CLOSING" \in c.flags /\ ("CONN_CLOSE" \in c.sf \/ ConnOkToClose(c))
    THEN [GracefulClose(c, e.alloc) EXCEPT !.at = "end"]
    ELSE IF c.sched = 0 /\ ("PING" \notin c.sf \/ ~e.canSend)
    THEN [c EXCEPT !.tick = @ \cup {"QUIET"}, !.at = "end"]
    ELSE LET d == IF c.sched = 0
                  THEN [c EXCEPT !.sched = 1, !.sf = @ \ {"PING"}, !.elicits = TRUE]
                  ELSE IF PingPeriod(c) > 0 THEN [c EXCEPT !.ping = Off, !.sf = @ \ {"PING"}]
                  ELSE c
         IN [d EXCEPT !.ping = IF PingPeriod(c) > 0 /\ c.bidi > 0 THEN PingPeriod(c) ELSE @,
                      !.tick = @ \cup {"SEND"}, !.at = "end"]

\* Reset streams are freed; a connection that goes away may now close.
ServiceStreams(c) == LET d == [c EXCEPT !.bidi = @ - c.reset, !.reset = 0]
                     IN IF "GOING_AWAY" \in c.flags THEN MaybeCloseConn(d) ELSE d

Alarms(c, e) == RingExpired(MaybeSetNoprogressAlarm(c))
Written(c, e) == CASE c.at = "run" -> EndWrite([c EXCEPT !.at = "end_write"], e)
                   [] c.at = "end_write" -> EndWrite(c, e)
                   [] OTHER -> c
AtEnd(c, e) == IF c.at = "end" THEN CloseIfNecessary(ServiceStreams(c), e) ELSE c

CiTick(c, e) ==
    LET Run(d) == Then(Then(Then(Then(CloseIfNecessary(d, e), e, Alarms), e, AppCalls),
                            e, Leftovers), e, WriteFrames)
    IN AtEnd(Written(Run([c EXCEPT !.at = "run", !.tick = {}]), e), e)

\* The engine ticks a connection that has something to do, or whose alarm is due.
IsTickable(c) == Immediate(c) \/ c.sf # {} \/ c.sched > 0 \/ c.reset > 0
AlarmDue(c) == c.idle = 0 \/ c.ping = 0

-----------------------------------------------------------------------------
\* server, HTTP, es_silent_close, es_ping_period, es_noprogress_timeout
Mode(server, http, silent, pings, noprog) ==
    [server |-> server, http |-> http, silent |-> silent, pings |-> pings, noprog |-> noprog]
Modes == {Mode(FALSE, TRUE, TRUE, TRUE, TRUE), Mode(FALSE, FALSE, FALSE, TRUE, FALSE),
          Mode(TRUE, TRUE, TRUE, FALSE, TRUE), Mode(TRUE, TRUE, FALSE, FALSE, FALSE)}

LifeInit ==
    /\ \E m \in Modes :
        fc = [server |-> m.server, http |-> m.http, silent |-> m.silent,
              pings |-> m.pings, noprog |-> m.noprog, flags |-> {}, mflags |-> {}, sf |-> {},
              bidi |-> 0, reset |-> 0, unacked |-> FALSE,
              idle |-> IF IdleTo > 0 THEN IdleTo ELSE Off, ping |-> Off, sinceProg |-> 0,
              sched |-> 0, closePack |-> 0, elicits |-> FALSE, asserted |-> TRUE,
              at |-> "close_end", tick |-> {}]
    /\ env = [alive |-> TRUE, reply |-> Off, silence |-> 0, closed |-> FALSE, used |-> FALSE,
              calls |-> MaxCalls]

Live == ~env.closed

\* Choices of the rest of the connection in one tick, and when they can be made.
Choice(app, err, wrote, acks, canSend, pacer, alloc, blocked) ==
    [app |-> app, err |-> err, wrote |-> wrote, acks |-> acks, canSend |-> canSend,
     pacer |-> pacer, alloc |-> alloc, blocked |-> blocked]
Idle == Choice("none", FALSE, 0, 0, FALSE, FALSE, TRUE, FALSE)
TickChoices ==
    {[Idle EXCEPT !.canSend = TRUE, !.wrote = w] : w \in 0 .. 1}
    \cup {[Idle EXCEPT !.canSend = TRUE, !.wrote = w, !.blocked = TRUE] : w \in 0 .. 1}
    \cup {[Idle EXCEPT !.canSend = s, !.acks = 1] : s \in BOOLEAN}
    \cup {[Idle EXCEPT !.app = app] : app \in {"close", "abort", "going_away"}}
    \cup {[Idle EXCEPT !.pacer = TRUE], [Idle EXCEPT !.err = TRUE], [Idle EXCEPT !.alloc = FALSE]}
MayChoose(c, e) == /\ e.app # "none" => c.bidi > 0 /\ env.calls > 0
                   /\ e.wrote > 0 => c.bidi > 0 /\ e.canSend

Tick ==
    /\ Live /\ (IsTickable(fc) \/ AlarmDue(fc) \/ env.used)
    /\ \E e \in TickChoices : MayChoose(fc, e) /\ \E c \in {CiTick(fc, e)} :
        LET closed == "CLOSE" \in c.tick
            out == c.sched > 0 /\ ~e.blocked
        IN /\ fc' = [c EXCEPT !.elicits = @ /\ ~out /\ ~closed,
                              !.sched = IF closed \/ out THEN 0 ELSE @,
                              !.tick = {}, !.at = "close_end",
                              !.ping = IF closed THEN Off ELSE @,
                              !.idle = IF closed THEN Off ELSE @,
                              !.sinceProg = IF closed THEN 0 ELSE @]
           /\ env' = IF closed THEN [env EXCEPT !.closed = TRUE, !.used = FALSE, !.calls = 0,
                                                !.silence = 0, !.reply = Off]
                     ELSE [env EXCEPT !.used = FALSE, !.calls = IF e.app = "none" THEN @ ELSE @ - 1,
                                !.reply = IF out /\ c.elicits /\ env.alive /\ @ = Off
                                          THEN MaxRtt ELSE @]

\* lsquic_engine_packet_in() for this connection: what is wished for is a packet
\* whose frames are fr.
PacketIn(fr) ==
    LET c == SetEarliestIdleAlarm(fc)
        d == IF Immediate(c) THEN c
             ELSE CASE fr = "close" -> ConnectionCloseFrame(c)
                    [] fr = "reset" -> [c EXCEPT !.flags = @ \cup {"GOT_PRST"}]
                    [] fr = "bad" -> Abort(c)
                    [] fr = "ack" -> [c EXCEPT !.unacked = FALSE]
                    [] OTHER -> [c EXCEPT !.sinceProg = 0]
    IN /\ fc' = d
       /\ env' = [env EXCEPT !.silence = 0, !.used = TRUE,
                             !.reply = IF fr = "ack" THEN Off ELSE @,
                             !.alive = @ /\ fr \notin {"close", "reset", "bad"}]

PeerAnswers == Live /\ env.alive /\ env.reply # Off /\ PacketIn("ack")
PeerSends == Live /\ env.alive /\ \E fr \in {"data", "close", "reset", "bad"} : PacketIn(fr)
PeerDies == Live /\ env.alive /\ env' = [env EXCEPT !.alive = FALSE, !.reply = Off] /\ UNCHANGED fc

\* The application and the peer open and finish streams.
OpenStream == /\ Live /\ fc.bidi < MaxStreams /\ fc.flags \cap {"CLOSING", "GOING_AWAY"} = {}
              /\ ~Immediate(fc)
              /\ fc' = [fc EXCEPT !.bidi = @ + 1, !.sinceProg = 0]
              /\ env' = [env EXCEPT !.used = TRUE]
FinishStream == /\ Live /\ fc.bidi > fc.reset /\ ~Immediate(fc)
                /\ fc' = [fc EXCEPT !.reset = @ + 1]
                /\ UNCHANGED env
UserCalls == /\ Live /\ env.calls > 0
             /\ \E op \in {"close", "abort", "going_away"} : fc' = AppCalls(fc, [app |-> op])
             /\ env' = [env EXCEPT !.used = TRUE, !.calls = @ - 1]

\* Time passes once everything that is due has been done.
Lower(t) == IF t = Off THEN Off ELSE t - 1
TimePasses ==
    /\ Live /\ ~AlarmDue(fc) /\ ~IsTickable(fc) /\ ~env.used /\ env.reply # 0 /\ fc.sched = 0
    /\ fc' = [fc EXCEPT !.idle = Lower(@), !.ping = Lower(@),
                        !.sinceProg = IF fc.noprog THEN Min({@ + 1, NoprogTo}) ELSE 0]
    /\ env' = [env EXCEPT !.reply = Lower(@), !.silence = @ + 1]

LifeNext == Tick \/ PeerAnswers \/ PeerSends \/ PeerDies \/ OpenStream
            \/ FinishStream \/ UserCalls \/ TimePasses

LifeSpec == LifeInit /\ [][LifeNext]_lifevars

-----------------------------------------------------------------------------
\* CONNECTION_CLOSE is written at most once, whichever ways of closing meet in the
\* same tick, and never after the peer reset the connection.
ClosesOnce == fc.closePack <= 1 /\ (fc.closePack > 0 /\ "GOT_PRST" \in fc.flags
                                        => fc.flags \cap {"ERROR", "ABORTED", "CLOSING"} # {})

\* A server that was only asked to close has delivered its responses before it goes.
ResponsesDelivered ==
    env.closed /\ fc.server /\ ~Immediate(fc) /\ "RECV_CLOSE" \notin fc.flags
        => fc.bidi = 0 /\ ~fc.unacked

\* A connection does not outlive the idle timeout by more than the tick it takes.
IdleIsNoticed == IdleTo > 0 /\ ~env.closed => env.silence <= IdleTo

\* lsquic_conn_status() of a connection that has ended says how.
EndHasReason == env.closed => Status(fc) \notin {"CONNECTED", "GOING_AWAY"}

\* How a connection ends, over every race of timeouts, closes and errors.
LifeIsSound == ClosesOnce /\ ResponsesDelivered /\ IdleIsNoticed /\ EndHasReason

-----------------------------------------------------------------------------
(***************************************************************************)
(* What makes LifeIsSound inductive.  The shape of the state first.        *)
(***************************************************************************)
FcShape(c) ==
    /\ DOMAIN c = {"server", "http", "silent", "pings", "noprog", "flags", "mflags", "sf",
                   "bidi", "reset", "unacked", "idle", "ping", "sinceProg", "sched",
                   "closePack", "elicits", "asserted", "at", "tick"}
    /\ c.bidi \in Nat /\ c.reset \in Nat /\ c.idle \in Nat /\ c.ping \in Nat
    /\ c.sinceProg \in Nat /\ c.sched \in Nat /\ c.closePack \in Nat
EnvShape(v) ==
    /\ DOMAIN v = {"alive", "reply", "silence", "closed", "used", "calls"}
    /\ v.reply \in Nat /\ v.silence \in Nat

\* A connection that has not been closed has sent no CONNECTION_CLOSE, is going to
\* send one only once it may, and its idle alarm is set.
Unclosed(c) ==
    /\ c.closePack = 0 /\ "TICK_CLOSE" \notin c.flags /\ c.tick = {}
    /\ c.reset <= c.bidi
    /\ "CONN_CLOSE" \in c.sf => "CLOSING" \in c.flags /\ ConnOkToClose(c)
    /\ c.idle <= IdleTo

LifeInv ==
    /\ FcShape(fc) /\ EnvShape(env)
    /\ ~env.closed => Unclosed(fc) /\ env.silence + fc.idle <= IdleTo
    /\ ClosesOnce /\ ResponsesDelivered /\ EndHasReason

\* immediate_close(): assert(conn->ifc_flags & (IFC_ERROR|IFC_ABORTED|IFC_HSK_FAILED))
AssertHolds == fc.asserted
=============================================================================

--------------------------- MODULE ConnLife_proofs ---------------------------
(***************************************************************************)
(* How a connection ends (ConnLife), for any timeouts and any number of    *)
(* streams and calls: LifeInv is inductive.  A tick is a chain of parts,   *)
(* each of which may lead to the immediate close; the lemmas follow the    *)
(* connection through the chain.  Then the streams it may have meanwhile   *)
(* (StreamLimits), for any limits: SLInv is inductive.  Last the keys its  *)
(* packets are opened with (PacketProtection): PhaseInv is inductive.      *)
(***************************************************************************)
EXTENDS ConnLife, StreamLimits, PacketProtection, FiniteSetTheorems, TLAPS

(* The timeouts are numbers below the one that stands for "not set". *)
LEMMA Timeouts ==
    /\ IdleTo \in Nat /\ NoprogTo \in Nat /\ MaxRtt \in Nat /\ Off \in Nat
    /\ 0 < IdleTo /\ IdleTo < Off
  BY ConnLifeAssumption DEF Off

LEMMA MaxOfTwo ==
    ASSUME NEW a \in Int, NEW b \in Int
    PROVE  Max({a, b}) = IF a >= b THEN a ELSE b
<1>1. \A x \in Int : (x \in {a, b} /\ \A y \in {a, b} : x >= y) =>
            x = IF a >= b THEN a ELSE b
    OBVIOUS
<1>2. \E x \in {a, b} : \A y \in {a, b} : x >= y
    OBVIOUS
<1> QED BY <1>1, <1>2 DEF Max

LEMMA MinOfTwo ==
    ASSUME NEW a \in Int, NEW b \in Int
    PROVE  Min({a, b}) = IF a <= b THEN a ELSE b
<1>1. \A x \in Int : (x \in {a, b} /\ \A y \in {a, b} : x <= y) =>
            x = IF a <= b THEN a ELSE b
    OBVIOUS
<1>2. \E x \in {a, b} : \A y \in {a, b} : x <= y
    OBVIOUS
<1> QED BY <1>1, <1>2 DEF Min

-----------------------------------------------------------------------------
(* The rest of the connection writes whole packets. *)
Writes(e) == e.wrote \in Nat /\ e.acks \in Nat

LEMMA WritesAre ==
    ASSUME NEW e \in TickChoices
    PROVE  Writes(e)
<1>1. \A w \in 0 .. 1 : Writes([Idle EXCEPT !.canSend = TRUE, !.wrote = w])
                        /\ Writes([Idle EXCEPT !.canSend = TRUE, !.wrote = w, !.blocked = TRUE])
    BY DEF Writes, Idle, Choice
<1>2. \A s \in BOOLEAN : Writes([Idle EXCEPT !.canSend = s, !.acks = 1])
    BY DEF Writes, Idle, Choice
<1>3. \A app \in {"close", "abort", "going_away"} : Writes([Idle EXCEPT !.app = app])
    BY DEF Writes, Idle, Choice
<1>4. Writes([Idle EXCEPT !.pacer = TRUE]) /\ Writes([Idle EXCEPT !.err = TRUE])
      /\ Writes([Idle EXCEPT !.alloc = FALSE])
    BY DEF Writes, Idle, Choice
<1> QED BY <1>1, <1>2, <1>3, <1>4, Zenon DEF TickChoices

(* Within a tick, before anything closes the connection: what is known of  *)
(* it, but for whether it has to be closed at once.  idle is the time that *)
(* was left when the tick began.                                           *)
Running(c, e, idle) ==
    /\ FcShape(c) /\ c.closePack = 0 /\ "TICK_CLOSE" \notin c.flags /\ "CLOSE" \notin c.tick
    /\ c.reset <= c.bidi
    /\ "CONN_CLOSE" \in c.sf => "CLOSING" \in c.flags /\ ConnOkToClose(c)
    /\ c.idle <= idle \/ Immediate(c)
    /\ c.at = "run" /\ e.wrote > 0 => c.bidi > 0

(* ... and once something has. *)
Closed(c) ==
    /\ FcShape(c) /\ "CLOSE" \in c.tick
    /\ c.closePack <= 1
    /\ c.closePack > 0 /\ "GOT_PRST" \in c.flags => "CLOSING" \in c.flags
    /\ Immediate(c) \/ ("CLOSING" \in c.flags /\ ConnOkToClose(c))

(* Between two parts of the tick. *)
Reached(c, e, idle) ==
    \/ Running(c, e, idle) /\ ~Immediate(c) /\ c.at \in {"run", "end_write", "end"}
    \/ Closed(c) /\ c.at = "close_end"

(* immediate_close(), from wherever the tick finds a reason for it. *)
LEMMA ImmediateCloses ==
    ASSUME NEW e, NEW idle \in Nat, NEW c, Running(c, e, idle), Immediate(c)
    PROVE  Closed([ImmediateClose(c, e.alloc) EXCEPT !.at = "close_end"])
<1> DEFINE d == [c EXCEPT !.flags = @ \cup {"TICK_CLOSE"}, !.sched = 0,
                          !.tick = @ \cup {"CLOSE"}]
<1>1. CASE c.flags \cap {"TICK_CLOSE", "GOT_PRST"} # {}
    BY <1>1 DEF ImmediateClose, Running, Closed, FcShape, Immediate
<1>2. CASE c.flags \cap {"TICK_CLOSE", "GOT_PRST"} = {}
  <2>1. Closed([d EXCEPT !.at = "close_end"])
    BY <1>2 DEF Running, Closed, FcShape, Immediate
  <2>2. Closed([[AddClosePacket(d) EXCEPT !.tick = @ \cup {"SEND"},
                    !.asserted = @ /\ c.flags \cap {"ERROR", "ABORTED", "HSK_FAILED"} # {}]
                    EXCEPT !.at = "close_end"])
    <3> DEFINE g == AddClosePacket(d)
    <3> DEFINE h == [[g EXCEPT !.tick = @ \cup {"SEND"},
                        !.asserted = @ /\ c.flags \cap {"ERROR", "ABORTED", "HSK_FAILED"} # {}]
                        EXCEPT !.at = "close_end"]
    <3>1. FcShape(h)
      <4>1. FcShape(d)
        BY DEF Running, FcShape
      <4>2. FcShape(g)
        <5> HIDE DEF d
        <5> QED BY <4>1 DEF FcShape, AddClosePacket
      <4> HIDE DEF g
      <4> QED BY <4>2 DEF FcShape
    <3>2. h.closePack = 1
      BY DEF Running, FcShape, AddClosePacket
    <3>4. h.flags = c.flags \cup {"TICK_CLOSE"}
      BY DEF Running, FcShape, AddClosePacket
    <3>5. "CLOSE" \in h.tick
      BY DEF Running, FcShape, AddClosePacket
    <3> HIDE DEF h
    <3>3. Closed(h)
      BY <1>2, <3>1, <3>2, <3>4, <3>5 DEF Closed, Immediate
    <3> QED BY <3>3 DEF h
  <2> QED BY <1>2, <2>1, <2>2 DEF ImmediateClose
<1> QED BY <1>1, <1>2

(* CLOSE_IF_NECESSARY(): what has been running goes on or is closed. *)
LEMMA CloseIfNecessaryKeeps ==
    ASSUME NEW e, NEW idle \in Nat, NEW c, Running(c, e, idle),
           c.at \in {"run", "end"} \/ (c.at = "end_write" /\ ~Immediate(c))
    PROVE  Reached(CloseIfNecessary(c, e), e, idle)
<1>1. CASE c.at \in {"run", "end"} /\ Immediate(c)
  <2> DEFINE d == ImmediateClose(c, e.alloc)
  <2>1. Closed([d EXCEPT !.at = "close_end"])
    BY <1>1, ImmediateCloses
  <2>2. [d EXCEPT !.at = "close_end"].at = "close_end"
    <3>1. DOMAIN d = DOMAIN [d EXCEPT !.at = "close_end"]
      OBVIOUS
    <3>2. "at" \in DOMAIN d
      BY <2>1, <3>1 DEF Closed, FcShape
    <3> HIDE DEF d
    <3> QED BY <3>2
  <2> QED BY <1>1, <2>1, <2>2 DEF CloseIfNecessary, Reached
<1>2. CASE ~(c.at \in {"run", "end"} /\ Immediate(c))
    BY <1>2 DEF CloseIfNecessary, Reached
<1> QED BY <1>1, <1>2

-----------------------------------------------------------------------------
(***************************************************************************)
(* The parts of a tick.                                                    *)
(***************************************************************************)
(* A connection may go sooner, never later, when flags are added to it. *)
LEMMA StartClosingKeeps ==
    ASSUME NEW e, NEW idle \in Nat, NEW c, Running(c, e, idle), NEW why,
           why \in {{}, {"GOAWAY_CLOSE"}}
    PROVE  LET d == StartClosing(c, why) IN
           /\ Running(d, e, idle) /\ d.at = c.at /\ (Immediate(d) <=> Immediate(c))
           /\ d.idle = c.idle /\ d.tick = c.tick
  BY DEF Running, FcShape, StartClosing, ConnOkToClose, Immediate, IMMEDIATE

LEMMA AlarmsKeep ==
    ASSUME NEW e, NEW idle \in Nat, NEW c, Running(c, e, idle),
           c.at = "run", ~Immediate(c)
    PROVE  Running(Alarms(c, e), e, idle) /\ Alarms(c, e).at = "run"
<1> DEFINE d == MaybeSetNoprogressAlarm(c)
<1>1. NoprogIn(c) \in Nat
  <2>1. 0 \in Int /\ NoprogTo - c.sinceProg \in Int
    BY Timeouts DEF Running, FcShape
  <2> QED BY <2>1, MaxOfTwo DEF NoprogIn
<1>2. Running(d, e, idle) /\ d.at = "run" /\ ~Immediate(d)
    BY <1>1 DEF MaybeSetNoprogressAlarm, Running, FcShape, Immediate, ConnOkToClose
<1> HIDE DEF d
<1> DEFINE p == IF d.ping = 0 THEN PingAlarmExpired([d EXCEPT !.ping = Off]) ELSE d
<1>3. Running(p, e, idle) /\ p.at = "run" /\ ~Immediate(p)
    BY <1>2, Timeouts DEF PingAlarmExpired, Running, FcShape, Immediate, ConnOkToClose
<1> HIDE DEF p
<1>4. Running(IdleAlarmExpired([p EXCEPT !.idle = Off]), e, idle)
      /\ IdleAlarmExpired([p EXCEPT !.idle = Off]).at = "run"
    BY <1>3, Timeouts
       DEF IdleAlarmExpired, Abort, Running, FcShape, Immediate, IMMEDIATE, ConnOkToClose
<1>5. RingExpired(d) = IF d.idle = 0 THEN IdleAlarmExpired([p EXCEPT !.idle = Off]) ELSE p
    BY DEF RingExpired, p
<1> QED BY <1>3, <1>4, <1>5 DEF Alarms, d

(* The calls an application can make, from a callback or from outside. *)
LEMMA AppCallsKeep ==
    ASSUME NEW e, NEW o, NEW idle \in Nat, NEW c, Running(c, e, idle)
    PROVE  LET d == AppCalls(c, o) IN
           Running(d, e, idle) /\ d.at = c.at /\ d.idle = c.idle /\ d.tick = c.tick
<1> DEFINE Kept(d) == Running(d, e, idle) /\ d.at = c.at /\ d.idle = c.idle /\ d.tick = c.tick
<1>1. Kept(CiClose(c))
  <2> DEFINE r == [c EXCEPT !.reset = c.bidi]
  <2>1. Kept(r)
    BY DEF Running, FcShape, ConnOkToClose, Immediate
  <2> HIDE DEF r
  <2>2. Kept(StartClosing(r, {}))
    BY <2>1, StartClosingKeeps
  <2> QED BY <2>2 DEF CiClose, r
<1>2. Kept(CiAbort(c))
    BY DEF CiAbort, Running, FcShape, ConnOkToClose, Immediate, IMMEDIATE
<1>3. Kept(CiGoingAway(c))
  <2> DEFINE g == [c EXCEPT !.flags = @ \cup {"GOING_AWAY"}]
  <2>1. Kept(g)
    BY DEF Running, FcShape, ConnOkToClose, Immediate
  <2> HIDE DEF g
  <2>2. Kept(StartClosing(g, {"GOAWAY_CLOSE"}))
    BY <2>1, StartClosingKeeps
  <2> QED BY <2>1, <2>2 DEF CiGoingAway, MaybeCloseConn, g
<1> QED BY <1>1, <1>2, <1>3 DEF AppCalls

LEMMA LeftoversKeep ==
    ASSUME NEW e, Writes(e), NEW idle \in Nat, NEW c, Running(c, e, idle), ~Immediate(c),
           c.at = "run"
    PROVE  LET d == Leftovers(c, e) IN
           Running(d, e, idle) /\ d.at \in {"run", "end_write", "end"} /\ ~Immediate(d)
<1>1. Max({c.sched, e.acks}) \in Nat
    BY MaxOfTwo DEF Writes, Running, FcShape
<1> QED BY <1>1 DEF Leftovers, Writes, Running, FcShape, ConnOkToClose, Immediate

LEMMA WriteFramesKeep ==
    ASSUME NEW e, Writes(e), NEW idle \in Nat, NEW c, Running(c, e, idle), c.at = "run"
    PROVE  Running(WriteFrames(c, e), e, idle) /\ WriteFrames(c, e).at = "run"
<1>1. CASE e.err
    BY <1>1 DEF WriteFrames, Abort, Running, FcShape, ConnOkToClose, Immediate, IMMEDIATE
<1>2. CASE ~e.err
  <2> DEFINE m == Max({c.sched, e.wrote})
  <2> DEFINE d == [c EXCEPT !.sched = m, !.unacked = @ \/ e.wrote > 0]
  <2>1. m \in Nat
    BY MaxOfTwo DEF Writes, Running, FcShape
  <2> HIDE DEF m
  <2>2. Running(d, e, idle) /\ d.at = "run"
    <3>1. /\ FcShape(d) /\ d.closePack = 0 /\ d.flags = c.flags /\ d.tick = c.tick
          /\ d.reset = c.reset /\ d.bidi = c.bidi /\ d.sf = c.sf /\ d.idle = c.idle
          /\ d.at = c.at /\ (d.server <=> c.server)
          /\ (d.unacked <=> c.unacked \/ e.wrote > 0)
      BY <2>1 DEF Running, FcShape
    <3>2. ConnOkToClose(c) => ConnOkToClose(d)
      BY <3>1 DEF Running, FcShape, Writes, ConnOkToClose
    <3> QED BY <3>1, <3>2 DEF Running, Immediate
  <2> HIDE DEF d
  <2>3. Max({d.sched, 1}) \in Nat
    BY <2>2, MaxOfTwo DEF Running, FcShape
  <2>4. Running([d EXCEPT !.sf = @ \ {"PING"}, !.sched = Max({@, 1}), !.elicits = TRUE], e, idle)
        /\ [d EXCEPT !.sf = @ \ {"PING"}, !.sched = Max({@, 1}), !.elicits = TRUE].at = "run"
    BY <2>2, <2>3 DEF Running, FcShape, ConnOkToClose, Immediate
  <2>5. Running([d EXCEPT !.elicits = @ \/ e.wrote > 0], e, idle)
        /\ [d EXCEPT !.elicits = @ \/ e.wrote > 0].at = "run"
    BY <2>2 DEF Running, FcShape, ConnOkToClose, Immediate
  <2> QED BY <1>2, <2>4, <2>5 DEF WriteFrames, d, m
<1> QED BY <1>1, <1>2

(* A tick that has closed the connection gracefully, and goes on to its end. *)
Graceful(c) == /\ Closed(c) /\ "TICK_CLOSE" \in c.flags /\ "CLOSING" \in c.flags
               /\ c.reset <= c.bidi

LEMMA GracefulCloses ==
    ASSUME NEW e, NEW idle \in Nat, NEW c, Running(c, e, idle), ~Immediate(c),
           "CLOSING" \in c.flags, ConnOkToClose(c)
    PROVE  Graceful([GracefulClose(c, e.alloc) EXCEPT !.at = "end"])
<1> DEFINE d == [c EXCEPT !.flags = @ \cup {"TICK_CLOSE"}, !.tick = @ \cup {"CLOSE"}]
<1>1. /\ FcShape(d) /\ d.closePack = 0 /\ "CLOSE" \in d.tick
      /\ "TICK_CLOSE" \in d.flags /\ "CLOSING" \in d.flags /\ d.reset <= d.bidi
      /\ ConnOkToClose(d)
    BY DEF Running, FcShape, ConnOkToClose
<1>2. GracefulClose(c, e.alloc) \in
        {[AddClosePacket(d) EXCEPT !.tick = @ \cup {"SEND"}, !.sf = @ \ {"CONN_CLOSE"}],
         [Abort(d) EXCEPT !.tick = @ \cup {"SEND"}], d}
    BY DEF GracefulClose
<1> HIDE DEF d
<1>3. Graceful([d EXCEPT !.at = "end"])
    BY <1>1 DEF Graceful, Closed, FcShape, ConnOkToClose
<1>4. Graceful([[Abort(d) EXCEPT !.tick = @ \cup {"SEND"}] EXCEPT !.at = "end"])
    BY <1>1 DEF Graceful, Closed, FcShape, ConnOkToClose, Abort
<1>5. Graceful([[AddClosePacket(d) EXCEPT !.tick = @ \cup {"SEND"}, !.sf = @ \ {"CONN_CLOSE"}]
                   EXCEPT !.at = "end"])
  <2> DEFINE g == AddClosePacket(d)
  <2>1. /\ FcShape(g) /\ g.closePack = 1 /\ "CLOSE" \in g.tick
        /\ "TICK_CLOSE" \in g.flags /\ "CLOSING" \in g.flags /\ g.reset <= g.bidi
        /\ ConnOkToClose(g)
    BY <1>1 DEF FcShape, ConnOkToClose, AddClosePacket
  <2> HIDE DEF g
  <2>2. Graceful([[g EXCEPT !.tick = @ \cup {"SEND"}, !.sf = @ \ {"CONN_CLOSE"}]
                    EXCEPT !.at = "end"])
    BY <2>1 DEF Graceful, Closed, FcShape, ConnOkToClose
  <2> QED BY <2>2 DEF g
<1> QED BY <1>2, <1>3, <1>4, <1>5

LEMMA EndWriteKeeps ==
    ASSUME NEW e, NEW idle \in Nat, NEW c, Running(c, e, idle),
           c.at \in {"run", "end_write"}, ~Immediate(c)
    PROVE  LET d == EndWrite(c, e) IN
           d.at = "end" /\ ((Running(d, e, idle) /\ ~Immediate(d)) \/ Graceful(d))
<1>0. FcShape(c) /\ PingPeriod(c) \in Nat /\ Off \in Nat
    BY Timeouts DEF Running, PingPeriod
<1>1. CASE "CLOSING" \in c.flags /\ ("CONN_CLOSE" \in c.sf \/ ConnOkToClose(c))
  <2> DEFINE g == GracefulClose(c, e.alloc)
  <2>1. Graceful([g EXCEPT !.at = "end"])
    BY <1>1, GracefulCloses DEF Running
  <2>2. [g EXCEPT !.at = "end"].at = "end"
    <3>1. DOMAIN g = DOMAIN [g EXCEPT !.at = "end"]
      OBVIOUS
    <3>2. "at" \in DOMAIN g
      BY <2>1, <3>1 DEF Graceful, Closed, FcShape
    <3> HIDE DEF g
    <3> QED BY <3>2
  <2> QED BY <1>1, <2>1, <2>2 DEF EndWrite
<1>2. CASE /\ ~("CLOSING" \in c.flags /\ ("CONN_CLOSE" \in c.sf \/ ConnOkToClose(c)))
           /\ c.sched = 0 /\ ("PING" \notin c.sf \/ ~e.canSend)
  <2>1. Running([c EXCEPT !.tick = @ \cup {"QUIET"}, !.at = "end"], e, idle)
        /\ ~Immediate([c EXCEPT !.tick = @ \cup {"QUIET"}, !.at = "end"])
    BY DEF Running, FcShape, Immediate, ConnOkToClose
  <2>2. EndWrite(c, e) = [c EXCEPT !.tick = @ \cup {"QUIET"}, !.at = "end"]
    BY <1>2 DEF EndWrite
  <2>3. [c EXCEPT !.tick = @ \cup {"QUIET"}, !.at = "end"].at = "end"
    BY <1>0 DEF FcShape
  <2> QED BY <2>1, <2>2, <2>3
<1>3. CASE /\ ~("CLOSING" \in c.flags /\ ("CONN_CLOSE" \in c.sf \/ ConnOkToClose(c)))
           /\ ~(c.sched = 0 /\ ("PING" \notin c.sf \/ ~e.canSend))
  <2> DEFINE d == IF c.sched = 0
                  THEN [c EXCEPT !.sched = 1, !.sf = @ \ {"PING"}, !.elicits = TRUE]
                  ELSE IF PingPeriod(c) > 0 THEN [c EXCEPT !.ping = Off, !.sf = @ \ {"PING"}]
                  ELSE c
             t == IF PingPeriod(c) > 0 /\ c.bidi > 0 THEN PingPeriod(c) ELSE d.ping
             f == [d EXCEPT !.ping = t, !.tick = @ \cup {"SEND"}, !.at = "end"]
  <2>1. Running(d, e, idle) /\ ~Immediate(d)
    BY <1>0 DEF Running, FcShape, Immediate, ConnOkToClose
  <2>2. EndWrite(c, e) = f
    BY <1>3 DEF EndWrite
  <2> HIDE DEF d
  <2>3. t \in Nat
    BY <1>0, <2>1 DEF Running, FcShape
  <2> HIDE DEF t
  <2>4. Running(f, e, idle) /\ ~Immediate(f) /\ f.at = "end"
    BY <2>1, <2>3 DEF Running, FcShape, Immediate, ConnOkToClose
  <2> QED BY <2>2, <2>4
<1> QED BY <1>1, <1>2, <1>3

(* The end of a tick: the streams that were reset are freed. *)
Final(c, e, idle) == (Running(c, e, idle) /\ ~Immediate(c) /\ c.at = "end") \/ Closed(c)

LEMMA ServiceStreamsKeeps ==
    ASSUME NEW e, NEW idle \in Nat, NEW c, c.at = "end",
           (Running(c, e, idle) /\ ~Immediate(c)) \/ Graceful(c)
    PROVE  LET d == ServiceStreams(c) IN
           d.at = "end" /\ ((Running(d, e, idle) /\ ~Immediate(d)) \/ Graceful(d))
<1> DEFINE d == [c EXCEPT !.bidi = @ - c.reset, !.reset = 0]
<1>1. CASE Running(c, e, idle) /\ ~Immediate(c)
  <2>1. Running(d, e, idle) /\ ~Immediate(d) /\ d.at = "end"
    <3>1. /\ FcShape(d) /\ d.closePack = 0 /\ d.flags = c.flags /\ d.tick = c.tick
          /\ d.reset = 0 /\ d.bidi = c.bidi - c.reset /\ d.sf = c.sf /\ d.idle = c.idle
          /\ d.at = "end" /\ (d.server <=> c.server) /\ (d.unacked <=> c.unacked)
      BY <1>1 DEF Running, FcShape
    <3>2. ConnOkToClose(c) => ConnOkToClose(d)
      BY <1>1, <3>1 DEF Running, FcShape, ConnOkToClose
    <3> HIDE DEF d
    <3> QED BY <1>1, <3>1, <3>2 DEF Running, FcShape, Immediate
  <2> HIDE DEF d
  <2>2. LET g == StartClosing(d, {"GOAWAY_CLOSE"}) IN
        Running(g, e, idle) /\ ~Immediate(g) /\ g.at = "end"
    BY <2>1, StartClosingKeeps
  <2> QED BY <2>1, <2>2 DEF ServiceStreams, MaybeCloseConn, d
<1>2. CASE Graceful(c)
  <2>1. /\ FcShape(d) /\ d.closePack = c.closePack /\ d.flags = c.flags /\ d.tick = c.tick
        /\ d.reset = 0 /\ d.bidi = c.bidi - c.reset
        /\ d.at = "end" /\ (d.server <=> c.server) /\ (d.unacked <=> c.unacked)
    BY <1>2 DEF Graceful, Closed, FcShape
  <2>2. ConnOkToClose(c) => ConnOkToClose(d)
    BY <1>2, <2>1 DEF Graceful, Closed, FcShape, ConnOkToClose
  <2>3. ServiceStreams(c) = d
    BY <1>2, <2>1 DEF ServiceStreams, MaybeCloseConn, Graceful
  <2> HIDE DEF d
  <2>4. Graceful(d)
    BY <1>2, <2>1, <2>2 DEF Graceful, Closed, FcShape, Immediate
  <2> QED BY <2>1, <2>3, <2>4
<1> QED BY <1>1, <1>2

LEMMA AtEndKeeps ==
    ASSUME NEW e, NEW idle \in Nat, NEW c, c.at = "end",
           (Running(c, e, idle) /\ ~Immediate(c)) \/ Graceful(c)
    PROVE  Final(AtEnd(c, e), e, idle)
<1> DEFINE d == ServiceStreams(c)
<1>1. d.at = "end" /\ ((Running(d, e, idle) /\ ~Immediate(d)) \/ Graceful(d))
    BY ServiceStreamsKeeps
<1>2. AtEnd(c, e) = CloseIfNecessary(d, e)
    BY DEF AtEnd
<1> HIDE DEF d
<1>3. CASE ~Immediate(d)
    BY <1>1, <1>2, <1>3 DEF CloseIfNecessary, Final, Graceful
<1>4. CASE Immediate(d)
  <2>1. Graceful(d)
    BY <1>1, <1>4
  <2>2. CloseIfNecessary(d, e) = [[d EXCEPT !.tick = @ \cup {"CLOSE"}] EXCEPT !.at = "close_end"]
    BY <1>1, <1>4, <2>1 DEF CloseIfNecessary, ImmediateClose, Graceful
  <2>3. Closed([[d EXCEPT !.tick = @ \cup {"CLOSE"}] EXCEPT !.at = "close_end"])
    BY <2>1, <1>4 DEF Graceful, Closed, FcShape, Immediate
  <2> QED BY <1>2, <2>2, <2>3 DEF Final
<1> QED BY <1>3, <1>4

(***************************************************************************)
(* ietf_full_conn_ci_tick() as a whole.                                    *)
(***************************************************************************)
LEMMA TickEnds ==
    ASSUME NEW e, Writes(e), NEW idle \in Nat, NEW c,
           Running(c, e, idle), c.at = "run"
    PROVE  LET d1 == Then(CloseIfNecessary(c, e), e, Alarms)
               d2 == Then(d1, e, AppCalls)
               d3 == Then(d2, e, Leftovers)
               d4 == Then(d3, e, WriteFrames)
           IN Final(AtEnd(Written(d4, e), e), e, idle)
<1> DEFINE d0 == CloseIfNecessary(c, e)
           d1 == Then(d0, e, Alarms)
           d2 == Then(d1, e, AppCalls)
           d3 == Then(d2, e, Leftovers)
           d4 == Then(d3, e, WriteFrames)
           d5 == Written(d4, e)
<1>0. Reached(d0, e, idle)
    BY CloseIfNecessaryKeeps
<1> HIDE DEF d0
<1>1. Reached(d1, e, idle)
  <2>1. CASE d0.at = "run"
    <3>1. Running(d0, e, idle) /\ ~Immediate(d0)
      BY <1>0, <2>1 DEF Reached
    <3>2. Running(Alarms(d0, e), e, idle) /\ Alarms(d0, e).at = "run"
      BY <3>1, <2>1, AlarmsKeep
    <3> QED BY <2>1, <3>2, CloseIfNecessaryKeeps DEF Then
  <2> QED BY <1>0, <2>1 DEF Then
<1> HIDE DEF d1
<1>2. Reached(d2, e, idle)
  <2>1. CASE d1.at = "run"
    <3>1. Running(d1, e, idle)
      BY <1>1, <2>1 DEF Reached
    <3>2. Running(AppCalls(d1, e), e, idle) /\ AppCalls(d1, e).at = "run"
      BY <3>1, <2>1, AppCallsKeep
    <3> QED BY <2>1, <3>2, CloseIfNecessaryKeeps DEF Then
  <2> QED BY <1>1, <2>1 DEF Then
<1> HIDE DEF d2
<1>3. Reached(d3, e, idle)
  <2>1. CASE d2.at = "run"
    <3>1. Running(d2, e, idle) /\ ~Immediate(d2)
      BY <1>2, <2>1 DEF Reached
    <3>2. LET d == Leftovers(d2, e) IN
          Running(d, e, idle) /\ d.at \in {"run", "end_write", "end"} /\ ~Immediate(d)
      BY <3>1, <2>1, LeftoversKeep
    <3> QED BY <2>1, <3>2, CloseIfNecessaryKeeps DEF Then
  <2> QED BY <1>2, <2>1 DEF Then
<1> HIDE DEF d3
<1>4. Reached(d4, e, idle)
  <2>1. CASE d3.at = "run"
    <3>1. Running(d3, e, idle)
      BY <1>3, <2>1 DEF Reached
    <3>2. Running(WriteFrames(d3, e), e, idle) /\ WriteFrames(d3, e).at = "run"
      BY <3>1, <2>1, WriteFramesKeep
    <3> QED BY <2>1, <3>2, CloseIfNecessaryKeeps DEF Then
  <2> QED BY <1>3, <2>1 DEF Then
<1> HIDE DEF d4
<1>5. \/ d5.at = "end" /\ ((Running(d5, e, idle) /\ ~Immediate(d5)) \/ Graceful(d5))
      \/ d5.at = "close_end" /\ Closed(d5)
  <2>1. CASE d4.at = "run"
    <3> DEFINE w == [d4 EXCEPT !.at = "end_write"]
    <3>1. Running(w, e, idle) /\ w.at = "end_write" /\ ~Immediate(w)
      BY <1>4, <2>1 DEF Reached, Running, FcShape, Immediate, ConnOkToClose
    <3>2. d5 = EndWrite(w, e)
      BY <2>1 DEF Written
    <3> HIDE DEF w
    <3> QED BY <3>1, <3>2, EndWriteKeeps
  <2>2. CASE d4.at = "end_write"
    <3>1. d5 = EndWrite(d4, e)
      BY <2>2 DEF Written
    <3>2. Running(d4, e, idle) /\ ~Immediate(d4)
      BY <1>4, <2>2 DEF Reached
    <3> QED BY <2>2, <3>1, <3>2, EndWriteKeeps
  <2>3. CASE d4.at \in {"end", "close_end"}
    BY <1>4, <2>3 DEF Written, Reached
  <2> QED BY <1>4, <2>1, <2>2, <2>3 DEF Reached
<1> HIDE DEF d5
<1>6. Final(AtEnd(d5, e), e, idle)
  <2>1. CASE d5.at = "end"
    BY <1>5, <2>1, AtEndKeeps
  <2>2. CASE d5.at = "close_end"
    BY <1>5, <2>2 DEF AtEnd, Final
  <2> QED BY <1>5, <2>1, <2>2
<1> QED BY <1>6 DEF d0, d1, d2, d3, d4, d5

LEMMA CiTickEnds ==
    ASSUME NEW e, Writes(e), NEW c, FcShape(c), Unclosed(c),
           e.wrote > 0 => c.bidi > 0
    PROVE  Final(CiTick(c, e), e, c.idle)
<1> DEFINE s == [c EXCEPT !.at = "run", !.tick = {}]
<1>1. Running(s, e, c.idle) /\ s.at = "run"
    BY DEF Running, FcShape, Unclosed, ConnOkToClose
<1>2. c.idle \in Nat
    BY DEF FcShape
<1> HIDE DEF s
<1>3. Final(AtEnd(Written(Then(Then(Then(Then(CloseIfNecessary(s, e), e, Alarms), e, AppCalls),
                            e, Leftovers), e, WriteFrames), e), e), e, c.idle)
    BY <1>1, <1>2, TickEnds
<1> QED BY <1>3 DEF CiTick, s

-----------------------------------------------------------------------------
(***************************************************************************)
(* The steps.                                                              *)
(***************************************************************************)
LEMMA EndsWithReason ==
    ASSUME NEW c, Immediate(c) \/ "CLOSING" \in c.flags
    PROVE  Status(c) \notin {"CONNECTED", "GOING_AWAY"}
  BY DEF Status, Immediate, IMMEDIATE

LEMMA TickStep ==
    ASSUME LifeInv, Tick
    PROVE  LifeInv'
<1>1. FcShape(fc) /\ EnvShape(env) /\ ~env.closed /\ Unclosed(fc)
      /\ env.silence + fc.idle <= IdleTo
    BY DEF LifeInv, Tick, Live
<1>2. PICK e \in TickChoices : MayChoose(fc, e) /\ \E c \in {CiTick(fc, e)} :
        LET closed == "CLOSE" \in c.tick
            out == c.sched > 0 /\ ~e.blocked
        IN /\ fc' = [c EXCEPT !.elicits = @ /\ ~out /\ ~closed,
                              !.sched = IF closed \/ out THEN 0 ELSE @,
                              !.tick = {}, !.at = "close_end",
                              !.ping = IF closed THEN Off ELSE @,
                              !.idle = IF closed THEN Off ELSE @,
                              !.sinceProg = IF closed THEN 0 ELSE @]
           /\ env' = IF closed THEN [env EXCEPT !.closed = TRUE, !.used = FALSE, !.calls = 0,
                                                !.silence = 0, !.reply = Off]
                     ELSE [env EXCEPT !.used = FALSE, !.calls = IF e.app = "none" THEN @ ELSE @ - 1,
                                !.reply = IF out /\ c.elicits /\ env.alive /\ @ = Off
                                          THEN MaxRtt ELSE @]
    BY Zenon DEF Tick
<1> DEFINE c == CiTick(fc, e)
           closed == "CLOSE" \in c.tick
           out == c.sched > 0 /\ ~e.blocked
<1>7. fc' = [c EXCEPT !.elicits = @ /\ ~out /\ ~closed,
                      !.sched = IF closed \/ out THEN 0 ELSE @,
                      !.tick = {}, !.at = "close_end",
                      !.ping = IF closed THEN Off ELSE @,
                      !.idle = IF closed THEN Off ELSE @,
                      !.sinceProg = IF closed THEN 0 ELSE @]
  <2>1. \E d \in {c} : fc' = [d EXCEPT !.elicits = @ /\ ~(d.sched > 0 /\ ~e.blocked)
                                                  /\ ~("CLOSE" \in d.tick),
            !.sched = IF "CLOSE" \in d.tick \/ (d.sched > 0 /\ ~e.blocked) THEN 0 ELSE @,
            !.tick = {}, !.at = "close_end",
            !.ping = IF "CLOSE" \in d.tick THEN Off ELSE @,
            !.idle = IF "CLOSE" \in d.tick THEN Off ELSE @,
            !.sinceProg = IF "CLOSE" \in d.tick THEN 0 ELSE @]
    BY <1>2, Zenon
  <2> HIDE DEF c
  <2> QED BY <2>1, ZenonT(60)
<1>3. Writes(e) /\ (e.wrote > 0 => fc.bidi > 0)
    BY <1>2, WritesAre DEF MayChoose
<1>4. Final(c, e, fc.idle)
    BY <1>1, <1>3, CiTickEnds
<1> HIDE DEF c
<1>5. CASE closed
  <2>1. FcShape(c) /\ Closed(c)
    BY <1>4, <1>5 DEF Final, Running, Closed
  <2>2. /\ FcShape(fc') /\ fc'.flags = c.flags /\ fc'.closePack = c.closePack
        /\ fc'.bidi = c.bidi /\ (fc'.server <=> c.server) /\ (fc'.unacked <=> c.unacked)
    <3>1. fc' = [c EXCEPT !.elicits = @ /\ ~out /\ ~closed, !.sched = 0, !.tick = {},
                          !.at = "close_end", !.ping = Off, !.idle = Off, !.sinceProg = 0]
      BY <1>2, <1>5 DEF c
    <3> QED BY <2>1, <3>1, Timeouts DEF FcShape
  <2>3. EnvShape(env') /\ env'.closed
    BY <1>1, <1>2, <1>5, Timeouts DEF c, EnvShape
  <2>4. ConnOkToClose(c) => ConnOkToClose(fc')
    BY <2>2 DEF ConnOkToClose
  <2>5. ClosesOnce'
    BY <2>1, <2>2 DEF ClosesOnce, Closed
  <2>6. ResponsesDelivered'
    BY <2>1, <2>2, <2>4 DEF ResponsesDelivered, Closed, Immediate, ConnOkToClose
  <2>7. EndHasReason'
    <3>1. Immediate(fc') \/ "CLOSING" \in fc'.flags
      BY <2>1, <2>2 DEF Closed, Immediate
    <3> QED BY <3>1, EndsWithReason DEF EndHasReason
  <2> QED BY <2>2, <2>3, <2>5, <2>6, <2>7 DEF LifeInv
<1>6. CASE ~closed
  <2>1. Running(c, e, fc.idle) /\ ~Immediate(c)
    BY <1>4, <1>6 DEF Final, Closed
  <2>2. /\ FcShape(fc') /\ fc'.flags = c.flags /\ fc'.closePack = 0 /\ fc'.sf = c.sf
        /\ fc'.bidi = c.bidi /\ fc'.reset = c.reset /\ fc'.idle = c.idle /\ fc'.tick = {}
        /\ (fc'.server <=> c.server) /\ (fc'.unacked <=> c.unacked)
    BY <1>6, <1>7, <2>1 DEF Running, FcShape
  <2>3. EnvShape(env') /\ ~env'.closed /\ env'.silence = env.silence
    BY <1>1, <1>2, <1>6, Timeouts DEF c, EnvShape
  <2>4. ConnOkToClose(c) => ConnOkToClose(fc')
    BY <2>2 DEF ConnOkToClose
  <2>5. Unclosed(fc') /\ env'.silence + fc'.idle <= IdleTo
    BY <1>1, <2>1, <2>2, <2>3, <2>4, Timeouts DEF Unclosed, Running, FcShape, EnvShape
  <2> QED BY <2>2, <2>3, <2>5
          DEF LifeInv, ClosesOnce, ResponsesDelivered, EndHasReason, Unclosed
<1> QED BY <1>5, <1>6

(* Whatever else happens leaves an unclosed connection one: what is left   *)
(* to show of such a step.                                                 *)
LEMMA UnclosedStep ==
    ASSUME FcShape(fc'), EnvShape(env'), ~env'.closed, Unclosed(fc'),
           env'.silence + fc'.idle <= IdleTo
    PROVE  LifeInv'
  BY DEF LifeInv, ClosesOnce, ResponsesDelivered, EndHasReason, Unclosed

LEMMA PacketInStep ==
    ASSUME LifeInv, Live, NEW fr, PacketIn(fr)
    PROVE  LifeInv'
<1>1. FcShape(fc) /\ EnvShape(env) /\ ~env.closed /\ Unclosed(fc)
    BY DEF LifeInv, Live
<1> DEFINE c == SetEarliestIdleAlarm(fc)
<1>2. FcShape(c) /\ Unclosed(c) /\ c.idle <= IdleTo
  <2>1. NoprogIn(fc) \in Nat
    <3>1. NoprogTo - fc.sinceProg \in Int
      BY <1>1, Timeouts DEF FcShape
    <3> QED BY <3>1, MaxOfTwo DEF NoprogIn
  <2>2. Min({IdleTo, NoprogIn(fc)}) \in Nat /\ Min({IdleTo, NoprogIn(fc)}) <= IdleTo
    BY <2>1, MinOfTwo, Timeouts
  <2> DEFINE to == IF fc.noprog THEN Min({IdleTo, NoprogIn(fc)}) ELSE IdleTo
  <2>3. to \in Nat /\ to <= IdleTo
    BY <2>2, Timeouts
  <2>4. c = [fc EXCEPT !.idle = to]
    BY Timeouts DEF SetEarliestIdleAlarm
  <2> HIDE DEF to, c
  <2> QED BY <1>1, <2>3, <2>4 DEF FcShape, Unclosed, ConnOkToClose
<1> HIDE DEF c
<1>3. FcShape(fc') /\ Unclosed(fc') /\ fc'.idle <= IdleTo
  <2>1. fc' \in {c, ConnectionCloseFrame(c), [c EXCEPT !.flags = @ \cup {"GOT_PRST"}], Abort(c),
                 [c EXCEPT !.unacked = FALSE], [c EXCEPT !.sinceProg = 0]}
    BY DEF PacketIn, c
  <2>2. LET d == ConnectionCloseFrame(c) IN FcShape(d) /\ Unclosed(d) /\ d.idle <= IdleTo
    BY <1>2 DEF ConnectionCloseFrame, FcShape, Unclosed, ConnOkToClose
  <2>3. LET d == [c EXCEPT !.flags = @ \cup {"GOT_PRST"}] IN
        FcShape(d) /\ Unclosed(d) /\ d.idle <= IdleTo
    BY <1>2 DEF FcShape, Unclosed, ConnOkToClose
  <2>4. LET d == Abort(c) IN FcShape(d) /\ Unclosed(d) /\ d.idle <= IdleTo
    BY <1>2 DEF Abort, FcShape, Unclosed, ConnOkToClose
  <2>5. LET d == [c EXCEPT !.unacked = FALSE] IN FcShape(d) /\ Unclosed(d) /\ d.idle <= IdleTo
    BY <1>2 DEF FcShape, Unclosed, ConnOkToClose
  <2>6. LET d == [c EXCEPT !.sinceProg = 0] IN FcShape(d) /\ Unclosed(d) /\ d.idle <= IdleTo
    BY <1>2 DEF FcShape, Unclosed, ConnOkToClose
  <2> QED BY <1>2, <2>1, <2>2, <2>3, <2>4, <2>5, <2>6
<1>4. EnvShape(env') /\ ~env'.closed /\ env'.silence = 0
    BY <1>1, Timeouts DEF PacketIn, EnvShape
<1>5. env'.silence + fc'.idle <= IdleTo
    BY <1>3, <1>4 DEF FcShape
<1> QED BY <1>3, <1>4, <1>5, UnclosedStep

LEMMA UserCallsStep ==
    ASSUME LifeInv, UserCalls
    PROVE  LifeInv'
<1>1. FcShape(fc) /\ EnvShape(env) /\ ~env.closed /\ Unclosed(fc)
      /\ env.silence + fc.idle <= IdleTo
    BY DEF LifeInv, UserCalls, Live
<1>2. PICK op \in {"close", "abort", "going_away"} : fc' = AppCalls(fc, [app |-> op])
    BY DEF UserCalls
<1> DEFINE d == AppCalls(fc, [app |-> op])
           n == [wrote |-> 0]
<1>3. Running(fc, n, fc.idle) /\ fc.idle \in Nat
    BY <1>1 DEF Running, Unclosed, FcShape
<1>4. Running(d, n, fc.idle) /\ d.idle = fc.idle /\ d.tick = {}
  <2> HIDE DEF n
  <2>1. fc.tick = {}
    BY <1>1 DEF Unclosed
  <2> QED BY <1>3, <2>1, AppCallsKeep
<1>5. FcShape(fc') /\ Unclosed(fc') /\ fc'.idle = fc.idle
  <2> HIDE DEF d
  <2> QED BY <1>1, <1>2, <1>4 DEF d, Running, Unclosed
<1>6. EnvShape(env') /\ ~env'.closed /\ env'.silence = env.silence
    BY <1>1 DEF UserCalls, EnvShape
<1> QED BY <1>1, <1>5, <1>6, UnclosedStep

LEMMA OtherSteps ==
    ASSUME LifeInv, PeerDies \/ OpenStream \/ FinishStream \/ TimePasses
    PROVE  LifeInv'
<1>1. FcShape(fc) /\ EnvShape(env) /\ ~env.closed /\ Unclosed(fc)
      /\ env.silence + fc.idle <= IdleTo
    BY DEF LifeInv, PeerDies, OpenStream, FinishStream, TimePasses, Live
<1>2. CASE PeerDies
  <2>1. EnvShape(env') /\ ~env'.closed /\ env'.silence = env.silence
    BY <1>1, <1>2, Timeouts DEF PeerDies, EnvShape
  <2>2. fc' = fc
    BY <1>2 DEF PeerDies
  <2> QED BY <1>1, <2>1, <2>2, UnclosedStep
<1>3. CASE OpenStream
  <2>1. EnvShape(env') /\ ~env'.closed /\ env'.silence = env.silence
    BY <1>1, <1>3 DEF OpenStream, EnvShape
  <2>2. FcShape(fc') /\ Unclosed(fc') /\ fc'.idle = fc.idle
    BY <1>1, <1>3 DEF OpenStream, FcShape, Unclosed
  <2> QED BY <1>1, <2>1, <2>2, UnclosedStep
<1>4. CASE FinishStream
  <2>1. FcShape(fc') /\ Unclosed(fc') /\ fc'.idle = fc.idle
    BY <1>1, <1>4 DEF FinishStream, FcShape, Unclosed, ConnOkToClose
  <2>2. env' = env
    BY <1>4 DEF FinishStream
  <2> QED BY <1>1, <2>1, <2>2, UnclosedStep
<1>5. CASE TimePasses
  <2>1. fc.idle # 0 /\ fc.ping # 0 /\ env.reply # 0 /\ fc.idle # Off
    BY <1>1, <1>5, Timeouts DEF TimePasses, AlarmDue, Unclosed, FcShape
  <2>2. Lower(fc.idle) = fc.idle - 1 /\ Lower(fc.idle) \in Nat /\ Lower(fc.ping) \in Nat
        /\ Lower(env.reply) \in Nat
    BY <1>1, <2>1, Timeouts DEF Lower, FcShape, EnvShape
  <2> DEFINE since == IF fc.noprog THEN Min({fc.sinceProg + 1, NoprogTo}) ELSE 0
  <2>3. since \in Nat
    BY <1>1, MinOfTwo, Timeouts DEF FcShape
  <2>4. fc' = [fc EXCEPT !.idle = fc.idle - 1, !.ping = Lower(fc.ping), !.sinceProg = since]
    BY <1>5, <2>2 DEF TimePasses
  <2> HIDE DEF since
  <2>5. FcShape(fc') /\ Unclosed(fc') /\ fc'.idle = fc.idle - 1
    BY <1>1, <2>2, <2>3, <2>4, Timeouts DEF FcShape, Unclosed, ConnOkToClose
  <2>6. EnvShape(env') /\ ~env'.closed /\ env'.silence = env.silence + 1
    BY <1>1, <1>5, <2>2 DEF TimePasses, EnvShape
  <2> QED BY <1>1, <2>5, <2>6, UnclosedStep, Timeouts DEF FcShape, EnvShape
<1> QED BY <1>2, <1>3, <1>4, <1>5

LEMMA LifeInit_Inv ==
    ASSUME LifeInit
    PROVE  LifeInv
<1>1. PICK m \in Modes :
        fc = [server |-> m.server, http |-> m.http, silent |-> m.silent,
              pings |-> m.pings, noprog |-> m.noprog, flags |-> {}, mflags |-> {}, sf |-> {},
              bidi |-> 0, reset |-> 0, unacked |-> FALSE,
              idle |-> IF IdleTo > 0 THEN IdleTo ELSE Off, ping |-> Off, sinceProg |-> 0,
              sched |-> 0, closePack |-> 0, elicits |-> FALSE, asserted |-> TRUE,
              at |-> "close_end", tick |-> {}]
    BY DEF LifeInit
<1>2. FcShape(fc) /\ Unclosed(fc) /\ fc.idle = IdleTo
    BY <1>1, Timeouts DEF FcShape, Unclosed
<1>3. EnvShape(env) /\ ~env.closed /\ env.silence = 0
    BY Timeouts DEF LifeInit, EnvShape
<1> QED BY <1>2, <1>3, Timeouts
        DEF LifeInv, ClosesOnce, ResponsesDelivered, EndHasReason, Unclosed

(* A connection ends once and for a reason, with its responses delivered   *)
(* unless it has to go at once, and does not outlive its idle timeout:     *)
(* ietf_full_conn_ci_tick() and the ways into it.                          *)
THEOREM ConnectionEndsSoundly == LifeSpec => []LifeIsSound
<1>1. LifeInit => LifeInv
    BY LifeInit_Inv
<1>2. LifeInv /\ [LifeNext]_lifevars => LifeInv'
  <2> SUFFICES ASSUME LifeInv, [LifeNext]_lifevars PROVE LifeInv'
    OBVIOUS
  <2>1. CASE Tick
    BY <2>1, TickStep
  <2>2. CASE PeerAnswers \/ PeerSends
    BY <2>2, PacketInStep DEF PeerAnswers, PeerSends
  <2>3. CASE UserCalls
    BY <2>3, UserCallsStep
  <2>4. CASE PeerDies \/ OpenStream \/ FinishStream \/ TimePasses
    BY <2>4, OtherSteps
  <2>5. CASE UNCHANGED lifevars
    BY <2>5 DEF lifevars, LifeInv, Unclosed, ClosesOnce, ResponsesDelivered, EndHasReason
  <2> QED BY <2>1, <2>2, <2>3, <2>4, <2>5 DEF LifeNext
<1>3. LifeInv => LifeIsSound
    BY Timeouts DEF LifeInv, LifeIsSound, IdleIsNoticed, FcShape, EnvShape
<1> QED BY <1>1, <1>2, <1>3, PTL DEF LifeSpec

-----------------------------------------------------------------------------
(***************************************************************************)
(* Stream limits.  A function of StreamLimits takes the connection to its  *)
(* next state; Sane(c, f), for a connection c and its peer f, holds of the *)
(* result if it held before.                                               *)
(***************************************************************************)
Ends == {"us", "peer"}
IdType == [who : Ends, sd : Dirs, n : Nat]
FlagType == {"HANDSHAKE_DONE", "HTTP_INITED", "GOING_AWAY", "PEER_GOING_AWAY", "PUSH", "CLOSING"}
SfType == {SendMaxStreams(sd) : sd \in Dirs} \cup {StreamsBlocked(sd) : sd \in Dirs} \cup {StopSending}
IflType ==
    [server : BOOLEAN, http : BOOLEAN, zeroRtt : BOOLEAN, flags : SUBSET FlagType,
     created : [Dirs -> Nat], closedPeer : [Dirs -> Nat], max : [Ends -> [Dirs -> Nat]],
     blocked : [Dirs -> Nat], closedIds : SUBSET IdType, streams : SUBSET IdType,
     sf : SUBSET SfType, toStop : Seq(IdType), delayed : BOOLEAN, qdhUnsent : BOOLEAN,
     pending : Nat, refused : Nat, maxReq : Int, ticked : BOOLEAN]
FarType == [limit : [Dirs -> Nat], opened : [Dirs -> Nat], allowed : [Dirs -> Nat],
            wire : SUBSET [sd : Dirs, n : Nat], scope : [who : Ends, sd : Dirs]]

Known(c) == c.streams \cup c.closedIds
PeerClosed(c, sd) == {id \in c.closedIds : id.who = "peer" /\ id.sd = sd}
HskIsDone(c) == "HANDSHAKE_DONE" \in c.flags

(* The streams of either end, open and closed: every stream of ours is known, and the
   peer's are among those it has opened. *)
Numbered(c, opened) ==
    \A id \in Known(c) : id.n < (IF id.who = "us" THEN c.created[id.sd] ELSE opened[id.sd])
StreamsInv(c, opened) ==
    /\ c.streams \cap c.closedIds = {}
    /\ Numbered(c, opened)
    /\ \A sd \in Dirs : \A n \in Nat : n < c.created[sd] => Id("us", sd, n) \in Known(c)
    /\ \A sd \in Dirs : c.closedPeer[sd] = Cardinality(PeerClosed(c, sd))

(* What the peer was given, has learned of and has used. *)
CreditInv(c, f) ==
    \A sd \in Dirs :
        /\ f.opened[sd] <= f.allowed[sd] /\ f.allowed[sd] <= c.max["peer"][sd]
        /\ c.max["peer"][sd] <= c.closedPeer[sd] + StreamsIn
        /\ f.allowed[sd] = c.max["peer"][sd] \/ [sd |-> sd, n |-> c.max["peer"][sd]] \in f.wire
        /\ \A w \in f.wire : w.sd = sd => w.n <= c.max["peer"][sd]
DueInv(c) ==
    /\ \A sd \in Dirs : Threshold(c, sd) => SendMaxStreams(sd) \in c.sf \/ (sd = "bidi" /\ c.delayed)
    /\ c.delayed => c.qdhUnsent

LimitsInv(c, f) ==
    /\ c.http /\ ~c.server => f.opened["bidi"] = 0
    /\ c.http => f.limit["uni"] > 0
    /\ \A sd \in Dirs : c.created[sd] <= c.max["us"][sd] /\ c.max["us"][sd] <= f.limit[sd]
HttpInv(c) == c.http /\ "HTTP_INITED" \notin c.flags => c.created["uni"] = 0 /\ ~HskIsDone(c)
WaitInv(c) == HskIsDone(c) /\ c.ticked /\ c.pending > 0 => AvailStreams(c, "bidi") = 0

Sane(c, f) == /\ c \in IflType /\ f \in FarType /\ StreamsInv(c, f.opened) /\ CreditInv(c, f)
              /\ DueInv(c) /\ LimitsInv(c, f)
SLInv == Sane(ifl, far) /\ HttpInv(ifl) /\ WaitInv(ifl)

LEMMA LimitsConst ==
    ASSUME StreamLimitsAssumption
    PROVE  /\ StreamsIn \in Nat /\ StreamsIn > 0 /\ MaxRaise \in Nat /\ MaxOpened \in Nat
           /\ MaxPending \in Nat /\ PeerLimits \subseteq Nat
  BY DEF StreamLimitsAssumption

LEMMA DirsAre == "bidi" \in Dirs /\ "uni" \in Dirs /\ \A sd \in Dirs : sd = "bidi" \/ sd = "uni"
  BY DEF Dirs

LEMMA Frames ==
    /\ \A sd, x \in Dirs : SendMaxStreams(sd) # StreamsBlocked(x) /\ SendMaxStreams(sd) # StopSending
    /\ \A sd \in Dirs : SendMaxStreams(sd) \in SfType /\ StreamsBlocked(sd) \in SfType
    /\ StopSending \in SfType
    /\ \A sd, x \in Dirs : SendMaxStreams(sd) = SendMaxStreams(x) => sd = x
  BY DEF SendMaxStreams, StreamsBlocked, StopSending, SfType

LEMMA IdFacts ==
    ASSUME NEW who \in Ends, NEW sd \in Dirs, NEW n \in Nat
    PROVE  Id(who, sd, n) \in IdType /\ Id(who, sd, n).who = who /\ Id(who, sd, n).sd = sd
           /\ Id(who, sd, n).n = n
  BY DEF Id, IdType

LEMMA IdEq ==
    ASSUME NEW id \in IdType
    PROVE  id = Id(id.who, id.sd, id.n)
  BY DEF Id, IdType

(* What does not concern streams and credit *)
LEMMA FrameRule ==
    ASSUME NEW c, NEW f, Sane(c, f), NEW d \in IflType,
           d.server = c.server, d.http = c.http, d.created = c.created,
           d.closedPeer = c.closedPeer, d.max = c.max, d.closedIds = c.closedIds,
           d.streams = c.streams, \A sd \in Dirs : SendMaxStreams(sd) \in c.sf => SendMaxStreams(sd) \in d.sf,
           d.delayed => d.qdhUnsent,
           c.delayed => d.delayed \/ SendMaxStreams("bidi") \in d.sf
    PROVE  Sane(d, f)
<1>1. StreamsInv(d, f.opened)
  BY DEF Sane, StreamsInv, Numbered, Known, PeerClosed
<1>2. CreditInv(d, f) /\ LimitsInv(d, f)
  BY DEF Sane, CreditInv, LimitsInv
<1>3. DueInv(d)
  <2>1. \A sd \in Dirs : Threshold(d, sd) = Threshold(c, sd)
    BY DEF Threshold
  <2> QED BY <2>1 DEF Sane, DueInv
<1> QED BY <1>1, <1>2, <1>3 DEF Sane

LEMMA AvailIs ==
    ASSUME NEW c \in IflType, NEW sd \in Dirs, c.created[sd] <= c.max["us"][sd]
    PROVE  AvailStreams(c, sd) = c.max["us"][sd] - c.created[sd] /\ AvailStreams(c, sd) \in Nat
<1>1. c.created[sd] \in Nat /\ c.max["us"][sd] \in Nat
  BY DEF IflType, Ends
<1> QED BY <1>1 DEF AvailStreams

(* Streams we open *)
LEMMA CreateOut ==
    ASSUME NEW c, NEW f, Sane(c, f), NEW sd \in Dirs, AvailStreams(c, sd) > 0
    PROVE  LET d == CreateStreamOut(c, sd)
           IN  /\ Sane(d, f) /\ d.flags = c.flags /\ d.http = c.http /\ d.pending = c.pending
               /\ d.ticked = c.ticked /\ d.max = c.max /\ d.created[sd] = c.created[sd] + 1
               /\ \A x \in Dirs : x # sd => d.created[x] = c.created[x]
<1> DEFINE d == CreateStreamOut(c, sd)
           i == Id("us", sd, c.created[sd])
<1>1. c \in IflType /\ f \in FarType /\ c.created \in [Dirs -> Nat] /\ c.streams \subseteq IdType
  BY DEF Sane, IflType
<1>2. c.created[sd] \in Nat
  BY <1>1
<1>3. i \in IdType /\ i.who = "us" /\ i.sd = sd /\ i.n = c.created[sd]
  BY <1>2, IdFacts DEF Ends
<1>4. /\ d = [c EXCEPT !.streams = c.streams \cup {i}, !.created = [c.created EXCEPT ![sd] = c.created[sd] + 1]]
  BY DEF CreateStreamOut, GenerateStreamId
<1> HIDE DEF i, d
<1>5. [c.created EXCEPT ![sd] = c.created[sd] + 1] \in [Dirs -> Nat]
  BY <1>1, <1>2
<1>6. d \in IflType
  BY <1>1, <1>3, <1>4, <1>5 DEF IflType
<1>7. /\ d.streams = c.streams \cup {i} /\ d.created = [c.created EXCEPT ![sd] = c.created[sd] + 1]
      /\ d.closedIds = c.closedIds /\ d.closedPeer = c.closedPeer /\ d.max = c.max /\ d.sf = c.sf
      /\ d.delayed = c.delayed /\ d.qdhUnsent = c.qdhUnsent /\ d.http = c.http /\ d.server = c.server
      /\ d.flags = c.flags /\ d.pending = c.pending /\ d.ticked = c.ticked
  BY <1>1, <1>4 DEF IflType
<1>8. /\ d.created[sd] = c.created[sd] + 1 /\ \A x \in Dirs : x # sd => d.created[x] = c.created[x]
      /\ \A x \in Dirs : c.created[x] \in Nat /\ d.created[x] >= c.created[x]
  BY <1>1, <1>2, <1>7
<1>9. StreamsInv(d, f.opened)
  <2>1. i \notin Known(c)
    BY <1>2, <1>3 DEF Sane, StreamsInv, Numbered
  <2>2. Known(d) = Known(c) \cup {i}
    BY <1>7 DEF Known
  <2>3. Numbered(d, f.opened)
    <3> SUFFICES ASSUME NEW id \in Known(d)
                 PROVE  id.n < (IF id.who = "us" THEN d.created[id.sd] ELSE f.opened[id.sd])
      BY DEF Numbered
    <3>1. CASE id = i
      BY <1>2, <1>3, <1>8, <3>1
    <3>2. CASE id \in Known(c)
      <4>1. id.n < (IF id.who = "us" THEN c.created[id.sd] ELSE f.opened[id.sd]) /\ id \in IdType
        BY <1>1, <3>2 DEF Sane, StreamsInv, Numbered, Known, IflType
      <4>2. id.n \in Nat /\ id.sd \in Dirs
        BY <4>1 DEF IdType
      <4>3. CASE id.who = "us"
        <5>1. d.created[id.sd] \in Nat /\ d.created[id.sd] >= c.created[id.sd] /\ c.created[id.sd] \in Nat
          BY <1>6, <1>8, <4>2 DEF IflType
        <5> QED BY <4>1, <4>2, <4>3, <5>1
      <4>4. CASE id.who # "us"
        BY <4>1, <4>4
      <4> QED BY <4>3, <4>4
    <3> QED BY <2>2, <3>1, <3>2
  <2>4. ASSUME NEW x \in Dirs, NEW n \in Nat, n < d.created[x] PROVE Id("us", x, n) \in Known(d)
    <3>1. CASE n < c.created[x]
      BY <2>2, <3>1 DEF Sane, StreamsInv
    <3>2. CASE x = sd /\ n = c.created[sd]
      BY <2>2, <3>2 DEF i
    <3> QED BY <1>2, <1>8, <2>4, <3>1, <3>2
  <2>5. d.streams \cap d.closedIds = {}
    BY <1>7, <2>1 DEF Sane, StreamsInv, Known
  <2>6. \A x \in Dirs : d.closedPeer[x] = Cardinality(PeerClosed(d, x))
    BY <1>7 DEF Sane, StreamsInv, PeerClosed
  <2> QED BY <2>3, <2>4, <2>5, <2>6 DEF StreamsInv
<1>10. CreditInv(d, f)
  BY <1>7 DEF Sane, CreditInv
<1>11. DueInv(d)
  <2>1. \A x \in Dirs : Threshold(d, x) = Threshold(c, x)
    BY <1>7 DEF Threshold
  <2> QED BY <1>7, <2>1 DEF Sane, DueInv
<1>12. LimitsInv(d, f)
  <2>1. c.created[sd] <= c.max["us"][sd] /\ c.max["us"][sd] \in Nat
    BY <1>1 DEF Sane, LimitsInv, IflType, Ends
  <2>2. c.created[sd] + 1 <= c.max["us"][sd]
    BY <1>1, <1>2, <2>1, AvailIs
  <2> QED BY <1>7, <1>8, <2>2 DEF Sane, LimitsInv
<1> QED BY <1>1, <1>6, <1>7, <1>8, <1>9, <1>10, <1>11, <1>12 DEF Sane, d

LEMMA UndoCreation ==
    ASSUME NEW c, NEW f, Sane(c, f), NEW sd \in Dirs
    PROVE  LET d == UndoStreamCreation(CreateStreamOut(c, sd), sd)
           IN  /\ Sane(d, f) /\ d.flags = c.flags /\ d.http = c.http /\ d.pending = c.pending
               /\ d.ticked = c.ticked /\ d.max = c.max /\ d.created = c.created
<1> DEFINE e == CreateStreamOut(c, sd)
           d == UndoStreamCreation(e, sd)
           i == Id("us", sd, c.created[sd])
<1>1. c \in IflType /\ f \in FarType /\ c.created \in [Dirs -> Nat] /\ c.streams \subseteq IdType
      /\ c.created[sd] \in Nat
  BY DEF Sane, IflType
<1>2. i \notin c.streams
  BY <1>1, IdFacts DEF Sane, StreamsInv, Numbered, Known, Ends
<1>3. e = [c EXCEPT !.streams = c.streams \cup {i}, !.created = [c.created EXCEPT ![sd] = c.created[sd] + 1]]
  BY DEF CreateStreamOut, GenerateStreamId
<1> HIDE DEF e, i
<1>4. e.streams = c.streams \cup {i} /\ e.created = [c.created EXCEPT ![sd] = c.created[sd] + 1]
      /\ e.created[sd] - 1 = c.created[sd]
  BY <1>1, <1>3 DEF IflType
<1>5. d = [e EXCEPT !.streams = e.streams \ {i}, !.created = [e.created EXCEPT ![sd] = e.created[sd] - 1]]
  BY <1>4 DEF UndoStreamCreation, i
<1>6. e.streams \ {i} = c.streams
  BY <1>2, <1>4
<1>7. [e.created EXCEPT ![sd] = e.created[sd] - 1] = c.created
  BY <1>1, <1>4
<1>8. d = [e EXCEPT !.streams = c.streams, !.created = c.created]
  BY <1>5, <1>6, <1>7
<1> HIDE DEF d
<1>9. /\ d \in IflType /\ d.streams = c.streams /\ d.created = c.created
      /\ d.closedIds = c.closedIds /\ d.closedPeer = c.closedPeer /\ d.max = c.max /\ d.sf = c.sf
      /\ d.delayed = c.delayed /\ d.qdhUnsent = c.qdhUnsent /\ d.http = c.http /\ d.server = c.server
      /\ d.flags = c.flags /\ d.pending = c.pending /\ d.ticked = c.ticked
  BY <1>1, <1>3, <1>8 DEF IflType
<1>10. c.delayed => c.qdhUnsent
  BY DEF Sane, DueInv
<1>11. Sane(d, f)
  BY <1>9, <1>10, FrameRule
<1> QED BY <1>9, <1>11 DEF d, e

LEMMA CreateDelayed ==
    ASSUME NEW c, NEW f, Sane(c, f)
    PROVE  LET d == MaybeCreateDelayed(c)
           IN  /\ Sane(d, f) /\ d.flags = c.flags /\ d.http = c.http /\ d.ticked = c.ticked
               /\ d.max = c.max /\ d.created["uni"] = c.created["uni"]
               /\ d.sf = c.sf
               /\ d.pending > 0 => AvailStreams(d, "bidi") = 0
<1> DEFINE d == MaybeCreateDelayed(c)
           a == AvailStreams(c, "bidi")
           n == Min({c.pending, a})
           new == {Id("us", "bidi", c.created["bidi"] + i) : i \in 0 .. n - 1}
           cr == [c.created EXCEPT !["bidi"] = c.created["bidi"] + n]
<1>0. "bidi" \in Dirs /\ "uni" \in Dirs
  BY DirsAre
<1>1. c \in IflType /\ f \in FarType /\ c.created \in [Dirs -> Nat] /\ c.streams \subseteq IdType
      /\ c.created["bidi"] \in Nat /\ c.pending \in Nat /\ c.max["us"]["bidi"] \in Nat
      /\ c.max["us"]["bidi"] >= c.created["bidi"]
  BY <1>0 DEF Sane, IflType, LimitsInv, Ends
<1>2. a = c.max["us"]["bidi"] - c.created["bidi"] /\ a \in Nat
  BY <1>0, <1>1, AvailIs
<1> HIDE DEF a
<1>3. n \in Nat /\ n <= c.pending /\ n <= a /\ (n = c.pending \/ n = a)
  <2>1. n = IF c.pending <= a THEN c.pending ELSE a
    BY <1>1, <1>2, MinOfTwo
  <2> QED BY <1>1, <1>2, <2>1
<1>4. d = [c EXCEPT !.streams = c.streams \cup new, !.created = cr, !.pending = c.pending - n]
  BY DEF MaybeCreateDelayed, a
<1> HIDE DEF n, d
<1>5. ASSUME NEW id \in new PROVE id \in IdType /\ id.who = "us" /\ id.sd = "bidi" /\ id.n >= c.created["bidi"]
                                  /\ id.n < c.created["bidi"] + n
  <2>1. PICK i \in 0 .. n - 1 : id = Id("us", "bidi", c.created["bidi"] + i)
    BY <1>5
  <2>2. i \in Nat /\ i < n /\ c.created["bidi"] + i \in Nat
    BY <1>1, <1>3
  <2>3. id \in IdType /\ id.who = "us" /\ id.sd = "bidi" /\ id.n = c.created["bidi"] + i
    BY <1>0, <2>1, <2>2, IdFacts DEF Ends
  <2> QED BY <1>1, <1>3, <2>2, <2>3
<1>6. ASSUME NEW k \in Nat, k >= c.created["bidi"], k < c.created["bidi"] + n
      PROVE  Id("us", "bidi", k) \in new
  <2>1. k - c.created["bidi"] \in 0 .. n - 1 /\ k = c.created["bidi"] + (k - c.created["bidi"])
    BY <1>1, <1>3, <1>6
  <2> QED BY <2>1
<1> HIDE DEF new
<1>7. cr \in [Dirs -> Nat] /\ cr["bidi"] = c.created["bidi"] + n /\ cr["uni"] = c.created["uni"]
      /\ \A x \in Dirs : x # "bidi" => cr[x] = c.created[x]
  BY <1>0, <1>1, <1>3
<1> HIDE DEF cr
<1>8. c.pending - n \in Nat
  BY <1>1, <1>3
<1>9. d \in IflType
  BY <1>1, <1>4, <1>5, <1>7, <1>8 DEF IflType
<1>10. /\ d.streams = c.streams \cup new /\ d.created = cr /\ d.pending = c.pending - n
       /\ d.closedIds = c.closedIds /\ d.closedPeer = c.closedPeer /\ d.max = c.max /\ d.sf = c.sf
       /\ d.delayed = c.delayed /\ d.qdhUnsent = c.qdhUnsent /\ d.http = c.http /\ d.server = c.server
       /\ d.flags = c.flags /\ d.ticked = c.ticked
  BY <1>1, <1>4 DEF IflType
<1>11. StreamsInv(d, f.opened)
  <2>1. new \cap Known(c) = {}
    <3> SUFFICES ASSUME NEW id \in new, id \in Known(c) PROVE FALSE
      OBVIOUS
    <3>1. id \in IdType /\ id.who = "us" /\ id.sd = "bidi" /\ id.n >= c.created["bidi"]
      BY <1>5
    <3>2. id.n < c.created["bidi"] /\ id.n \in Nat
      BY <3>1 DEF Sane, StreamsInv, Numbered, IdType
    <3> QED BY <1>1, <3>1, <3>2
  <2>2. Known(d) = Known(c) \cup new
    BY <1>10 DEF Known
  <2>3. Numbered(d, f.opened)
    <3> SUFFICES ASSUME NEW id \in Known(d)
                 PROVE  id.n < (IF id.who = "us" THEN d.created[id.sd] ELSE f.opened[id.sd])
      BY DEF Numbered
    <3>1. CASE id \in new
      BY <1>5, <1>7, <1>10, <3>1
    <3>2. CASE id \in Known(c)
      <4>1. id.n < (IF id.who = "us" THEN c.created[id.sd] ELSE f.opened[id.sd]) /\ id \in IdType
        BY <1>1, <3>2 DEF Sane, StreamsInv, Numbered, Known, IflType
      <4>2. id.n \in Nat /\ id.sd \in Dirs
        BY <4>1 DEF IdType
      <4>3. CASE id.who = "us" /\ id.sd = "bidi"
        <5>1. d.created[id.sd] = c.created["bidi"] + n
          BY <1>7, <1>10, <4>3
        <5> QED BY <1>1, <1>3, <4>1, <4>2, <4>3, <5>1
      <4>4. CASE id.who = "us" /\ id.sd # "bidi"
        BY <1>7, <1>10, <4>1, <4>2, <4>4
      <4>5. CASE id.who # "us"
        BY <4>1, <4>5
      <4> QED BY <4>3, <4>4, <4>5
    <3> QED BY <2>2, <3>1, <3>2
  <2>4. ASSUME NEW x \in Dirs, NEW k \in Nat, k < d.created[x] PROVE Id("us", x, k) \in Known(d)
    <3>1. CASE k < c.created[x]
      BY <2>2, <3>1 DEF Sane, StreamsInv
    <3>2. CASE x = "bidi" /\ k >= c.created["bidi"]
      <4>1. k < c.created["bidi"] + n
        BY <1>7, <1>10, <2>4, <3>2
      <4> QED BY <1>6, <2>2, <3>2, <4>1
    <3>3. x = "bidi" \/ k < c.created[x]
      BY <1>7, <1>10, <2>4
    <3> QED BY <1>1, <3>1, <3>2, <3>3
  <2>5. d.streams \cap d.closedIds = {}
    BY <1>10, <2>1 DEF Sane, StreamsInv, Known
  <2>6. \A x \in Dirs : d.closedPeer[x] = Cardinality(PeerClosed(d, x))
    BY <1>10 DEF Sane, StreamsInv, PeerClosed
  <2> QED BY <2>3, <2>4, <2>5, <2>6 DEF StreamsInv
<1>12. CreditInv(d, f)
  BY <1>10 DEF Sane, CreditInv
<1>13. DueInv(d)
  <2>1. \A x \in Dirs : Threshold(d, x) = Threshold(c, x)
    BY <1>10 DEF Threshold
  <2> QED BY <1>10, <2>1 DEF Sane, DueInv
<1>14. LimitsInv(d, f) /\ d.created["bidi"] <= d.max["us"]["bidi"]
  <2>1. c.created["bidi"] + n <= c.max["us"]["bidi"]
    BY <1>1, <1>2, <1>3
  <2> QED BY <1>0, <1>7, <1>10, <2>1 DEF Sane, LimitsInv
<1>15. d.pending > 0 => AvailStreams(d, "bidi") = 0
  <2>1. AvailStreams(d, "bidi") = d.max["us"]["bidi"] - d.created["bidi"]
    BY <1>0, <1>9, <1>14, AvailIs
  <2>2. AvailStreams(d, "bidi") = a - n
    BY <1>1, <1>2, <1>3, <1>7, <1>10, <2>1
  <2> QED BY <1>1, <1>2, <1>3, <1>10, <2>2
<1>16. Sane(d, f)
  BY <1>1, <1>9, <1>11, <1>12, <1>13, <1>14 DEF Sane
<1> QED BY <1>7, <1>10, <1>15, <1>16 DEF d

LEMMA InitHttpOpens ==
    ASSUME NEW c, NEW f, Sane(c, f), c.created["uni"] = 0, c.max["us"]["uni"] > 0
    PROVE  LET d == InitHttp(c)
           IN  /\ Sane(d, f) /\ d.flags = c.flags \cup {"HTTP_INITED"} /\ d.http = c.http
               /\ d.pending = c.pending /\ d.ticked = c.ticked /\ d.max = c.max
               /\ d.created["bidi"] = c.created["bidi"]
<1> DEFINE d == CreateStreamOut(c, "uni")
           e == IF AvailStreams(d, "uni") > 0 THEN CreateStreamOut(d, "uni")
                ELSE QueueStreamsBlocked(d, "uni")
           r == [e EXCEPT !.flags = @ \cup {"HTTP_INITED"}]
<1>0. "bidi" \in Dirs /\ "uni" \in Dirs
  BY DirsAre
<1>1. c \in IflType /\ c.max["us"]["uni"] \in Nat /\ c.created["uni"] <= c.max["us"]["uni"]
  BY <1>0 DEF Sane, LimitsInv, IflType, Ends
<1>2. AvailStreams(c, "uni") > 0
  BY <1>0, <1>1, AvailIs
<1>3. InitHttp(c) = r
  BY <1>1, <1>2 DEF InitHttp
<1>4. /\ Sane(d, f) /\ d.flags = c.flags /\ d.http = c.http /\ d.pending = c.pending
      /\ d.ticked = c.ticked /\ d.max = c.max /\ d.created["bidi"] = c.created["bidi"]
  BY <1>0, <1>2, CreateOut
<1> HIDE DEF d
<1>5. /\ Sane(e, f) /\ e.flags = c.flags /\ e.http = c.http /\ e.pending = c.pending
      /\ e.ticked = c.ticked /\ e.max = c.max /\ e.created["bidi"] = c.created["bidi"]
  <2>1. CASE AvailStreams(d, "uni") > 0
    <3>1. e = CreateStreamOut(d, "uni")
      BY <2>1
    <3> HIDE DEF e
    <3> QED BY <1>0, <1>4, <2>1, <3>1, CreateOut
  <2>2. CASE ~(AvailStreams(d, "uni") > 0)
    <3>1. e = QueueStreamsBlocked(d, "uni")
      BY <2>2
    <3>2. CASE StreamsBlocked("uni") \in d.sf
      <4>1. e = d
        BY <3>1, <3>2 DEF QueueStreamsBlocked
      <4> HIDE DEF e
      <4> QED BY <1>4, <4>1
    <3>3. CASE StreamsBlocked("uni") \notin d.sf
      <4>1. e = [d EXCEPT !.sf = d.sf \cup {StreamsBlocked("uni")},
                          !.blocked = [d.blocked EXCEPT !["uni"] = d.max["us"]["uni"]]]
        BY <3>1, <3>3 DEF QueueStreamsBlocked
      <4> HIDE DEF e
      <4>2. d \in IflType /\ (d.delayed => d.qdhUnsent)
        BY <1>4 DEF Sane, DueInv
      <4>3. d.max["us"]["uni"] \in Nat /\ d.blocked \in [Dirs -> Nat]
        BY <1>0, <4>2 DEF IflType, Ends
      <4>4. [d.blocked EXCEPT !["uni"] = d.max["us"]["uni"]] \in [Dirs -> Nat]
        BY <4>3
      <4>5. StreamsBlocked("uni") \in SfType
        BY <1>0, Frames
      <4>6. e \in IflType
        BY <4>1, <4>2, <4>4, <4>5 DEF IflType
      <4>7. /\ e.streams = d.streams /\ e.created = d.created /\ e.pending = d.pending
            /\ e.closedIds = d.closedIds /\ e.closedPeer = d.closedPeer /\ e.max = d.max
            /\ d.sf \subseteq e.sf /\ e.delayed = d.delayed /\ e.qdhUnsent = d.qdhUnsent
            /\ e.http = d.http /\ e.server = d.server /\ e.flags = d.flags /\ e.ticked = d.ticked
        BY <4>1, <4>2 DEF IflType
      <4>8. Sane(e, f)
        BY <1>4, <4>2, <4>6, <4>7, FrameRule
      <4> QED BY <1>4, <4>7, <4>8
    <3> QED BY <3>2, <3>3
  <2> QED BY <2>1, <2>2
<1> HIDE DEF e
<1>6. e \in IflType /\ (e.delayed => e.qdhUnsent)
  BY <1>5 DEF Sane, DueInv
<1>7. r \in IflType
  BY <1>6 DEF IflType, FlagType
<1>8. /\ r.streams = e.streams /\ r.created = e.created /\ r.pending = e.pending
      /\ r.closedIds = e.closedIds /\ r.closedPeer = e.closedPeer /\ r.max = e.max
      /\ r.sf = e.sf /\ r.delayed = e.delayed /\ r.qdhUnsent = e.qdhUnsent
      /\ r.http = e.http /\ r.server = e.server /\ r.flags = e.flags \cup {"HTTP_INITED"} /\ r.ticked = e.ticked
  BY <1>6 DEF IflType
<1> HIDE DEF r
<1>9. Sane(r, f)
  BY <1>5, <1>6, <1>7, <1>8, FrameRule
<1> QED BY <1>3, <1>5, <1>8, <1>9

(* The peer's parameters apply, now or with 0-RTT before. *)
LEMMA ParamsApply ==
    ASSUME NEW c, NEW f, Sane(c, f), NEW fl \in SUBSET FlagType
    PROVE  LET d == ApplyTransParams([c EXCEPT !.flags = fl], f.limit["bidi"], f.limit["uni"])
           IN  /\ Sane(d, f) /\ d.flags = fl /\ d.http = c.http /\ d.pending = c.pending
               /\ d.ticked = c.ticked /\ d.created = c.created /\ d.max["us"] = f.limit
<1> DEFINE b == [c EXCEPT !.flags = fl]
           d == ApplyTransParams(b, f.limit["bidi"], f.limit["uni"])
           mx == [c.max EXCEPT !["us"] = f.limit]
<1>0. "bidi" \in Dirs /\ "uni" \in Dirs /\ "us" \in Ends /\ "peer" \in Ends /\ "us" # "peer"
  BY DirsAre DEF Ends
<1>1. c \in IflType /\ f \in FarType /\ f.limit \in [Dirs -> Nat] /\ c.max \in [Ends -> [Dirs -> Nat]]
  BY DEF Sane, IflType, FarType
<1>2. Each(f.limit["bidi"], f.limit["uni"]) = f.limit
  <2>1. \A sd \in Dirs : Each(f.limit["bidi"], f.limit["uni"])[sd] = f.limit[sd]
    BY DirsAre DEF Each
  <2> QED BY <1>1, <2>1 DEF Each
<1>3. b \in IflType /\ b.max = c.max
  BY <1>1 DEF IflType
<1>4. d = [b EXCEPT !.max = mx]
  BY <1>2, <1>3 DEF ApplyTransParams
<1>5. mx \in [Ends -> [Dirs -> Nat]] /\ mx["us"] = f.limit /\ mx["peer"] = c.max["peer"]
  BY <1>0, <1>1
<1> HIDE DEF mx, d
<1>6. d \in IflType
  BY <1>3, <1>4, <1>5 DEF IflType
<1>7. /\ d.streams = c.streams /\ d.created = c.created /\ d.pending = c.pending
      /\ d.closedIds = c.closedIds /\ d.closedPeer = c.closedPeer /\ d.max = mx
      /\ d.sf = c.sf /\ d.delayed = c.delayed /\ d.qdhUnsent = c.qdhUnsent
      /\ d.http = c.http /\ d.server = c.server /\ d.flags = fl /\ d.ticked = c.ticked
  BY <1>1, <1>4 DEF IflType
<1>8. StreamsInv(d, f.opened)
  BY <1>7 DEF Sane, StreamsInv, Numbered, Known, PeerClosed
<1>9. CreditInv(d, f)
  BY <1>5, <1>7 DEF Sane, CreditInv
<1>10. DueInv(d)
  <2>1. \A sd \in Dirs : Threshold(d, sd) = Threshold(c, sd)
    BY <1>5, <1>7 DEF Threshold
  <2> QED BY <1>7, <2>1 DEF Sane, DueInv
<1>11. LimitsInv(d, f)
  <2>1. ASSUME NEW sd \in Dirs PROVE d.created[sd] <= d.max["us"][sd] /\ d.max["us"][sd] <= f.limit[sd]
    <3>1. c.created[sd] \in Nat /\ c.max["us"][sd] \in Nat /\ f.limit[sd] \in Nat
      BY <1>0, <1>1 DEF IflType
    <3>2. c.created[sd] <= c.max["us"][sd] /\ c.max["us"][sd] <= f.limit[sd]
      BY DEF Sane, LimitsInv
    <3> QED BY <1>5, <1>7, <3>1, <3>2
  <2> QED BY <1>7, <2>1 DEF Sane, LimitsInv
<1> QED BY <1>1, <1>5, <1>6, <1>7, <1>8, <1>9, <1>10, <1>11 DEF Sane, d

LEMMA HandshakeEnds ==
    ASSUME NEW c, NEW f, Sane(c, f), HttpInv(c)
    PROVE  LET d == HandshakeOk(c, f.limit["bidi"], f.limit["uni"])
           IN  Sane(d, f) /\ HttpInv(d) /\ WaitInv(d)
<1> DEFINE fl == c.flags \cup {"HANDSHAKE_DONE"}
           a == ApplyTransParams([c EXCEPT !.flags = fl], f.limit["bidi"], f.limit["uni"])
           h == IF c.http /\ "HTTP_INITED" \notin c.flags THEN InitHttp(a) ELSE a
           r == MaybeCreateDelayed(h)
           d == HandshakeOk(c, f.limit["bidi"], f.limit["uni"])
<1>1. d = IF "ERROR" \in h.flags THEN h ELSE r
  BY DEF HandshakeOk
<1>2. fl \in SUBSET FlagType
  BY DEF Sane, IflType, FlagType
<1>3. /\ Sane(a, f) /\ a.flags = fl /\ a.http = c.http /\ a.pending = c.pending
      /\ a.ticked = c.ticked /\ a.created = c.created /\ a.max["us"] = f.limit
  BY <1>2, ParamsApply
<1> HIDE DEF a
<1>4. Sane(h, f) /\ h.http = c.http /\ fl \subseteq h.flags /\ (h.http => "HTTP_INITED" \in h.flags)
  <2>1. CASE c.http /\ "HTTP_INITED" \notin c.flags
    <3>1. a.created["uni"] = 0 /\ a.max["us"]["uni"] > 0
      BY <1>3, <2>1 DEF HttpInv, Sane, LimitsInv
    <3>2. h = InitHttp(a)
      BY <2>1
    <3> HIDE DEF h
    <3> QED BY <1>3, <3>1, <3>2, InitHttpOpens
  <2>2. CASE ~(c.http /\ "HTTP_INITED" \notin c.flags)
    <3>1. h = a
      BY <2>2
    <3> HIDE DEF h
    <3> QED BY <1>3, <2>2, <3>1
  <2> QED BY <2>1, <2>2
<1> HIDE DEF h
<1>5. "ERROR" \notin h.flags
  BY <1>4 DEF Sane, IflType, FlagType
<1>6. d = r
  BY <1>1, <1>5
<1>7. /\ Sane(r, f) /\ r.flags = h.flags /\ r.http = h.http
      /\ r.pending > 0 => AvailStreams(r, "bidi") = 0
  BY <1>4, CreateDelayed
<1> HIDE DEF r, d
<1> QED BY <1>4, <1>6, <1>7 DEF HttpInv, WaitInv, d

LEMMA MakeStreamKeeps ==
    ASSUME NEW c, NEW f, Sane(c, f), HttpInv(c), WaitInv(c)
    PROVE  LET d == MakeStreamOp(c)
           IN  Sane(d, f) /\ HttpInv(d) /\ WaitInv(d)
<1> DEFINE d == MakeStreamOp(c)
<1>0. "bidi" \in Dirs /\ "uni" \in Dirs
  BY DirsAre
<1>1. c \in IflType /\ (c.delayed => c.qdhUnsent) /\ c.created["bidi"] <= c.max["us"]["bidi"]
  BY <1>0 DEF Sane, DueInv, LimitsInv
<1>2. CASE (c.zeroRtt \/ "HANDSHAKE_DONE" \in c.flags) /\ AvailStreams(c, "bidi") > 0
  <2>1. d = CreateStreamOut(c, "bidi")
    BY <1>2 DEF MakeStreamOp
  <2> HIDE DEF d
  <2>2. /\ Sane(d, f) /\ d.flags = c.flags /\ d.http = c.http /\ d.pending = c.pending
        /\ d.ticked = c.ticked /\ d.created["uni"] = c.created["uni"]
    BY <1>0, <1>2, <2>1, CreateOut
  <2>3. HttpInv(d)
    BY <2>2 DEF HttpInv, HskIsDone
  <2>4. ~(HskIsDone(d) /\ d.ticked /\ d.pending > 0)
    BY <1>2, <2>2 DEF WaitInv, HskIsDone
  <2> QED BY <2>2, <2>3, <2>4 DEF WaitInv, d
<1>3. CASE ~((c.zeroRtt \/ "HANDSHAKE_DONE" \in c.flags) /\ AvailStreams(c, "bidi") > 0)
  <2>1. d = [c EXCEPT !.refused = c.refused + 1] \/ d = [c EXCEPT !.pending = c.pending + 1]
    BY <1>3 DEF MakeStreamOp
  <2> HIDE DEF d
  <2>2. d \in IflType
    <3>1. c.refused + 1 \in Nat /\ c.pending + 1 \in Nat
      BY <1>1 DEF IflType
    <3>2. \A n \in Nat : [c EXCEPT !.refused = n] \in IflType /\ [c EXCEPT !.pending = n] \in IflType
      BY <1>1 DEF IflType
    <3> QED BY <2>1, <3>1, <3>2
  <2>3. /\ d.streams = c.streams /\ d.created = c.created
        /\ d.closedIds = c.closedIds /\ d.closedPeer = c.closedPeer /\ d.max = c.max
        /\ d.sf = c.sf /\ d.delayed = c.delayed /\ d.qdhUnsent = c.qdhUnsent
        /\ d.http = c.http /\ d.server = c.server /\ d.flags = c.flags /\ d.ticked = c.ticked
    BY <1>1, <2>1 DEF IflType
  <2>4. Sane(d, f)
    BY <1>1, <2>2, <2>3, FrameRule
  <2>5. HttpInv(d)
    BY <2>3 DEF HttpInv, HskIsDone
  <2>6. AvailStreams(d, "bidi") = AvailStreams(c, "bidi") /\ AvailStreams(c, "bidi") \in Nat
    BY <1>0, <1>1, <2>3, AvailIs DEF AvailStreams
  <2>7. HskIsDone(d) => AvailStreams(d, "bidi") = 0
    BY <1>3, <2>3, <2>6 DEF HskIsDone
  <2> QED BY <2>4, <2>5, <2>7 DEF WaitInv, d
<1> QED BY <1>2, <1>3

(* The streams of the peer *)
PeerIds(sd, k) == {Id("peer", sd, n) : n \in 0 .. k - 1}
LEMMA PeerIdsCount ==
    ASSUME NEW sd \in Dirs, NEW k \in Nat
    PROVE  IsFiniteSet(PeerIds(sd, k)) /\ Cardinality(PeerIds(sd, k)) = k
<1> DEFINE S == 0 .. k - 1
           g == [n \in S |-> Id("peer", sd, n)]
<1>1. IsFiniteSet(S) /\ Cardinality(S) = k
  BY FS_Interval
<1>2. g \in [S -> PeerIds(sd, k)]
  BY DEF PeerIds
<1>3. \A m, n \in S : g[m] = g[n] => m = n
  BY DEF Id
<1>4. \A x \in PeerIds(sd, k) : \E n \in S : g[n] = x
  BY DEF PeerIds
<1> HIDE DEF g, S
<1>5. g \in Bijection(S, PeerIds(sd, k))
  BY <1>2, <1>3, <1>4 DEF Bijection, Injection, Surjection, IsInjective
<1>6. ExistsBijection(S, PeerIds(sd, k))
  BY <1>5 DEF ExistsBijection
<1> QED BY <1>1, <1>6, FS_Bijection

LEMMA AmongPeerIds ==
    ASSUME NEW sd \in Dirs, NEW k \in Nat, NEW S \in SUBSET IdType,
           \A id \in S : id.who = "peer" /\ id.sd = sd /\ id.n < k
    PROVE  S \subseteq PeerIds(sd, k) /\ IsFiniteSet(S) /\ Cardinality(S) \in Nat /\ Cardinality(S) <= k
<1>1. ASSUME NEW id \in S PROVE id \in PeerIds(sd, k)
  <2>1. id \in IdType /\ id.who = "peer" /\ id.sd = sd /\ id.n < k
    OBVIOUS
  <2>2. id.n \in 0 .. k - 1
    BY <2>1 DEF IdType
  <2>3. id = Id("peer", sd, id.n)
    BY <2>1, IdEq
  <2> QED BY <2>2, <2>3 DEF PeerIds
<1>2. S \in SUBSET PeerIds(sd, k)
  BY <1>1
<1>3. IsFiniteSet(S) /\ Cardinality(S) <= Cardinality(PeerIds(sd, k))
  BY <1>2, PeerIdsCount, FS_Subset
<1> QED BY <1>2, <1>3, PeerIdsCount, FS_CardinalityType

LEMMA DisjointCount ==
    ASSUME NEW S, NEW T, IsFiniteSet(S), IsFiniteSet(T), S \cap T = {}
    PROVE  IsFiniteSet(S \cup T) /\ Cardinality(S \cup T) = Cardinality(S) + Cardinality(T)
<1>1. /\ IsFiniteSet(S \cup T)
      /\ Cardinality(S \cup T) = Cardinality(S) + Cardinality(T) - Cardinality(S \cap T)
  BY FS_Union
<1>2. Cardinality(S \cap T) = 0 /\ Cardinality(S) \in Nat /\ Cardinality(T) \in Nat
  BY FS_EmptySet, FS_CardinalityType
<1> QED BY <1>1, <1>2

LEMMA ClosedMarked ==
    ASSUME StreamLimitsAssumption, NEW c, NEW f, Sane(c, f), NEW ids \in SUBSET IdType,
           ids \cap c.closedIds = {},
           \A id \in ids : id \in c.streams \/ (id.who = "peer" /\ id.n < f.opened[id.sd]),
           NEW b \in IflType, b.streams = c.streams \ ids,
           b.server = c.server, b.http = c.http, b.created = c.created, b.flags = c.flags,
           b.closedPeer = c.closedPeer, b.max = c.max, b.closedIds = c.closedIds,
           b.pending = c.pending, b.ticked = c.ticked, b.delayed = c.delayed,
           b.qdhUnsent = c.qdhUnsent,
           \A sd \in Dirs : SendMaxStreams(sd) \in c.sf => SendMaxStreams(sd) \in b.sf
    PROVE  LET d == MarkClosed(b, ids)
           IN  /\ Sane(d, f) /\ d.flags = c.flags /\ d.http = c.http /\ d.pending = c.pending
               /\ d.ticked = c.ticked /\ d.max = c.max /\ d.created = c.created
               /\ d.streams = b.streams
<1> DEFINE F(sd) == {id \in ids \ b.closedIds : id.who = "peer" /\ id.sd = sd}
           cp == [sd \in Dirs |-> b.closedPeer[sd] + Cardinality(F(sd))]
           e == [b EXCEPT !.closedPeer = cp, !.closedIds = b.closedIds \cup ids]
           due == {sd \in Dirs : F(sd) # {} /\ SendMaxStreams(sd) \notin b.sf /\ Threshold(e, sd)}
           sf == b.sf \cup {SendMaxStreams(sd) : sd \in {x \in due : CanGiveCredit(e, x)}}
           de == b.delayed \/ \E sd \in due : ~CanGiveCredit(e, sd)
           d == MarkClosed(b, ids)
<1>1. d = [e EXCEPT !.sf = sf, !.delayed = de]
  BY DEF MarkClosed, IflType
<1>2. /\ c \in IflType /\ f \in FarType /\ c.closedIds \subseteq IdType /\ c.streams \subseteq IdType
      /\ f.opened \in [Dirs -> Nat] /\ c.created \in [Dirs -> Nat] /\ c.closedPeer \in [Dirs -> Nat]
      /\ c.max \in [Ends -> [Dirs -> Nat]] /\ StreamsIn \in Nat /\ StreamsIn > 0
  BY LimitsConst DEF Sane, IflType, FarType
<1>3. ASSUME NEW id \in ids PROVE id.n < (IF id.who = "us" THEN c.created[id.sd] ELSE f.opened[id.sd])
  <2>1. CASE id \in c.streams
    BY <2>1 DEF Sane, StreamsInv, Numbered, Known
  <2>2. CASE id.who = "peer" /\ id.n < f.opened[id.sd]
    BY <2>2
  <2> QED BY <1>3, <2>1, <2>2
<1>4. ASSUME NEW sd \in Dirs
      PROVE  /\ IsFiniteSet(F(sd)) /\ Cardinality(F(sd)) \in Nat
             /\ IsFiniteSet(PeerClosed(c, sd)) /\ F(sd) \cap PeerClosed(c, sd) = {}
             /\ c.closedPeer[sd] = Cardinality(PeerClosed(c, sd))
  <2>1. f.opened[sd] \in Nat
    BY <1>2
  <2>2. F(sd) \in SUBSET IdType /\ \A id \in F(sd) : id.who = "peer" /\ id.sd = sd /\ id.n < f.opened[sd]
    BY <1>3
  <2>3. PeerClosed(c, sd) \in SUBSET IdType
        /\ \A id \in PeerClosed(c, sd) : id.who = "peer" /\ id.sd = sd /\ id.n < f.opened[sd]
    BY <1>2 DEF PeerClosed, Sane, StreamsInv, Numbered, Known
  <2>4. F(sd) \cap PeerClosed(c, sd) = {}
    BY DEF PeerClosed
  <2> HIDE DEF F
  <2> QED BY <2>1, <2>2, <2>3, <2>4, AmongPeerIds DEF Sane, StreamsInv
<1>5. cp \in [Dirs -> Nat] /\ \A sd \in Dirs : cp[sd] = c.closedPeer[sd] + Cardinality(F(sd))
  <2>1. ASSUME NEW sd \in Dirs PROVE b.closedPeer[sd] + Cardinality(F(sd)) \in Nat
    <3>1. Cardinality(F(sd)) \in Nat
      BY <1>4
    <3>2. b.closedPeer[sd] \in Nat
      BY <1>2
    <3> HIDE DEF F
    <3> QED BY <3>1, <3>2
  <2> HIDE DEF F
  <2> QED BY <2>1
<1> HIDE DEF F, cp
<1>6. e \in IflType
  BY <1>5 DEF IflType
<1>7. /\ e.closedPeer = cp /\ e.closedIds = c.closedIds \cup ids /\ e.max = c.max /\ e.server = c.server
      /\ e.http = c.http /\ e.delayed = c.delayed /\ e.qdhUnsent = c.qdhUnsent
  BY DEF IflType
<1> DEFINE new == {SendMaxStreams(sd) : sd \in {x \in due : CanGiveCredit(e, x)}}
<1>8. sf \in SUBSET SfType /\ b.sf \subseteq sf /\ de \in BOOLEAN
  <2>1. \A x \in new : x \in SfType
    BY Frames
  <2>2. b.sf \in SUBSET SfType
    BY DEF IflType
  <2>3. sf = b.sf \cup new
    OBVIOUS
  <2>4. de \in BOOLEAN
    BY DEF IflType
  <2> QED BY <2>1, <2>2, <2>3, <2>4
<1>9. ASSUME NEW sd \in due PROVE SendMaxStreams(sd) \in sf \/ (de /\ ~CanGiveCredit(e, sd))
  <2>1. CASE CanGiveCredit(e, sd)
    BY <2>1
  <2>2. CASE ~CanGiveCredit(e, sd)
    BY <2>2
  <2> QED BY <2>1, <2>2
<1>10. ASSUME de, ~c.delayed PROVE \E sd \in due : ~CanGiveCredit(e, sd)
  BY <1>10
<1>11. ASSUME NEW sd \in Dirs, F(sd) # {}, SendMaxStreams(sd) \notin b.sf, Threshold(e, sd) PROVE sd \in due
  BY <1>11
<1>12. c.delayed => de
  OBVIOUS
<1> HIDE DEF e, due, sf, de, d
<1>13. d \in IflType
  BY <1>1, <1>6, <1>8 DEF IflType
<1>14. /\ d.closedPeer = cp /\ d.closedIds = c.closedIds \cup ids /\ d.max = c.max /\ d.server = c.server
       /\ d.http = c.http /\ d.delayed = de /\ d.qdhUnsent = c.qdhUnsent /\ d.sf = sf
       /\ d.streams = c.streams \ ids /\ d.created = c.created /\ d.flags = c.flags
       /\ d.pending = c.pending /\ d.ticked = c.ticked
  BY <1>1, <1>6, <1>7 DEF IflType, e
<1>15. StreamsInv(d, f.opened)
  <2>1. d.streams \cap d.closedIds = {}
    BY <1>14 DEF Sane, StreamsInv
  <2>2. Known(d) = Known(c) \cup ids
    BY <1>14 DEF Known
  <2>3. Numbered(d, f.opened)
    BY <1>3, <1>14, <2>2 DEF Sane, StreamsInv, Numbered
  <2>4. \A sd \in Dirs : \A n \in Nat : n < d.created[sd] => Id("us", sd, n) \in Known(d)
    BY <1>14, <2>2 DEF Sane, StreamsInv
  <2>5. ASSUME NEW sd \in Dirs PROVE d.closedPeer[sd] = Cardinality(PeerClosed(d, sd))
    <3>1. PeerClosed(d, sd) = F(sd) \cup PeerClosed(c, sd)
      BY <1>14 DEF PeerClosed, F
    <3>2. Cardinality(PeerClosed(d, sd)) = Cardinality(F(sd)) + Cardinality(PeerClosed(c, sd))
      <4>1. IsFiniteSet(F(sd)) /\ IsFiniteSet(PeerClosed(c, sd)) /\ F(sd) \cap PeerClosed(c, sd) = {}
        BY <1>4
      <4>2. Cardinality(F(sd) \cup PeerClosed(c, sd)) = Cardinality(F(sd)) + Cardinality(PeerClosed(c, sd))
        BY <4>1, DisjointCount
      <4> QED BY <3>1, <4>2
    <3>3. Cardinality(PeerClosed(c, sd)) = c.closedPeer[sd] /\ c.closedPeer[sd] \in Nat
          /\ Cardinality(F(sd)) \in Nat
      BY <1>2, <1>4
    <3> QED BY <1>5, <1>14, <3>2, <3>3
  <2> QED BY <2>1, <2>3, <2>4, <2>5 DEF StreamsInv
<1>16. CreditInv(d, f)
  <2> SUFFICES ASSUME NEW sd \in Dirs PROVE d.max["peer"][sd] <= d.closedPeer[sd] + StreamsIn
    BY <1>14 DEF Sane, CreditInv
  <2>1. c.max["peer"][sd] <= c.closedPeer[sd] + StreamsIn
    BY DEF Sane, CreditInv
  <2>2. c.max["peer"][sd] \in Nat /\ c.closedPeer[sd] \in Nat /\ Cardinality(F(sd)) \in Nat
    BY <1>2, <1>4 DEF Ends
  <2> QED BY <1>2, <1>5, <1>14, <2>1, <2>2
<1>17. DueInv(d)
  <2>1. ASSUME NEW sd \in Dirs, Threshold(d, sd)
        PROVE  SendMaxStreams(sd) \in d.sf \/ (sd = "bidi" /\ d.delayed)
    <3>1. Threshold(e, sd)
      BY <1>7, <1>14, <2>1 DEF Threshold
    <3>2. CASE F(sd) = {}
      <4>1. cp[sd] = c.closedPeer[sd]
        <5>1. Cardinality(F(sd)) = 0
          BY <3>2, FS_EmptySet
        <5>2. c.closedPeer[sd] \in Nat
          BY <1>2
        <5> QED BY <1>5, <5>1, <5>2
      <4>2. Threshold(c, sd)
        BY <1>14, <2>1, <4>1 DEF Threshold
      <4> QED BY <1>8, <1>12, <1>14, <4>2 DEF Sane, DueInv
    <3>3. CASE SendMaxStreams(sd) \in b.sf
      BY <1>8, <1>14, <3>3
    <3>4. CASE F(sd) # {} /\ SendMaxStreams(sd) \notin b.sf
      <4>1. sd \in due
        BY <1>11, <3>1, <3>4
      <4>2. ~CanGiveCredit(e, sd) => sd = "bidi"
        BY DEF CanGiveCredit
      <4> QED BY <1>9, <1>14, <4>1, <4>2
    <3> QED BY <3>2, <3>3, <3>4
  <2>2. d.delayed => d.qdhUnsent
    <3>1. ASSUME de, ~c.delayed PROVE c.qdhUnsent
      BY <1>7, <1>10, <3>1 DEF CanGiveCredit
    <3>2. c.delayed => c.qdhUnsent
      BY DEF Sane, DueInv
    <3> QED BY <1>14, <3>1, <3>2
  <2> QED BY <2>1, <2>2 DEF DueInv
<1>18. LimitsInv(d, f)
  BY <1>14 DEF Sane, LimitsInv
<1>19. Sane(d, f)
  BY <1>2, <1>13, <1>15, <1>16, <1>17, <1>18 DEF Sane
<1> QED BY <1>14, <1>19 DEF d

-----------------------------------------------------------------------------
(* Steps that leave the limits and what waits for them alone. *)
Keeps(d, c, f) ==
    /\ Sane(d, f) /\ d.flags = c.flags /\ d.http = c.http /\ d.pending = c.pending
    /\ d.ticked = c.ticked /\ d.max = c.max /\ d.created = c.created
LEMMA KeepsInv ==
    ASSUME NEW c, NEW f, NEW d, Keeps(d, c, f), HttpInv(c), WaitInv(c)
    PROVE  Sane(d, f) /\ HttpInv(d) /\ WaitInv(d)
  BY DEF Keeps, HttpInv, WaitInv, HskIsDone, AvailStreams

LEMMA KeepsSelf ==
    ASSUME NEW c, NEW f, Sane(c, f) PROVE Keeps(c, c, f)
  BY DEF Keeps

LEMMA RejectKeeps ==
    ASSUME StreamLimitsAssumption, NEW c, NEW f, Sane(c, f), NEW id \in IdType, id \notin Known(c),
           id.who = "peer", id.n < f.opened[id.sd]
    PROVE  Keeps(RejectStream(c, id), c, f)
<1> DEFINE b == [c EXCEPT !.toStop = Append(c.toStop, id), !.sf = c.sf \cup {StopSending}]
<1>1. RejectStream(c, id) = MarkClosed(b, {id})
  BY DEF RejectStream
<1>2. c \in IflType /\ c.toStop \in Seq(IdType) /\ c.sf \in SUBSET SfType
  BY DEF Sane, IflType
<1>3. Append(c.toStop, id) \in Seq(IdType) /\ c.sf \cup {StopSending} \in SUBSET SfType
  BY <1>2, Frames
<1>4. b \in IflType
  BY <1>2, <1>3 DEF IflType
<1>5. /\ b.streams = c.streams /\ b.server = c.server /\ b.http = c.http /\ b.created = c.created
      /\ b.flags = c.flags /\ b.closedPeer = c.closedPeer /\ b.max = c.max
      /\ b.closedIds = c.closedIds /\ b.pending = c.pending /\ b.ticked = c.ticked
      /\ b.delayed = c.delayed /\ b.qdhUnsent = c.qdhUnsent /\ b.sf = c.sf \cup {StopSending}
  BY <1>2 DEF IflType
<1> HIDE DEF b
<1>6. {id} \cap c.closedIds = {} /\ c.streams = c.streams \ {id} /\ {id} \in SUBSET IdType
  BY DEF Known
<1>7. b.streams = c.streams \ {id} /\ \A sd \in Dirs : SendMaxStreams(sd) \in c.sf => SendMaxStreams(sd) \in b.sf
  BY <1>5, <1>6
<1>8. \A x \in {id} : x \in c.streams \/ (x.who = "peer" /\ x.n < f.opened[x.sd])
  OBVIOUS
<1> QED BY <1>1, <1>4, <1>5, <1>6, <1>7, <1>8, ClosedMarked DEF Keeps

LEMMA NewStreamKeeps ==
    ASSUME NEW c, NEW f, Sane(c, f), NEW id \in IdType, id \notin Known(c),
           id.who = "peer", id.n < f.opened[id.sd]
    PROVE  Keeps(NewStream(c, id), c, f)
<1> DEFINE d == NewStream(c, id)
<1>1. c \in IflType /\ f \in FarType /\ c.streams \cup {id} \subseteq IdType
  BY DEF Sane, IflType
<1>2. d = [c EXCEPT !.streams = c.streams \cup {id}]
  BY DEF NewStream
<1> HIDE DEF d
<1>3. d \in IflType
  BY <1>1, <1>2 DEF IflType
<1>4. /\ d.streams = c.streams \cup {id} /\ d.created = c.created
      /\ d.closedIds = c.closedIds /\ d.closedPeer = c.closedPeer /\ d.max = c.max /\ d.sf = c.sf
      /\ d.delayed = c.delayed /\ d.qdhUnsent = c.qdhUnsent /\ d.http = c.http /\ d.server = c.server
      /\ d.flags = c.flags /\ d.pending = c.pending /\ d.ticked = c.ticked
  BY <1>1, <1>2 DEF IflType
<1>5. StreamsInv(d, f.opened)
  <2>1. Known(d) = Known(c) \cup {id}
    BY <1>4 DEF Known
  <2>2. Numbered(d, f.opened)
    BY <1>4, <2>1 DEF Sane, StreamsInv, Numbered
  <2>3. d.streams \cap d.closedIds = {}
    BY <1>4 DEF Sane, StreamsInv, Known
  <2>4. \A sd \in Dirs : \A n \in Nat : n < d.created[sd] => Id("us", sd, n) \in Known(d)
    BY <1>4, <2>1 DEF Sane, StreamsInv
  <2>5. \A x \in Dirs : d.closedPeer[x] = Cardinality(PeerClosed(d, x))
    BY <1>4 DEF Sane, StreamsInv, PeerClosed
  <2> QED BY <2>2, <2>3, <2>4, <2>5 DEF StreamsInv
<1>6. CreditInv(d, f) /\ LimitsInv(d, f)
  BY <1>4 DEF Sane, CreditInv, LimitsInv
<1>7. DueInv(d)
  <2>1. \A x \in Dirs : Threshold(d, x) = Threshold(c, x)
    BY <1>4 DEF Threshold
  <2> QED BY <1>4, <2>1 DEF Sane, DueInv
<1> QED BY <1>1, <1>3, <1>4, <1>5, <1>6, <1>7 DEF Sane, Keeps, d

LEMMA NoteRequestKeeps ==
    ASSUME NEW c, NEW f, Sane(c, f), NEW id \in IdType
    PROVE  Keeps(NoteRequest(c, id), c, f)
<1>1. CASE id.sd # "bidi"
  BY <1>1, KeepsSelf DEF NoteRequest
<1>2. CASE id.sd = "bidi"
  <2> DEFINE m == Max({c.maxReq, id.n})
             d == [c EXCEPT !.maxReq = m]
  <2>1. NoteRequest(c, id) = d
    BY <1>2 DEF NoteRequest
  <2>2. c \in IflType /\ c.maxReq \in Int /\ id.n \in Int /\ (c.delayed => c.qdhUnsent)
    <3>1. c \in IflType /\ (c.delayed => c.qdhUnsent)
      BY DEF Sane, DueInv
    <3>2. c.maxReq \in Int
      BY <3>1 DEF IflType
    <3>3. id.n \in Int
      BY DEF IdType
    <3> QED BY <3>1, <3>2, <3>3
  <2>3. m \in Int
    BY <2>2, MaxOfTwo
  <2> HIDE DEF m
  <2>4. d \in IflType
    BY <2>2, <2>3 DEF IflType
  <2>5. /\ d.streams = c.streams /\ d.created = c.created
        /\ d.closedIds = c.closedIds /\ d.closedPeer = c.closedPeer /\ d.max = c.max /\ d.sf = c.sf
        /\ d.delayed = c.delayed /\ d.qdhUnsent = c.qdhUnsent /\ d.http = c.http /\ d.server = c.server
        /\ d.flags = c.flags /\ d.pending = c.pending /\ d.ticked = c.ticked
    BY <2>2 DEF IflType
  <2> HIDE DEF d
  <2>6. Sane(d, f)
    BY <2>2, <2>4, <2>5, FrameRule
  <2> QED BY <2>1, <2>5, <2>6 DEF Keeps
<1> QED BY <1>1, <1>2

LEMMA KeepsTrans ==
    ASSUME NEW c, NEW f, NEW d, NEW e, Keeps(d, c, f), Keeps(e, d, f)
    PROVE  Keeps(e, c, f)
  BY DEF Keeps

(* A frame for a stream that was opened: the stream is known, or may be opened *)
LEMMA FrameKeeps ==
    ASSUME StreamLimitsAssumption, NEW c, NEW f, Sane(c, f), NEW id \in IdType,
           id.n < (IF id.who = "us" THEN c.created[id.sd] ELSE f.opened[id.sd]),
           NEW t \in PeerFrames(id)
    PROVE  /\ t = "STREAM" => Keeps(StreamFrame(c, id), c, f)
           /\ t = "RESET_STREAM" => Keeps(RstStreamFrame(c, id), c, f)
           /\ t = "STOP_SENDING" => Keeps(StopSendingFrame(c, id), c, f)
           /\ t = "MAX_STREAM_DATA" => Keeps(MaxStreamDataFrame(c, id), c, f)
           /\ t = "STREAM_DATA_BLOCKED" => Keeps(StreamBlockedFrame(c, id), c, f)
<1>1. /\ c \in IflType /\ f \in FarType /\ id.sd \in Dirs /\ id.n \in Nat /\ id.who \in Ends
      /\ f.opened[id.sd] \in Nat /\ c.max["peer"][id.sd] \in Nat
  BY DEF Sane, IflType, FarType, IdType, Ends
<1>2. /\ SendOnly(id) => t \notin {"RESET_STREAM", "STREAM", "STREAM_DATA_BLOCKED"}
      /\ RecvOnly(id) => t \notin {"STOP_SENDING", "MAX_STREAM_DATA"}
  BY DEF PeerFrames, SendOnly, RecvOnly
<1>3. id.who = "us" => id \in c.streams \cup c.closedIds
  <2> SUFFICES ASSUME id.who = "us" PROVE id \in Known(c)
    BY DEF Known
  <2>1. id.n < c.created[id.sd] /\ id = Id("us", id.sd, id.n)
    BY IdEq
  <2> QED BY <1>1, <2>1 DEF Sane, StreamsInv
<1>4. id.who = "peer" => id.n < f.opened[id.sd] /\ ~(id.n >= c.max["peer"][id.sd])
  <2>1. f.opened[id.sd] <= f.allowed[id.sd] /\ f.allowed[id.sd] <= c.max["peer"][id.sd]
        /\ f.allowed[id.sd] \in Nat
    BY <1>1 DEF Sane, CreditInv, FarType
  <2> QED BY <1>1, <2>1
<1>5. ~NotAllowed(c, id)
  <2> SUFFICES ASSUME c.http, ~c.server, id.who = "peer", id.sd = "bidi" PROVE FALSE
    BY DEF NotAllowed
  <2>1. f.opened["bidi"] = 0
    BY DEF Sane, LimitsInv
  <2> QED BY <1>1, <1>4, <2>1
<1>6. Keeps(c, c, f)
  BY KeepsSelf
<1>7. CASE id \in c.streams \cup c.closedIds
  <2>1. t = "STREAM" => StreamFrame(c, id) = c
    BY <1>2, <1>5, <1>7 DEF StreamFrame
  <2>2. t = "RESET_STREAM" => RstStreamFrame(c, id) = c
    BY <1>2, <1>7 DEF RstStreamFrame
  <2>3. t = "STOP_SENDING" => StopSendingFrame(c, id) = c
    BY <1>2, <1>7 DEF StopSendingFrame
  <2>4. t = "MAX_STREAM_DATA" => MaxStreamDataFrame(c, id) = c
    BY <1>2, <1>7 DEF MaxStreamDataFrame
  <2>5. t = "STREAM_DATA_BLOCKED" => StreamBlockedFrame(c, id) = c
    BY <1>2 DEF StreamBlockedFrame
  <2> QED BY <1>6, <2>1, <2>2, <2>3, <2>4, <2>5
<1>8. CASE id \notin c.streams \cup c.closedIds
  <2>1. id.who = "peer" /\ id \notin Known(c) /\ id.n < f.opened[id.sd] /\ ~(id.n >= c.max["peer"][id.sd])
    BY <1>1, <1>3, <1>4, <1>8 DEF Known, Ends
  <2>2. Keeps(RejectStream(c, id), c, f)
    BY <2>1, RejectKeeps
  <2>3. Keeps(NewStream(c, id), c, f)
    BY <2>1, NewStreamKeeps
  <2>4. Keeps(NoteRequest(NewStream(c, id), id), c, f)
    <3>1. Sane(NewStream(c, id), f)
      BY <2>3 DEF Keeps
    <3> QED BY <2>3, <3>1, NoteRequestKeeps, KeepsTrans
  <2>5. t = "STREAM" => StreamFrame(c, id) \in {c, RejectStream(c, id), NoteRequest(NewStream(c, id), id)}
    BY <1>2, <1>5, <1>8, <2>1 DEF StreamFrame
  <2>6. t = "RESET_STREAM" => RstStreamFrame(c, id) = NewStream(c, id)
    BY <1>2, <1>8, <2>1 DEF RstStreamFrame
  <2>7. t = "STOP_SENDING" => StopSendingFrame(c, id) \in {RejectStream(c, id), NewStream(c, id)}
    BY <1>2, <1>8, <2>1 DEF StopSendingFrame
  <2>8. t = "MAX_STREAM_DATA" => MaxStreamDataFrame(c, id) \in {c, RejectStream(c, id), NoteRequest(NewStream(c, id), id)}
    BY <1>2, <1>5, <1>8, <2>1 DEF MaxStreamDataFrame
  <2>9. t = "STREAM_DATA_BLOCKED" => StreamBlockedFrame(c, id) = c
    BY <1>2 DEF StreamBlockedFrame
  <2> QED BY <1>6, <2>2, <2>3, <2>4, <2>5, <2>6, <2>7, <2>8, <2>9
<1> QED BY <1>7, <1>8

-----------------------------------------------------------------------------
(* The tick *)
LEMMA FinishedServiced ==
    ASSUME StreamLimitsAssumption, NEW c, NEW f, Sane(c, f), HttpInv(c), NEW gone \in SUBSET c.streams
    PROVE  LET d == ServiceFinished(c, gone)
           IN  Sane(d, f) /\ HttpInv(d) /\ (d.pending > 0 => AvailStreams(d, "bidi") = 0)
<1> DEFINE b == [c EXCEPT !.streams = c.streams \ gone]
           m == MarkClosed(b, gone)
           d == ServiceFinished(c, gone)
<1>1. FreeStreams(c, gone) = m
  BY DEF FreeStreams
<1>2. c \in IflType /\ c.streams \in SUBSET IdType /\ c.streams \cap c.closedIds = {}
  BY DEF Sane, StreamsInv, IflType
<1>3. b \in IflType
  BY <1>2 DEF IflType
<1>4. /\ b.streams = c.streams \ gone /\ b.server = c.server /\ b.http = c.http /\ b.created = c.created
      /\ b.flags = c.flags /\ b.closedPeer = c.closedPeer /\ b.max = c.max
      /\ b.closedIds = c.closedIds /\ b.pending = c.pending /\ b.ticked = c.ticked
      /\ b.delayed = c.delayed /\ b.qdhUnsent = c.qdhUnsent /\ b.sf = c.sf
  BY <1>2 DEF IflType
<1>5. /\ gone \in SUBSET IdType /\ gone \cap c.closedIds = {}
      /\ \A id \in gone : id \in c.streams \/ (id.who = "peer" /\ id.n < f.opened[id.sd])
  BY <1>2
<1> HIDE DEF b
<1>6. /\ Sane(m, f) /\ m.flags = c.flags /\ m.http = c.http /\ m.pending = c.pending
      /\ m.ticked = c.ticked /\ m.max = c.max /\ m.created = c.created
  BY <1>3, <1>4, <1>5, ClosedMarked
<1> HIDE DEF m
<1>7. CASE GoingAway(m)
  <2>1. d = [m EXCEPT !.refused = m.refused + m.pending, !.pending = 0]
    BY <1>1, <1>7 DEF ServiceFinished
  <2>2. m \in IflType /\ m.refused + m.pending \in Nat
    BY <1>6 DEF Sane, IflType
  <2> HIDE DEF d
  <2>3. d \in IflType
    BY <2>1, <2>2 DEF IflType
  <2>4. /\ d.streams = m.streams /\ d.created = m.created
        /\ d.closedIds = m.closedIds /\ d.closedPeer = m.closedPeer /\ d.max = m.max /\ d.sf = m.sf
        /\ d.delayed = m.delayed /\ d.qdhUnsent = m.qdhUnsent /\ d.http = m.http /\ d.server = m.server
        /\ d.flags = m.flags /\ d.pending = 0
    BY <2>1, <2>2 DEF IflType
  <2>5. m.delayed => m.qdhUnsent
    BY <1>6 DEF Sane, DueInv
  <2>6. Sane(d, f)
    BY <1>6, <2>3, <2>4, <2>5, FrameRule
  <2>7. HttpInv(d)
    BY <1>6, <2>4 DEF HttpInv, HskIsDone
  <2> QED BY <2>4, <2>6, <2>7 DEF d
<1>8. CASE ~GoingAway(m)
  <2>1. d = MaybeCreateDelayed(m)
    BY <1>1, <1>8 DEF ServiceFinished
  <2> HIDE DEF d
  <2>2. /\ Sane(d, f) /\ d.flags = m.flags /\ d.http = m.http /\ d.created["uni"] = m.created["uni"]
        /\ d.pending > 0 => AvailStreams(d, "bidi") = 0
    BY <1>6, <2>1, CreateDelayed
  <2>3. HttpInv(d)
    BY <1>6, <2>2 DEF HttpInv, HskIsDone
  <2> QED BY <2>2, <2>3 DEF d
<1> QED BY <1>7, <1>8

(* A MAX_STREAMS frame goes out. *)
WithWire(f, W) == [f EXCEPT !.wire = f.wire \cup W]
LEMMA MaxStreamsGenerated ==
    ASSUME StreamLimitsAssumption, NEW c, NEW f, Sane(c, f), NEW sd \in Dirs
    PROVE  LET d == GenMaxStreams(c, sd)
           IN  /\ Sane(d, WithWire(f, {[sd |-> sd, n |-> d.max["peer"][sd]]}))
               /\ d.sf = c.sf \ {SendMaxStreams(sd)} /\ d.flags = c.flags /\ d.http = c.http
               /\ d.pending = c.pending /\ d.created = c.created /\ d.max["us"] = c.max["us"]
               /\ \A x \in Dirs : x # sd => d.max["peer"][x] = c.max["peer"][x]
<1> DEFINE d == GenMaxStreams(c, sd)
           lim == c.closedPeer[sd] + StreamsIn
           mp == [c.max["peer"] EXCEPT ![sd] = lim]
           mx == [c.max EXCEPT !["peer"] = mp]
           w == [sd |-> sd, n |-> lim]
           g == WithWire(f, {w})
<1>0. "us" \in Ends /\ "peer" \in Ends /\ "us" # "peer"
  BY DEF Ends
<1>1. /\ c \in IflType /\ f \in FarType /\ c.closedPeer \in [Dirs -> Nat] /\ c.max \in [Ends -> [Dirs -> Nat]]
      /\ StreamsIn \in Nat /\ StreamsIn > 0 /\ c.closedPeer[sd] \in Nat /\ c.max["peer"] \in [Dirs -> Nat]
  BY <1>0, LimitsConst DEF Sane, IflType
<1>2. lim \in Nat
  BY <1>1
<1>3. d = [c EXCEPT !.sf = c.sf \ {SendMaxStreams(sd)}, !.max = mx]
  BY DEF GenMaxStreams
<1>4. mp \in [Dirs -> Nat] /\ mp[sd] = lim /\ \A x \in Dirs : x # sd => mp[x] = c.max["peer"][x]
  BY <1>1, <1>2
<1> HIDE DEF mp, lim
<1>5. mx \in [Ends -> [Dirs -> Nat]] /\ mx["us"] = c.max["us"] /\ mx["peer"] = mp
  BY <1>0, <1>1, <1>4
<1> HIDE DEF mx, d
<1>6. d \in IflType
  BY <1>1, <1>3, <1>5 DEF IflType
<1>7. /\ d.streams = c.streams /\ d.created = c.created
      /\ d.closedIds = c.closedIds /\ d.closedPeer = c.closedPeer /\ d.max = mx
      /\ d.sf = c.sf \ {SendMaxStreams(sd)}
      /\ d.delayed = c.delayed /\ d.qdhUnsent = c.qdhUnsent /\ d.http = c.http /\ d.server = c.server
      /\ d.flags = c.flags /\ d.pending = c.pending
  BY <1>1, <1>3 DEF IflType
<1>8. d.max["peer"][sd] = lim
  BY <1>4, <1>5, <1>7
<1>9. g \in FarType
  BY <1>1, <1>2 DEF FarType, WithWire
<1>10. g.wire = f.wire \cup {w} /\ g.limit = f.limit /\ g.opened = f.opened /\ g.allowed = f.allowed
  BY <1>1 DEF FarType, WithWire
<1> HIDE DEF g
<1>11. StreamsInv(d, g.opened)
  BY <1>7, <1>10 DEF Sane, StreamsInv, Numbered, Known, PeerClosed
<1>12. c.max["peer"][sd] <= lim /\ c.max["peer"][sd] \in Nat
  BY <1>1 DEF Sane, CreditInv, lim
<1>13. CreditInv(d, g)
  <2> SUFFICES ASSUME NEW x \in Dirs
               PROVE  /\ g.opened[x] <= g.allowed[x] /\ g.allowed[x] <= d.max["peer"][x]
                      /\ d.max["peer"][x] <= d.closedPeer[x] + StreamsIn
                      /\ g.allowed[x] = d.max["peer"][x] \/ [sd |-> x, n |-> d.max["peer"][x]] \in g.wire
                      /\ \A v \in g.wire : v.sd = x => v.n <= d.max["peer"][x]
    BY DEF CreditInv
  <2>1. /\ f.opened[x] <= f.allowed[x] /\ f.allowed[x] <= c.max["peer"][x]
        /\ c.max["peer"][x] <= c.closedPeer[x] + StreamsIn
        /\ f.allowed[x] = c.max["peer"][x] \/ [sd |-> x, n |-> c.max["peer"][x]] \in f.wire
        /\ \A v \in f.wire : v.sd = x => v.n <= c.max["peer"][x]
    BY DEF Sane, CreditInv
  <2>2. w.sd = sd /\ w.n = lim
    OBVIOUS
  <2>3. CASE x # sd
    <3>1. d.max["peer"][x] = c.max["peer"][x]
      BY <1>4, <1>5, <1>7, <2>3
    <3> HIDE DEF w
    <3> QED BY <1>7, <1>10, <2>1, <2>2, <2>3, <3>1
  <2>4. CASE x = sd
    <3>1. f.allowed[sd] \in Nat /\ \A v \in f.wire : v.n \in Nat
      BY <1>1 DEF FarType
    <3>2. g.allowed[sd] <= lim
      BY <1>2, <1>10, <1>12, <2>1, <2>4, <3>1
    <3>3. lim <= d.closedPeer[sd] + StreamsIn
      BY <1>1, <1>2, <1>7 DEF lim
    <3>4. ASSUME NEW v \in g.wire, v.sd = sd PROVE v.n <= lim
      <4>1. CASE v \in f.wire
        BY <1>2, <1>12, <2>1, <2>4, <3>1, <3>4, <4>1
      <4>2. CASE v = w
        BY <1>2, <2>2, <4>2
      <4> QED BY <1>10, <4>1, <4>2
    <3> QED BY <1>8, <1>10, <2>1, <2>4, <3>2, <3>3, <3>4
  <2> QED BY <2>3, <2>4
<1>14. DueInv(d)
  <2>1. ASSUME NEW x \in Dirs, Threshold(d, x)
        PROVE  SendMaxStreams(x) \in d.sf \/ (x = "bidi" /\ d.delayed)
    <3>1. CASE x = sd
      <4>1. c.closedPeer[sd] + StreamsIn \div 2 >= c.closedPeer[sd] + StreamsIn
        BY <1>7, <1>8, <2>1, <3>1 DEF Threshold, lim
      <4>2. StreamsIn \div 2 \in Nat /\ StreamsIn \div 2 < StreamsIn
        BY <1>1
      <4> QED BY <1>1, <4>1, <4>2
    <3>2. CASE x # sd
      <4>1. Threshold(c, x)
        BY <1>4, <1>5, <1>7, <2>1, <3>2 DEF Threshold
      <4>2. SendMaxStreams(x) # SendMaxStreams(sd)
        BY <3>2, Frames
      <4> QED BY <1>7, <4>1, <4>2 DEF Sane, DueInv
    <3> QED BY <3>1, <3>2
  <2> QED BY <1>7, <2>1 DEF Sane, DueInv
<1>15. LimitsInv(d, g)
  BY <1>5, <1>7, <1>10 DEF Sane, LimitsInv
<1>16. Sane(d, g)
  BY <1>6, <1>9, <1>11, <1>13, <1>14, <1>15 DEF Sane
<1>17. g = WithWire(f, {[sd |-> sd, n |-> d.max["peer"][sd]]})
  BY <1>8 DEF g
<1>18. \A x \in Dirs : x # sd => d.max["peer"][x] = c.max["peer"][x]
  BY <1>4, <1>5, <1>7
<1> QED BY <1>5, <1>7, <1>16, <1>17, <1>18 DEF d

LEMMA SendsMaxStreams ==
    ASSUME StreamLimitsAssumption, NEW c, NEW f, Sane(c, f), NEW sd \in Dirs, NEW send \in BOOLEAN
    PROVE  LET d == IF send /\ SendMaxStreams(sd) \in c.sf THEN GenMaxStreams(c, sd) ELSE c
               W == {[sd |-> x, n |-> d.max["peer"][x]] :
                        x \in {y \in {sd} : SendMaxStreams(y) \in c.sf /\ SendMaxStreams(y) \notin d.sf}}
           IN  /\ Sane(d, WithWire(f, W))
               /\ d.flags = c.flags /\ d.http = c.http
               /\ d.pending = c.pending /\ d.created = c.created /\ d.max["us"] = c.max["us"]
               /\ \A x \in Dirs : x # sd => /\ d.max["peer"][x] = c.max["peer"][x]
                                            /\ SendMaxStreams(x) \in d.sf <=> SendMaxStreams(x) \in c.sf
               /\ SendMaxStreams(sd) \notin c.sf => SendMaxStreams(sd) \notin d.sf
<1> DEFINE d == IF send /\ SendMaxStreams(sd) \in c.sf THEN GenMaxStreams(c, sd) ELSE c
           D == {y \in {sd} : SendMaxStreams(y) \in c.sf /\ SendMaxStreams(y) \notin d.sf}
           W == {[sd |-> x, n |-> d.max["peer"][x]] : x \in D}
<1>1. CASE send /\ SendMaxStreams(sd) \in c.sf
  <2>1. d = GenMaxStreams(c, sd)
    BY <1>1
  <2> HIDE DEF d
  <2>2. /\ Sane(d, WithWire(f, {[sd |-> sd, n |-> d.max["peer"][sd]]}))
        /\ d.sf = c.sf \ {SendMaxStreams(sd)} /\ d.flags = c.flags /\ d.http = c.http
        /\ d.pending = c.pending /\ d.created = c.created /\ d.max["us"] = c.max["us"]
        /\ \A x \in Dirs : x # sd => d.max["peer"][x] = c.max["peer"][x]
    BY <2>1, MaxStreamsGenerated
  <2>3. D = {sd}
    BY <1>1, <2>2
  <2> HIDE DEF D
  <2>4. W = {[sd |-> sd, n |-> d.max["peer"][sd]]}
    BY <2>3
  <2> HIDE DEF W
  <2>5. \A x \in Dirs : x # sd => (SendMaxStreams(x) \in d.sf <=> SendMaxStreams(x) \in c.sf)
    BY <2>2, Frames
  <2> QED BY <1>1, <2>2, <2>4, <2>5 DEF W, D, d
<1>2. CASE ~(send /\ SendMaxStreams(sd) \in c.sf)
  <2>1. d = c
    BY <1>2
  <2> HIDE DEF d
  <2>2. D = {}
    BY <2>1
  <2> HIDE DEF D
  <2>3. W = {}
    BY <2>2
  <2> HIDE DEF W
  <2>4. f \in FarType
    BY DEF Sane
  <2>5. WithWire(f, {}) = f
    BY <2>4 DEF FarType, WithWire
  <2>6. Sane(d, WithWire(f, W))
    BY <2>1, <2>3, <2>5
  <2> QED BY <2>1, <2>6 DEF W, D, d
<1> QED BY <1>1, <1>2

LEMMA TickKeeps ==
    ASSUME StreamLimitsAssumption, SLInv, TickStreams
    PROVE  SLInv'
<1>1. PICK gone \in SUBSET {id \in ifl.streams : InScope(id.who, id.sd)}, send \in BOOLEAN :
        LET c == ServiceFinished(ifl, gone)
            d == IF send /\ SendMaxStreams("bidi") \in c.sf THEN GenMaxStreams(c, "bidi") ELSE c
            e == IF send /\ SendMaxStreams("uni") \in d.sf THEN GenMaxStreams(d, "uni") ELSE d
        IN /\ ifl' = [e EXCEPT !.ticked = TRUE,
                               !.sf = IF send THEN @ \ {StopSending, StreamsBlocked("uni")} ELSE @,
                               !.toStop = IF send THEN <<>> ELSE @]
           /\ far' = [far EXCEPT !.wire = @ \cup {[sd |-> sd, n |-> e.max["peer"][sd]] :
                          sd \in {x \in Dirs : SendMaxStreams(x) \in c.sf /\ SendMaxStreams(x) \notin e.sf}}]
  BY DEF TickStreams
<1> DEFINE c == ServiceFinished(ifl, gone)
           d == IF send /\ SendMaxStreams("bidi") \in c.sf THEN GenMaxStreams(c, "bidi") ELSE c
           e == IF send /\ SendMaxStreams("uni") \in d.sf THEN GenMaxStreams(d, "uni") ELSE d
           Db == {y \in {"bidi"} : SendMaxStreams(y) \in c.sf /\ SendMaxStreams(y) \notin d.sf}
           Du == {y \in {"uni"} : SendMaxStreams(y) \in d.sf /\ SendMaxStreams(y) \notin e.sf}
           De == {x \in Dirs : SendMaxStreams(x) \in c.sf /\ SendMaxStreams(x) \notin e.sf}
           Wb == {[sd |-> x, n |-> d.max["peer"][x]] : x \in Db}
           Wu == {[sd |-> x, n |-> e.max["peer"][x]] : x \in Du}
           We == {[sd |-> x, n |-> e.max["peer"][x]] : x \in De}
           sf == IF send THEN e.sf \ {StopSending, StreamsBlocked("uni")} ELSE e.sf
           ts == IF send THEN <<>> ELSE e.toStop
<1>0. "bidi" \in Dirs /\ "uni" \in Dirs /\ "bidi" # "uni" /\ \A x \in Dirs : x = "bidi" \/ x = "uni"
  BY DirsAre
<1>2. /\ ifl' = [e EXCEPT !.ticked = TRUE, !.sf = sf, !.toStop = ts]
      /\ far' = WithWire(far, We)
  BY <1>1 DEF WithWire
<1>3. Sane(c, far) /\ HttpInv(c) /\ (c.pending > 0 => AvailStreams(c, "bidi") = 0)
  <2>1. gone \in SUBSET ifl.streams
    OBVIOUS
  <2> QED BY <2>1, FinishedServiced DEF SLInv
<1> HIDE DEF c
<1>4. /\ Sane(d, WithWire(far, Wb)) /\ d.flags = c.flags /\ d.http = c.http
      /\ d.pending = c.pending /\ d.created = c.created /\ d.max["us"] = c.max["us"]
      /\ SendMaxStreams("uni") \in d.sf <=> SendMaxStreams("uni") \in c.sf
      /\ SendMaxStreams("bidi") \notin c.sf => SendMaxStreams("bidi") \notin d.sf
  BY <1>0, <1>3, SendsMaxStreams, SMTT(30)
<1> HIDE DEF d
<1>5. /\ Sane(e, WithWire(WithWire(far, Wb), Wu)) /\ e.flags = d.flags /\ e.http = d.http
      /\ e.pending = d.pending /\ e.created = d.created /\ e.max["us"] = d.max["us"]
      /\ e.max["peer"]["bidi"] = d.max["peer"]["bidi"]
      /\ SendMaxStreams("bidi") \in e.sf <=> SendMaxStreams("bidi") \in d.sf
      /\ SendMaxStreams("uni") \notin d.sf => SendMaxStreams("uni") \notin e.sf
  <2> DEFINE g == WithWire(far, Wb)
  <2>1. Sane(d, g)
    BY <1>4
  <2> HIDE DEF g, Wb
  <2>2. /\ Sane(e, WithWire(g, Wu)) /\ e.flags = d.flags /\ e.http = d.http
        /\ e.pending = d.pending /\ e.created = d.created /\ e.max["us"] = d.max["us"]
        /\ \A x \in Dirs : x # "uni" => /\ e.max["peer"][x] = d.max["peer"][x]
                                        /\ SendMaxStreams(x) \in e.sf <=> SendMaxStreams(x) \in d.sf
        /\ SendMaxStreams("uni") \notin d.sf => SendMaxStreams("uni") \notin e.sf
    BY <1>0, <2>1, SendsMaxStreams
  <2> HIDE DEF e, Wu
  <2> QED BY <1>0, <2>2 DEF g
<1> HIDE DEF e
<1>6. De = Db \cup Du
  BY <1>0, <1>4, <1>5
<1>7. We = Wb \cup Wu
  <2>1. \A x \in Db : x = "bidi" /\ e.max["peer"][x] = d.max["peer"][x]
    BY <1>5
  <2> HIDE DEF Db, Du, De
  <2>2. \A v \in We : v \in Wb \cup Wu
    BY <1>6, <2>1
  <2>3. \A v \in Wb : v \in We
    BY <1>6, <2>1
  <2>4. \A v \in Wu : v \in We
    BY <1>6
  <2> HIDE DEF We, Wb, Wu
  <2> QED BY <2>2, <2>3, <2>4
<1> HIDE DEF We, Wb, Wu
<1>8. far' = WithWire(WithWire(far, Wb), Wu)
  <2>1. far \in FarType
    BY DEF SLInv, Sane
  <2> QED BY <1>2, <1>7, <2>1 DEF WithWire, FarType
<1>9. Sane(e, far')
  BY <1>5, <1>8
<1>10. e \in IflType /\ (e.delayed => e.qdhUnsent)
  BY <1>9 DEF Sane, DueInv
<1>11. sf \in SUBSET SfType /\ ts \in Seq(IdType)
       /\ \A x \in Dirs : SendMaxStreams(x) \in e.sf => SendMaxStreams(x) \in sf
  <2>1. e.sf \in SUBSET SfType /\ e.toStop \in Seq(IdType) /\ << >> \in Seq(IdType)
    BY <1>10 DEF IflType
  <2>2. \A x \in Dirs : SendMaxStreams(x) # StopSending /\ SendMaxStreams(x) # StreamsBlocked("uni")
    BY <1>0, Frames
  <2> QED BY <2>1, <2>2
<1> HIDE DEF sf, ts
<1>12. ifl' \in IflType
  BY <1>2, <1>10, <1>11 DEF IflType
<1>13. /\ ifl'.streams = e.streams /\ ifl'.created = e.created
       /\ ifl'.closedIds = e.closedIds /\ ifl'.closedPeer = e.closedPeer /\ ifl'.max = e.max /\ ifl'.sf = sf
       /\ ifl'.delayed = e.delayed /\ ifl'.qdhUnsent = e.qdhUnsent /\ ifl'.http = e.http
       /\ ifl'.server = e.server /\ ifl'.flags = e.flags /\ ifl'.pending = e.pending
  BY <1>2, <1>10 DEF IflType
<1>14. Sane(ifl', far')
  BY <1>9, <1>10, <1>11, <1>12, <1>13, FrameRule
<1>15. HttpInv(ifl')
  BY <1>3, <1>4, <1>5, <1>13 DEF HttpInv, HskIsDone
<1>16. WaitInv(ifl')
  BY <1>3, <1>4, <1>5, <1>13 DEF WaitInv, AvailStreams
<1> QED BY <1>14, <1>15, <1>16 DEF SLInv

-----------------------------------------------------------------------------
(* The other actions *)
LEMMA OnlyFlags ==
    ASSUME SLInv, NEW fl \in SUBSET FlagType, NEW tk \in BOOLEAN,
           ifl' = [ifl EXCEPT !.flags = fl, !.ticked = tk], UNCHANGED far,
           "HANDSHAKE_DONE" \in fl <=> "HANDSHAKE_DONE" \in ifl.flags,
           ifl.flags \subseteq fl, tk => ifl.ticked
    PROVE  SLInv'
<1>1. ifl \in IflType /\ (ifl.delayed => ifl.qdhUnsent)
  BY DEF SLInv, Sane, DueInv
<1>2. ifl' \in IflType
  BY <1>1 DEF IflType
<1>3. /\ ifl'.streams = ifl.streams /\ ifl'.created = ifl.created
      /\ ifl'.closedIds = ifl.closedIds /\ ifl'.closedPeer = ifl.closedPeer /\ ifl'.max = ifl.max
      /\ ifl'.sf = ifl.sf /\ ifl'.delayed = ifl.delayed /\ ifl'.qdhUnsent = ifl.qdhUnsent
      /\ ifl'.http = ifl.http /\ ifl'.server = ifl.server /\ ifl'.flags = fl
      /\ ifl'.pending = ifl.pending /\ ifl'.ticked = tk
  BY <1>1 DEF IflType
<1>4. Sane(ifl', far)
  BY <1>1, <1>2, <1>3, FrameRule DEF SLInv
<1>5. HttpInv(ifl')
  BY <1>3 DEF SLInv, HttpInv, HskIsDone
<1>6. WaitInv(ifl')
  BY <1>3 DEF SLInv, WaitInv, HskIsDone, AvailStreams
<1> QED BY <1>4, <1>5, <1>6 DEF SLInv

LEMMA FlagSteps ==
    ASSUME SLInv, PushAllowed \/ GoAway \/ Close
    PROVE  SLInv'
<1>1. ifl \in IflType /\ ifl.flags \in SUBSET FlagType /\ ifl.ticked \in BOOLEAN
  BY DEF SLInv, Sane, IflType
<1>2. ASSUME NEW x \in {"PUSH", "GOING_AWAY", "PEER_GOING_AWAY", "CLOSING"}, NEW tk \in {ifl.ticked, FALSE},
             ifl' = [ifl EXCEPT !.flags = ifl.flags \cup {x}, !.ticked = tk], UNCHANGED far
      PROVE  SLInv'
  <2>1. ifl.flags \cup {x} \in SUBSET FlagType /\ x # "HANDSHAKE_DONE"
    BY <1>1 DEF FlagType
  <2>2. tk \in BOOLEAN /\ (tk => ifl.ticked)
    BY <1>1
  <2> QED BY <1>2, <2>1, <2>2, OnlyFlags
<1>3. \A fl : [ifl EXCEPT !.flags = fl] = [ifl EXCEPT !.flags = fl, !.ticked = ifl.ticked]
  BY <1>1 DEF IflType
<1>4. CASE PushAllowed
  BY <1>2, <1>3, <1>4 DEF PushAllowed
<1>5. CASE GoAway
  BY <1>2, <1>3, <1>5 DEF GoAway
<1>6. CASE Close
  BY <1>2, <1>3, <1>6 DEF Close
<1> QED BY <1>4, <1>5, <1>6

LEMMA OwnSteps ==
    ASSUME SLInv, HskDone \/ MakeStream \/ CancelPending \/ PushStream
    PROVE  SLInv'
<1>0. "bidi" \in Dirs /\ "uni" \in Dirs /\ "bidi" # "uni"
  BY DirsAre
<1>1. CASE HskDone
  <2>1. ifl' = HandshakeOk(ifl, far.limit["bidi"], far.limit["uni"]) /\ far' = far
    BY <1>1 DEF HskDone
  <2> QED BY <2>1, HandshakeEnds DEF SLInv
<1>2. CASE MakeStream
  <2>1. ifl' = MakeStreamOp(ifl) /\ far' = far
    BY <1>2 DEF MakeStream
  <2> QED BY <2>1, MakeStreamKeeps DEF SLInv
<1>3. CASE CancelPending
  <2>1. PICK n \in 1 .. ifl.pending : ifl' = [ifl EXCEPT !.pending = n - 1]
    BY <1>3 DEF CancelPending
  <2>2. far' = far /\ ifl.pending > 0
    BY <1>3 DEF CancelPending
  <2>3. ifl \in IflType /\ (ifl.delayed => ifl.qdhUnsent)
    BY DEF SLInv, Sane, DueInv
  <2>4. n - 1 \in Nat
    BY <2>3 DEF IflType
  <2>5. ifl' \in IflType
    BY <2>1, <2>3, <2>4 DEF IflType
  <2>6. /\ ifl'.streams = ifl.streams /\ ifl'.created = ifl.created
        /\ ifl'.closedIds = ifl.closedIds /\ ifl'.closedPeer = ifl.closedPeer /\ ifl'.max = ifl.max
        /\ ifl'.sf = ifl.sf /\ ifl'.delayed = ifl.delayed /\ ifl'.qdhUnsent = ifl.qdhUnsent
        /\ ifl'.http = ifl.http /\ ifl'.server = ifl.server /\ ifl'.flags = ifl.flags
        /\ ifl'.ticked = ifl.ticked
    BY <2>1, <2>3 DEF IflType
  <2>7. Sane(ifl', far)
    BY <2>3, <2>5, <2>6, FrameRule DEF SLInv
  <2>8. HttpInv(ifl') /\ WaitInv(ifl')
    BY <2>2, <2>6 DEF SLInv, HttpInv, WaitInv, HskIsDone, AvailStreams
  <2> QED BY <2>2, <2>7, <2>8 DEF SLInv
<1>4. CASE PushStream
  <2> DEFINE c == CreateStreamOut(ifl, "uni")
             u == UndoStreamCreation(c, "uni")
  <2>1. ifl' \in {c, u} /\ far' = far /\ HskIsDone(ifl) /\ AvailStreams(ifl, "uni") > 0
    BY <1>4 DEF PushStream, IsPushEnabled, Done, HskIsDone
  <2>2. /\ Sane(c, far) /\ c.flags = ifl.flags /\ c.http = ifl.http /\ c.pending = ifl.pending
        /\ c.ticked = ifl.ticked /\ c.max = ifl.max /\ c.created["bidi"] = ifl.created["bidi"]
    BY <1>0, <2>1, CreateOut DEF SLInv
  <2>3. /\ Sane(u, far) /\ u.flags = ifl.flags /\ u.http = ifl.http /\ u.pending = ifl.pending
        /\ u.ticked = ifl.ticked /\ u.max = ifl.max /\ u.created["bidi"] = ifl.created["bidi"]
    BY <1>0, UndoCreation DEF SLInv
  <2> HIDE DEF c, u
  <2>4. /\ Sane(ifl', far) /\ ifl'.flags = ifl.flags /\ ifl'.http = ifl.http /\ ifl'.pending = ifl.pending
        /\ ifl'.ticked = ifl.ticked /\ ifl'.max = ifl.max /\ ifl'.created["bidi"] = ifl.created["bidi"]
    BY <2>1, <2>2, <2>3
  <2>5. HttpInv(ifl')
    BY <2>1, <2>4 DEF SLInv, HttpInv, HskIsDone
  <2>6. WaitInv(ifl')
    BY <2>4 DEF SLInv, WaitInv, HskIsDone, AvailStreams
  <2> QED BY <2>1, <2>4, <2>5, <2>6 DEF SLInv
<1> QED BY <1>1, <1>2, <1>3, <1>4

LEMMA QdhSteps ==
    ASSUME SLInv, QdhUnsent \/ QdhSent
    PROVE  SLInv'
<1>0. "bidi" \in Dirs /\ SendMaxStreams("bidi") \in SfType
  BY DirsAre, Frames
<1>1. ifl \in IflType
  BY DEF SLInv, Sane
<1>2. far' = far /\ ifl' \in IflType
  <2>1. far' = far
    BY DEF QdhUnsent, QdhSent
  <2>2. CASE QdhUnsent
    BY <1>1, <2>2 DEF QdhUnsent, IflType
  <2>3. CASE QdhSent
    <3>1. [ifl EXCEPT !.qdhUnsent = FALSE] \in IflType
      BY <1>1 DEF IflType
    <3>2. ifl.sf \cup {SendMaxStreams("bidi")} \in SUBSET SfType
      BY <1>0, <1>1 DEF IflType
    <3>3. [ifl EXCEPT !.qdhUnsent = FALSE, !.delayed = FALSE, !.sf = ifl.sf \cup {SendMaxStreams("bidi")}] \in IflType
      BY <1>1, <3>2 DEF IflType
    <3> QED BY <2>3, <3>1, <3>3 DEF QdhSent
  <2> QED BY <2>1, <2>2, <2>3
<1>3. /\ ifl'.streams = ifl.streams /\ ifl'.created = ifl.created
      /\ ifl'.closedIds = ifl.closedIds /\ ifl'.closedPeer = ifl.closedPeer /\ ifl'.max = ifl.max
      /\ ifl'.http = ifl.http /\ ifl'.server = ifl.server /\ ifl'.flags = ifl.flags
      /\ ifl'.ticked = ifl.ticked /\ ifl'.pending = ifl.pending
      /\ ifl.sf \subseteq ifl'.sf
      /\ ifl'.delayed => ifl'.qdhUnsent
      /\ ifl.delayed => ifl'.delayed \/ SendMaxStreams("bidi") \in ifl'.sf
  <2>1. CASE QdhUnsent
    <3>1. ifl' = [ifl EXCEPT !.qdhUnsent = TRUE]
      BY <2>1 DEF QdhUnsent
    <3> QED BY <1>1, <3>1 DEF IflType
  <2>2. CASE QdhSent /\ ifl.delayed
    <3>1. ifl' = [ifl EXCEPT !.qdhUnsent = FALSE, !.delayed = FALSE, !.sf = ifl.sf \cup {SendMaxStreams("bidi")}]
      BY <2>2 DEF QdhSent
    <3> QED BY <1>1, <3>1 DEF IflType
  <2>3. CASE QdhSent /\ ~ifl.delayed
    <3>1. ifl' = [ifl EXCEPT !.qdhUnsent = FALSE]
      BY <2>3 DEF QdhSent
    <3> QED BY <1>1, <2>3, <3>1 DEF IflType
  <2> QED BY <2>1, <2>2, <2>3
<1>4. Sane(ifl', far)
  BY <1>2, <1>3, FrameRule DEF SLInv
<1>5. HttpInv(ifl') /\ WaitInv(ifl')
  BY <1>3 DEF SLInv, HttpInv, WaitInv, HskIsDone, AvailStreams
<1> QED BY <1>2, <1>4, <1>5 DEF SLInv

LEMMA ReceiveSteps ==
    ASSUME StreamLimitsAssumption, SLInv, ReceiveMaxStreams \/ ReceiveFrame
    PROVE  SLInv'
<1>0. "us" \in Ends /\ "peer" \in Ends /\ "us" # "peer"
  BY DEF Ends
<1>1. CASE ReceiveMaxStreams
  <2>1. PICK sd \in Dirs, n \in 1 .. MaxRaise :
          /\ n <= far.limit[sd] /\ ifl' = [MaxStreamsFrame(ifl, sd, n) EXCEPT !.ticked = FALSE]
    BY <1>1 DEF ReceiveMaxStreams
  <2>2. far' = far
    BY <1>1 DEF ReceiveMaxStreams
  <2>3. /\ ifl \in IflType /\ far \in FarType /\ ifl.max \in [Ends -> [Dirs -> Nat]]
        /\ ifl.max["us"] \in [Dirs -> Nat] /\ n \in Nat /\ (ifl.delayed => ifl.qdhUnsent)
        /\ ifl.created \in [Dirs -> Nat]
    <3>1. ifl \in IflType /\ far \in FarType /\ (ifl.delayed => ifl.qdhUnsent)
      BY DEF SLInv, Sane, DueInv
    <3>2. ifl.max \in [Ends -> [Dirs -> Nat]] /\ ifl.created \in [Dirs -> Nat]
      BY <3>1 DEF IflType
    <3>3. n \in Nat
      BY LimitsConst
    <3> QED BY <1>0, <3>1, <3>2, <3>3
  <2> DEFINE m == IF n > ifl.max["us"][sd] THEN n ELSE ifl.max["us"][sd]
             mu == [ifl.max["us"] EXCEPT ![sd] = m]
             mx == [ifl.max EXCEPT !["us"] = mu]
  <2>4. m \in Nat /\ m >= ifl.max["us"][sd] /\ m <= far.limit[sd]
    <3>1. ifl.max["us"][sd] \in Nat /\ ifl.max["us"][sd] <= far.limit[sd] /\ far.limit[sd] \in Nat
      BY <2>3 DEF SLInv, Sane, LimitsInv, FarType
    <3> QED BY <2>1, <2>3, <3>1
  <2>5. ifl' = [ifl EXCEPT !.max = mx, !.ticked = FALSE]
    <3>1. CASE n > ifl.max["us"][sd]
      BY <2>1, <3>1 DEF MaxStreamsFrame
    <3>2. CASE ~(n > ifl.max["us"][sd])
      <4>1. m = ifl.max["us"][sd]
        BY <3>2
      <4> HIDE DEF m
      <4>2. mu = ifl.max["us"]
        BY <2>3, <4>1
      <4> HIDE DEF mu
      <4>3. mx = ifl.max
        BY <2>3, <4>2
      <4> HIDE DEF mx
      <4>4. ifl' = [ifl EXCEPT !.ticked = FALSE]
        BY <2>1, <3>2 DEF MaxStreamsFrame
      <4> QED BY <2>3, <4>3, <4>4 DEF IflType
    <3> QED BY <3>1, <3>2
  <2> HIDE DEF m
  <2>6. mu \in [Dirs -> Nat] /\ mu[sd] = m /\ \A x \in Dirs : x # sd => mu[x] = ifl.max["us"][x]
    BY <2>3, <2>4
  <2> HIDE DEF mu
  <2>7. mx \in [Ends -> [Dirs -> Nat]] /\ mx["us"] = mu /\ mx["peer"] = ifl.max["peer"]
    BY <1>0, <2>3, <2>6
  <2> HIDE DEF mx
  <2>8. ifl' \in IflType
    BY <2>3, <2>5, <2>7 DEF IflType
  <2>9. /\ ifl'.streams = ifl.streams /\ ifl'.created = ifl.created
        /\ ifl'.closedIds = ifl.closedIds /\ ifl'.closedPeer = ifl.closedPeer /\ ifl'.max = mx
        /\ ifl'.sf = ifl.sf /\ ifl'.delayed = ifl.delayed /\ ifl'.qdhUnsent = ifl.qdhUnsent
        /\ ifl'.http = ifl.http /\ ifl'.server = ifl.server /\ ifl'.flags = ifl.flags
        /\ ifl'.ticked = FALSE
    BY <2>3, <2>5 DEF IflType
  <2>10. StreamsInv(ifl', far.opened)
    BY <2>9 DEF SLInv, Sane, StreamsInv, Numbered, Known, PeerClosed
  <2>11. CreditInv(ifl', far)
    BY <2>7, <2>9 DEF SLInv, Sane, CreditInv
  <2>12. DueInv(ifl')
    <3>1. \A x \in Dirs : Threshold(ifl', x) = Threshold(ifl, x)
      BY <2>7, <2>9 DEF Threshold
    <3> QED BY <2>9, <3>1 DEF SLInv, Sane, DueInv
  <2>13. LimitsInv(ifl', far)
    <3>1. ASSUME NEW x \in Dirs PROVE ifl'.created[x] <= ifl'.max["us"][x] /\ ifl'.max["us"][x] <= far.limit[x]
      <4>1. ifl.created[x] <= ifl.max["us"][x] /\ ifl.max["us"][x] <= far.limit[x]
        BY DEF SLInv, Sane, LimitsInv
      <4>2. CASE x # sd
        BY <2>6, <2>7, <2>9, <4>1, <4>2
      <4>3. CASE x = sd
        <5>1. ifl.created[sd] \in Nat /\ ifl.max["us"][sd] \in Nat
          BY <2>3
        <5>2. ifl.created[sd] <= m
          BY <2>4, <4>1, <4>3, <5>1
        <5> QED BY <2>4, <2>6, <2>7, <2>9, <4>3, <5>2
      <4> QED BY <4>2, <4>3
    <3> QED BY <2>9, <3>1 DEF SLInv, Sane, LimitsInv
  <2>14. Sane(ifl', far)
    BY <2>3, <2>8, <2>10, <2>11, <2>12, <2>13 DEF Sane
  <2>15. HttpInv(ifl') /\ WaitInv(ifl')
    BY <2>9 DEF SLInv, HttpInv, WaitInv, HskIsDone
  <2> QED BY <2>2, <2>14, <2>15 DEF SLInv
<1>2. CASE ReceiveFrame
  <2>1. PICK id \in Opened : \E t \in PeerFrames(id) :
          /\ id.n < (IF id.who = "us" THEN ifl.created[id.sd] ELSE far.opened[id.sd])
          /\ ifl' = CASE t = "STREAM" -> StreamFrame(ifl, id)
                      [] t = "RESET_STREAM" -> RstStreamFrame(ifl, id)
                      [] t = "STOP_SENDING" -> StopSendingFrame(ifl, id)
                      [] t = "MAX_STREAM_DATA" -> MaxStreamDataFrame(ifl, id)
                      [] OTHER -> StreamBlockedFrame(ifl, id)
    BY <1>2 DEF ReceiveFrame
  <2>2. PICK t \in PeerFrames(id) :
          /\ id.n < (IF id.who = "us" THEN ifl.created[id.sd] ELSE far.opened[id.sd])
          /\ ifl' = CASE t = "STREAM" -> StreamFrame(ifl, id)
                      [] t = "RESET_STREAM" -> RstStreamFrame(ifl, id)
                      [] t = "STOP_SENDING" -> StopSendingFrame(ifl, id)
                      [] t = "MAX_STREAM_DATA" -> MaxStreamDataFrame(ifl, id)
                      [] OTHER -> StreamBlockedFrame(ifl, id)
    BY <2>1
  <2>3. far' = far
    BY <1>2 DEF ReceiveFrame
  <2>4. id \in IdType
    <3>1. PICK who \in Ends, sd \in Dirs, n \in 0 .. MaxOpened - 1 : id = Id(who, sd, n)
      BY DEF Opened, Ends
    <3>2. n \in Nat
      BY LimitsConst
    <3> QED BY <3>1, <3>2, IdFacts
  <2>5. t \in {"RESET_STREAM", "STREAM", "STOP_SENDING", "MAX_STREAM_DATA", "STREAM_DATA_BLOCKED"}
    BY DEF PeerFrames
  <2>6. /\ t = "STREAM" => ifl' = StreamFrame(ifl, id)
        /\ t = "RESET_STREAM" => ifl' = RstStreamFrame(ifl, id)
        /\ t = "STOP_SENDING" => ifl' = StopSendingFrame(ifl, id)
        /\ t = "MAX_STREAM_DATA" => ifl' = MaxStreamDataFrame(ifl, id)
        /\ t = "STREAM_DATA_BLOCKED" => ifl' = StreamBlockedFrame(ifl, id)
    BY <2>2
  <2>7. Keeps(ifl', ifl, far)
    BY <2>2, <2>4, <2>5, <2>6, FrameKeeps DEF SLInv
  <2> QED BY <2>3, <2>7, KeepsInv DEF SLInv
<1> QED BY <1>1, <1>2

LEMMA PeerSteps ==
    ASSUME SLInv, \/ \E sd \in Dirs : PeerOpens(sd) \/ PeerRaises(sd)
                  \/ \E w \in far.wire : PeerLearns(w)
    PROVE  SLInv'
<1>1. /\ ifl \in IflType /\ far \in FarType
      /\ StreamsInv(ifl, far.opened) /\ CreditInv(ifl, far) /\ DueInv(ifl) /\ LimitsInv(ifl, far)
      /\ HttpInv(ifl) /\ WaitInv(ifl)
  BY DEF SLInv, Sane
<1>2. /\ far.opened \in [Dirs -> Nat] /\ far.limit \in [Dirs -> Nat] /\ far.allowed \in [Dirs -> Nat]
      /\ far.wire \subseteq [sd : Dirs, n : Nat]
  BY <1>1 DEF FarType
<1>3. ASSUME NEW f \in FarType, far' = f, UNCHANGED ifl, StreamsInv(ifl, f.opened), CreditInv(ifl, f),
             LimitsInv(ifl, f)
      PROVE  SLInv'
  BY <1>1, <1>3 DEF SLInv, Sane
<1>4. ASSUME NEW sd \in Dirs, PeerOpens(sd) PROVE SLInv'
  <2> DEFINE op == [far.opened EXCEPT ![sd] = far.opened[sd] + 1]
             f == [far EXCEPT !.opened = op]
  <2>1. far' = f /\ UNCHANGED ifl /\ far.opened[sd] < far.allowed[sd] /\ ~(ifl.http /\ ~ifl.server /\ sd = "bidi")
    BY <1>4 DEF PeerOpens
  <2>2. op \in [Dirs -> Nat] /\ op[sd] = far.opened[sd] + 1 /\ (\A x \in Dirs : x # sd => op[x] = far.opened[x])
        /\ \A x \in Dirs : far.opened[x] \in Nat /\ op[x] \in Nat /\ op[x] >= far.opened[x]
    BY <1>2
  <2> HIDE DEF op
  <2>3. f \in FarType /\ f.opened = op /\ f.allowed = far.allowed /\ f.limit = far.limit /\ f.wire = far.wire
    BY <1>1, <2>2 DEF FarType
  <2> HIDE DEF f
  <2>4. StreamsInv(ifl, op)
    <3>1. ASSUME NEW id \in Known(ifl)
          PROVE  id.n < (IF id.who = "us" THEN ifl.created[id.sd] ELSE op[id.sd])
      <4>1. id \in IdType /\ id.n < (IF id.who = "us" THEN ifl.created[id.sd] ELSE far.opened[id.sd])
        BY <1>1 DEF StreamsInv, Numbered, Known, IflType
      <4>2. id.n \in Nat /\ id.sd \in Dirs
        BY <4>1 DEF IdType
      <4> QED BY <2>2, <4>1, <4>2
    <3> QED BY <1>1, <3>1 DEF StreamsInv, Numbered
  <2>5. CreditInv(ifl, f)
    <3> SUFFICES ASSUME NEW x \in Dirs PROVE f.opened[x] <= f.allowed[x]
      BY <1>1, <2>3 DEF CreditInv
    <3>1. far.opened[x] <= far.allowed[x] /\ far.allowed[x] \in Nat
      BY <1>1, <1>2 DEF CreditInv
    <3> QED BY <2>1, <2>2, <2>3, <3>1
  <2>6. LimitsInv(ifl, f)
    BY <1>1, <2>1, <2>2, <2>3, DirsAre DEF LimitsInv
  <2> QED BY <1>3, <2>1, <2>3, <2>4, <2>5, <2>6
<1>5. ASSUME NEW sd \in Dirs, PeerRaises(sd) PROVE SLInv'
  <2> DEFINE lm == [far.limit EXCEPT ![sd] = far.limit[sd] + 1]
             f == [far EXCEPT !.limit = lm]
  <2>1. far' = f /\ UNCHANGED ifl
    BY <1>5 DEF PeerRaises
  <2>2. lm \in [Dirs -> Nat] /\ \A x \in Dirs : far.limit[x] \in Nat /\ lm[x] \in Nat /\ lm[x] >= far.limit[x]
    BY <1>2
  <2> HIDE DEF lm
  <2>3. f \in FarType /\ f.opened = far.opened /\ f.allowed = far.allowed /\ f.limit = lm /\ f.wire = far.wire
    BY <1>1, <2>2 DEF FarType
  <2> HIDE DEF f
  <2>4. CreditInv(ifl, f)
    BY <1>1, <2>3 DEF CreditInv
  <2>5. LimitsInv(ifl, f)
    <3>1. ASSUME NEW x \in Dirs PROVE ifl.max["us"][x] <= lm[x]
      <4>1. ifl.max["us"][x] <= far.limit[x] /\ ifl.max["us"][x] \in Nat
        BY <1>1 DEF LimitsInv, IflType, Ends
      <4> QED BY <2>2, <4>1
    <3>2. ifl.http => lm["uni"] > 0
      BY <1>1, <2>2, DirsAre DEF LimitsInv
    <3> QED BY <1>1, <2>3, <3>1, <3>2 DEF LimitsInv
  <2> QED BY <1>1, <1>3, <2>1, <2>3, <2>4, <2>5
<1>6. ASSUME NEW w \in far.wire, PeerLearns(w) PROVE SLInv'
  <2> DEFINE m == Max({far.allowed[w.sd], w.n})
             al == [far.allowed EXCEPT ![w.sd] = m]
             f == [far EXCEPT !.wire = far.wire \ {w}, !.allowed = al]
  <2>1. far' = f /\ UNCHANGED ifl
    BY <1>6 DEF PeerLearns
  <2>2. w.sd \in Dirs /\ w.n \in Nat /\ far.allowed[w.sd] \in Nat /\ w = [sd |-> w.sd, n |-> w.n]
    BY <1>2
  <2>3. m = (IF far.allowed[w.sd] >= w.n THEN far.allowed[w.sd] ELSE w.n) /\ m \in Nat
    <3>1. far.allowed[w.sd] \in Int /\ w.n \in Int
      BY <2>2
    <3>2. m = IF far.allowed[w.sd] >= w.n THEN far.allowed[w.sd] ELSE w.n
      BY <3>1, MaxOfTwo, SMTT(30)
    <3> HIDE DEF m
    <3> QED BY <2>2, <3>2
  <2> HIDE DEF m
  <2>4. al \in [Dirs -> Nat] /\ al[w.sd] = m /\ \A x \in Dirs : x # w.sd => al[x] = far.allowed[x]
    BY <1>2, <2>2, <2>3
  <2> HIDE DEF al
  <2>5. f \in FarType /\ f.opened = far.opened /\ f.allowed = al /\ f.limit = far.limit /\ f.wire = far.wire \ {w}
    BY <1>1, <2>4 DEF FarType
  <2> HIDE DEF f
  <2>6. CreditInv(ifl, f)
    <3> SUFFICES ASSUME NEW x \in Dirs
                 PROVE  /\ far.opened[x] <= al[x] /\ al[x] <= ifl.max["peer"][x]
                        /\ al[x] = ifl.max["peer"][x] \/ [sd |-> x, n |-> ifl.max["peer"][x]] \in far.wire \ {w}
      BY <1>1, <2>5 DEF CreditInv
    <3>1. /\ far.opened[x] <= far.allowed[x] /\ far.allowed[x] <= ifl.max["peer"][x]
          /\ far.allowed[x] = ifl.max["peer"][x] \/ [sd |-> x, n |-> ifl.max["peer"][x]] \in far.wire
          /\ w.sd = x => w.n <= ifl.max["peer"][x]
      BY <1>1 DEF CreditInv
    <3>2. far.opened[x] \in Nat /\ far.allowed[x] \in Nat /\ ifl.max["peer"][x] \in Nat
      BY <1>1, <1>2 DEF IflType, Ends
    <3>3. CASE x = w.sd
      <4>1. al[x] = m
        BY <2>4, <3>3
      <4>2. far.opened[x] <= al[x] /\ al[x] <= ifl.max["peer"][x]
        BY <2>2, <2>3, <3>1, <3>2, <3>3, <4>1
      <4>3. far.allowed[x] = ifl.max["peer"][x] => al[x] = ifl.max["peer"][x]
        BY <2>2, <2>3, <3>1, <3>2, <3>3, <4>1
      <4>4. w.n = ifl.max["peer"][x] => al[x] = ifl.max["peer"][x]
        BY <2>2, <2>3, <3>1, <3>2, <3>3, <4>1
      <4>5. [sd |-> x, n |-> ifl.max["peer"][x]] # w \/ w.n = ifl.max["peer"][x]
        BY <2>2
      <4> QED BY <3>1, <4>2, <4>3, <4>4, <4>5
    <3>4. CASE x # w.sd
      <4>1. [sd |-> x, n |-> ifl.max["peer"][x]] # w
        BY <2>2, <3>4
      <4> QED BY <2>4, <3>1, <3>4, <4>1
    <3> QED BY <3>3, <3>4
  <2>7. LimitsInv(ifl, f)
    BY <1>1, <2>5 DEF LimitsInv
  <2> QED BY <1>1, <1>3, <2>1, <2>5, <2>6, <2>7
<1> QED BY <1>4, <1>5, <1>6

LEMMA LimitsStart ==
    ASSUME StreamLimitsAssumption, SLInit
    PROVE  SLInv
<1>1. PICK server \in BOOLEAN, http \in BOOLEAN, zeroRtt \in BOOLEAN, bidi \in PeerLimits, uni \in PeerLimits,
           who \in {"us", "peer"}, dir \in Dirs :
        /\ zeroRtt => ~server
        /\ http => uni > 0
        /\ far = [limit |-> Each(bidi, uni), opened |-> [sd \in Dirs |-> 0],
                  allowed |-> [sd \in Dirs |-> StreamsIn], wire |-> {},
                  scope |-> [who |-> who, sd |-> dir]]
        /\ ifl = LET c == Conn(server, http, zeroRtt)
                     a == ApplyTransParams(c, bidi, uni)
                 IN IF server THEN HandshakeOk(c, bidi, uni)
                    ELSE IF zeroRtt THEN (IF http THEN InitHttp(a) ELSE a)
                    ELSE c
  BY DEF SLInit
<1> DEFINE c == Conn(server, http, zeroRtt)
           a == ApplyTransParams(c, bidi, uni)
<1>0. /\ "bidi" \in Dirs /\ "uni" \in Dirs /\ "bidi" # "uni" /\ "us" \in Ends /\ "peer" \in Ends /\ "us" # "peer"
      /\ StreamsIn \in Nat /\ StreamsIn > 0 /\ bidi \in Nat /\ uni \in Nat
  BY DirsAre, LimitsConst DEF Ends
<1>2. /\ far \in FarType /\ far.limit = Each(bidi, uni) /\ far.opened = [sd \in Dirs |-> 0]
      /\ far.allowed = [sd \in Dirs |-> StreamsIn] /\ far.wire = {}
  <2>1. Each(bidi, uni) \in [Dirs -> Nat]
    BY <1>0 DEF Each
  <2>2. [sd \in Dirs |-> 0] \in [Dirs -> Nat] /\ [sd \in Dirs |-> StreamsIn] \in [Dirs -> Nat]
    BY <1>0
  <2>3. [who |-> who, sd |-> dir] \in [who : Ends, sd : Dirs]
    BY DEF Ends
  <2> QED BY <1>1, <2>1, <2>2, <2>3 DEF FarType
<1>3. far.limit["bidi"] = bidi /\ far.limit["uni"] = uni
  BY <1>0, <1>2 DEF Each
<1>4. /\ c.server = server /\ c.http = http /\ c.flags = {} /\ c.created = [sd \in Dirs |-> 0]
      /\ c.closedPeer = [sd \in Dirs |-> 0] /\ c.max["us"] = [sd \in Dirs |-> 0]
      /\ c.max["peer"] = [sd \in Dirs |-> StreamsIn]
      /\ c.closedIds = {} /\ c.streams = {} /\ c.sf = {} /\ c.delayed = FALSE /\ c.pending = 0
  BY DEF Conn
<1>5. c \in IflType
  <2>1. [sd \in Dirs |-> 0] \in [Dirs -> Nat]
    OBVIOUS
  <2>2. [x \in {"us", "peer"} |-> [sd \in Dirs |-> IF x = "us" THEN 0 ELSE StreamsIn]] \in [Ends -> [Dirs -> Nat]]
    BY <1>0 DEF Ends
  <2>3. <<>> \in Seq(IdType) /\ -1 \in Int
    OBVIOUS
  <2> QED BY <2>1, <2>2, <2>3 DEF Conn, IflType
<1> HIDE DEF c
<1>6. Sane(c, far)
  <2>1. StreamsInv(c, far.opened)
    <3>1. \A sd \in Dirs : PeerClosed(c, sd) = {}
      BY <1>4 DEF PeerClosed
    <3>2. \A sd \in Dirs : c.closedPeer[sd] = 0 /\ c.created[sd] = 0
      BY <1>4
    <3>3. \A sd \in Dirs : c.closedPeer[sd] = Cardinality(PeerClosed(c, sd))
      BY <3>1, <3>2, FS_EmptySet
    <3>4. Known(c) = {}
      BY <1>4 DEF Known
    <3> QED BY <1>4, <3>2, <3>3, <3>4 DEF StreamsInv, Numbered
  <2>2. CreditInv(c, far)
    BY <1>0, <1>2, <1>4 DEF CreditInv
  <2>3. DueInv(c)
    <3>1. \A sd \in Dirs : ~Threshold(c, sd)
      <4>1. StreamsIn \div 2 \in Int /\ StreamsIn \div 2 < StreamsIn
        BY <1>0
      <4> QED BY <1>0, <1>4, <4>1 DEF Threshold
    <3> QED BY <1>4, <3>1 DEF DueInv
  <2>4. LimitsInv(c, far)
    <3>1. \A sd \in Dirs : far.limit[sd] \in Nat
      BY <1>2 DEF FarType
    <3> QED BY <1>0, <1>1, <1>2, <1>3, <1>4, <3>1 DEF LimitsInv
  <2> QED BY <1>2, <1>5, <2>1, <2>2, <2>3, <2>4 DEF Sane
<1>7. HttpInv(c) /\ WaitInv(c)
  BY <1>0, <1>4 DEF HttpInv, WaitInv, HskIsDone
<1>8. CASE server
  <2>1. ifl = HandshakeOk(c, far.limit["bidi"], far.limit["uni"])
    BY <1>1, <1>3, <1>8 DEF c
  <2> QED BY <1>6, <1>7, <2>1, HandshakeEnds DEF SLInv
<1>9. CASE ~server /\ ~zeroRtt
  <2>1. ifl = c
    BY <1>1, <1>9 DEF c
  <2> QED BY <1>6, <1>7, <2>1 DEF SLInv
<1>10. CASE ~server /\ zeroRtt
  <2> DEFINE fl == {}
  <2>1. [c EXCEPT !.flags = fl] = c
    BY <1>4, <1>5 DEF IflType
  <2>2. a = ApplyTransParams([c EXCEPT !.flags = fl], far.limit["bidi"], far.limit["uni"])
    BY <1>3, <2>1
  <2>3. fl \in SUBSET FlagType
    OBVIOUS
  <2>4. /\ Sane(a, far) /\ a.flags = {} /\ a.http = c.http /\ a.pending = c.pending
        /\ a.created = c.created /\ a.max["us"] = far.limit
    <3> HIDE DEF a, fl
    <3>1. LET d == ApplyTransParams([c EXCEPT !.flags = fl], far.limit["bidi"], far.limit["uni"])
          IN  /\ Sane(d, far) /\ d.flags = fl /\ d.http = c.http /\ d.pending = c.pending
              /\ d.created = c.created /\ d.max["us"] = far.limit
      BY <1>6, <2>3, ParamsApply
    <3> QED BY <2>2, <3>1 DEF fl
  <2>5. ifl = IF http THEN InitHttp(a) ELSE a
    BY <1>1, <1>10 DEF c
  <2> HIDE DEF a
  <2>6. CASE http
    <3>1. a.created["uni"] = 0 /\ a.max["us"]["uni"] > 0
      BY <1>0, <1>1, <1>3, <1>4, <2>4, <2>6
    <3>2. Sane(ifl, far) /\ ifl.flags = {"HTTP_INITED"} /\ ifl.pending = 0
      BY <1>4, <2>4, <2>5, <2>6, <3>1, InitHttpOpens
    <3> QED BY <3>2 DEF SLInv, HttpInv, WaitInv
  <2>7. CASE ~http
    <3>1. Sane(ifl, far) /\ ~ifl.http /\ ifl.pending = 0
      BY <1>4, <2>4, <2>5, <2>7
    <3> QED BY <3>1 DEF SLInv, HttpInv, WaitInv
  <2> QED BY <2>6, <2>7
<1> QED BY <1>8, <1>9, <1>10

LEMMA LimitsImply ==
    ASSUME StreamLimitsAssumption, SLInv
    PROVE  StreamLimitsSound
<1>1. /\ ifl \in IflType /\ far \in FarType /\ StreamsInv(ifl, far.opened) /\ CreditInv(ifl, far)
      /\ DueInv(ifl) /\ LimitsInv(ifl, far) /\ WaitInv(ifl)
  BY DEF SLInv, Sane
<1>2. /\ StreamsIn \in Nat /\ StreamsIn > 0 /\ StreamsIn \div 2 \in Nat
      /\ ifl.closedIds \subseteq IdType /\ ifl.streams \subseteq IdType
  BY <1>1, LimitsConst DEF IflType
<1>3. ASSUME NEW sd \in Dirs
      PROVE  /\ far.opened[sd] \in Nat /\ far.allowed[sd] \in Nat /\ ifl.closedPeer[sd] \in Nat
             /\ ifl.max["peer"][sd] \in Nat
             /\ far.opened[sd] <= far.allowed[sd] /\ far.allowed[sd] <= ifl.max["peer"][sd]
             /\ ifl.max["peer"][sd] <= ifl.closedPeer[sd] + StreamsIn
             /\ far.allowed[sd] = ifl.max["peer"][sd] \/ [sd |-> sd, n |-> ifl.max["peer"][sd]] \in far.wire
             /\ ifl.closedPeer[sd] = Cardinality(PeerClosed(ifl, sd))
  <2>1. far.opened[sd] \in Nat /\ far.allowed[sd] \in Nat
    BY <1>1 DEF FarType
  <2>2. ifl.closedPeer[sd] \in Nat /\ ifl.max["peer"][sd] \in Nat
    BY <1>1 DEF IflType, Ends
  <2> QED BY <1>1, <2>1, <2>2 DEF CreditInv, StreamsInv
<1>4. ASSUME NEW id \in Known(ifl), id.who = "peer" PROVE id \in IdType /\ id.n < far.opened[id.sd]
  BY <1>1, <1>2, <1>4 DEF StreamsInv, Numbered, Known
<1>5. PeerIsServed
  <2>1. "ERROR" \notin ifl.flags
    <3>1. ifl.flags \subseteq FlagType
      BY <1>1 DEF IflType
    <3> QED BY <3>1 DEF FlagType
  <2>2. ASSUME NEW sd \in Dirs
        PROVE  Cardinality({id \in ifl.streams : id.who = "peer" /\ id.sd = sd}) <= StreamsIn
    <3> DEFINE S == {id \in ifl.streams : id.who = "peer" /\ id.sd = sd}
               T == PeerClosed(ifl, sd)
               k == far.opened[sd]
    <3>1. \A id \in S \cup T : id \in Known(ifl) /\ id.who = "peer" /\ id.sd = sd
      BY DEF Known, PeerClosed
    <3>2. S \cap T = {}
      BY <1>1 DEF StreamsInv, PeerClosed
    <3> HIDE DEF S, T
    <3>3. \A id \in S \cup T : id \in IdType /\ id.who = "peer" /\ id.sd = sd /\ id.n < k
      BY <1>4, <3>1
    <3>4. k \in Nat /\ S \in SUBSET IdType /\ T \in SUBSET IdType /\ S \cup T \in SUBSET IdType
      BY <1>3, <3>3
    <3> HIDE DEF k
    <3>5. IsFiniteSet(S) /\ Cardinality(S) \in Nat
      BY <3>3, <3>4, AmongPeerIds
    <3>6. IsFiniteSet(T) /\ Cardinality(T) \in Nat
      BY <3>3, <3>4, AmongPeerIds
    <3>7. Cardinality(S \cup T) <= k
      BY <3>3, <3>4, AmongPeerIds
    <3>8. Cardinality(S) + Cardinality(T) <= k
      BY <3>2, <3>5, <3>6, <3>7, DisjointCount
    <3>9. k <= Cardinality(T) + StreamsIn
      <4>1. /\ far.opened[sd] \in Nat /\ far.allowed[sd] \in Nat /\ ifl.closedPeer[sd] \in Nat
            /\ ifl.max["peer"][sd] \in Nat
            /\ far.opened[sd] <= far.allowed[sd] /\ far.allowed[sd] <= ifl.max["peer"][sd]
            /\ ifl.max["peer"][sd] <= ifl.closedPeer[sd] + StreamsIn
        BY <1>3
      <4>2. ifl.closedPeer[sd] = Cardinality(T)
        BY <1>3 DEF T
      <4> QED BY <1>2, <4>1, <4>2 DEF k
    <3>10. Cardinality(S) <= StreamsIn
      BY <1>2, <3>4, <3>5, <3>6, <3>8, <3>9
    <3> QED BY <3>10 DEF S
  <2> QED BY <1>3, <2>1, <2>2 DEF PeerIsServed
<1>6. CreditIsNotForgotten
  <2> SUFFICES ASSUME NEW sd \in Dirs, far.opened[sd] = far.allowed[sd],
                      \A n \in 0 .. far.opened[sd] - 1 : Id("peer", sd, n) \in ifl.closedIds,
                      [sd |-> sd, n |-> ifl.max["peer"][sd]] \notin far.wire
               PROVE  SendMaxStreams(sd) \in ifl.sf \/ (sd = "bidi" /\ ifl.delayed /\ ifl.qdhUnsent)
    BY DEF CreditIsNotForgotten
  <2> DEFINE T == PeerClosed(ifl, sd)
             k == far.opened[sd]
  <2>1. k \in Nat /\ ifl.max["peer"][sd] = k
    BY <1>3
  <2>2. PeerIds(sd, k) \subseteq T
    <3> SUFFICES ASSUME NEW n \in 0 .. k - 1 PROVE Id("peer", sd, n) \in T
      BY DEF PeerIds
    <3>1. Id("peer", sd, n) \in ifl.closedIds /\ n \in Nat
      BY <2>1
    <3> QED BY <3>1, IdFacts DEF PeerClosed, Ends
  <2>3. T \subseteq PeerIds(sd, k)
    <3>1. \A id \in T : id \in Known(ifl) /\ id.who = "peer" /\ id.sd = sd
      BY DEF Known, PeerClosed
    <3> HIDE DEF T
    <3>2. T \in SUBSET IdType /\ \A id \in T : id.who = "peer" /\ id.sd = sd /\ id.n < k
      BY <1>4, <3>1
    <3> HIDE DEF k
    <3> QED BY <2>1, <3>2, AmongPeerIds
  <2>4. ifl.closedPeer[sd] = k
    <3>1. T = PeerIds(sd, k)
      BY <2>2, <2>3
    <3> QED BY <1>3, <2>1, <3>1, PeerIdsCount
  <2>5. Threshold(ifl, sd)
    BY <1>2, <2>1, <2>4 DEF Threshold
  <2> QED BY <1>1, <2>5 DEF DueInv
<1>7. OwnStreamsSound
  BY <1>1 DEF OwnStreamsSound, LimitsInv, WaitInv, HskIsDone, Done
<1> QED BY <1>5, <1>6, <1>7 DEF StreamLimitsSound

\* Whatever the order of MAX_STREAMS frames, of late frames for streams long gone,
\* of closes and of ticks, and for every number of streams allowed: an honest
\* peer is never taken for an offender, credit for closed streams is never
\* forgotten, and we stay within the peer's limit and leave no delayed stream waiting.
THEOREM StreamLimitsAreSound ==
    ASSUME StreamLimitsAssumption
    PROVE  SLSpec => []StreamLimitsSound
<1>1. SLInit => SLInv
  BY LimitsStart
<1>2. SLInv /\ [SLNext]_slvars => SLInv'
  <2> SUFFICES ASSUME SLInv, [SLNext]_slvars PROVE SLInv'
    OBVIOUS
  <2>1. CASE HskDone \/ MakeStream \/ CancelPending \/ PushStream
    BY <2>1, OwnSteps
  <2>2. CASE PushAllowed \/ GoAway \/ Close
    BY <2>2, FlagSteps
  <2>3. CASE QdhUnsent \/ QdhSent
    BY <2>3, QdhSteps
  <2>4. CASE TickStreams
    BY <2>4, TickKeeps
  <2>5. CASE ReceiveMaxStreams \/ ReceiveFrame
    BY <2>5, ReceiveSteps
  <2>6. CASE \/ \E sd \in Dirs : PeerOpens(sd) \/ PeerRaises(sd)
             \/ \E w \in far.wire : PeerLearns(w)
    BY <2>6, PeerSteps
  <2>7. CASE UNCHANGED slvars
    BY <2>7 DEF slvars, SLInv, Sane, StreamsInv, Numbered, CreditInv, DueInv, LimitsInv, HttpInv, WaitInv
  <2> QED BY <2>1, <2>2, <2>3, <2>4, <2>5, <2>6, <2>7 DEF SLNext
<1>3. SLInv => StreamLimitsSound
  BY LimitsImply
<1> QED BY <1>1, <1>2, <1>3, PTL DEF SLSpec

-----------------------------------------------------------------------------
(* The key phases *)

(* The receiver's encryption session, and the sender's record. *)
Pair == [open : Int, seal : Int, thresh : Int]
EsiType == [max_packno : Int, key_phase : 0 .. 1, secret : Nat, pairs : [0 .. 1 -> Pair]]
SndShape(s) ==
    /\ s = [cur |-> s.cur, unacked |-> s.unacked, lost |-> s.lost, ackRecv |-> s.ackRecv,
            unretx |-> s.unretx, rtos |-> s.rtos, limit |-> s.limit, gen |-> s.gen,
            genAcked |-> s.genAcked]
    /\ s.cur \in Int /\ s.cur >= -1 /\ s.gen \in Nat

(* Packets of a later phase have higher numbers, and a packet on the way was sent. *)
SentInv(s, W) ==
    /\ \A w \in W : w.no \in Nat /\ w.no <= s.cur /\ w.gen \in Nat /\ w.gen <= s.gen
    /\ \A v, w \in W : v.gen < w.gen => v.no < w.no
    /\ \A p \in s.unacked : /\ p = [no |-> p.no, retx |-> p.retx, bits |-> p.bits, rec |-> p.rec,
                                    chain |-> p.chain, gen |-> p.gen]
                            /\ p.no \in Nat /\ p.no <= s.cur /\ p.gen \in Nat
    /\ \A w \in W, p \in s.unacked : w.no = p.no => w.gen = p.gen

(* What was received is no further than the receiver's secret. *)
HeardInv(s, R, secret) ==
    /\ \A n \in R : n \in Nat /\ n <= s.cur
    /\ \A n \in R, p \in s.unacked : p.no = n => p.gen <= secret
    /\ s.genAcked => s.gen <= secret
    /\ s.gen - 1 <= secret /\ secret <= s.gen

(* The two pairs of keys, and the number that separates packets of the previous phase
   from those of the next. *)
KeysInv(s, W, e) ==
    /\ e.key_phase = e.secret % 2
    /\ e.pairs[e.key_phase].open = e.secret /\ e.pairs[e.key_phase].seal = e.secret
    /\ e.pairs[1 - e.key_phase].open = e.secret - 1
    /\ e.pairs[e.key_phase].thresh <= s.cur
    /\ \A w \in W : /\ w.gen = e.secret - 1 => w.no <= e.pairs[e.key_phase].thresh
                    /\ w.gen = e.secret + 1 => w.no > e.pairs[e.key_phase].thresh

PhaseInv == /\ SndShape(snd) /\ esi \in EsiType
            /\ SentInv(snd, wire) /\ HeardInv(snd, rcvd, esi.secret) /\ KeysInv(snd, wire, esi)

(* The sender's record from its fields. *)
SndRec(a, u, l, r, n, t, m, g, k) ==
    [cur |-> a, unacked |-> u, lost |-> l, ackRecv |-> r, unretx |-> n, rtos |-> t, limit |-> m,
     gen |-> g, genAcked |-> k]

(* It has the shape of one, and these fields. *)
LEMMA SndMade ==
    ASSUME NEW a \in Int, a >= -1, NEW g \in Nat, NEW u, NEW l, NEW r, NEW n, NEW t, NEW m, NEW k
    PROVE  LET s == SndRec(a, u, l, r, n, t, m, g, k)
           IN  SndShape(s) /\ s.cur = a /\ s.unacked = u /\ s.gen = g /\ s.genAcked = k
  BY DEF SndShape, SndRec

(* No packet was sent and none received: both ends are in phase 0. *)
LEMMA PhaseStart ==
    ASSUME PacketProtectionAssumption, Init
    PROVE  PhaseInv
<1>1. FIRST_PACKNO \in Nat
  BY DEF PacketProtectionAssumption
<1>2. snd.cur = FIRST_PACKNO - 1 /\ snd.gen = 0 /\ snd.unacked = {} /\ snd.genAcked = FALSE
  BY DEF Init
<1>3. SndShape(snd)
  BY <1>1 DEF Init, SndShape
<1>4. esi \in EsiType
  BY DEF Init, EsiType, Pair, INVALID_PACKNO
<1>5. /\ esi.secret = 0 /\ esi.key_phase = 0 /\ esi.pairs[0] = [open |-> 0, seal |-> 0, thresh |-> -1]
      /\ esi.pairs[1].open = -1
  BY DEF Init, INVALID_PACKNO
<1>6. wire = {} /\ rcvd = {}
  BY DEF Init
<1>7. SentInv(snd, wire) /\ HeardInv(snd, rcvd, esi.secret)
  BY <1>2, <1>5, <1>6 DEF SentInv, HeardInv
<1>8. KeysInv(snd, wire, esi)
  <2>1. esi.key_phase = esi.secret % 2
    BY <1>5
  <2>2. esi.pairs[esi.key_phase].thresh <= snd.cur
    BY <1>1, <1>2, <1>5
  <2> QED BY <1>5, <1>6, <2>1, <2>2 DEF KeysInv
<1> QED BY <1>3, <1>4, <1>7, <1>8 DEF PhaseInv

(* A packet, new or resent, goes out with the next number and the current phase. *)
LEMMA PacketIsSent ==
    ASSUME PhaseInv, NEW s, SndShape(s), s.cur = snd.cur, s.gen = snd.gen, s.unacked = snd.unacked,
           s.genAcked = snd.genAcked,
           NEW retx, NEW bits, NEW chain, NEW fresh, NEW lost,
           snd' = [Put(s, retx, bits, chain) EXCEPT !.lost = lost],
           wire' = wire \cup {Encrypt(snd, bits, fresh)}, UNCHANGED <<esi, rcvd>>
    PROVE  PhaseInv'
<1> DEFINE p == [no |-> s.cur + 1, retx |-> retx, bits |-> bits, rec |-> FALSE, chain |-> chain,
                 gen |-> s.gen]
           w == Encrypt(snd, bits, fresh)
<1>1. /\ snd.cur \in Int /\ snd.cur >= -1 /\ snd.gen \in Nat /\ esi \in EsiType /\ esi' = esi /\ rcvd' = rcvd
      /\ esi.secret \in Nat /\ esi.key_phase \in 0 .. 1 /\ esi.pairs[esi.key_phase].thresh \in Int
  BY DEF PhaseInv, SndShape, EsiType, Pair
<1>2. /\ SndShape(snd') /\ snd'.cur = snd.cur + 1 /\ snd'.gen = snd.gen /\ snd'.genAcked = snd.genAcked
      /\ snd'.unacked = snd.unacked \cup {p}
  <2> DEFINE n == IF retx THEN s.unretx ELSE s.unretx + 1
             u == s.unacked \cup {p}
  <2>1. Put(s, retx, bits, chain) = [s EXCEPT !.cur = s.cur + 1, !.unretx = n, !.unacked = u]
    BY DEF Put
  <2> HIDE DEF n, u
  <2>2. snd' = [s EXCEPT !.cur = s.cur + 1, !.unretx = n, !.unacked = u, !.lost = lost]
    BY <2>1
  <2>3. snd' = SndRec(s.cur + 1, u, lost, s.ackRecv, n, s.rtos, s.limit, s.gen, s.genAcked)
    BY <2>2 DEF SndShape, SndRec
  <2>4. s.cur + 1 \in Int /\ s.cur + 1 >= -1
    BY <1>1
  <2>5. /\ SndShape(snd') /\ snd'.cur = s.cur + 1 /\ snd'.gen = s.gen /\ snd'.genAcked = s.genAcked
        /\ snd'.unacked = u
    <3> DEFINE r == SndRec(s.cur + 1, u, lost, s.ackRecv, n, s.rtos, s.limit, s.gen, s.genAcked)
    <3>1. s.gen \in Nat
      BY <1>1
    <3>2. SndShape(r) /\ r.cur = s.cur + 1 /\ r.unacked = u /\ r.gen = s.gen /\ r.genAcked = s.genAcked
      BY <2>4, <3>1, SndMade
    <3> QED BY <2>3, <3>2
  <2> QED BY <2>5 DEF u
<1>3. w.no = snd.cur + 1 /\ w.gen = snd.gen /\ wire' = wire \cup {w}
  BY DEF Encrypt
<1>4. p.no = snd.cur + 1 /\ p.gen = snd.gen
      /\ p = [no |-> p.no, retx |-> p.retx, bits |-> p.bits, rec |-> p.rec, chain |-> p.chain, gen |-> p.gen]
  OBVIOUS
<1> HIDE DEF p, w
<1>5. SentInv(snd', wire')
  <2>1. \A v \in wire' : v.no \in Nat /\ v.no <= snd'.cur /\ v.gen \in Nat /\ v.gen <= snd'.gen
    BY <1>1, <1>2, <1>3 DEF PhaseInv, SentInv
  <2>2. \A u, v \in wire' : u.gen < v.gen => u.no < v.no
    BY <1>1, <1>3 DEF PhaseInv, SentInv
  <2>3. \A q \in snd'.unacked : /\ q = [no |-> q.no, retx |-> q.retx, bits |-> q.bits, rec |-> q.rec,
                                        chain |-> q.chain, gen |-> q.gen]
                                /\ q.no \in Nat /\ q.no <= snd'.cur /\ q.gen \in Nat
    BY <1>1, <1>2, <1>4 DEF PhaseInv, SentInv
  <2>4. \A v \in wire', q \in snd'.unacked : v.no = q.no => v.gen = q.gen
    BY <1>1, <1>2, <1>3, <1>4 DEF PhaseInv, SentInv
  <2> QED BY <2>1, <2>2, <2>3, <2>4 DEF SentInv
<1>6. HeardInv(snd', rcvd', esi'.secret)
  <2>1. \A n \in rcvd : n \in Nat /\ n <= snd.cur
    BY DEF PhaseInv, HeardInv
  <2>2. \A n \in rcvd, q \in snd'.unacked : q.no = n => q.gen <= esi.secret
    BY <1>1, <1>2, <1>4, <2>1 DEF PhaseInv, HeardInv
  <2> QED BY <1>1, <1>2, <2>1, <2>2 DEF PhaseInv, HeardInv
<1>7. KeysInv(snd', wire', esi')
  <2>1. esi.secret <= snd.gen /\ esi.pairs[esi.key_phase].thresh <= snd.cur
    BY DEF PhaseInv, HeardInv, KeysInv
  <2>2. \A v \in wire' : /\ v.gen = esi.secret - 1 => v.no <= esi.pairs[esi.key_phase].thresh
                         /\ v.gen = esi.secret + 1 => v.no > esi.pairs[esi.key_phase].thresh
    BY <1>1, <1>3, <2>1 DEF PhaseInv, KeysInv
  <2> QED BY <1>1, <1>2, <2>1, <2>2 DEF PhaseInv, KeysInv
<1> QED BY <1>1, <1>2, <1>5, <1>6, <1>7 DEF PhaseInv

(* Steps of the send controller that send nothing: packets leave the Unacked Queue or
   become loss records. *)
LEMMA UnackedShrinks ==
    ASSUME PhaseInv, SndShape(snd'), snd'.cur = snd.cur, UNCHANGED <<wire, esi>>,
           \A p \in snd'.unacked : p \in snd.unacked \/ \E q \in snd.unacked : p = [q EXCEPT !.rec = TRUE],
           rcvd' \subseteq rcvd,
           snd'.gen \in {snd.gen, snd.gen + 1},
           snd'.genAcked => snd'.gen <= esi.secret,
           snd'.gen - 1 <= esi.secret
    PROVE  PhaseInv'
<1>1. /\ snd.cur \in Int /\ snd.cur >= -1 /\ snd.gen \in Nat /\ esi \in EsiType /\ esi' = esi /\ wire' = wire
      /\ esi.secret \in Nat /\ snd'.gen \in Nat /\ snd'.gen >= snd.gen
  BY DEF PhaseInv, SndShape, EsiType
<1>2. ASSUME NEW p \in snd'.unacked
      PROVE  \E q \in snd.unacked : /\ p.no = q.no /\ p.gen = q.gen
               /\ p = [no |-> p.no, retx |-> p.retx, bits |-> p.bits, rec |-> p.rec,
                       chain |-> p.chain, gen |-> p.gen]
  <2>1. CASE p \in snd.unacked
    BY <2>1 DEF PhaseInv, SentInv
  <2>2. CASE \E q \in snd.unacked : p = [q EXCEPT !.rec = TRUE]
    <3>1. PICK q \in snd.unacked : p = [q EXCEPT !.rec = TRUE]
      BY <2>2
    <3>2. q = [no |-> q.no, retx |-> q.retx, bits |-> q.bits, rec |-> q.rec, chain |-> q.chain, gen |-> q.gen]
      BY DEF PhaseInv, SentInv
    <3>3. p = [no |-> q.no, retx |-> q.retx, bits |-> q.bits, rec |-> TRUE, chain |-> q.chain, gen |-> q.gen]
      BY <3>1, <3>2
    <3> QED BY <3>3
  <2> QED BY <1>2, <2>1, <2>2
<1>3. SentInv(snd', wire')
  BY <1>1, <1>2 DEF PhaseInv, SentInv
<1>4. HeardInv(snd', rcvd', esi'.secret)
  <2>1. \A n \in rcvd' : n \in Nat /\ n <= snd'.cur
    BY DEF PhaseInv, HeardInv
  <2>2. \A n \in rcvd', p \in snd'.unacked : p.no = n => p.gen <= esi.secret
    BY <1>2 DEF PhaseInv, HeardInv
  <2>3. esi.secret <= snd'.gen
    BY <1>1 DEF PhaseInv, HeardInv
  <2> QED BY <1>1, <2>1, <2>2, <2>3 DEF HeardInv
<1>5. KeysInv(snd', wire', esi')
  BY <1>1 DEF PhaseInv, KeysInv
<1> QED BY <1>1, <1>3, <1>4, <1>5 DEF PhaseInv

(* A lost packet leaves the queue or stays as a loss record. *)
LEMMA LoseKeeps ==
    ASSUME NEW s, SndShape(s), NEW gone
    PROVE  LET t == Lose(s, gone)
           IN  /\ SndShape(t) /\ t.cur = s.cur /\ t.gen = s.gen /\ t.genAcked = s.genAcked
               /\ gone \subseteq s.unacked =>
                    \A p \in t.unacked : p \in s.unacked \/ \E q \in s.unacked : p = [q EXCEPT !.rec = TRUE]
<1> DEFINE retx == {p \in gone : p.retx}
           ord == SetToSortSeq(retx, LAMBDA p, q : p.no < q.no)
           u == (s.unacked \ gone) \cup {[p EXCEPT !.rec = TRUE] : p \in retx}
           l == s.lost \o [i \in DOMAIN ord |-> [bits |-> ord[i].bits, chain |-> ord[i].chain]]
           t == Lose(s, gone)
<1>1. t = [s EXCEPT !.unacked = u, !.lost = l]
  BY DEF Lose
<1>2. gone \subseteq s.unacked =>
        \A p \in u : p \in s.unacked \/ \E q \in s.unacked : p = [q EXCEPT !.rec = TRUE]
  OBVIOUS
<1> HIDE DEF u, l, t
<1>3. t.unacked = u /\ SndShape(t) /\ t.cur = s.cur /\ t.gen = s.gen /\ t.genAcked = s.genAcked
  BY <1>1 DEF SndShape
<1> QED BY <1>2, <1>3 DEF t

(* Sending, the retransmission timer, and the move to the next phase: allowed only
   once the peer has acknowledged a packet of the current one. *)
LEMMA SenderSteps ==
    ASSUME PhaseInv, SendNew \/ Resend \/ Rto \/ UpdateKeys
    PROVE  PhaseInv'
<1>0. SndShape(snd) /\ snd.gen \in Nat /\ esi.secret \in Nat
      /\ (snd.genAcked => snd.gen <= esi.secret) /\ snd.gen - 1 <= esi.secret
  BY DEF PhaseInv, SndShape, EsiType, HeardInv
<1>1. SndShape(DecLimit(snd)) /\ DecLimit(snd).cur = snd.cur /\ DecLimit(snd).gen = snd.gen
      /\ DecLimit(snd).unacked = snd.unacked /\ DecLimit(snd).genAcked = snd.genAcked
  <2> DEFINE x == IF snd.limit > 0 THEN snd.limit - 1 ELSE snd.limit
  <2>1. DecLimit(snd) = [snd EXCEPT !.limit = x]
    BY DEF DecLimit
  <2> HIDE DEF x
  <2> QED BY <1>0, <2>1 DEF SndShape
<1>2. CASE SendNew
  <2>1. PICK retx \in BOOLEAN :
          /\ snd' = Put(IF retx THEN DecLimit(snd) ELSE snd, retx, PacknoBits(snd), snd.cur + 1)
          /\ wire' = wire \cup {Encrypt(snd, PacknoBits(snd), TRUE)}
          /\ UNCHANGED <<esi, rcvd>>
    BY <1>2 DEF SendNew
  <2> DEFINE s == IF retx THEN DecLimit(snd) ELSE snd
             b == PacknoBits(snd)
  <2>2. SndShape(s) /\ s.cur = snd.cur /\ s.gen = snd.gen /\ s.unacked = snd.unacked
        /\ s.genAcked = snd.genAcked
    BY <1>0, <1>1
  <2> HIDE DEF s, b
  <2>3. snd' = [Put(s, retx, b, snd.cur + 1) EXCEPT !.lost = s.lost]
    <3>1. snd' = Put(s, retx, b, snd.cur + 1)
      BY <2>1 DEF s, b
    <3> QED BY <2>2, <3>1 DEF Put, SndShape
  <2>4. wire' = wire \cup {Encrypt(snd, b, TRUE)} /\ UNCHANGED <<esi, rcvd>>
    BY <2>1 DEF b
  <2> QED BY <2>2, <2>3, <2>4, PacketIsSent
<1>3. CASE Resend
  <2> DEFINE q == Head(snd.lost)
  <2>1. /\ snd' = [Put(DecLimit(snd), TRUE, q.bits, q.chain) EXCEPT
                        !.lost = Tail(Put(DecLimit(snd), TRUE, q.bits, q.chain).lost)]
        /\ wire' = wire \cup {Encrypt(snd, q.bits, FALSE)}
        /\ UNCHANGED <<esi, rcvd>>
    BY <1>3 DEF Resend
  <2> HIDE DEF q
  <2> QED BY <1>1, <2>1, PacketIsSent
<1>4. CASE Rto
  <2> DEFINE t == Lose(snd, InFlight(snd))
  <2>1. snd' = [t EXCEPT !.rtos = t.rtos + 1, !.limit = NEXT_LIMIT] /\ UNCHANGED <<wire, esi, rcvd>>
    BY <1>4 DEF Rto
  <2>2. InFlight(snd) \subseteq snd.unacked
    BY DEF InFlight
  <2>3. /\ SndShape(t) /\ t.cur = snd.cur /\ t.gen = snd.gen /\ t.genAcked = snd.genAcked
        /\ \A p \in t.unacked : p \in snd.unacked \/ \E q \in snd.unacked : p = [q EXCEPT !.rec = TRUE]
    BY <1>0, <2>2, LoseKeeps
  <2> HIDE DEF t
  <2>4. /\ SndShape(snd') /\ snd'.cur = t.cur /\ snd'.gen = t.gen /\ snd'.genAcked = t.genAcked
        /\ snd'.unacked = t.unacked
    BY <2>1, <2>3 DEF SndShape
  <2> QED BY <1>0, <2>1, <2>3, <2>4, UnackedShrinks
<1>5. CASE UpdateKeys
  <2>1. snd' = [snd EXCEPT !.gen = snd.gen + 1, !.genAcked = FALSE] /\ UNCHANGED <<wire, esi, rcvd>>
        /\ snd.genAcked
    BY <1>5 DEF UpdateKeys
  <2> DEFINE no == FALSE
  <2>4. snd' = [snd EXCEPT !.gen = snd.gen + 1, !.genAcked = no]
    BY <2>1
  <2> HIDE DEF no
  <2>5. snd' = SndRec(snd.cur, snd.unacked, snd.lost, snd.ackRecv, snd.unretx, snd.rtos, snd.limit,
                      snd.gen + 1, no)
    BY <1>0, <2>4 DEF SndShape, SndRec
  <2>6. snd.cur \in Int /\ snd.cur >= -1 /\ snd.gen + 1 \in Nat
    BY <1>0 DEF SndShape
  <2>7. /\ SndShape(snd') /\ snd'.cur = snd.cur /\ snd'.gen = snd.gen + 1 /\ snd'.genAcked = no
        /\ snd'.unacked = snd.unacked
    BY <2>5, <2>6, SndMade
  <2>2. /\ SndShape(snd') /\ snd'.cur = snd.cur /\ snd'.gen = snd.gen + 1 /\ ~snd'.genAcked
        /\ snd'.unacked = snd.unacked
    BY <2>7 DEF no
  <2>3. snd'.gen - 1 <= esi.secret
    BY <1>0, <2>1, <2>2
  <2> QED BY <1>0, <2>1, <2>2, <2>3, UnackedShrinks
<1> QED BY <1>2, <1>3, <1>4, <1>5

(* The fields an acknowledgement changes, one after the other. *)
SndAck(s, u, r, m, l, k) ==
    [s EXCEPT !.unacked = u, !.ackRecv = r, !.limit = m, !.lost = l, !.genAcked = k]

(* The result, as a record of fields. *)
LEMMA SndAcked ==
    ASSUME NEW s, SndShape(s), NEW u, NEW r, NEW m, NEW l, NEW k
    PROVE  SndAck(s, u, r, m, l, k) = SndRec(s.cur, u, l, r, s.unretx, s.rtos, m, s.gen, k)
<1> DEFINE s1 == [s EXCEPT !.unacked = u]
           s2 == [s1 EXCEPT !.ackRecv = r]
           s3 == [s2 EXCEPT !.limit = m]
           s4 == [s3 EXCEPT !.lost = l]
           s5 == [s4 EXCEPT !.genAcked = k]
<1>1. SndAck(s, u, r, m, l, k) = s5
  BY DEF SndAck
<1>2. s1 = SndRec(s.cur, u, s.lost, s.ackRecv, s.unretx, s.rtos, s.limit, s.gen, s.genAcked)
  BY DEF SndShape, SndRec
<1> HIDE DEF s1
<1>3. s2 = SndRec(s.cur, u, s.lost, r, s.unretx, s.rtos, s.limit, s.gen, s.genAcked)
  BY <1>2 DEF SndRec
<1> HIDE DEF s2
<1>4. s3 = SndRec(s.cur, u, s.lost, r, s.unretx, s.rtos, m, s.gen, s.genAcked)
  BY <1>3 DEF SndRec
<1> HIDE DEF s3
<1>5. s4 = SndRec(s.cur, u, l, r, s.unretx, s.rtos, m, s.gen, s.genAcked)
  BY <1>4 DEF SndRec
<1> HIDE DEF s4
<1>6. s5 = SndRec(s.cur, u, l, r, s.unretx, s.rtos, m, s.gen, k)
  BY <1>5 DEF SndRec
<1> QED BY <1>1, <1>6

(* An acknowledgement of a packet of the current phase comes from a peer that has
   its keys. *)
LEMMA AckSteps ==
    ASSUME PhaseInv, AckArrives
    PROVE  PhaseInv'
<1>1. PICK k \in rcvd : /\ snd' = GotAck(snd, {n \in rcvd : n <= k})
                        /\ rcvd' = {n \in rcvd : \E p \in snd'.unacked : p.no = n}
                        /\ UNCHANGED <<wire, esi>>
  BY DEF AckArrives
<1> DEFINE S == {n \in rcvd : n <= k}
           hit == {p \in snd.unacked : p.no \in S}
           chains == {p.chain : p \in hit}
           left == {p \in snd.unacked : p.chain \notin chains}
           lost == SelectSeq(snd.lost, LAMBDA q : q.chain \notin chains)
           ga == snd.genAcked \/ \E p \in hit : p.gen = snd.gen
           yes == TRUE
           none == -1
           t == SndAck(snd, left, yes, none, lost, ga)
           gone == {p \in InFlight(t) : p.no + REORDER_THRESH < Maxi(S)}
<1>2. snd' = Lose(t, gone)
  BY <1>1 DEF GotAck, SndAck
<1>3. SndShape(snd) /\ snd.gen \in Nat /\ snd.gen - 1 <= esi.secret
  BY DEF PhaseInv, SndShape, HeardInv
<1>4. ga => snd.gen <= esi.secret
  BY DEF PhaseInv, HeardInv
<1>5. left \subseteq snd.unacked
  OBVIOUS
<1> HIDE DEF left, lost, ga, yes, none
<1>6. SndShape(t) /\ t.cur = snd.cur /\ t.gen = snd.gen /\ t.genAcked = ga /\ t.unacked = left
  <2>1. t = SndRec(snd.cur, left, lost, yes, snd.unretx, snd.rtos, none, snd.gen, ga)
    BY <1>3, SndAcked
  <2>2. snd.cur \in Int /\ snd.cur >= -1
    BY <1>3 DEF SndShape
  <2> DEFINE r == SndRec(snd.cur, left, lost, yes, snd.unretx, snd.rtos, none, snd.gen, ga)
  <2>3. SndShape(r) /\ r.cur = snd.cur /\ r.unacked = left /\ r.gen = snd.gen /\ r.genAcked = ga
    BY <1>3, <2>2, SndMade
  <2> HIDE DEF t, r
  <2>4. t = r
    BY <2>1 DEF r
  <2> QED BY <2>3, <2>4
<1>7. gone \subseteq t.unacked
  BY DEF InFlight
<1> HIDE DEF t, gone
<1>8. /\ SndShape(snd') /\ snd'.cur = snd.cur /\ snd'.gen = snd.gen /\ snd'.genAcked = ga
      /\ \A p \in snd'.unacked : p \in left \/ \E q \in left : p = [q EXCEPT !.rec = TRUE]
  BY <1>2, <1>6, <1>7, LoseKeeps
<1>9. \A p \in snd'.unacked : p \in snd.unacked \/ \E q \in snd.unacked : p = [q EXCEPT !.rec = TRUE]
  BY <1>5, <1>8
<1>10. rcvd' \subseteq rcvd
  BY <1>1
<1> QED BY <1>1, <1>3, <1>4, <1>8, <1>9, <1>10, UnackedShrinks

(* The larger of two numbers. *)
LEMMA MaxiOfTwo ==
    ASSUME NEW a \in Int, NEW b \in Int
    PROVE  Maxi({a, b}) = IF a >= b THEN a ELSE b
<1>1. \A x \in Int : (x \in {a, b} /\ \A y \in {a, b} : y <= x) => x = IF a >= b THEN a ELSE b
  OBVIOUS
<1>2. \E x \in {a, b} : \A y \in {a, b} : y <= x
  OBVIOUS
<1> QED BY <1>1, <1>2 DEF Maxi

(* After the largest numbers are noted, only the threshold of the packet's phase has moved. *)
Noted(f, e, n, ph) ==
    /\ f \in EsiType /\ f.secret = e.secret /\ f.key_phase = e.key_phase
    /\ \A k \in 0 .. 1 : f.pairs[k].open = e.pairs[k].open /\ f.pairs[k].seal = e.pairs[k].seal
    /\ \A k \in 0 .. 1 : k # ph => f.pairs[k].thresh = e.pairs[k].thresh
    /\ f.pairs[ph].thresh = IF e.pairs[ph].thresh # -1 /\ e.pairs[ph].thresh < n
                            THEN n ELSE e.pairs[ph].thresh

LEMMA LargestNoted ==
    ASSUME NEW e \in EsiType, NEW n \in Nat, NEW ph \in 0 .. 1, NEW f, f = NoteLargest(e, n, ph)
    PROVE  Noted(f, e, n, ph)
<1> DEFINE m == Maxi({e.max_packno, n})
           th == e.pairs[ph].thresh
           x == IF th # INVALID_PACKNO THEN Maxi({th, n}) ELSE th
           pr == [e.pairs[ph] EXCEPT !.thresh = x]
           prs == [e.pairs EXCEPT ![ph] = pr]
<1>1. /\ e.max_packno \in Int /\ e.pairs \in [0 .. 1 -> Pair] /\ e.pairs[ph] \in Pair /\ th \in Int /\ n \in Int
  BY DEF EsiType, Pair
<1>2. m \in Int
  BY <1>1, MaxiOfTwo
<1>3. x = (IF th # -1 /\ th < n THEN n ELSE th) /\ x \in Int
  <2>1. Maxi({th, n}) = IF th >= n THEN th ELSE n
    BY <1>1, MaxiOfTwo
  <2> HIDE DEF th
  <2> QED BY <1>1, <2>1 DEF INVALID_PACKNO
<1>4. f = [e EXCEPT !.max_packno = m, !.pairs = prs]
  BY DEF NoteLargest
<1> HIDE DEF m, x
<1>5. pr \in Pair /\ pr.open = e.pairs[ph].open /\ pr.seal = e.pairs[ph].seal /\ pr.thresh = x
  BY <1>1, <1>3 DEF Pair
<1> HIDE DEF pr
<1>6. prs \in [0 .. 1 -> Pair] /\ prs[ph] = pr /\ \A k \in 0 .. 1 : k # ph => prs[k] = e.pairs[k]
  BY <1>1, <1>5
<1> HIDE DEF prs
<1>7. f \in EsiType /\ f.secret = e.secret /\ f.key_phase = e.key_phase /\ f.pairs = prs
  BY <1>2, <1>4, <1>6 DEF EsiType
<1>8. \A k \in 0 .. 1 : f.pairs[k].open = e.pairs[k].open /\ f.pairs[k].seal = e.pairs[k].seal
  BY <1>5, <1>6, <1>7
<1>9. \A k \in 0 .. 1 : k # ph => f.pairs[k].thresh = e.pairs[k].thresh
  BY <1>6, <1>7
<1>10. f.pairs[ph].thresh = IF e.pairs[ph].thresh # -1 /\ e.pairs[ph].thresh < n
                            THEN n ELSE e.pairs[ph].thresh
  BY <1>3, <1>5, <1>6, <1>7
<1> QED BY <1>7, <1>8, <1>9, <1>10 DEF Noted

(* The session e once the keys for packet w are picked, and rotated if it is the first of
   its phase: g is the receiver's phase, t its threshold. *)
After(e, g, kk, t, w, ph) ==
    /\ e \in EsiType /\ e.secret = g /\ e.key_phase = kk /\ kk = g % 2
    /\ e.pairs[kk].open = g /\ e.pairs[kk].seal = g /\ e.pairs[1 - kk].open = g - 1
    /\ e.pairs[kk].thresh = t /\ t <= snd.cur /\ w.gen <= g /\ esi.secret <= g /\ g <= snd.gen
    /\ ph = kk => w.gen = g
    /\ \A v \in wire : (v.gen = g - 1 => v.no <= t) /\ (v.gen = g + 1 => v.no > t)

(* A packet is opened with the keys of its phase: the current, the previous or the next. *)
LEMMA DeliverSteps ==
    ASSUME PhaseInv, Deliver
    PROVE  PhaseInv'
<1>1. PICK w \in wire : /\ DecryptPacket(esi, w).ok /\ esi' = DecryptPacket(esi, w).e
                        /\ rcvd' = {n \in rcvd \cup {w.no} : \E q \in snd.unacked : q.no = n}
                        /\ wire' = wire \ {w} /\ UNCHANGED snd
  BY DEF Deliver
<1> DEFINE ph == w.gen % 2
           kp == esi.key_phase
           th == esi.pairs[kp].thresh
           key == PickKey(esi, w.no, ph)
           e == IF key.new THEN Rotate(esi, w.no, ph) ELSE esi
<1>2. /\ esi \in EsiType /\ esi.secret \in Nat /\ kp \in 0 .. 1 /\ esi.pairs \in [0 .. 1 -> Pair]
      /\ th \in Int /\ snd.cur \in Int /\ snd.gen \in Nat
      /\ w.no \in Nat /\ w.no <= snd.cur /\ w.gen \in Nat /\ w.gen <= snd.gen
  BY DEF PhaseInv, EsiType, Pair, SndShape, SentInv
<1>3. ph \in 0 .. 1 /\ 1 - kp \in 0 .. 1 /\ 1 - kp # kp
  BY <1>2
<1>4. key.gen = w.gen /\ esi' = NoteLargest(e, w.no, ph)
  <2> DEFINE no == StripHp(esi, w)
             k2 == PickKey(esi, no, ph)
             ok == k2.gen = w.gen /\ no = w.no
  <2>1. DecryptPacket(esi, w) = [ok |-> ok,
            e |-> IF ~ok THEN esi
                  ELSE NoteLargest(IF k2.new THEN Rotate(esi, no, ph) ELSE esi, no, ph)]
    BY DEF DecryptPacket
  <2> DEFINE x == IF ~ok THEN esi
                  ELSE NoteLargest(IF k2.new THEN Rotate(esi, no, ph) ELSE esi, no, ph)
  <2> HIDE DEF ok, x
  <2>2. DecryptPacket(esi, w).ok = ok /\ DecryptPacket(esi, w).e = x
    <3>1. DecryptPacket(esi, w) = [ok |-> ok, e |-> x]
      BY <2>1 DEF x
    <3> QED BY <3>1
  <2>3. ok /\ no = w.no
    BY <1>1, <2>2 DEF ok
  <2>4. x = NoteLargest(IF k2.new THEN Rotate(esi, no, ph) ELSE esi, no, ph)
    BY <2>3 DEF x
  <2>5. k2.gen = w.gen
    BY <2>3 DEF ok
  <2> HIDE DEF no
  <2> QED BY <1>1, <2>2, <2>3, <2>4, <2>5
<1>5. /\ kp = esi.secret % 2 /\ esi.pairs[kp].open = esi.secret /\ esi.pairs[kp].seal = esi.secret
      /\ esi.pairs[1 - kp].open = esi.secret - 1 /\ th <= snd.cur
      /\ \A v \in wire : /\ v.no \in Nat /\ v.no <= snd.cur /\ v.gen \in Nat /\ v.gen <= snd.gen
                         /\ v.gen = esi.secret - 1 => v.no <= th
                         /\ v.gen = esi.secret + 1 => v.no > th
                         /\ v.gen < w.gen => v.no < w.no
                         /\ w.gen < v.gen => w.no < v.no
      /\ esi.secret <= snd.gen /\ snd.gen - 1 <= esi.secret
  BY DEF PhaseInv, KeysInv, SentInv, HeardInv
<1>6. \/ key.new = FALSE /\ w.gen = esi.secret /\ ph = kp
      \/ key.new = FALSE /\ w.gen = esi.secret - 1 /\ ph = 1 - kp
      \/ key.new = TRUE /\ w.gen = esi.secret + 1 /\ ph = 1 - kp
  <2>1. CASE ph = kp
    <3>1. key = [new |-> FALSE, gen |-> esi.pairs[ph].open]
      BY <2>1 DEF PickKey
    <3> QED BY <1>4, <1>5, <2>1, <3>1
  <2>2. CASE ph # kp
    <3>1. ph = 1 - kp
      BY <1>2, <1>3, <2>2
    <3>2. key = [new |-> TRUE, gen |-> esi.secret + 1] \/ key = [new |-> FALSE, gen |-> esi.pairs[ph].open]
      BY <2>2 DEF PickKey
    <3> QED BY <1>4, <1>5, <3>1, <3>2
  <2> QED BY <2>1, <2>2
<1> HIDE DEF ph, key, e
<1>7. ASSUME NEW g \in Nat, NEW kk \in 0 .. 1, NEW t \in Int, After(e, g, kk, t, w, ph)
      PROVE  PhaseInv'
  <2>a. /\ e \in EsiType /\ e.secret = g /\ e.key_phase = kk /\ kk = g % 2
        /\ e.pairs[kk].open = g /\ e.pairs[kk].seal = g /\ e.pairs[1 - kk].open = g - 1
        /\ e.pairs[kk].thresh = t /\ t <= snd.cur /\ w.gen <= g /\ esi.secret <= g /\ g <= snd.gen
        /\ ph = kk => w.gen = g
        /\ \A v \in wire : (v.gen = g - 1 => v.no <= t) /\ (v.gen = g + 1 => v.no > t)
    BY <1>7 DEF After
  <2> DEFINE t2 == IF ph = kk /\ t # -1 /\ t < w.no THEN w.no ELSE t
  <2>0. kk \in 0 .. 1 /\ 1 - kk \in 0 .. 1 /\ 1 - kk # kk /\ e.pairs[kk] \in Pair
    BY <2>a DEF EsiType
  <2>1. /\ esi' \in EsiType /\ esi'.secret = g /\ esi'.key_phase = kk
        /\ esi'.pairs[kk].open = g /\ esi'.pairs[kk].seal = g /\ esi'.pairs[1 - kk].open = g - 1
        /\ esi'.pairs[kk].thresh = t2
    <3>1. /\ esi' \in EsiType /\ esi'.secret = e.secret /\ esi'.key_phase = e.key_phase
          /\ \A k \in 0 .. 1 : /\ esi'.pairs[k].open = e.pairs[k].open
                               /\ esi'.pairs[k].seal = e.pairs[k].seal
          /\ \A k \in 0 .. 1 : k # ph => esi'.pairs[k].thresh = e.pairs[k].thresh
          /\ esi'.pairs[ph].thresh = IF e.pairs[ph].thresh # -1 /\ e.pairs[ph].thresh < w.no
                                     THEN w.no ELSE e.pairs[ph].thresh
      <4> DEFINE f == esi'
      <4>1. e \in EsiType /\ w.no \in Nat /\ ph \in 0 .. 1 /\ f = NoteLargest(e, w.no, ph)
        BY <1>2, <1>3, <1>4, <2>a
      <4> HIDE DEF f
      <4>2. Noted(f, e, w.no, ph)
        BY <4>1, LargestNoted
      <4> QED BY <4>2 DEF f, Noted
    <3> QED BY <2>a, <2>0, <3>1
  <2>2. t2 \in Int /\ t2 >= t /\ t2 <= snd.cur
    BY <1>2, <2>a
  <2>3. KeysInv(snd', wire', esi')
    <3>1. ASSUME NEW v \in wire' PROVE (v.gen = g - 1 => v.no <= t2) /\ (v.gen = g + 1 => v.no > t2)
      <4>1. v \in wire /\ v.no \in Nat /\ v.gen \in Nat
        BY <1>1, <1>5
      <4>2. v.gen = g - 1 => v.no <= t2
        BY <2>a, <2>2, <4>1
      <4>3. ASSUME v.gen = g + 1 PROVE v.no > t2
        <5>1. v.no > t
          BY <2>a, <4>1, <4>3
        <5>2. ph = kk => v.no > w.no
          BY <1>5, <2>a, <4>1, <4>3
        <5> QED BY <5>1, <5>2
      <4> QED BY <4>2, <4>3
    <3> HIDE DEF t2
    <3> QED BY <1>1, <2>a, <2>1, <2>2, <3>1 DEF KeysInv
  <2>4. SentInv(snd', wire')
    BY <1>1 DEF PhaseInv, SentInv
  <2>5. HeardInv(snd', rcvd', esi'.secret)
    <3>1. ASSUME NEW n \in rcvd' PROVE n \in Nat /\ n <= snd.cur
      BY <1>1, <1>2 DEF PhaseInv, HeardInv
    <3>2. ASSUME NEW n \in rcvd', NEW p \in snd.unacked, p.no = n PROVE p.gen <= g
      <4>1. p.gen \in Nat
        BY DEF PhaseInv, SentInv
      <4>2. CASE n = w.no
        BY <2>a, <3>2, <4>2 DEF PhaseInv, SentInv
      <4>3. CASE n \in rcvd
        <5>1. p.gen <= esi.secret
          BY <3>2, <4>3 DEF PhaseInv, HeardInv
        <5> QED BY <1>2, <2>a, <4>1, <5>1
      <4> QED BY <1>1, <4>2, <4>3
    <3>3. (snd.genAcked => snd.gen <= g) /\ snd.gen - 1 <= g
      <4>1. (snd.genAcked => snd.gen <= esi.secret) /\ snd.gen - 1 <= esi.secret
        BY DEF PhaseInv, HeardInv
      <4> QED BY <1>2, <2>a, <4>1
    <3> QED BY <1>1, <2>a, <2>1, <3>1, <3>2, <3>3 DEF HeardInv
  <2> QED BY <1>1, <2>1, <2>3, <2>4, <2>5 DEF PhaseInv
<1>8. CASE key.new = FALSE
  <2>1. e = esi
    BY <1>8 DEF e
  <2>2. w.gen <= esi.secret /\ (ph = kp => w.gen = esi.secret)
    BY <1>2, <1>3, <1>6, <1>8
  <2>3. After(esi, esi.secret, kp, th, w, ph)
    BY <1>2, <1>5, <2>2 DEF After
  <2> QED BY <1>2, <1>7, <2>1, <2>3
<1>9. CASE key.new = TRUE
  <2> DEFINE g == esi.secret + 1
             pr == [open |-> g, seal |-> g, thresh |-> w.no]
             prs == [esi.pairs EXCEPT ![ph] = pr]
  <2>1. w.gen = g /\ ph = 1 - kp /\ g \in Nat
    BY <1>2, <1>6, <1>9
  <2>2. e = [esi EXCEPT !.pairs = prs, !.secret = g, !.key_phase = ph]
    BY <1>9 DEF Rotate, e
  <2>3. pr \in Pair /\ pr.open = g /\ pr.seal = g /\ pr.thresh = w.no
    BY <1>2, <2>1 DEF Pair
  <2> HIDE DEF pr
  <2>4. prs \in [0 .. 1 -> Pair] /\ prs[ph] = pr /\ prs[kp] = esi.pairs[kp]
    BY <1>2, <1>3, <2>1, <2>3
  <2> HIDE DEF prs
  <2>5. e \in EsiType /\ e.secret = g /\ e.key_phase = ph /\ e.pairs = prs
    BY <1>2, <1>3, <2>1, <2>2, <2>4 DEF EsiType
  <2>6. ph = g % 2 /\ 1 - ph = kp
    BY <1>2, <1>5, <2>1
  <2>7. \A v \in wire : (v.gen = g - 1 => v.no <= w.no) /\ (v.gen = g + 1 => v.no > w.no)
    BY <1>2, <1>5, <2>1
  <2>8. esi.secret <= g /\ g <= snd.gen /\ g - 1 = esi.secret
    BY <1>2, <2>1
  <2>9. /\ e.pairs[ph].open = g /\ e.pairs[ph].seal = g /\ e.pairs[1 - ph].open = g - 1
        /\ e.pairs[ph].thresh = w.no
    BY <1>5, <2>3, <2>4, <2>5, <2>6, <2>8
  <2> HIDE DEF g
  <2>10. After(e, g, ph, w.no, w, ph)
    BY <1>2, <2>1, <2>5, <2>6, <2>7, <2>8, <2>9 DEF After
  <2>11. w.no \in Int /\ g \in Nat
    BY <1>2, <2>1
  <2> QED BY <1>3, <1>7, <2>10, <2>11
<1> QED BY <1>6, <1>8, <1>9

(* What the invariant says of the keys the receiver picks. *)
LEMMA PhaseImplies ==
    ASSUME PhaseInv PROVE KeysAgree
<1>1. /\ esi.secret \in Nat /\ esi.key_phase \in 0 .. 1 /\ esi.pairs[esi.key_phase].thresh \in Int
      /\ esi.key_phase = esi.secret % 2
  BY DEF PhaseInv, EsiType, Pair, KeysInv
<1>2. ASSUME NEW p \in wire, p.gen >= esi.secret - 1
      PROVE  PickKey(esi, p.no, p.gen % 2).gen = p.gen
  <2> DEFINE kp == esi.key_phase
             th == esi.pairs[kp].thresh
  <2>1. /\ p.no \in Nat /\ p.gen \in Nat /\ p.gen <= esi.secret + 1
        /\ p.gen = esi.secret - 1 => p.no <= th
        /\ p.gen = esi.secret + 1 => p.no > th
        /\ esi.pairs[kp].open = esi.secret /\ esi.pairs[1 - kp].open = esi.secret - 1
    BY <1>1 DEF PhaseInv, SentInv, HeardInv, KeysInv, SndShape
  <2>2. CASE p.gen = esi.secret
    <3>1. PickKey(esi, p.no, p.gen % 2) = [new |-> FALSE, gen |-> esi.pairs[p.gen % 2].open]
      BY <1>1, <2>2 DEF PickKey
    <3> QED BY <1>1, <2>1, <2>2, <3>1
  <2>3. CASE p.gen = esi.secret + 1
    <3>1. p.gen % 2 # kp
      BY <1>1, <2>3
    <3>2. PickKey(esi, p.no, p.gen % 2) = [new |-> TRUE, gen |-> esi.secret + 1]
      BY <2>1, <2>3, <3>1 DEF PickKey
    <3> QED BY <2>3, <3>2
  <2>4. CASE p.gen = esi.secret - 1
    <3>1. p.gen % 2 # kp /\ p.gen % 2 = 1 - kp
      BY <1>1, <2>1, <2>4
    <3>2. ~(th = INVALID_PACKNO \/ p.no > th)
      BY <1>1, <2>1, <2>4 DEF INVALID_PACKNO
    <3>3. PickKey(esi, p.no, p.gen % 2) = [new |-> FALSE, gen |-> esi.pairs[p.gen % 2].open]
      BY <3>1, <3>2 DEF PickKey
    <3> QED BY <2>1, <2>4, <3>1, <3>3
  <2> QED BY <1>1, <1>2, <2>1, <2>2, <2>3, <2>4
<1> QED BY <1>1, <1>2 DEF PhaseInv, HeardInv, KeysInv, KeysAgree

\* However packets are lost, reordered and resent and acknowledgements delayed, for
\* any number of packets and of key updates: the receiver is at most one update
\* behind its peer, and picks the right keys for every packet of the previous,
\* the current and the next phase.
THEOREM KeyPhasesAgree ==
    ASSUME PacketProtectionAssumption
    PROVE  Spec => []KeysAgree
<1>1. Init => PhaseInv
  BY PhaseStart
<1>2. PhaseInv /\ [Next]_ppvars => PhaseInv'
  <2> SUFFICES ASSUME PhaseInv, [Next]_ppvars PROVE PhaseInv'
    OBVIOUS
  <2>1. CASE SendNew \/ Resend \/ Rto \/ UpdateKeys
    BY <2>1, SenderSteps
  <2>2. CASE AckArrives
    BY <2>2, AckSteps
  <2>3. CASE Deliver
    BY <2>3, DeliverSteps
  <2>4. CASE UNCHANGED ppvars
    BY <2>4 DEF ppvars, PhaseInv, SndShape, SentInv, HeardInv, KeysInv
  <2> QED BY <2>1, <2>2, <2>3, <2>4 DEF Next
<1>3. PhaseInv => KeysAgree
  BY PhaseImplies
<1> QED BY <1>1, <1>2, <1>3, PTL DEF Spec
=============================================================================

-------------------------- MODULE StreamFlow_proofs --------------------------
(***************************************************************************)
(* Flow control is exact for any number of streams, any windows and any    *)
(* final sizes.  The invariant is FlowInv of StreamFlow: what it says of   *)
(* one stream (StreamInv) is kept by each operator on a stream, and the    *)
(* connection's counters by the lemmas on sums of Sums_proofs.             *)
(***************************************************************************)
EXTENDS StreamFlow, Sums_proofs

Ctx == [s : Strm, cf : Cfcw]

(* Two streams have the same counters. *)
SameCounters(r, q) ==
    /\ r.state = q.state
    /\ r.max_recv_off = q.max_recv_off
    /\ r.recv_off = q.recv_off
    /\ r.read_off = q.read_off
    /\ r.max_recv_win = q.max_recv_win

(* The operators that only set and clear flags. *)
LEMMA SetType ==
    ASSUME NEW x \in Ctx, NEW fs \in SUBSET Flag
    PROVE  /\ Set(x, fs) \in Ctx
           /\ Set(x, fs).cf = x.cf
           /\ Set(x, fs).s = [x.s EXCEPT !.flags = @ \cup fs]
BY DEF Set, Ctx, Strm

LEMMA SetQType ==
    ASSUME NEW x \in Ctx, NEW qs \in SUBSET QFlag
    PROVE  /\ SetQ(x, qs) \in Ctx
           /\ SetQ(x, qs).cf = x.cf
           /\ SetQ(x, qs).s = [x.s EXCEPT !.qflags = @ \cup qs]
BY DEF SetQ, Ctx, Strm

LEMMA ClearQType ==
    ASSUME NEW x \in Ctx, NEW qs
    PROVE  /\ ClearQ(x, qs) \in Ctx
           /\ ClearQ(x, qs).cf = x.cf
           /\ ClearQ(x, qs).s = [x.s EXCEPT !.qflags = @ \ qs]
BY DEF ClearQ, Ctx, Strm

LEMMA MaybeFinishType ==
    ASSUME NEW x \in Ctx, FlagsAgree(x.s)
    PROVE  /\ MaybeFinish(x) \in Ctx
           /\ MaybeFinish(x).cf = x.cf
           /\ SameCounters(MaybeFinish(x).s, x.s)
           /\ FlagsAgree(MaybeFinish(x).s)
           /\ FinalKnown(MaybeFinish(x).s) = FinalKnown(x.s)
<1>1. CASE ~Has(x, "FINISHED") /\ IsFinished(x)
    <2> DEFINE y == SetQ(x, {"FREE_STREAM"})
    <2>1. y \in Ctx /\ y.cf = x.cf /\ y.s = [x.s EXCEPT !.qflags = @ \cup {"FREE_STREAM"}]
        BY SetQType DEF QFlag
    <2> HIDE DEF y
    <2>2. Set(y, {"FINISHED"}) \in Ctx /\ Set(y, {"FINISHED"}).cf = y.cf
          /\ Set(y, {"FINISHED"}).s = [y.s EXCEPT !.flags = @ \cup {"FINISHED"}]
        BY <2>1, SetType DEF Flag
    <2>3. MaybeFinish(x) = Set(y, {"FINISHED"})
        BY <1>1 DEF MaybeFinish, y
    <2>4. "U_READ_DONE" \in x.s.flags /\ "WAIT_FIN_OFF" \notin x.s.qflags
        BY <1>1 DEF IsFinished, Closed
    <2> DEFINE z == MaybeFinish(x).s
    <2>5. /\ SameCounters(z, x.s)
          /\ z.flags = x.s.flags \cup {"FINISHED"}
          /\ z.qflags = x.s.qflags \cup {"FREE_STREAM"}
          /\ z.data_in = x.s.data_in
        <3> DEFINE r == x.s
                   t == y.s
                   qf == r.qflags \cup {"FREE_STREAM"}
                   fl == t.flags \cup {"FINISHED"}
        <3>1. r \in Strm /\ t \in Strm /\ t = [r EXCEPT !.qflags = qf] /\ z = [t EXCEPT !.flags = fl]
            BY <2>1, <2>2, <2>3 DEF Ctx
        <3> HIDE DEF r, t, z, qf, fl
        <3>2. /\ SameCounters(t, r) /\ t.flags = r.flags /\ t.qflags = qf /\ t.data_in = r.data_in
            BY <3>1 DEF Strm, SameCounters
        <3>3. /\ SameCounters(z, t) /\ z.flags = fl /\ z.qflags = t.qflags /\ z.data_in = t.data_in
            BY <3>1 DEF Strm, SameCounters
        <3>4. SameCounters(z, r)
            BY <3>2, <3>3 DEF SameCounters
        <3> QED BY <3>2, <3>3, <3>4 DEF r, fl, qf
    <2> HIDE DEF z
    <2>6. FinalKnown(z) = FinalKnown(x.s)
        BY <2>5 DEF FinalKnown
    <2>7. FlagsAgree(z)
        BY <2>4, <2>5, <2>6 DEF FlagsAgree
    <2> QED BY <2>1, <2>2, <2>3, <2>5, <2>6, <2>7 DEF z
<1>2. CASE ~(~Has(x, "FINISHED") /\ IsFinished(x))
    BY <1>2 DEF MaybeFinish, SameCounters
<1> QED BY <1>1, <1>2

(* y comes from x by steps that leave the counters alone, and with them    *)
(* what is known of the final size.                                        *)
Kept(x, y) ==
    /\ y \in Ctx
    /\ y.cf = x.cf
    /\ SameCounters(y.s, x.s)
    /\ FlagsAgree(y.s)
    /\ FinalKnown(y.s) = FinalKnown(x.s)

LEMMA KeptTransitive ==
    ASSUME NEW x, NEW y, NEW z, Kept(x, y), Kept(y, z)
    PROVE  Kept(x, z)
BY DEF Kept, SameCounters

LEMMA KeptRefl ==
    ASSUME NEW x \in Ctx, FlagsAgree(x.s)
    PROVE  Kept(x, x)
BY DEF Kept, SameCounters

LEMMA KeptMaybeFinish ==
    ASSUME NEW x \in Ctx, FlagsAgree(x.s)
    PROVE  Kept(x, MaybeFinish(x))
BY MaybeFinishType DEF Kept

LEMMA KeptSet ==
    ASSUME NEW x \in Ctx, FlagsAgree(x.s),
           NEW fs \in SUBSET (Flag \ {"FIN_RECVD", "RST_RECVD", "FIN_REACHED", "U_READ_DONE"})
    PROVE  Kept(x, Set(x, fs))
<1> DEFINE y == Set(x, fs)
<1>1. y \in Ctx /\ y.cf = x.cf /\ y.s = [x.s EXCEPT !.flags = @ \cup fs]
    BY SetType
<1> HIDE DEF y
<1>2. /\ SameCounters(y.s, x.s)
      /\ y.s.flags = x.s.flags \cup fs
      /\ y.s.qflags = x.s.qflags
      /\ y.s.data_in = x.s.data_in
    BY <1>1 DEF Ctx, Strm, SameCounters
<1>3. FinalKnown(y.s) = FinalKnown(x.s)
    BY <1>2 DEF FinalKnown
<1>4. FlagsAgree(y.s)
    BY <1>2, <1>3 DEF FlagsAgree
<1> QED BY <1>1, <1>2, <1>3, <1>4 DEF Kept, y

LEMMA KeptSetQ ==
    ASSUME NEW x \in Ctx, FlagsAgree(x.s),
           NEW qs \in SUBSET (QFlag \ {"FREE_STREAM", "WAIT_FIN_OFF"})
    PROVE  Kept(x, SetQ(x, qs))
<1> DEFINE y == SetQ(x, qs)
<1>1. y \in Ctx /\ y.cf = x.cf /\ y.s = [x.s EXCEPT !.qflags = @ \cup qs]
    BY SetQType
<1> HIDE DEF y
<1>2. /\ SameCounters(y.s, x.s)
      /\ y.s.qflags = x.s.qflags \cup qs
      /\ y.s.flags = x.s.flags
      /\ y.s.data_in = x.s.data_in
    BY <1>1 DEF Ctx, Strm, SameCounters
<1>3. FinalKnown(y.s) = FinalKnown(x.s)
    BY <1>2 DEF FinalKnown
<1>4. FlagsAgree(y.s)
    BY <1>2, <1>3 DEF FlagsAgree
<1> QED BY <1>1, <1>2, <1>3, <1>4 DEF Kept, y

LEMMA KeptClearQ ==
    ASSUME NEW x \in Ctx, FlagsAgree(x.s), NEW qs, "WAIT_FIN_OFF" \notin qs
    PROVE  Kept(x, ClearQ(x, qs))
<1> DEFINE y == ClearQ(x, qs)
<1>1. y \in Ctx /\ y.cf = x.cf /\ y.s = [x.s EXCEPT !.qflags = @ \ qs]
    BY ClearQType
<1> HIDE DEF y
<1>2. /\ SameCounters(y.s, x.s)
      /\ y.s.qflags = x.s.qflags \ qs
      /\ y.s.flags = x.s.flags
      /\ y.s.data_in = x.s.data_in
    BY <1>1 DEF Ctx, Strm, SameCounters
<1>3. FinalKnown(y.s) = FinalKnown(x.s)
    BY <1>2 DEF FinalKnown
<1>4. FlagsAgree(y.s)
    BY <1>2, <1>3 DEF FlagsAgree
<1> QED BY <1>1, <1>2, <1>3, <1>4 DEF Kept, y

LEMMA KeptUnacked ==
    ASSUME NEW x \in Ctx, FlagsAgree(x.s), NEW u \in SUBSET {"STREAM", "RST_STREAM"}
    PROVE  Kept(x, [x EXCEPT !.s.unacked = u])
<1> DEFINE y == [x EXCEPT !.s.unacked = u]
<1>1. y \in Ctx /\ y.cf = x.cf /\ y.s = [x.s EXCEPT !.unacked = u]
    BY DEF Ctx, Strm
<1> HIDE DEF y
<1>2. /\ SameCounters(y.s, x.s)
      /\ y.s.qflags = x.s.qflags
      /\ y.s.flags = x.s.flags
      /\ y.s.data_in = x.s.data_in
    BY <1>1 DEF Ctx, Strm, SameCounters
<1>3. FinalKnown(y.s) = FinalKnown(x.s)
    BY <1>2 DEF FinalKnown
<1>4. FlagsAgree(y.s)
    BY <1>2, <1>3 DEF FlagsAgree
<1> QED BY <1>1, <1>2, <1>3, <1>4 DEF Kept, y

LEMMA KeptAcked ==
    ASSUME NEW x \in Ctx, FlagsAgree(x.s), NEW frame
    PROVE  Kept(x, Acked(x, frame))
<1> DEFINE y == [x EXCEPT !.s.unacked = @ \ {frame}]
<1>1. x.s.unacked \ {frame} \in SUBSET {"STREAM", "RST_STREAM"}
    BY DEF Ctx, Strm
<1>2. Kept(x, y)
    BY <1>1, KeptUnacked
<1> HIDE DEF y
<1>3. Acked(x, frame) = IF y.s.unacked = {} THEN MaybeFinish(y) ELSE y
    BY DEF Acked, y
<1>4. Kept(y, MaybeFinish(y))
    BY <1>2, KeptMaybeFinish DEF Kept
<1> QED BY <1>2, <1>3, <1>4, KeptTransitive

LEMMA KeptDropOutgoing ==
    ASSUME NEW x \in Ctx, FlagsAgree(x.s), NEW elide
    PROVE  Kept(x, DropOutgoing(x, elide))
<1> DEFINE y == ClearQ(x, {"WANT_FLUSH"})
<1>1. Kept(x, y)
    BY KeptClearQ
<1> HIDE DEF y
<1>2. Kept(y, Acked(y, "STREAM"))
    BY <1>1, KeptAcked DEF Kept
<1>3. DropOutgoing(x, elide) = y \/ DropOutgoing(x, elide) = Acked(y, "STREAM")
    BY DEF DropOutgoing, y
<1> QED BY <1>1, <1>2, <1>3, KeptTransitive

LEMMA KeptStreamReset ==
    ASSUME NEW x \in Ctx, FlagsAgree(x.s), NEW elide
    PROVE  Kept(x, StreamReset(x, elide))
<1> DEFINE y == ClearQ(x, SendingFlag)
           z == SetQ(y, {"SEND_RST"})
<1>1. Kept(x, y)
    BY KeptClearQ DEF SendingFlag
<1>2. Kept(y, z)
    BY <1>1, KeptSetQ DEF Kept, QFlag, SendingFlag
<1>3. Kept(z, DropOutgoing(z, elide))
    BY <1>2, KeptDropOutgoing DEF Kept
<1> QED BY <1>1, <1>2, <1>3, KeptTransitive DEF StreamReset

LEMMA KeptShutdownWrite ==
    ASSUME NEW x \in Ctx, FlagsAgree(x.s)
    PROVE  Kept(x, ShutdownWrite(x))
<1> DEFINE y == Set(x, {"U_WRITE_DONE"})
<1>1. Kept(x, y)
    BY KeptSet DEF Flag
<1> HIDE DEF y
<1>2. Kept(y, SetQ(y, {"WANT_FLUSH"}))
    BY <1>1, KeptSetQ DEF Kept, QFlag
<1>3. ShutdownWrite(x) = y \/ ShutdownWrite(x) = SetQ(y, {"WANT_FLUSH"})
    BY DEF ShutdownWrite, y
<1> QED BY <1>1, <1>2, <1>3, KeptTransitive

(* The program stops reading: either the final size is known or the stream *)
(* begins to wait for it.                                                  *)
LEMMA KeptShutdownRead ==
    ASSUME NEW x \in Ctx, FlagsAgree(x.s)
    PROVE  Kept(x, ShutdownRead(x))
<1> DEFINE y == IF {"FIN_REACHED", "FIN_RECVD", "RST_RECVD"} \cap x.s.flags = {}
                THEN SetQ(x, {"SEND_STOP_SENDING", "WAIT_FIN_OFF"}) ELSE x
           z == Set(y, {"U_READ_DONE"})
<1>1. CASE "U_READ_DONE" \in x.s.flags
    BY <1>1, KeptRefl DEF ShutdownRead, Has
<1>2. CASE "U_READ_DONE" \notin x.s.flags
    <2>1. y \in Ctx /\ y.cf = x.cf /\ SameCounters(y.s, x.s) /\ y.s.flags = x.s.flags
          /\ y.s.data_in = x.s.data_in
          /\ y.s.qflags = x.s.qflags \cup
                IF {"FIN_REACHED", "FIN_RECVD", "RST_RECVD"} \cap x.s.flags = {}
                THEN {"SEND_STOP_SENDING", "WAIT_FIN_OFF"} ELSE {}
        <3> DEFINE w == SetQ(x, {"SEND_STOP_SENDING", "WAIT_FIN_OFF"})
        <3>1. w \in Ctx /\ w.cf = x.cf
              /\ w.s = [x.s EXCEPT !.qflags = @ \cup {"SEND_STOP_SENDING", "WAIT_FIN_OFF"}]
            BY SetQType DEF QFlag, SendingFlag
        <3> HIDE DEF w
        <3>2. /\ SameCounters(w.s, x.s)
              /\ w.s.flags = x.s.flags
              /\ w.s.data_in = x.s.data_in
              /\ w.s.qflags = x.s.qflags \cup {"SEND_STOP_SENDING", "WAIT_FIN_OFF"}
            BY <3>1 DEF Ctx, Strm, SameCounters
        <3> QED BY <3>1, <3>2 DEF w, SameCounters
    <2> HIDE DEF y
    <2>2. z \in Ctx /\ z.cf = y.cf /\ SameCounters(z.s, y.s) /\ z.s.qflags = y.s.qflags
          /\ z.s.data_in = y.s.data_in
          /\ z.s.flags = y.s.flags \cup {"U_READ_DONE"}
        <3>1. z \in Ctx /\ z.cf = y.cf /\ z.s = [y.s EXCEPT !.flags = @ \cup {"U_READ_DONE"}]
            BY <2>1, SetType DEF Flag
        <3> HIDE DEF z
        <3> QED BY <2>1, <3>1 DEF Ctx, Strm, SameCounters
    <2> HIDE DEF z
    <2>3. FinalKnown(z.s) = FinalKnown(x.s)
        BY <2>1, <2>2 DEF FinalKnown
    <2>4. "FREE_STREAM" \notin x.s.qflags
        BY <1>2 DEF FlagsAgree
    <2>5. FlagsAgree(z.s)
        BY <2>1, <2>2, <2>3, <2>4 DEF FlagsAgree, FinalKnown
    <2>6. Kept(x, z)
        BY <2>1, <2>2, <2>3, <2>5 DEF Kept, SameCounters
    <2>7. Kept(z, MaybeFinish(z))
        BY <2>2, <2>5, KeptMaybeFinish
    <2>8. ShutdownRead(x) = MaybeFinish(z)
        BY <1>2 DEF ShutdownRead, Has, y, z
    <2> QED BY <2>6, <2>7, <2>8, KeptTransitive
<1> QED BY <1>1, <1>2

-----------------------------------------------------------------------------
(* y comes from x by steps that move the counters of the connection by as  *)
(* much as those of the stream, and never lower the stream's limit.        *)
Moved(x, y) ==
    /\ y \in Ctx
    /\ y.s.state = x.s.state
    /\ y.cf.max_recv_off = x.cf.max_recv_off + (y.s.max_recv_off - x.s.max_recv_off)
    /\ y.cf.read_off = x.cf.read_off + (y.s.read_off - x.s.read_off)
    /\ y.cf.recv_off = x.cf.recv_off
    /\ y.cf.limit = x.cf.limit
    /\ x.s.recv_off <= y.s.recv_off

LEMMA NumbersOf ==
    ASSUME NEW x \in Ctx
    PROVE  /\ x.s.max_recv_off \in 0 .. MaxOff /\ x.s.read_off \in 0 .. MaxOff
           /\ x.s.recv_off \in Nat /\ x.s.max_recv_win \in Nat
           /\ x.s.read_offset \in 0 .. MaxOff
           /\ x.s.got \in SUBSET (0 .. MaxOff - 1)
           /\ x.cf.max_recv_off \in Nat /\ x.cf.read_off \in Nat
           /\ x.cf.recv_off \in Nat /\ x.cf.limit \in Nat /\ x.cf.max_recv_win \in Nat
BY DEF Ctx, Strm, Cfcw

LEMMA KeptMoved ==
    ASSUME NEW x \in Ctx, NEW y, Kept(x, y)
    PROVE  Moved(x, y)
BY NumbersOf, StreamFlowAssumption DEF Kept, Moved, SameCounters

LEMMA MovedTransitive ==
    ASSUME NEW x \in Ctx, NEW y, NEW z, Moved(x, y), Moved(y, z)
    PROVE  Moved(x, z)
<1>1. y \in Ctx /\ z \in Ctx
    BY DEF Moved
<1> QED BY <1>1, NumbersOf, StreamFlowAssumption DEF Moved

(* One of several numbers is no more than their sum. *)
LEMMA SumAtLeast ==
    ASSUME NEW S, IsFiniteSet(S), NEW f \in [S -> Nat], NEW x \in S
    PROVE  f[x] <= SumFunction(f)
<1> DEFINE h == [f EXCEPT ![x] = 0]
<1>1. h \in [S -> Nat] /\ h[x] = 0 /\ \A y \in S : y # x => f[y] = h[y]
    OBVIOUS
<1> HIDE DEF h
<1>2. SumFunction(h) + f[x] = SumFunction(f) + h[x]
    BY <1>1, SumChange
<1>3. SumFunction(h) \in Nat /\ SumFunction(f) \in Nat
    BY <1>1, SumType
<1> QED BY <1>1, <1>2, <1>3

(* The stream that a frame is for, and the connection, before the frame. *)
LEMMA XType ==
    ASSUME FlowInv, NEW s \in Stream, strm[s].state # "freed"
    PROVE  /\ X(s) \in Ctx
           /\ X(s).cf = cfcw
           /\ X(s).s.state = "open"
           /\ X(s).s.max_recv_off = strm[s].max_recv_off
           /\ X(s).s.read_off = strm[s].read_off
           /\ X(s).s.recv_off = strm[s].recv_off
           /\ FlagsAgree(X(s).s)
           /\ LimitsAgree(X(s).s, peer[s])
<1>1. /\ StreamNew \in Strm
      /\ FlagsAgree(StreamNew)
      /\ ~FinalKnown(StreamNew)
      /\ StreamNew.state = "open"
    BY StreamFlowAssumption DEF StreamNew, Strm, FlagsAgree, FinalKnown
<1>2. /\ strm[s] \in Strm /\ cfcw \in Cfcw /\ StreamInv(strm[s], peer[s])
    BY DEF FlowInv, TypeOK
<1>3. CASE strm[s].state = "idle"
    <2>1. strm[s] = Idle
        BY <1>2, <1>3 DEF StreamInv
    <2>2. X(s) = [s |-> StreamNew, cf |-> cfcw]
        BY <1>3 DEF X
    <2>3. /\ StreamNew.max_recv_off = Idle.max_recv_off
          /\ StreamNew.read_off = Idle.read_off
          /\ StreamNew.recv_off = Idle.recv_off
        BY DEF Idle, StreamNew
    <2>4. LimitsAgree(StreamNew, peer[s])
        BY <1>1, <1>2, <1>3, <2>1, <2>3 DEF StreamInv, LimitsAgree
    <2> QED BY <1>1, <1>2, <2>1, <2>2, <2>3, <2>4 DEF Ctx
<1>4. CASE strm[s].state = "open"
    <2>1. X(s) = [s |-> strm[s], cf |-> cfcw]
        BY <1>4 DEF X
    <2> QED BY <1>2, <1>4, <2>1 DEF StreamInv, Ctx
<1> QED BY <1>2, <1>3, <1>4 DEF Strm

LEMMA SumTypes ==
    ASSUME FlowInv
    PROVE  /\ [s \in Stream |-> peer[s].sent] \in [Stream -> Nat]
           /\ [s \in Stream |-> Received(s)] \in [Stream -> Nat]
           /\ [s \in Stream |-> Consumed(s)] \in [Stream -> Nat]
<1>1. \A s \in Stream : peer[s].sent \in Nat /\ strm[s].max_recv_off \in Nat
                        /\ strm[s].read_off \in Nat
    BY StreamFlowAssumption DEF FlowInv, TypeOK, Peer, Strm
<1> QED BY <1>1 DEF Received, Consumed, Final

(* A stream that moves with the connection keeps the invariant. *)
LEMMA StreamStep ==
    ASSUME FlowInv, NEW s \in Stream, strm[s].state # "freed",
           NEW y, Moved(X(s), y), FlagsAgree(y.s), LimitsAgree(y.s, peer[s]),
           Becomes(s, y), UNCHANGED <<peer, aborted>>
    PROVE  FlowInv'
<1>1. y \in Ctx /\ y.s \in Strm /\ y.cf \in Cfcw /\ y.s.state = "open"
    BY XType DEF Moved, Ctx
<1>2. /\ strm' = [strm EXCEPT ![s] = y.s] /\ cfcw' = y.cf
      /\ peer' = peer /\ aborted' = aborted /\ ~aborted
    BY DEF Becomes, FlowInv, FlowIsExact, NeverAborted
<1>3. TypeOK'
    BY <1>1, <1>2 DEF FlowInv, TypeOK
<1>4. \A r \in Stream : strm'[r] = IF r = s THEN y.s ELSE strm[r]
    BY <1>2 DEF FlowInv, TypeOK
<1>5. \A r \in Stream : StreamInv(strm'[r], peer'[r])
    BY <1>1, <1>2, <1>4 DEF FlowInv, StreamInv
<1>6. Sent' = Sent
    BY <1>2 DEF Sent
<1>7. cfcw'.limit = cfcw.limit /\ cfcw'.recv_off = cfcw.recv_off
    BY <1>2, XType DEF Moved
<1> DEFINE f == [r \in Stream |-> Received(r)]
           g == [r \in Stream |-> Consumed(r)]
<1>8. f \in [Stream -> Nat] /\ g \in [Stream -> Nat]
    BY SumTypes
<1>9. f' \in [Stream -> Nat] /\ g' \in [Stream -> Nat]
    <2>1. \A r \in Stream : peer'[r].sent \in Nat /\ strm'[r].max_recv_off \in Nat
                            /\ strm'[r].read_off \in Nat
        BY <1>3, StreamFlowAssumption DEF TypeOK, Peer, Strm
    <2> QED BY <2>1 DEF Received, Consumed, Final
<1>10. f[s] = X(s).s.max_recv_off /\ g[s] = X(s).s.read_off
    BY XType DEF Received, Consumed
<1>11. f'[s] = y.s.max_recv_off /\ g'[s] = y.s.read_off
    BY <1>1, <1>4 DEF Received, Consumed
<1>12. \A r \in Stream : r # s => f[r] = f'[r] /\ g[r] = g'[r]
    BY <1>2, <1>4 DEF Received, Consumed, Final
<1>13. cfcw.max_recv_off = SumFunction(f) /\ cfcw.read_off = SumFunction(g)
    BY DEF FlowInv, FlowIsExact, NeverAborted, ConnAccounts
<1> HIDE DEF f, g
<1>14. /\ SumFunction(f') + f[s] = SumFunction(f) + f'[s]
       /\ SumFunction(g') + g[s] = SumFunction(g) + g'[s]
       /\ SumFunction(f') \in Nat /\ SumFunction(g') \in Nat
       /\ SumFunction(f) \in Nat /\ SumFunction(g) \in Nat
    <2>1. SumFunction(f') + f[s] = SumFunction(f) + f'[s]
        BY <1>8, <1>9, <1>12, SumChange, StreamFlowAssumption
    <2>2. SumFunction(g') + g[s] = SumFunction(g) + g'[s]
        BY <1>8, <1>9, <1>12, SumChange, StreamFlowAssumption
    <2> QED BY <2>1, <2>2, <1>8, <1>9, SumType, StreamFlowAssumption
<1>15. cfcw'.max_recv_off = SumFunction(f') /\ cfcw'.read_off = SumFunction(g')
    <2>1. /\ y.cf.max_recv_off = cfcw.max_recv_off + (y.s.max_recv_off - X(s).s.max_recv_off)
          /\ y.cf.read_off = cfcw.read_off + (y.s.read_off - X(s).s.read_off)
        BY XType DEF Moved
    <2>2. X(s) \in Ctx
        BY XType
    <2> QED BY <1>1, <1>2, <1>10, <1>11, <1>13, <1>14, <2>1, <2>2, NumbersOf,
               StreamFlowAssumption
<1>16. FlowIsExact'
    BY <1>2, <1>15 DEF FlowIsExact, NeverAborted, ConnAccounts, f, g
<1> QED BY <1>2, <1>3, <1>5, <1>6, <1>7, <1>16 DEF FlowInv

-----------------------------------------------------------------------------
(* The operators that move the counters. *)

(* The connection's counters are no less than the stream's. *)
Covered(x) ==
    /\ x.s.max_recv_off <= x.cf.max_recv_off
    /\ x.s.read_off <= x.cf.read_off

LEMMA XCovered ==
    ASSUME FlowInv, NEW s \in Stream, strm[s].state # "freed"
    PROVE  Covered(X(s))
<1> DEFINE f == [r \in Stream |-> Received(r)]
           g == [r \in Stream |-> Consumed(r)]
<1>1. f \in [Stream -> Nat] /\ g \in [Stream -> Nat]
    BY SumTypes
<1>2. f[s] = X(s).s.max_recv_off /\ g[s] = X(s).s.read_off
    BY XType DEF Received, Consumed
<1>3. cfcw.max_recv_off = SumFunction(f) /\ cfcw.read_off = SumFunction(g)
    BY DEF FlowInv, FlowIsExact, NeverAborted, ConnAccounts
<1> HIDE DEF f, g
<1>4. f[s] <= SumFunction(f) /\ g[s] <= SumFunction(g)
    BY <1>1, SumAtLeast, StreamFlowAssumption
<1> QED BY <1>2, <1>3, <1>4, XType DEF Covered

LEMMA MovedCovered ==
    ASSUME NEW x \in Ctx, NEW y, Moved(x, y), Covered(x)
    PROVE  Covered(y)
<1>1. y \in Ctx
    BY DEF Moved
<1> QED BY <1>1, NumbersOf, StreamFlowAssumption DEF Moved, Covered

(* Everything about x but the counters and what was received. *)
SameFlags(y, x) ==
    /\ y.s.flags = x.s.flags
    /\ y.s.qflags = x.s.qflags
    /\ y.s.data_in = x.s.data_in

LEMMA SetReadOffType ==
    ASSUME NEW x \in Ctx, Covered(x), NEW off \in 0 .. MaxOff
    PROVE  /\ Moved(x, SetReadOff(x, off))
           /\ SameFlags(SetReadOff(x, off), x)
           /\ SetReadOff(x, off).s.max_recv_off = x.s.max_recv_off
<1> DEFINE y == SetReadOff(x, off)
           n == x.cf.read_off + (off - x.s.read_off)
<1>1. n \in Nat
    BY NumbersOf, StreamFlowAssumption DEF Covered
<1>2. y.s = [x.s EXCEPT !.read_off = off] /\ y.cf = [x.cf EXCEPT !.read_off = n]
    BY DEF SetReadOff, Ctx
<1>3. y \in [s : Strm, cf : Cfcw]
    <2>1. y = [[x EXCEPT !.cf = [x.cf EXCEPT !.read_off = n]]
                  EXCEPT !.s = [x.s EXCEPT !.read_off = off]]
        BY DEF SetReadOff, Ctx
    <2>2. [x.s EXCEPT !.read_off = off] \in Strm
        BY DEF Ctx, Strm
    <2>3. [x.cf EXCEPT !.read_off = n] \in Cfcw
        BY <1>1 DEF Ctx, Cfcw
    <2> HIDE DEF y, n
    <2> QED BY <2>1, <2>2, <2>3 DEF Ctx
<1> HIDE DEF y, n
<1>4. /\ y.s.read_off = off /\ y.s.state = x.s.state
      /\ y.s.max_recv_off = x.s.max_recv_off /\ y.s.recv_off = x.s.recv_off
      /\ y.cf.read_off = n /\ y.cf.max_recv_off = x.cf.max_recv_off
      /\ y.cf.recv_off = x.cf.recv_off /\ y.cf.limit = x.cf.limit
    BY <1>2 DEF Ctx, Strm, Cfcw
<1>5. SameFlags(y, x)
    BY <1>2 DEF Ctx, Strm, SameFlags
<1>6. Moved(x, y)
    BY <1>3, <1>4, NumbersOf, StreamFlowAssumption DEF Moved, Ctx, n
<1> QED BY <1>4, <1>5, <1>6 DEF y

LEMMA SetMaxRecvOffType ==
    ASSUME NEW x \in Ctx, Covered(x), NEW off \in 0 .. MaxOff
    PROVE  /\ Moved(x, SetMaxRecvOff(x, off))
           /\ SameFlags(SetMaxRecvOff(x, off), x)
           /\ SetMaxRecvOff(x, off).s.max_recv_off = off
<1> DEFINE y == SetMaxRecvOff(x, off)
           n == x.cf.max_recv_off + (off - x.s.max_recv_off)
<1>1. n \in Nat
    BY NumbersOf, StreamFlowAssumption DEF Covered
<1>2. y.s = [x.s EXCEPT !.max_recv_off = off] /\ y.cf = [x.cf EXCEPT !.max_recv_off = n]
    BY DEF SetMaxRecvOff, Ctx
<1>3. y \in [s : Strm, cf : Cfcw]
    <2>1. y = [[x EXCEPT !.cf = [x.cf EXCEPT !.max_recv_off = n]]
                  EXCEPT !.s = [x.s EXCEPT !.max_recv_off = off]]
        BY DEF SetMaxRecvOff, Ctx
    <2>2. [x.s EXCEPT !.max_recv_off = off] \in Strm
        BY DEF Ctx, Strm
    <2>3. [x.cf EXCEPT !.max_recv_off = n] \in Cfcw
        BY <1>1 DEF Ctx, Cfcw
    <2> HIDE DEF y, n
    <2> QED BY <2>1, <2>2, <2>3 DEF Ctx
<1> HIDE DEF y, n
<1>4. /\ y.s.max_recv_off = off /\ y.s.state = x.s.state
      /\ y.s.read_off = x.s.read_off /\ y.s.recv_off = x.s.recv_off
      /\ y.cf.max_recv_off = n /\ y.cf.read_off = x.cf.read_off
      /\ y.cf.recv_off = x.cf.recv_off /\ y.cf.limit = x.cf.limit
    BY <1>2 DEF Ctx, Strm, Cfcw
<1>5. SameFlags(y, x)
    BY <1>2 DEF Ctx, Strm, SameFlags
<1>6. Moved(x, y)
    BY <1>3, <1>4, NumbersOf, StreamFlowAssumption DEF Moved, Ctx, n
<1> QED BY <1>4, <1>5, <1>6 DEF y

LEMMA ConsumeRemType ==
    ASSUME NEW x \in Ctx, Covered(x)
    PROVE  /\ Moved(x, ConsumeRem(x))
           /\ SameFlags(ConsumeRem(x), x)
           /\ ConsumeRem(x).s.max_recv_off = x.s.max_recv_off
           /\ ConsumeRem(x).s.read_off = x.s.max_recv_off
<1>1. x.s.max_recv_off \in 0 .. MaxOff
    BY NumbersOf
<1>2. SetReadOff(x, x.s.max_recv_off).s.read_off = x.s.max_recv_off
    BY DEF SetReadOff, Ctx, Strm
<1> QED BY <1>1, <1>2, SetReadOffType DEF ConsumeRem

(* Max and Min of FiniteSetsExt for the sets they are applied to. *)
LEMMA MaxOfTwo ==
    ASSUME NEW a \in Nat, NEW b \in Nat
    PROVE  Max({a, b}) \in Nat /\ a <= Max({a, b}) /\ Max({a, b}) \in {a, b}
BY DEF Max

LEMMA MinOfTwo ==
    ASSUME NEW a \in Nat, NEW b \in Nat
    PROVE  Min({a, b}) \in {a, b} /\ Min({a, b}) <= a /\ Min({a, b}) <= b
BY DEF Min

LEMMA MinOfThree ==
    ASSUME NEW a \in Nat, NEW b \in Nat, NEW c \in Nat
    PROVE  Min({a, b, c}) \in Nat
<1>1. \E m \in {a, b, c} : \A n \in {a, b, c} : m <= n
    <2>1. CASE a <= b /\ a <= c
        BY <2>1
    <2>2. CASE b <= a /\ b <= c
        BY <2>2
    <2>3. CASE c <= a /\ c <= b
        BY <2>3
    <2> QED BY <2>1, <2>2, <2>3
<1>2. Min({a, b, c}) \in {a, b, c}
    BY <1>1 DEF Min
<1> QED BY <1>2

LEMMA OffsetsChangedType ==
    ASSUME NEW x \in Ctx, FlagsAgree(x.s), NEW grow \in BOOLEAN
    PROVE  /\ Moved(x, OffsetsChanged(x, grow))
           /\ FlagsAgree(OffsetsChanged(x, grow).s)
           /\ OffsetsChanged(x, grow).s.max_recv_off = x.s.max_recv_off
           /\ OffsetsChanged(x, grow).s.flags = x.s.flags
<1> DEFINE larger == Min({2 * x.s.max_recv_win, MaxSfcw, x.cf.max_recv_win})
           win == IF grow THEN Max({x.s.max_recv_win, larger}) ELSE x.s.max_recv_win
           off == x.s.read_off + win
           y == [x EXCEPT !.s.max_recv_win = win, !.s.recv_off = off]
           z == SetQ(y, {"SEND_WUF"})
<1>1. larger \in Nat
    <2>1. 2 * x.s.max_recv_win \in Nat /\ MaxSfcw \in Nat /\ x.cf.max_recv_win \in Nat
        BY NumbersOf, StreamFlowAssumption
    <2> QED BY <2>1, MinOfThree
<1> HIDE DEF larger
<1>2. win \in Nat /\ x.s.max_recv_win <= win
    BY <1>1, NumbersOf, MaxOfTwo
<1> HIDE DEF win
<1>3. off \in Nat
    BY <1>2, NumbersOf, StreamFlowAssumption
<1>4. CASE x.s.recv_off - x.s.read_off >= x.s.max_recv_win \div 2
    <2>1. OffsetsChanged(x, grow) = x
        BY <1>4 DEF OffsetsChanged
    <2>2. Moved(x, x)
        BY NumbersOf, StreamFlowAssumption DEF Moved
    <2> QED BY <2>1, <2>2
<1>5. CASE ~(x.s.recv_off - x.s.read_off >= x.s.max_recv_win \div 2)
    <2>1. x.s.recv_off <= off
        <3>1. ASSUME NEW v \in Nat, NEW w \in Nat, v <= w, NEW ro \in Nat, NEW rd \in Nat,
                     ~(ro - rd >= v \div 2)
              PROVE  ro <= rd + w
            <4>1. v \div 2 <= v
                OBVIOUS
            <4> QED BY <3>1, <4>1
        <3>2. x.s.read_off \in Nat
            BY NumbersOf, StreamFlowAssumption
        <3> QED BY <1>2, <1>5, <3>1, <3>2, NumbersOf
    <2> HIDE DEF off
    <2>2. y.s = [x.s EXCEPT !.max_recv_win = win, !.recv_off = off] /\ y.cf = x.cf
        BY DEF Ctx
    <2>3. y \in Ctx
        BY <1>2, <1>3 DEF Ctx, Strm
    <2>4. /\ y.cf = x.cf /\ y.s.recv_off = off /\ y.s.state = x.s.state
          /\ y.s.max_recv_off = x.s.max_recv_off /\ y.s.read_off = x.s.read_off
          /\ SameFlags(y, x)
        BY <2>2 DEF Ctx, Strm, SameFlags
    <2>5. OffsetsChanged(x, grow) = z
        BY <1>5 DEF OffsetsChanged, win, larger, off
    <2> HIDE DEF y
    <2>6. Moved(x, y)
        BY <2>1, <2>3, <2>4, NumbersOf, StreamFlowAssumption DEF Moved
    <2>7. FlagsAgree(y.s)
        BY <2>4 DEF FlagsAgree, FinalKnown, SameFlags
    <2>8. Kept(y, z)
        BY <2>3, <2>7, KeptSetQ DEF QFlag, SendingFlag
    <2>9. z.s.flags = y.s.flags
        <3>1. z.s = [y.s EXCEPT !.qflags = @ \cup {"SEND_WUF"}]
            BY <2>3, SetQType DEF QFlag, SendingFlag
        <3> QED BY <2>3, <3>1 DEF Ctx, Strm
    <2> QED BY <2>3, <2>4, <2>5, <2>6, <2>8, <2>9, KeptMoved, MovedTransitive
            DEF Kept, SameCounters, SameFlags
<1> QED BY <1>4, <1>5

(* What every operator on a stream has to establish, for the peer's p. *)
Sound(x, y, p) == Moved(x, y) /\ FlagsAgree(y.s) /\ LimitsAgree(y.s, p)

LEMMA SoundKept ==
    ASSUME NEW x \in Ctx, NEW y, NEW z, NEW p, Sound(x, y, p), Kept(y, z)
    PROVE  Sound(x, z, p)
<1>1. y \in Ctx /\ Moved(y, z)
    BY KeptMoved DEF Sound, Moved
<1>2. Moved(x, z)
    BY <1>1, MovedTransitive DEF Sound
<1>3. LimitsAgree(z.s, p)
    BY DEF Sound, Kept, LimitsAgree, SameCounters
<1> QED BY <1>2, <1>3 DEF Sound, Kept

LEMMA SoundRefl ==
    ASSUME NEW x \in Ctx, NEW p, FlagsAgree(x.s), LimitsAgree(x.s, p)
    PROVE  Sound(x, x, p)
BY NumbersOf, StreamFlowAssumption DEF Sound, Moved

LEMMA PrefixType ==
    ASSUME NEW x \in Ctx
    PROVE  Prefix(x) \in 0 .. MaxOff
<1> DEFINE T == {n \in x.s.read_offset .. MaxOff : n \notin x.s.got}
<1>1. T \in SUBSET Nat /\ MaxOff \in T
    BY NumbersOf, StreamFlowAssumption
<1>2. \E n \in T : \A m \in T : n <= m
    BY <1>1, LeastNat
<1>3. Prefix(x) \in T
    BY <1>2 DEF Prefix, Min
<1> QED BY <1>3, NumbersOf

LEMMA KeptReadOffset ==
    ASSUME NEW x \in Ctx, FlagsAgree(x.s), NEW n \in 0 .. MaxOff
    PROVE  Kept(x, [x EXCEPT !.s.read_offset = n])
<1> DEFINE y == [x EXCEPT !.s.read_offset = n]
<1>1. y \in Ctx /\ y.cf = x.cf /\ y.s = [x.s EXCEPT !.read_offset = n]
    BY DEF Ctx, Strm
<1> HIDE DEF y
<1>2. SameCounters(y.s, x.s) /\ SameFlags(y, x)
    BY <1>1 DEF Ctx, Strm, SameCounters, SameFlags
<1>3. FlagsAgree(y.s) /\ FinalKnown(y.s) = FinalKnown(x.s)
    BY <1>2 DEF FlagsAgree, FinalKnown, SameFlags
<1> QED BY <1>1, <1>2, <1>3 DEF Kept, y

LEMMA KeptGot ==
    ASSUME NEW x \in Ctx, FlagsAgree(x.s), NEW g \in SUBSET (0 .. MaxOff - 1)
    PROVE  Kept(x, [x EXCEPT !.s.got = g])
<1> DEFINE y == [x EXCEPT !.s.got = g]
<1>1. y \in Ctx /\ y.cf = x.cf /\ y.s = [x.s EXCEPT !.got = g]
    BY DEF Ctx, Strm
<1> HIDE DEF y
<1>2. SameCounters(y.s, x.s) /\ SameFlags(y, x)
    BY <1>1 DEF Ctx, Strm, SameCounters, SameFlags
<1>3. FlagsAgree(y.s) /\ FinalKnown(y.s) = FinalKnown(x.s)
    BY <1>2 DEF FlagsAgree, FinalKnown, SameFlags
<1> QED BY <1>1, <1>2, <1>3 DEF Kept, y

LEMMA KeptDiscard ==
    ASSUME NEW x \in Ctx, FlagsAgree(x.s)
    PROVE  Kept(x, Discard(x))
BY PrefixType, KeptReadOffset, KeptRefl DEF Discard

(* The final size has become known, and it is all accounted for. *)
LEMMA FinalLearned ==
    ASSUME NEW x \in Ctx, NEW y, NEW p, Moved(x, y), FlagsAgree(y.s),
           y.s.max_recv_off <= p.sent, p.sent <= p.limit, p.limit <= y.s.recv_off,
           y.s.max_recv_off = p.sent, p.fin \/ p.rst, NEW f \in {"FIN_RECVD", "RST_RECVD"}
    PROVE  Sound(x, ClearQ(Set(y, {f}), {"WAIT_FIN_OFF"}), p)
<1> DEFINE z == Set(y, {f})
           w == ClearQ(z, {"WAIT_FIN_OFF"})
<1>1. y \in Ctx
    BY DEF Moved
<1>2. z \in Ctx /\ z.cf = y.cf /\ z.s = [y.s EXCEPT !.flags = @ \cup {f}]
    BY <1>1, SetType DEF Flag
<1> HIDE DEF z
<1>3. w \in Ctx /\ w.cf = z.cf /\ w.s = [z.s EXCEPT !.qflags = @ \ {"WAIT_FIN_OFF"}]
    BY <1>2, ClearQType
<1> HIDE DEF w
<1>4. /\ SameCounters(w.s, y.s) /\ w.cf = y.cf
      /\ w.s.flags = y.s.flags \cup {f}
      /\ w.s.qflags = y.s.qflags \ {"WAIT_FIN_OFF"}
      /\ w.s.data_in = y.s.data_in
    BY <1>1, <1>2, <1>3 DEF Ctx, Strm, SameCounters
<1>5. FinalKnown(w.s)
    BY <1>4 DEF FinalKnown
<1>6. FlagsAgree(w.s)
    BY <1>4, <1>5 DEF FlagsAgree
<1>7. LimitsAgree(w.s, p)
    BY <1>4 DEF LimitsAgree, SameCounters
<1>8. Moved(x, w)
    BY <1>3, <1>4 DEF Moved, SameCounters
<1> QED BY <1>6, <1>7, <1>8 DEF Sound, w, z

LEMMA FinCommutes ==
    ASSUME NEW x \in Ctx
    PROVE  Set(ClearQ(x, {"WAIT_FIN_OFF"}), {"FIN_RECVD"})
            = ClearQ(Set(x, {"FIN_RECVD"}), {"WAIT_FIN_OFF"})
BY DEF Set, ClearQ, Ctx, Strm

LEMMA FrameInSound ==
    ASSUME NEW x \in Ctx, Covered(x), FlagsAgree(x.s),
           NEW p \in Peer, LimitsAgree(x.s, p),
           NEW lo \in 0 .. MaxOff, NEW hi \in 0 .. MaxOff, hi <= p.sent,
           NEW fin \in BOOLEAN, fin => p.fin /\ hi = p.sent, NEW grow \in BOOLEAN
    PROVE  Sound(x, FrameIn(x, lo, hi, fin, grow), p)
<1> DEFINE y == IF hi > x.s.max_recv_off THEN SetMaxRecvOff(x, hi) ELSE x
           u == [y EXCEPT !.s.got = @ \cup (lo .. hi - 1)]
           z == OffsetsChanged(u, grow)
           v == Set(ClearQ(z, {"WAIT_FIN_OFF"}), {"FIN_RECVD"})
           w == IF fin THEN MaybeFinish(v) ELSE z
<1>n. x.s.max_recv_off \in 0 .. MaxOff /\ MaxOff \in Nat /\ p.sent \in Nat
      /\ p.limit \in Nat /\ x.s.recv_off \in Nat
    BY NumbersOf, StreamFlowAssumption DEF Peer
<1>1. /\ Sound(x, y, p) /\ hi <= y.s.max_recv_off
    <2>1. CASE hi > x.s.max_recv_off
        <3>1. Moved(x, y) /\ SameFlags(y, x) /\ y.s.max_recv_off = hi
            BY <2>1, SetMaxRecvOffType
        <3> HIDE DEF y
        <3>2. FlagsAgree(y.s)
            BY <3>1 DEF FlagsAgree, FinalKnown, SameFlags
        <3>3. ~FinalKnown(x.s)
            BY <2>1, <1>n DEF LimitsAgree
        <3>4. ~FinalKnown(y.s)
            BY <3>1, <3>3 DEF FinalKnown, SameFlags
        <3>5. y.s.recv_off \in Nat /\ x.s.recv_off <= y.s.recv_off
            BY <3>1, NumbersOf DEF Moved
        <3>6. LimitsAgree(y.s, p)
            BY <3>1, <3>4, <3>5, <1>n DEF LimitsAgree
        <3> QED BY <3>1, <3>2, <3>6 DEF Sound
    <2>2. CASE ~(hi > x.s.max_recv_off)
        BY <2>2, <1>n, SoundRefl
    <2> QED BY <2>1, <2>2
<1> HIDE DEF y
<1>2. y \in Ctx
    BY <1>1 DEF Sound, Moved
<1>3. y.s.got \cup (lo .. hi - 1) \in SUBSET (0 .. MaxOff - 1)
    BY <1>2, <1>n, NumbersOf
<1>4. Kept(y, u)
    BY <1>1, <1>2, <1>3, KeptGot DEF Sound
<1> HIDE DEF u
<1>5. Sound(x, u, p) /\ u \in Ctx /\ u.s.max_recv_off = y.s.max_recv_off
    BY <1>1, <1>4, SoundKept DEF Kept, SameCounters
<1>6. /\ Moved(u, z) /\ FlagsAgree(z.s) /\ z.s.max_recv_off = u.s.max_recv_off
      /\ z.s.flags = u.s.flags
    BY <1>5, OffsetsChangedType DEF Sound
<1> HIDE DEF z
<1>7. z \in Ctx /\ Moved(x, z)
    BY <1>5, <1>6, MovedTransitive DEF Sound, Moved
<1>8. z.s.recv_off \in Nat /\ u.s.recv_off \in Nat /\ u.s.recv_off <= z.s.recv_off
    BY <1>5, <1>6, <1>7, NumbersOf DEF Moved
<1>9. LimitsAgree(z.s, p)
    BY <1>5, <1>6, <1>8, <1>n DEF Sound, LimitsAgree, FinalKnown
<1>10. Sound(x, z, p)
    BY <1>6, <1>7, <1>9 DEF Sound
<1>11. Sound(x, w, p)
    <2>1. CASE fin
        <3>1. z.s.max_recv_off = p.sent /\ p.fin
            BY <2>1, <1>1, <1>5, <1>6, <1>7, <1>9, <1>n, NumbersOf DEF LimitsAgree
        <3>2. Sound(x, v, p)
            BY <1>6, <1>7, <1>9, <3>1, FinalLearned, FinCommutes DEF LimitsAgree
        <3> HIDE DEF v
        <3>3. v \in Ctx /\ Kept(v, MaybeFinish(v))
            BY <3>2, KeptMaybeFinish DEF Sound, Moved
        <3> QED BY <2>1, <3>2, <3>3, SoundKept
    <2>2. CASE ~fin
        BY <2>2, <1>10
    <2> QED BY <2>1, <2>2
<1> HIDE DEF w
<1>12. w \in Ctx /\ Kept(w, Discard(w))
    BY <1>11, KeptDiscard DEF Sound, Moved
<1>13. FrameIn(x, lo, hi, fin, grow) = IF lo = x.s.read_offset THEN Discard(w) ELSE w
    BY DEF FrameIn, w, v, z, u, y
<1> QED BY <1>11, <1>12, <1>13, SoundKept

LEMMA RstInSound ==
    ASSUME NEW x \in Ctx, Covered(x), FlagsAgree(x.s),
           NEW p \in Peer, LimitsAgree(x.s, p), p.rst
    PROVE  Sound(x, RstIn(x, p.sent), p)
<1> DEFINE u == Set(x, {"RST_RECVD"})
           v == SetMaxRecvOff(u, p.sent)
           y == ConsumeRem(v)
           w == [y EXCEPT !.s.data_in = "error", !.s.got = {}]
           z == ClearQ(w, {"WAIT_FIN_OFF"})
<1>n. p.sent \in 0 .. MaxOff /\ p.limit \in Nat
    BY DEF Peer
<1>1. u \in Ctx /\ u.cf = x.cf /\ SameCounters(u.s, x.s)
      /\ u.s.flags = x.s.flags \cup {"RST_RECVD"} /\ u.s.qflags = x.s.qflags
    <2>1. u \in Ctx /\ u.cf = x.cf /\ u.s = [x.s EXCEPT !.flags = @ \cup {"RST_RECVD"}]
        BY SetType DEF Flag
    <2> HIDE DEF u
    <2> QED BY <2>1 DEF Ctx, Strm, SameCounters
<1> HIDE DEF u
<1>2. Moved(x, u) /\ Covered(u)
    BY <1>1, NumbersOf, StreamFlowAssumption DEF Moved, SameCounters, Covered
<1>3. Moved(u, v) /\ SameFlags(v, u) /\ v.s.max_recv_off = p.sent
    BY <1>1, <1>2, <1>n, SetMaxRecvOffType
<1> HIDE DEF v
<1>4. v \in Ctx /\ Covered(v) /\ Moved(x, v)
    BY <1>1, <1>2, <1>3, MovedCovered, MovedTransitive DEF Moved
<1>5. Moved(v, y) /\ SameFlags(y, v) /\ y.s.max_recv_off = p.sent
    BY <1>3, <1>4, ConsumeRemType
<1> HIDE DEF y
<1>6. y \in Ctx /\ Moved(x, y)
    BY <1>4, <1>5, MovedTransitive DEF Moved
<1>7. w \in Ctx /\ w.cf = y.cf /\ w.s = [y.s EXCEPT !.data_in = "error", !.got = {}]
    BY <1>6 DEF Ctx, Strm
<1> HIDE DEF w
<1>8. SameCounters(w.s, y.s) /\ w.s.flags = y.s.flags /\ w.s.qflags = y.s.qflags
    BY <1>6, <1>7 DEF Ctx, Strm, SameCounters
<1>9. z \in Ctx /\ z.cf = w.cf /\ z.s = [w.s EXCEPT !.qflags = @ \ {"WAIT_FIN_OFF"}]
    BY <1>7, ClearQType
<1> HIDE DEF z
<1>10. SameCounters(z.s, w.s) /\ z.s.flags = w.s.flags
       /\ z.s.qflags = w.s.qflags \ {"WAIT_FIN_OFF"}
    BY <1>7, <1>9 DEF Ctx, Strm, SameCounters
<1>11. /\ SameCounters(z.s, y.s) /\ z.cf = y.cf
       /\ z.s.flags = x.s.flags \cup {"RST_RECVD"}
       /\ z.s.qflags = x.s.qflags \ {"WAIT_FIN_OFF"}
    BY <1>1, <1>3, <1>5, <1>7, <1>8, <1>9, <1>10 DEF SameCounters, SameFlags
<1>12. Moved(x, z)
    BY <1>6, <1>9, <1>11 DEF Moved, SameCounters
<1>13. FinalKnown(z.s)
    BY <1>11 DEF FinalKnown
<1>14. FlagsAgree(z.s)
    BY <1>11, <1>13 DEF FlagsAgree
<1>15. x.s.recv_off \in Nat /\ z.s.recv_off \in Nat /\ x.s.recv_off <= z.s.recv_off
    BY <1>9, <1>12, NumbersOf DEF Moved
<1>16. z.s.max_recv_off = p.sent
    BY <1>5, <1>11 DEF SameCounters
<1>17. LimitsAgree(z.s, p)
    BY <1>15, <1>16, <1>n, StreamFlowAssumption DEF LimitsAgree
<1>18. Sound(x, z, p) /\ Kept(z, MaybeFinish(z))
    BY <1>9, <1>12, <1>14, <1>17, KeptMaybeFinish DEF Sound
<1>19. RstIn(x, p.sent) = MaybeFinish(z)
    BY DEF RstIn, z, w, y, v, u
<1> QED BY <1>18, <1>19, SoundKept

(* The stream's part of what was received may be consumed at any time. *)
LEMMA ConsumeRemSound ==
    ASSUME NEW x \in Ctx, Covered(x), FlagsAgree(x.s),
           NEW p \in Peer, LimitsAgree(x.s, p)
    PROVE  Sound(x, ConsumeRem(x), p)
<1> DEFINE y == ConsumeRem(x)
<1>1. Moved(x, y) /\ SameFlags(y, x) /\ y.s.max_recv_off = x.s.max_recv_off
    BY ConsumeRemType
<1> HIDE DEF y
<1>2. FlagsAgree(y.s) /\ FinalKnown(y.s) = FinalKnown(x.s)
    BY <1>1 DEF FlagsAgree, FinalKnown, SameFlags
<1>3. x.s.recv_off \in Nat /\ y.s.recv_off \in Nat /\ x.s.recv_off <= y.s.recv_off
      /\ p.limit \in Nat
    BY <1>1, NumbersOf DEF Moved, Peer
<1>4. LimitsAgree(y.s, p)
    BY <1>1, <1>2, <1>3 DEF LimitsAgree
<1> QED BY <1>1, <1>2, <1>4 DEF Sound, y

LEMMA StopSendingInSound ==
    ASSUME NEW x \in Ctx, Covered(x), FlagsAgree(x.s),
           NEW p \in Peer, LimitsAgree(x.s, p), NEW elide \in BOOLEAN
    PROVE  Sound(x, StopSendingIn(x, elide), p)
<1> DEFINE u == Set(x, {"SS_RECVD"})
           v == ConsumeRem(u)
           y == DropOutgoing(v, elide)
           z == IF {"RST_SENT", "FIN_SENT"} \cap y.s.flags = {} /\ ~HasQ(y, "SEND_RST")
                THEN StreamReset(y, FALSE) ELSE y
           w == ClearQ(z, {"SEND_WUF", "SEND_STOP_SENDING"})
<1>1. Kept(x, u)
    BY KeptSet DEF Flag
<1> HIDE DEF u
<1>2. Sound(x, u, p) /\ u \in Ctx /\ FlagsAgree(u.s) /\ LimitsAgree(u.s, p) /\ Covered(u)
    <2>1. Sound(x, u, p)
        BY <1>1, SoundRefl, SoundKept
    <2> QED BY <2>1, MovedCovered DEF Sound, Moved
<1>3. Sound(u, v, p)
    BY <1>2, ConsumeRemSound
<1> HIDE DEF v
<1>4. Sound(x, v, p) /\ v \in Ctx
    BY <1>2, <1>3, MovedTransitive DEF Sound, Moved
<1>5. Kept(v, y)
    BY <1>4, KeptDropOutgoing DEF Sound
<1> HIDE DEF y
<1>6. Kept(y, z)
    <2>1. y \in Ctx /\ FlagsAgree(y.s)
        BY <1>5 DEF Kept
    <2>2. Kept(y, StreamReset(y, FALSE)) /\ Kept(y, y)
        BY <2>1, KeptStreamReset, KeptRefl
    <2> QED BY <2>2
<1> HIDE DEF z
<1>7. Kept(z, w)
    BY <1>6, KeptClearQ DEF Kept
<1> HIDE DEF w
<1>8. Kept(w, MaybeFinish(w))
    BY <1>7, KeptMaybeFinish DEF Kept
<1>9. Kept(v, MaybeFinish(w))
    BY <1>5, <1>6, <1>7, <1>8, KeptTransitive
<1>10. StopSendingIn(x, elide) = MaybeFinish(w)
    BY DEF StopSendingIn, w, z, y, v, u
<1> QED BY <1>4, <1>9, <1>10, SoundKept

-----------------------------------------------------------------------------
(* An honest peer is never refused: what it has sent fits in the limits of *)
(* the stream and of the connection.                                       *)
LEMMA NeverViolates ==
    ASSUME FlowInv, NEW s \in Stream, strm[s].state # "freed",
           NEW off \in 0 .. MaxOff, off <= peer[s].sent
    PROVE  ~Violates(X(s), off)
<1> DEFINE f == [r \in Stream |-> Received(r)]
           h == [f EXCEPT ![s] = off]
           e == [r \in Stream |-> peer[r].sent]
<1>1. f \in [Stream -> Nat] /\ e \in [Stream -> Nat]
    BY SumTypes
<1>2. f[s] = X(s).s.max_recv_off
    BY XType DEF Received
<1>3. cfcw.max_recv_off = SumFunction(f)
    BY DEF FlowInv, FlowIsExact, NeverAborted, ConnAccounts
<1>4. \A r \in Stream : f[r] <= e[r]
    BY <1>1 DEF Received, Final, FlowInv, StreamInv, LimitsAgree
<1>5. e[s] = peer[s].sent
    OBVIOUS
<1>6. SumFunction(e) = Sent
    BY DEF Sent
<1> HIDE DEF f, e
<1>7. /\ h \in [Stream -> Nat] /\ h[s] = off
      /\ \A r \in Stream : h[r] <= e[r]
      /\ \A r \in Stream : r # s => f[r] = h[r]
    BY <1>1, <1>4, <1>5
<1> HIDE DEF h
<1>8. SumFunction(h) + f[s] = SumFunction(f) + h[s]
    BY <1>1, <1>7, SumChange, StreamFlowAssumption
<1>9. SumFunction(h) <= SumFunction(e)
    BY <1>1, <1>7, SumMonotone, StreamFlowAssumption
<1>10. SumFunction(h) \in Nat /\ SumFunction(e) \in Nat /\ SumFunction(f) \in Nat
    BY <1>1, <1>7, SumType, StreamFlowAssumption
<1>11. X(s) \in Ctx /\ X(s).cf = cfcw /\ LimitsAgree(X(s).s, peer[s]) /\ peer[s] \in Peer
    BY XType DEF FlowInv, TypeOK
<1>12. cfcw.limit \in Nat /\ cfcw.recv_off \in Nat
    BY DEF FlowInv, TypeOK, Cfcw
<1>13. cfcw.max_recv_off + (off - X(s).s.max_recv_off) = SumFunction(h)
    BY <1>1, <1>2, <1>3, <1>7, <1>8, <1>10
<1>14. SumFunction(h) <= cfcw.recv_off
    BY <1>6, <1>9, <1>10, <1>12 DEF FlowInv
<1>15. off <= X(s).s.recv_off
    BY <1>11, NumbersOf, StreamFlowAssumption DEF LimitsAgree, Peer
<1>16. X(s).s.recv_off \in Nat
    BY <1>11, NumbersOf
<1> QED BY <1>10, <1>11, <1>12, <1>13, <1>14, <1>15, <1>16 DEF Violates

-----------------------------------------------------------------------------
(* One lemma per group of actions. *)

LEMMA SoundStep ==
    ASSUME FlowInv, NEW s \in Stream, strm[s].state # "freed",
           NEW y, Sound(X(s), y, peer[s]), Becomes(s, y), UNCHANGED <<peer, aborted>>
    PROVE  FlowInv'
BY StreamStep DEF Sound

LEMMA KeptStep ==
    ASSUME FlowInv, NEW s \in Stream, strm[s].state # "freed",
           NEW y, Kept(X(s), y), Becomes(s, y), UNCHANGED <<peer, aborted>>
    PROVE  FlowInv'
<1>1. Sound(X(s), X(s), peer[s]) /\ X(s) \in Ctx
    BY XType, SoundRefl
<1>2. Sound(X(s), y, peer[s])
    BY <1>1, SoundKept
<1> QED BY <1>2, SoundStep

(* Frames that arrive. *)
LEMMA FrameStep ==
    ASSUME FlowInv, "late_data" \notin Events, NEW s \in Stream,
           NEW lo \in 0 .. MaxOff, NEW hi \in 0 .. MaxOff, NEW fin \in BOOLEAN,
           process_stream_frame(s, lo, hi, fin)
    PROVE  FlowInv' \/ UNCHANGED vars
<1>1. /\ strm[s].state # "freed" /\ hi <= peer[s].sent
      /\ fin => peer[s].fin /\ hi = peer[s].sent
      /\ "RST_RECVD" \notin X(s).s.flags
      /\ peer' = peer
    BY DEF process_stream_frame, Has
<1>2. /\ X(s) \in Ctx /\ FlagsAgree(X(s).s) /\ LimitsAgree(X(s).s, peer[s])
      /\ Covered(X(s)) /\ peer[s] \in Peer
    BY <1>1, XType, XCovered DEF FlowInv, TypeOK
<1>3. X(s).s.data_in # "error" /\ ~Violates(X(s), hi)
    BY <1>1, <1>2, NeverViolates DEF FlagsAgree
<1>4. CASE \E grow \in BOOLEAN : Becomes(s, FrameIn(X(s), lo, hi, fin, grow)) /\ aborted' = aborted
    <2>1. PICK grow \in BOOLEAN : Becomes(s, FrameIn(X(s), lo, hi, fin, grow)) /\ aborted' = aborted
        BY <1>4
    <2>2. Sound(X(s), FrameIn(X(s), lo, hi, fin, grow), peer[s])
        BY <1>1, <1>2, FrameInSound
    <2> QED BY <1>1, <2>1, <2>2, SoundStep
<1>5. CASE UNCHANGED <<strm, cfcw, aborted>>
    BY <1>1, <1>5 DEF vars
<1> QED BY <1>3, <1>4, <1>5 DEF process_stream_frame

LEMMA RstStep ==
    ASSUME FlowInv, NEW s \in Stream, process_rst_stream_frame(s)
    PROVE  FlowInv'
<1>1. strm[s].state # "freed" /\ peer[s].rst /\ peer' = peer
    BY DEF process_rst_stream_frame
<1>2. /\ X(s) \in Ctx /\ FlagsAgree(X(s).s) /\ LimitsAgree(X(s).s, peer[s])
      /\ Covered(X(s)) /\ peer[s] \in Peer
    BY <1>1, XType, XCovered DEF FlowInv, TypeOK
<1>3. peer[s].sent \in 0 .. MaxOff /\ peer[s].sent <= peer[s].sent
      /\ X(s).s.max_recv_off \in 0 .. MaxOff
    BY <1>2, NumbersOf, StreamFlowAssumption DEF Peer
<1>4. ~(X(s).s.max_recv_off > peer[s].sent) /\ ~Violates(X(s), peer[s].sent)
    BY <1>1, <1>2, <1>3, NeverViolates, StreamFlowAssumption DEF LimitsAgree
<1>5. Becomes(s, RstIn(X(s), peer[s].sent)) /\ aborted' = aborted
    BY <1>4 DEF process_rst_stream_frame
<1>6. Sound(X(s), RstIn(X(s), peer[s].sent), peer[s])
    BY <1>1, <1>2, RstInSound
<1> QED BY <1>1, <1>5, <1>6, SoundStep

LEMMA StopSendingStep ==
    ASSUME FlowInv, NEW s \in Stream, process_stop_sending_frame(s)
    PROVE  FlowInv'
<1>1. PICK elide \in BOOLEAN : Becomes(s, StopSendingIn(X(s), elide))
    BY DEF process_stop_sending_frame
<1>2. strm[s].state # "freed" /\ UNCHANGED <<peer, aborted>>
    BY DEF process_stop_sending_frame
<1>3. /\ X(s) \in Ctx /\ FlagsAgree(X(s).s) /\ LimitsAgree(X(s).s, peer[s])
      /\ Covered(X(s)) /\ peer[s] \in Peer
    BY <1>2, XType, XCovered DEF FlowInv, TypeOK
<1>4. Sound(X(s), StopSendingIn(X(s), elide), peer[s])
    BY <1>3, StopSendingInSound
<1> QED BY <1>1, <1>2, <1>4, SoundStep

(* The program. *)
LEMMA ReadStep ==
    ASSUME FlowInv, NEW s \in Stream, NEW room \in 1 .. MaxOff, readf(s, room)
    PROVE  FlowInv'
<1> DEFINE x == X(s)
           next == Min({x.s.read_offset + room, Prefix(x)})
           fin == Has(x, "FIN_RECVD") /\ next = peer[s].sent
           y == [x EXCEPT !.s.read_offset = next]
           z == IF fin THEN Set(y, {"FIN_REACHED"}) ELSE y
           w == SetReadOff(z, next)
<1>1. PICK grow \in BOOLEAN : Becomes(s, OffsetsChanged(w, grow))
    BY DEF readf
<1>2. strm[s].state = "open" /\ UNCHANGED <<peer, aborted>>
    BY DEF readf, Usable
<1>3. /\ x \in Ctx /\ FlagsAgree(x.s) /\ LimitsAgree(x.s, peer[s])
      /\ Covered(x) /\ peer[s] \in Peer
    BY <1>2, XType, XCovered DEF FlowInv, TypeOK
<1> HIDE DEF x
<1>4. next \in 0 .. MaxOff
    <2>1. x.s.read_offset + room \in Nat /\ Prefix(x) \in Nat /\ Prefix(x) <= MaxOff
        BY <1>3, NumbersOf, PrefixType, StreamFlowAssumption
    <2> QED BY <2>1, MinOfTwo, StreamFlowAssumption
<1> HIDE DEF next
<1>5. Kept(x, y)
    BY <1>3, <1>4, KeptReadOffset
<1>a. y.s.flags = x.s.flags /\ y.s.qflags = x.s.qflags
    BY <1>3 DEF Ctx, Strm
<1> HIDE DEF y
<1>6. Kept(y, z)
    <2>1. CASE fin
        <3>1. z \in Ctx /\ z.cf = y.cf /\ z.s = [y.s EXCEPT !.flags = @ \cup {"FIN_REACHED"}]
            BY <2>1, <1>5, SetType DEF Flag, Kept
        <3>2. y \in Ctx /\ FlagsAgree(y.s) /\ "FIN_RECVD" \in y.s.flags
            BY <2>1, <1>5, <1>a DEF Kept, Has
        <3> HIDE DEF z
        <3>3. SameCounters(z.s, y.s) /\ z.s.flags = y.s.flags \cup {"FIN_REACHED"}
              /\ z.s.qflags = y.s.qflags /\ z.s.data_in = y.s.data_in
            BY <3>1, <3>2 DEF Ctx, Strm, SameCounters
        <3>4. FinalKnown(z.s) = FinalKnown(y.s)
            BY <3>3 DEF FinalKnown
        <3>5. FlagsAgree(z.s)
            BY <3>2, <3>3, <3>4 DEF FlagsAgree
        <3> QED BY <3>1, <3>3, <3>4, <3>5 DEF Kept
    <2>2. CASE ~fin
        BY <2>2, <1>5, KeptRefl DEF Kept
    <2> QED BY <2>1, <2>2
<1> HIDE DEF z
<1>7. Sound(x, z, peer[s])
    BY <1>3, <1>5, <1>6, SoundRefl, SoundKept
<1>8. z \in Ctx /\ Covered(z)
    BY <1>3, <1>7, MovedCovered DEF Sound, Moved
<1>9. Moved(z, w) /\ SameFlags(w, z) /\ w.s.max_recv_off = z.s.max_recv_off
    BY <1>4, <1>8, SetReadOffType
<1> HIDE DEF w
<1>10. w \in Ctx /\ FlagsAgree(w.s)
    BY <1>7, <1>9 DEF Sound, FlagsAgree, FinalKnown, SameFlags, Moved
<1> DEFINE o == OffsetsChanged(w, grow)
<1>11. Moved(w, o) /\ FlagsAgree(o.s) /\ o.s.max_recv_off = w.s.max_recv_off
       /\ o.s.flags = w.s.flags
    BY <1>10, OffsetsChangedType
<1> HIDE DEF o
<1>12. Moved(x, o)
    BY <1>3, <1>7, <1>9, <1>11, MovedTransitive DEF Sound
<1>13. Moved(z, o)
    BY <1>8, <1>9, <1>11, MovedTransitive
<1>14. z.s.recv_off \in Nat /\ o.s.recv_off \in Nat /\ z.s.recv_off <= o.s.recv_off
       /\ peer[s].limit \in Nat
    BY <1>3, <1>8, <1>13, NumbersOf DEF Moved, Peer
<1>15. LimitsAgree(o.s, peer[s])
    BY <1>7, <1>9, <1>11, <1>14 DEF Sound, LimitsAgree, FinalKnown, SameFlags
<1>16. Sound(X(s), o, peer[s])
    BY <1>11, <1>12, <1>15 DEF Sound, x
<1> QED BY <1>1, <1>2, <1>16, SoundStep DEF o

LEMMA ShutdownStep ==
    ASSUME FlowInv, NEW s \in Stream, NEW how \in 0 .. 2, shutdown(s, how)
    PROVE  FlowInv'
<1> DEFINE x == X(s)
           y == IF how = 0 THEN x ELSE ShutdownWrite(x)
           z == IF how = 1 THEN y ELSE ShutdownRead(y)
<1>1. strm[s].state = "open" /\ Becomes(s, MaybeFinish(z)) /\ UNCHANGED <<peer, aborted>>
    BY DEF shutdown, Usable
<1>2. x \in Ctx /\ FlagsAgree(x.s)
    BY <1>1, XType
<1> HIDE DEF x
<1>3. Kept(x, y)
    BY <1>2, KeptRefl, KeptShutdownWrite
<1> HIDE DEF y
<1>4. Kept(y, z)
    BY <1>3, KeptRefl, KeptShutdownRead DEF Kept
<1> HIDE DEF z
<1>5. Kept(z, MaybeFinish(z))
    BY <1>4, KeptMaybeFinish DEF Kept
<1>6. Kept(X(s), MaybeFinish(z))
    BY <1>3, <1>4, <1>5, KeptTransitive DEF x
<1> QED BY <1>1, <1>6, KeptStep

(* The tick and acknowledgements. *)
LEMMA WriteFinStep ==
    ASSUME FlowInv, NEW s \in Stream, write_fin(s)
    PROVE  FlowInv'
<1> DEFINE x == X(s)
           a == ClearQ(x, {"WANT_FLUSH"})
           b == Set(a, {"FIN_SENT"})
           c == [b EXCEPT !.s.unacked = @ \cup {"STREAM"}]
<1>1. strm[s].state = "open" /\ UNCHANGED <<peer, aborted, cfcw>>
    BY DEF write_fin, Usable
<1>2. x \in Ctx /\ FlagsAgree(x.s) /\ x = [s |-> strm[s], cf |-> cfcw] /\ strm[s] \in Strm
    BY <1>1, XType DEF X, FlowInv, TypeOK
<1>3. strm' = [strm EXCEPT ![s] = [[[strm[s] EXCEPT !.qflags = @ \ {"WANT_FLUSH"}]
                                        EXCEPT !.flags = @ \cup {"FIN_SENT"}]
                                        EXCEPT !.unacked = @ \cup {"STREAM"}]]
    BY <1>2 DEF write_fin, FlowInv, TypeOK, Strm
<1> HIDE DEF x
<1>4. Kept(x, a)
    BY <1>2, KeptClearQ
<1>5. a.s = [x.s EXCEPT !.qflags = @ \ {"WANT_FLUSH"}]
    BY <1>2, ClearQType
<1> HIDE DEF a
<1>6. Kept(a, b)
    BY <1>4, KeptSet DEF Flag, Kept
<1>7. b.s = [a.s EXCEPT !.flags = @ \cup {"FIN_SENT"}]
    BY <1>4, SetType DEF Flag, Kept
<1> HIDE DEF b
<1>8. b \in Ctx /\ b.s.unacked \cup {"STREAM"} \in SUBSET {"STREAM", "RST_STREAM"}
    BY <1>6 DEF Kept, Ctx, Strm
<1>9. Kept(b, c)
    BY <1>6, <1>8, KeptUnacked DEF Kept
<1>10. c.s = [b.s EXCEPT !.unacked = @ \cup {"STREAM"}] /\ c.cf = b.cf
    BY <1>8 DEF Ctx
<1> HIDE DEF c
<1>11. Becomes(s, c)
    BY <1>1, <1>2, <1>3, <1>4, <1>5, <1>6, <1>7, <1>10 DEF Becomes, Kept
<1>12. Kept(X(s), c)
    BY <1>4, <1>6, <1>9, KeptTransitive DEF x
<1> QED BY <1>1, <1>11, <1>12, KeptStep

LEMMA RstFrameStep ==
    ASSUME FlowInv, NEW s \in Stream, generate_rst_stream_frame(s)
    PROVE  FlowInv'
<1> DEFINE x == X(s)
           a == ClearQ(x, {"SEND_RST"})
           b == [a EXCEPT !.s.unacked = @ \cup {"RST_STREAM"}]
           c == Set(b, {"RST_SENT", "U_WRITE_DONE"})
<1>1. strm[s].state = "open" /\ UNCHANGED <<peer, aborted>> /\ Becomes(s, MaybeFinish(c))
    BY DEF generate_rst_stream_frame, Usable
<1>2. x \in Ctx /\ FlagsAgree(x.s)
    BY <1>1, XType
<1> HIDE DEF x
<1>3. Kept(x, a)
    BY <1>2, KeptClearQ
<1> HIDE DEF a
<1>4. a \in Ctx /\ a.s.unacked \cup {"RST_STREAM"} \in SUBSET {"STREAM", "RST_STREAM"}
    BY <1>3 DEF Kept, Ctx, Strm
<1>5. Kept(a, b)
    BY <1>3, <1>4, KeptUnacked DEF Kept
<1> HIDE DEF b
<1>6. Kept(b, c)
    BY <1>5, KeptSet DEF Flag, Kept
<1> HIDE DEF c
<1>7. Kept(c, MaybeFinish(c))
    BY <1>6, KeptMaybeFinish DEF Kept
<1>8. Kept(X(s), MaybeFinish(c))
    BY <1>3, <1>5, <1>6, <1>7, KeptTransitive DEF x
<1> QED BY <1>1, <1>8, KeptStep

LEMMA StopFrameStep ==
    ASSUME FlowInv, NEW s \in Stream, generate_stop_sending_frame(s)
    PROVE  FlowInv'
<1> DEFINE x == X(s)
           a == ClearQ(x, {"SEND_STOP_SENDING"})
           b == Set(a, {"SS_SENT"})
<1>1. strm[s].state = "open" /\ UNCHANGED <<peer, aborted, cfcw>>
    BY DEF generate_stop_sending_frame, Usable
<1>2. x \in Ctx /\ FlagsAgree(x.s) /\ x = [s |-> strm[s], cf |-> cfcw] /\ strm[s] \in Strm
    BY <1>1, XType DEF X, FlowInv, TypeOK
<1>3. strm' = [strm EXCEPT ![s] = [[strm[s] EXCEPT !.qflags = @ \ {"SEND_STOP_SENDING"}]
                                        EXCEPT !.flags = @ \cup {"SS_SENT"}]]
    BY <1>2 DEF generate_stop_sending_frame, FlowInv, TypeOK, Strm
<1> HIDE DEF x
<1>4. Kept(x, a)
    BY <1>2, KeptClearQ
<1>5. a.s = [x.s EXCEPT !.qflags = @ \ {"SEND_STOP_SENDING"}]
    BY <1>2, ClearQType
<1> HIDE DEF a
<1>6. Kept(a, b)
    BY <1>4, KeptSet DEF Flag, Kept
<1>7. b.s = [a.s EXCEPT !.flags = @ \cup {"SS_SENT"}]
    BY <1>4, SetType DEF Flag, Kept
<1> HIDE DEF b
<1>8. Becomes(s, b)
    BY <1>1, <1>2, <1>3, <1>4, <1>5, <1>6, <1>7 DEF Becomes, Kept
<1>9. Kept(X(s), b)
    BY <1>4, <1>6, KeptTransitive DEF x
<1> QED BY <1>1, <1>8, <1>9, KeptStep

LEMMA AckedStep ==
    ASSUME FlowInv, NEW s \in Stream, NEW frame, acked(s, frame)
    PROVE  FlowInv'
<1>1. strm[s].state = "open" /\ UNCHANGED <<peer, aborted>> /\ Becomes(s, Acked(X(s), frame))
    BY DEF acked, Usable
<1>2. Kept(X(s), Acked(X(s), frame))
    BY <1>1, XType, KeptAcked
<1> QED BY <1>1, <1>2, KeptStep

LEMMA IdleType == Idle \in Strm
<1>1. StreamNew \in Strm
    BY StreamFlowAssumption DEF StreamNew, Strm
<1> QED BY <1>1 DEF Idle, Strm

(* A stream that is destroyed has its final size accounted for. *)
LEMMA ServiceStep ==
    ASSUME FlowInv, NEW s \in Stream, service_streams(s)
    PROVE  FlowInv'
<1> DEFINE q == [Idle EXCEPT !.state = "freed"]
           y == ConsumeRem(X(s))
<1>1. /\ strm[s].state = "open" /\ ~aborted /\ UNCHANGED <<peer, aborted>>
      /\ "FREE_STREAM" \in X(s).s.qflags
      /\ strm' = [strm EXCEPT ![s] = q] /\ cfcw' = y.cf
    BY DEF service_streams, Usable, HasQ, Becomes
<1>2. /\ X(s) \in Ctx /\ FlagsAgree(X(s).s) /\ LimitsAgree(X(s).s, peer[s])
      /\ Covered(X(s)) /\ X(s).cf = cfcw
    BY <1>1, XType, XCovered
<1>3. X(s).s.max_recv_off = peer[s].sent /\ (peer[s].fin \/ peer[s].rst)
    BY <1>1, <1>2 DEF FlagsAgree, LimitsAgree
<1>4. q \in Strm /\ q.state = "freed"
    BY IdleType DEF Strm
<1> HIDE DEF q
<1>5. /\ Moved(X(s), y) /\ y.s.max_recv_off = X(s).s.max_recv_off
      /\ y.s.read_off = X(s).s.max_recv_off
    BY <1>2, ConsumeRemType
<1> HIDE DEF y
<1>6. y \in Ctx /\ y.cf \in Cfcw
    BY <1>5 DEF Moved, Ctx
<1>7. TypeOK'
    BY <1>1, <1>4, <1>6 DEF FlowInv, TypeOK
<1>8. \A r \in Stream : strm'[r] = IF r = s THEN q ELSE strm[r]
    BY <1>1 DEF FlowInv, TypeOK
<1>9. \A r \in Stream : StreamInv(strm'[r], peer'[r])
    BY <1>1, <1>3, <1>4, <1>8 DEF FlowInv, StreamInv
<1>10. Sent' = Sent
    BY <1>1 DEF Sent
<1>11. cfcw'.limit = cfcw.limit /\ cfcw'.recv_off = cfcw.recv_off
    BY <1>1, <1>2, <1>5 DEF Moved
<1> DEFINE f == [r \in Stream |-> Received(r)]
           g == [r \in Stream |-> Consumed(r)]
<1>12. f \in [Stream -> Nat] /\ g \in [Stream -> Nat]
    BY SumTypes
<1>13. g' \in [Stream -> Nat]
    <2>1. \A r \in Stream : peer'[r].sent \in Nat /\ strm'[r].read_off \in Nat
        BY <1>7, StreamFlowAssumption DEF TypeOK, Peer, Strm
    <2> QED BY <2>1 DEF Consumed, Final
<1>14. f[s] = X(s).s.max_recv_off /\ g[s] = X(s).s.read_off
    BY <1>1, XType DEF Received, Consumed
<1>15. f'[s] = peer[s].sent /\ g'[s] = peer[s].sent
    BY <1>1, <1>4, <1>8 DEF Received, Consumed, Final
<1>16. \A r \in Stream : r # s => f[r] = f'[r] /\ g[r] = g'[r]
    BY <1>1, <1>8 DEF Received, Consumed, Final
<1>17. f' = f
    <2>1. \A r \in Stream : Received(r)' = Received(r)
        BY <1>3, <1>14, <1>15, <1>16
    <2> QED BY <2>1
<1>18. cfcw.max_recv_off = SumFunction(f) /\ cfcw.read_off = SumFunction(g)
    BY DEF FlowInv, FlowIsExact, NeverAborted, ConnAccounts
<1> HIDE DEF f, g
<1>19. SumFunction(g') + g[s] = SumFunction(g) + g'[s]
    BY <1>12, <1>13, <1>16, SumChange, StreamFlowAssumption
<1>20. SumFunction(g') \in Nat /\ SumFunction(g) \in Nat
    BY <1>12, <1>13, SumType, StreamFlowAssumption
<1>21. cfcw'.max_recv_off = SumFunction(f') /\ cfcw'.read_off = SumFunction(g')
    <2>1. /\ y.cf.max_recv_off = cfcw.max_recv_off + (y.s.max_recv_off - X(s).s.max_recv_off)
          /\ y.cf.read_off = cfcw.read_off + (y.s.read_off - X(s).s.read_off)
        BY <1>2, <1>5 DEF Moved
    <2> QED BY <1>1, <1>2, <1>3, <1>5, <1>6, <1>12, <1>14, <1>15, <1>17, <1>18, <1>19,
               <1>20, <2>1, NumbersOf, StreamFlowAssumption
<1>22. FlowIsExact'
    BY <1>1, <1>21 DEF FlowIsExact, NeverAborted, ConnAccounts, f, g
<1> QED BY <1>7, <1>9, <1>10, <1>11, <1>22 DEF FlowInv

(* MAX_STREAM_DATA and MAX_DATA: limits only grow. *)
LEMMA SumsUnchanged ==
    ASSUME FlowInv, \A s \in Stream : Received(s)' = Received(s) /\ Consumed(s)' = Consumed(s),
           cfcw'.max_recv_off = cfcw.max_recv_off, cfcw'.read_off = cfcw.read_off,
           aborted' = aborted
    PROVE  FlowIsExact'
<1> DEFINE f == [r \in Stream |-> Received(r)]
           g == [r \in Stream |-> Consumed(r)]
<1>1. f' = f /\ g' = g
    OBVIOUS
<1>2. ~aborted /\ cfcw.max_recv_off = SumFunction(f) /\ cfcw.read_off = SumFunction(g)
    BY DEF FlowInv, FlowIsExact, NeverAborted, ConnAccounts
<1> HIDE DEF f, g
<1>3. ~aborted' /\ cfcw'.max_recv_off = SumFunction(f') /\ cfcw'.read_off = SumFunction(g')
    BY <1>1, <1>2
<1> QED BY <1>3 DEF FlowIsExact, NeverAborted, ConnAccounts, f, g

LEMMA MaxStreamDataStep ==
    ASSUME FlowInv, NEW s \in Stream, generate_max_stream_data_frame(s)
    PROVE  FlowInv'
<1> DEFINE x == X(s)
           a == ClearQ(x, {"SEND_WUF"})
           p == [peer[s] EXCEPT !.limit = strm[s].recv_off]
<1>1. strm[s].state = "open" /\ UNCHANGED <<cfcw, aborted>>
    BY DEF generate_max_stream_data_frame, Usable
<1>2. /\ x \in Ctx /\ FlagsAgree(x.s) /\ x = [s |-> strm[s], cf |-> cfcw]
      /\ strm[s] \in Strm /\ peer[s] \in Peer /\ LimitsAgree(strm[s], peer[s])
    BY <1>1, XType DEF X, FlowInv, TypeOK
<1>3. /\ strm' = [strm EXCEPT ![s] = [strm[s] EXCEPT !.qflags = @ \ {"SEND_WUF"}]]
      /\ peer' = [peer EXCEPT ![s] = p]
    BY DEF generate_max_stream_data_frame, FlowInv, TypeOK
<1> HIDE DEF x
<1>4. Kept(x, a)
    BY <1>2, KeptClearQ
<1>5. a.s = [x.s EXCEPT !.qflags = @ \ {"SEND_WUF"}]
    BY <1>2, ClearQType
<1> HIDE DEF a
<1>6. strm' = [strm EXCEPT ![s] = a.s] /\ a.s \in Strm
    BY <1>2, <1>3, <1>4, <1>5 DEF Kept, Ctx
<1>7. p \in Peer /\ p.sent = peer[s].sent /\ p.fin = peer[s].fin /\ p.rst = peer[s].rst
      /\ p.limit = strm[s].recv_off
    BY <1>2 DEF Peer, Strm
<1> HIDE DEF p
<1>8. TypeOK'
    BY <1>1, <1>3, <1>6, <1>7 DEF FlowInv, TypeOK
<1>9. /\ \A r \in Stream : strm'[r] = IF r = s THEN a.s ELSE strm[r]
      /\ \A r \in Stream : peer'[r] = IF r = s THEN p ELSE peer[r]
    BY <1>3, <1>6 DEF FlowInv, TypeOK
<1>10. SameCounters(a.s, strm[s]) /\ FlagsAgree(a.s) /\ FinalKnown(a.s) = FinalKnown(strm[s])
    BY <1>2, <1>4 DEF Kept
<1>11. LimitsAgree(a.s, p)
    <2>1. strm[s].recv_off \in Nat /\ peer[s].limit \in Nat /\ peer[s].sent \in Nat
        BY <1>2, StreamFlowAssumption DEF Strm, Peer
    <2> QED BY <1>2, <1>7, <1>10, <2>1 DEF LimitsAgree, SameCounters
<1>12. StreamInv(a.s, p)
    BY <1>1, <1>10, <1>11 DEF StreamInv, SameCounters
<1>13. \A r \in Stream : StreamInv(strm'[r], peer'[r])
    BY <1>9, <1>12 DEF FlowInv
<1>14. [r \in Stream |-> peer[r].sent]' = [r \in Stream |-> peer[r].sent]
    BY <1>7, <1>9
<1>15. Sent' = Sent
    BY <1>14 DEF Sent
<1>16. \A r \in Stream : Received(r)' = Received(r) /\ Consumed(r)' = Consumed(r)
    BY <1>1, <1>7, <1>9, <1>10 DEF Received, Consumed, Final, SameCounters
<1>17. FlowIsExact'
    BY <1>1, <1>16, SumsUnchanged
<1> QED BY <1>1, <1>8, <1>13, <1>15, <1>17 DEF FlowInv

LEMMA MaxDataStep ==
    ASSUME FlowInv, NEW sent \in BOOLEAN, max_data(sent)
    PROVE  FlowInv'
<1> DEFINE larger == Max({cfcw.max_recv_win, Min({2 * cfcw.max_recv_win, MaxCfcw})})
           Wins == IF ConnOffsetsChanged THEN {cfcw.max_recv_win, larger} ELSE {cfcw.max_recv_win}
           Off(w) == IF ConnOffsetsChanged THEN cfcw.read_off + w ELSE cfcw.recv_off
<1>1. UNCHANGED <<peer, strm, aborted>>
    BY DEF max_data
<1>2. PICK win \in Wins :
            cfcw' = [cfcw EXCEPT !.max_recv_win = win, !.recv_off = Off(win), !.send = ~sent,
                                 !.limit = IF sent THEN Off(win) ELSE @]
    BY DEF max_data
<1>3. /\ cfcw \in Cfcw /\ cfcw.recv_off \in Nat /\ cfcw.read_off \in Nat
      /\ cfcw.max_recv_win \in Nat /\ cfcw.limit \in Nat /\ cfcw.limit <= cfcw.recv_off
    BY DEF FlowInv, TypeOK, Cfcw
<1>4. larger \in Nat /\ cfcw.max_recv_win <= larger
    <2>1. 2 * cfcw.max_recv_win \in Nat /\ MaxCfcw \in Nat
        BY <1>3, StreamFlowAssumption
    <2>2. Min({2 * cfcw.max_recv_win, MaxCfcw}) \in Nat
        BY <2>1, MinOfTwo
    <2> QED BY <1>3, <2>2, MaxOfTwo
<1> HIDE DEF larger
<1>5. win \in Nat /\ cfcw.max_recv_win <= win
    BY <1>3, <1>4
<1>6. Off(win) \in Nat /\ cfcw.recv_off <= Off(win)
    <2>1. ASSUME NEW v \in Nat, NEW w \in Nat, v <= w, NEW ro \in Nat, NEW rd \in Nat,
                 ro - rd < v \div 2
          PROVE  ro <= rd + w
        <3>1. v \div 2 <= v
            OBVIOUS
        <3> QED BY <2>1, <3>1
    <2>2. CASE ConnOffsetsChanged
        <3>1. cfcw.recv_off <= cfcw.read_off + win
            BY <1>3, <1>5, <2>1, <2>2 DEF ConnOffsetsChanged
        <3> QED BY <1>3, <1>5, <2>2, <3>1
    <2>3. CASE ~ConnOffsetsChanged
        BY <1>3, <2>3
    <2> QED BY <2>2, <2>3
<1> DEFINE o == Off(win)
<1> HIDE DEF Off, Wins
<1>7. /\ cfcw' \in Cfcw
      /\ cfcw'.recv_off = o /\ cfcw'.limit = (IF sent THEN o ELSE cfcw.limit)
      /\ cfcw'.max_recv_off = cfcw.max_recv_off /\ cfcw'.read_off = cfcw.read_off
    BY <1>2, <1>3, <1>5, <1>6 DEF Cfcw
<1>8. o \in Nat /\ cfcw.recv_off <= o
    BY <1>6
<1> HIDE DEF o
<1>9. cfcw'.limit <= cfcw'.recv_off /\ cfcw.limit <= cfcw'.limit
    BY <1>3, <1>7, <1>8
<1>10. TypeOK'
    BY <1>1, <1>7 DEF FlowInv, TypeOK
<1>11. \A r \in Stream : Received(r)' = Received(r) /\ Consumed(r)' = Consumed(r)
    BY <1>1 DEF Received, Consumed, Final
<1>12. FlowIsExact'
    BY <1>1, <1>7, <1>11, SumsUnchanged
<1>13. Sent' = Sent /\ Sent \in Nat
    BY <1>1, SumTypes, SumType, StreamFlowAssumption DEF Sent
<1>14. Sent' <= cfcw'.limit
    <2>1. cfcw'.limit \in Nat
        BY <1>7 DEF Cfcw
    <2> QED BY <1>3, <1>9, <1>13, <2>1 DEF FlowInv
<1> QED BY <1>1, <1>9, <1>10, <1>12, <1>14 DEF FlowInv

(* The peer. *)
LEMMA PeerStep ==
    ASSUME FlowInv, NEW s \in Stream, NEW p \in Peer,
           peer' = [peer EXCEPT ![s] = p], UNCHANGED <<strm, cfcw, aborted>>,
           strm[s].state = "freed" => p.sent = peer[s].sent,
           StreamInv(strm[s], p), Sent' <= cfcw.limit
    PROVE  FlowInv'
<1>1. \A r \in Stream : peer'[r] = IF r = s THEN p ELSE peer[r]
    BY DEF FlowInv, TypeOK
<1>2. TypeOK'
    BY DEF FlowInv, TypeOK
<1>3. \A r \in Stream : StreamInv(strm'[r], peer'[r])
    BY <1>1 DEF FlowInv
<1>4. \A r \in Stream : Received(r)' = Received(r) /\ Consumed(r)' = Consumed(r)
    BY <1>1 DEF Received, Consumed, Final
<1>5. FlowIsExact'
    BY <1>4, SumsUnchanged
<1> QED BY <1>2, <1>3, <1>5 DEF FlowInv

LEMMA PeerSendsStep ==
    ASSUME FlowInv, NEW s \in Stream, PeerSends(s)
    PROVE  FlowInv'
<1> DEFINE p == [peer[s] EXCEPT !.sent = @ + 1]
           e == [r \in Stream |-> peer[r].sent]
<1>1. /\ ~peer[s].fin /\ ~peer[s].rst /\ UNCHANGED <<strm, cfcw, aborted>>
      /\ Sent < cfcw.limit /\ peer[s].sent < Min({MaxOff, peer[s].limit})
    BY DEF PeerSends, Writing
<1>2. peer[s] \in Peer /\ strm[s] \in Strm /\ StreamInv(strm[s], peer[s])
      /\ cfcw.limit \in Nat
    BY DEF FlowInv, TypeOK, Cfcw
<1>3. peer[s].sent \in 0 .. MaxOff /\ peer[s].limit \in Nat /\ strm[s].recv_off \in Nat
      /\ strm[s].max_recv_off \in Nat
    BY <1>2, StreamFlowAssumption DEF Peer, Strm
<1>4. peer[s].sent + 1 <= MaxOff /\ peer[s].sent + 1 <= peer[s].limit
    <2> DEFINE m == Min({MaxOff, peer[s].limit})
    <2>1. m \in {MaxOff, peer[s].limit} /\ m <= MaxOff /\ m <= peer[s].limit
        BY <1>3, MinOfTwo, StreamFlowAssumption
    <2>2. peer[s].sent < m
        BY <1>1
    <2> HIDE DEF m
    <2> QED BY <1>3, <2>1, <2>2, StreamFlowAssumption
<1>5. peer' = [peer EXCEPT ![s] = p]
    BY DEF PeerSends, FlowInv, TypeOK
<1>6. p \in Peer /\ p.sent = peer[s].sent + 1 /\ p.limit = peer[s].limit
    BY <1>2, <1>3, <1>4, StreamFlowAssumption DEF Peer
<1> HIDE DEF p
<1>7. strm[s].state # "freed" /\ ~FinalKnown(strm[s])
    BY <1>1, <1>2 DEF StreamInv, LimitsAgree
<1>8. LimitsAgree(strm[s], p)
    BY <1>2, <1>3, <1>4, <1>6, <1>7 DEF StreamInv, LimitsAgree
<1>9. StreamInv(strm[s], p)
    BY <1>2, <1>7, <1>8 DEF StreamInv
<1>10. e \in [Stream -> Nat]
    BY SumTypes
<1>11. /\ e' \in [Stream -> Nat] /\ e'[s] = e[s] + 1
       /\ \A r \in Stream : r # s => e[r] = e'[r]
    <2>1. \A r \in Stream : peer'[r].sent = IF r = s THEN peer[s].sent + 1 ELSE peer[r].sent
        BY <1>5, <1>6 DEF FlowInv, TypeOK
    <2> QED BY <1>3, <1>10, <2>1, StreamFlowAssumption
<1>12. Sent = SumFunction(e) /\ Sent' = SumFunction(e')
    BY DEF Sent
<1> HIDE DEF e
<1>13. SumFunction(e') + e[s] = SumFunction(e) + e'[s]
    BY <1>10, <1>11, SumChange, StreamFlowAssumption
<1>14. SumFunction(e) \in Nat /\ SumFunction(e') \in Nat
    BY <1>10, <1>11, SumType, StreamFlowAssumption
<1>15. Sent' <= cfcw.limit
    BY <1>1, <1>2, <1>10, <1>11, <1>12, <1>13, <1>14
<1> QED BY <1>1, <1>5, <1>6, <1>7, <1>9, <1>15, PeerStep

LEMMA PeerSignalsStep ==
    ASSUME FlowInv, NEW s \in Stream, PeerFinishes(s) \/ PeerResets(s) \/ PeerStops(s)
    PROVE  FlowInv'
<1>1. \E p \in Peer :
        /\ peer' = [peer EXCEPT ![s] = p] /\ p.sent = peer[s].sent /\ p.limit = peer[s].limit
        /\ (peer[s].fin \/ peer[s].rst) => (p.fin \/ p.rst)
    <2>1. peer[s] \in Peer
        BY DEF FlowInv, TypeOK
    <2>2. CASE PeerFinishes(s)
        <3> DEFINE p == [peer[s] EXCEPT !.fin = TRUE]
        <3>1. p \in Peer /\ p.sent = peer[s].sent /\ p.limit = peer[s].limit /\ p.fin
            BY <2>1 DEF Peer
        <3>2. peer' = [peer EXCEPT ![s] = p]
            BY <2>2 DEF PeerFinishes, FlowInv, TypeOK
        <3> HIDE DEF p
        <3> QED BY <3>1, <3>2
    <2>3. CASE PeerResets(s)
        <3> DEFINE p == [peer[s] EXCEPT !.rst = TRUE]
        <3>1. p \in Peer /\ p.sent = peer[s].sent /\ p.limit = peer[s].limit /\ p.rst
            BY <2>1 DEF Peer
        <3>2. peer' = [peer EXCEPT ![s] = p]
            BY <2>3 DEF PeerResets, FlowInv, TypeOK
        <3> HIDE DEF p
        <3> QED BY <3>1, <3>2
    <2>4. CASE PeerStops(s)
        <3> DEFINE p == [peer[s] EXCEPT !.stop = TRUE]
        <3>1. p \in Peer /\ p.sent = peer[s].sent /\ p.limit = peer[s].limit
              /\ p.fin = peer[s].fin /\ p.rst = peer[s].rst
            BY <2>1 DEF Peer
        <3>2. peer' = [peer EXCEPT ![s] = p]
            BY <2>4 DEF PeerStops, FlowInv, TypeOK
        <3> HIDE DEF p
        <3> QED BY <3>1, <3>2
    <2> QED BY <2>2, <2>3, <2>4
<1>2. PICK p \in Peer :
        /\ peer' = [peer EXCEPT ![s] = p] /\ p.sent = peer[s].sent /\ p.limit = peer[s].limit
        /\ (peer[s].fin \/ peer[s].rst) => (p.fin \/ p.rst)
    BY <1>1
<1>3. UNCHANGED <<strm, cfcw, aborted>>
    BY DEF PeerFinishes, PeerResets, PeerStops
<1>4. StreamInv(strm[s], p)
    BY <1>2 DEF FlowInv, StreamInv, LimitsAgree
<1>5. [r \in Stream |-> peer[r].sent]' = [r \in Stream |-> peer[r].sent]
    BY <1>2 DEF FlowInv, TypeOK
<1>6. Sent' <= cfcw.limit
    BY <1>5 DEF Sent, FlowInv
<1> QED BY <1>2, <1>3, <1>4, <1>6, PeerStep

-----------------------------------------------------------------------------
LEMMA InitFlow ==
    ASSUME Init
    PROVE  FlowInv
<1>1. TypeOK
    <2>1. strm \in [Stream -> Strm]
        BY IdleType DEF Init
    <2>2. peer \in [Stream -> Peer]
        BY StreamFlowAssumption DEF Init, Peer
    <2>3. cfcw \in Cfcw /\ aborted \in BOOLEAN
        BY StreamFlowAssumption DEF Init, Cfcw
    <2> QED BY <2>1, <2>2, <2>3 DEF TypeOK
<1>2. /\ [r \in Stream |-> peer[r].sent] = [r \in Stream |-> 0]
      /\ [r \in Stream |-> Received(r)] = [r \in Stream |-> 0]
      /\ [r \in Stream |-> Consumed(r)] = [r \in Stream |-> 0]
    BY DEF Init, Received, Consumed, Idle, StreamNew
<1>3. Sent = 0 /\ SumFunction([r \in Stream |-> Received(r)]) = 0
      /\ SumFunction([r \in Stream |-> Consumed(r)]) = 0
    BY <1>2, SumZero, StreamFlowAssumption DEF Sent
<1>4. FlowIsExact
    BY <1>3 DEF Init, FlowIsExact, NeverAborted, ConnAccounts
<1>5. Sent <= cfcw.limit /\ cfcw.limit <= cfcw.recv_off
    BY <1>3, StreamFlowAssumption DEF Init
<1>6. ASSUME NEW s \in Stream PROVE StreamInv(strm[s], peer[s])
    <2>1. /\ Idle.state = "idle" /\ Idle.flags = {} /\ Idle.qflags = {} /\ Idle.data_in = "ok"
          /\ Idle.max_recv_off = 0 /\ Idle.recv_off = StreamWin
        BY DEF Idle, StreamNew
    <2>2. strm[s] = Idle /\ peer[s].sent = 0 /\ peer[s].limit = StreamWin
        BY DEF Init
    <2>3. FlagsAgree(Idle) /\ ~FinalKnown(Idle)
        BY <2>1 DEF FlagsAgree, FinalKnown
    <2>4. LimitsAgree(Idle, peer[s])
        BY <2>1, <2>2, <2>3, StreamFlowAssumption DEF LimitsAgree
    <2> QED BY <2>1, <2>2, <2>3, <2>4 DEF StreamInv
<1> QED BY <1>1, <1>4, <1>5, <1>6 DEF FlowInv

LEMMA NextFlow ==
    ASSUME FlowInv, "late_data" \notin Events, [Next]_vars
    PROVE  FlowInv'
<1>1. CASE UNCHANGED vars
    <2>1. peer' = peer /\ strm' = strm /\ cfcw' = cfcw /\ aborted' = aborted
        BY <1>1 DEF vars
    <2> QED BY <2>1 DEF FlowInv, TypeOK, FlowIsExact, NeverAborted, ConnAccounts, Received,
                        Consumed, Final, Sent
<1>2. CASE \E sent \in BOOLEAN : max_data(sent)
    BY <1>2, MaxDataStep
<1>3. ASSUME NEW s \in Stream,
             \/ PeerSends(s) \/ PeerFinishes(s) \/ PeerResets(s) \/ PeerStops(s)
             \/ Arrival(s) \/ Program(s) \/ Tick(s)
             \/ \E frame \in {"STREAM", "RST_STREAM"} : acked(s, frame)
      PROVE  FlowInv'
    <2>1. CASE PeerSends(s)
        BY <2>1, PeerSendsStep
    <2>2. CASE PeerFinishes(s) \/ PeerResets(s) \/ PeerStops(s)
        BY <2>2, PeerSignalsStep
    <2>3. CASE Arrival(s)
        BY <1>1, <2>3, FrameStep, RstStep, StopSendingStep DEF Arrival
    <2>4. CASE Program(s)
        BY <2>4, ReadStep, ShutdownStep DEF Program
    <2>5. CASE Tick(s)
        BY <2>5, WriteFinStep, MaxStreamDataStep, RstFrameStep, StopFrameStep, ServiceStep
           DEF Tick
    <2>6. CASE \E frame \in {"STREAM", "RST_STREAM"} : acked(s, frame)
        BY <2>6, AckedStep
    <2> QED BY <1>3, <2>1, <2>2, <2>3, <2>4, <2>5, <2>6
<1> QED BY <1>1, <1>2, <1>3 DEF Next

(* FlowInv is an invariant for any number of streams and any windows, as   *)
(* long as no STREAM frame arrives after the RESET_STREAM of its stream    *)
(* (the one order of arrival that lsquic_stream_frame_in() answers with an *)
(* error).                                                                 *)
THEOREM FlowInvariance ==
    ASSUME "late_data" \notin Events
    PROVE  Spec => []FlowInv
<1>1. Init => FlowInv
    BY InitFlow
<1>2. FlowInv /\ [Next]_vars => FlowInv'
    BY NextFlow
<1> QED BY <1>1, <1>2, PTL DEF Spec

(* Flow control is exact: nothing that an honest peer sends is refused by  *)
(* lsquic_sfcw_set_max_recv_off() or lsquic_cfcw_incr_max_recv_off(), and  *)
(* the connection's credit is the sum of its streams'.                     *)
THEOREM FlowControlIsExact ==
    ASSUME "late_data" \notin Events
    PROVE  Spec => []FlowIsExact
<1>1. FlowInv => FlowIsExact
    BY DEF FlowInv
<1> QED BY <1>1, FlowInvariance, PTL
=============================================================================

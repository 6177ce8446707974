---------------------------- MODULE Engine_proofs ----------------------------
(***************************************************************************)
(* Proofs about the engine, for any number of connections and CIDs: its    *)
(* types, its references and its pointers, its directory of connections,   *)
(* its output iterator and its destruction.                                *)
(*                                                                         *)
(* Reference flags, pointers and control are tied together: EngineInv says *)
(* how, and it is inductive.  Most actions touch one connection.  Same(x)  *)
(* says that a step leaves connection x alone, and the lemmas RefsFrame    *)
(* and ModeFrame reduce the invariant after a step to the connections that *)
(* the step touches.                                                       *)
(*                                                                         *)
(* DirectoryInv (who owns a CID, how many connections there are, whether   *)
(* the heaps have room for them) is inductive relative to EngineInv.       *)
(* Almost every step is steady: it keeps each connection's CIDs and kind,  *)
(* lets it go from open to closed but not back, and from hashed to not     *)
(* hashed but not back.  What is left are the steps that create            *)
(* connections and change CIDs.                                            *)
(***************************************************************************)
EXTENDS Engine, FiniteSetTheorems, TLAPS

-----------------------------------------------------------------------------
(***************************************************************************)
(* Type correctness                                                        *)
(***************************************************************************)

\* SetFlags, that is engine_incref_conn, engine_decref_conn and destroy_conn,
\* keeps the types of what it assigns.
LEMMA SetFlagsType ==
    ASSUME TypeOK, NEW c \in Conn, NEW fl \in SUBSET (RefFlag \cup ModeFlag),
           SetFlags(c, fl)
    PROVE  /\ live' \subseteq Conn
           /\ cn_flags' \in [Conn -> SUBSET (RefFlag \cup ModeFlag)]
           /\ cids' \in [Conn -> SUBSET CID]
           /\ n_conns' \in Int /\ mini_conns_count' \in Int
<1>0. MiniCount(fl) \in Int
  BY DEF MiniCount
<1>1. CASE Unreferenced(fl)
  <2>1. n_conns' \in Int /\ mini_conns_count' \in Int
    BY <1>0, <1>1 DEF TypeOK, SetFlags, destroy_conn
  <2>2. /\ live' \subseteq Conn
        /\ cn_flags' \in [Conn -> SUBSET (RefFlag \cup ModeFlag)]
        /\ cids' \in [Conn -> SUBSET CID]
    BY <1>1 DEF TypeOK, SetFlags, destroy_conn
  <2> QED
    BY <2>1, <2>2
<1>2. CASE ~Unreferenced(fl)
  BY <1>2 DEF TypeOK, SetFlags
<1> QED
  BY <1>1, <1>2

\* What maybe_grow_conn_heaps returns is a natural number.
LEMMA GrownAllocType ==
    ASSUME TypeOK
    PROVE  GrownAlloc \in Nat
BY EngineAssumption DEF TypeOK, GrownAlloc

\* send_batch gives back a finite number of packets.
LEMMA ReturnPacketsType ==
    ASSUME TypeOK, NEW k \in Nat, ReturnPackets(k)
    PROVE  /\ out' \in [Conn -> Nat]
           /\ coi_active' \subseteq Conn /\ coi_inactive' \subseteq Conn
           /\ batch' = <<>> /\ skip' = 0
<1> DEFINE S(c) == {i \in (k + 1)..Len(batch) : batch[i] = c}
<1>1. \A c \in Conn : Cardinality(S(c)) \in Nat
  <2> TAKE c \in Conn
  <2>1. IsFiniteSet((k + 1)..Len(batch))
    BY FS_Interval DEF TypeOK
  <2>2. IsFiniteSet(S(c))
    BY <2>1, FS_Subset
  <2> QED
    BY <2>2, FS_CardinalityType
<1>2. \A i \in (k + 1)..Len(batch) : batch[i] \in Conn
  BY DEF TypeOK
<1>3. out' \in [Conn -> Nat]
  <2>1. out' = [c \in Conn |-> out[c] + Cardinality(S(c))]
    BY DEF ReturnPackets
  <2> HIDE DEF S
  <2> QED
    BY <1>1, <2>1 DEF TypeOK
<1>4. NotSent(k) \subseteq Conn
  BY <1>2 DEF NotSent
<1> QED
  BY <1>3, <1>4 DEF TypeOK, ReturnPackets

\* Receiving packets keeps the types, ...
LEMMA TypeReceive == TypeOK /\ Receive => TypeOK'
<1> SUFFICES ASSUME TypeOK, Receive PROVE TypeOK'
  OBVIOUS
<1> USE DEF TypeOK, RefFlag, ModeFlag, queueVars, connVars, callVars, sendVars, countVars, rxVars, engVars
<1>1. ASSUME NEW d \in CID, NEW c \in Conn, create_mini_conn(d, c) PROVE TypeOK'
  BY <1>1, GrownAllocType DEF create_mini_conn, RxNext, EntriesFor
<1>2. ASSUME NEW d \in CID, NEW c \in Conn, packet_in(d, c) PROVE TypeOK'
  BY <1>2 DEF packet_in, RxNext
<1>3. ASSUME NEW d \in CID, NEW c \in Conn, NEW f \in Conn, packet_in_promote(d, c, f) PROVE TypeOK'
  <2>1. cn_flags' \in [Conn -> SUBSET (RefFlag \cup ModeFlag)]
    BY <1>3 DEF packet_in_promote
  <2>2. /\ conns_hash' \subseteq CID \X Conn
        /\ cids' \in [Conn -> SUBSET CID] /\ out' \in [Conn -> Nat]
    BY <1>3 DEF packet_in_promote, EntriesFor, HashEntries
  <2>3. n_conns' \in Int /\ nalloc' \in Nat
    BY <1>3, GrownAllocType DEF packet_in_promote
  <2>4. /\ live' \subseteq Conn /\ attq' \subseteq Conn
        /\ conns_tickable' \subseteq Conn
    BY <1>3 DEF packet_in_promote
  <2>5. dgram' \in SUBSET CID /\ curr_conn' \in Conn \cup {NoConn}
    BY <1>3 DEF packet_in_promote
  <2>6. UNCHANGED <<conns_out, callVars, sendVars, mini_conns_count, engVars>>
    BY <1>3 DEF packet_in_promote
  <2> QED
    BY <2>1, <2>2, <2>3, <2>4, <2>5, <2>6
<1>4. ASSUME NEW d \in CID, NEW c \in Conn, packet_in_promote_fail(d, c) PROVE TypeOK'
  BY <1>4, GrownAllocType DEF packet_in_promote_fail, RxNext
<1>5. CASE packet_in_end
  BY <1>5 DEF packet_in_end
<1> QED
  BY <1>1, <1>2, <1>3, <1>4, <1>5 DEF Receive

\* ... so do the calls of the user (lsquic_engine_connect, cooldown, ...), ...
LEMMA TypeUserCall == TypeOK /\ UserCall => TypeOK'
<1> SUFFICES ASSUME TypeOK, UserCall PROVE TypeOK'
  OBVIOUS
<1> USE DEF queueVars, connVars, callVars, sendVars, countVars, rxVars, engVars
<1>1. ASSUME NEW c \in Conn, NEW d \in CID, connect(c, d) PROVE TypeOK'
  BY <1>1, GrownAllocType DEF connect, EntriesFor, TypeOK, RefFlag
<1>2. CASE create_fail
  BY <1>2, GrownAllocType DEF create_fail, TypeOK
<1>3. ASSUME NEW c \in Conn, add_conn_to_tickable(c) PROVE TypeOK'
  BY <1>3 DEF add_conn_to_tickable, TypeOK, RefFlag
<1>4. ASSUME NEW c \in Conn, add_conn_to_attq(c) PROVE TypeOK'
  BY <1>4 DEF add_conn_to_attq, TypeOK, RefFlag
<1>5. ASSUME NEW c \in Conn, NEW d \in CID, add_cid(c, d) PROVE TypeOK'
  BY <1>5 DEF add_cid, TypeOK
<1>6. ASSUME NEW c \in Conn, NEW d \in CID, NEW e \in CID, retire_cid(c, d, e)
      PROVE  TypeOK'
  BY <1>6 DEF retire_cid, TypeOK
<1>7. CASE engine_cooldown
  BY <1>7 DEF engine_cooldown, TypeOK
<1>8. ASSUME NEW c \in Conn, drop_mini_conn(c) PROVE TypeOK'
  <2>1. cn_flags[c] \ {"HASHED"} \in SUBSET (RefFlag \cup ModeFlag)
    BY DEF TypeOK
  <2> QED
    BY <1>8, <2>1, SetFlagsType DEF drop_mini_conn, TypeOK
<1>9. CASE cooldown_done
  BY <1>9 DEF cooldown_done, TypeOK
<1> QED
  BY <1>1, <1>2, <1>3, <1>4, <1>5, <1>6, <1>7, <1>8, <1>9 DEF UserCall

\* ... process_connections, ...
LEMMA TypeProcess == TypeOK /\ Process => TypeOK'
<1> SUFFICES ASSUME TypeOK, Process PROVE TypeOK'
  OBVIOUS
<1> USE DEF queueVars, connVars, callVars, sendVars, countVars, rxVars, engVars
<1>0. \A c \in Conn : \A F \in SUBSET (RefFlag \cup ModeFlag) :
         cn_flags[c] \ F \in SUBSET (RefFlag \cup ModeFlag)
  BY DEF TypeOK
<1>1. CASE process_conns
  BY <1>1 DEF process_conns, TypeOK
<1>2. ASSUME NEW c \in Conn, attq_pop(c) PROVE TypeOK'
  <2>1. /\ cn_flags[c] \ {"ATTQ"} \in SUBSET (RefFlag \cup ModeFlag)
        /\ (cn_flags[c] \ {"ATTQ"}) \cup {"TICKABLE"}
                \in SUBSET (RefFlag \cup ModeFlag)
    BY DEF TypeOK, RefFlag
  <2> QED
    BY <1>2, <2>1, SetFlagsType DEF attq_pop, TypeOK
<1>3. CASE attq_done
  BY <1>3 DEF attq_done, TypeOK
<1>4. ASSUME NEW c \in Conn, iter_next_tickable(c) PROVE TypeOK'
  <2>1. cn_flags[c] \ {"TICKABLE", "ATTQ"} \in SUBSET (RefFlag \cup ModeFlag)
    BY DEF TypeOK
  <2> QED
    BY <1>4, <2>1, SetFlagsType DEF iter_next_tickable, LoopNull, TypeOK
<1>5. CASE iter_empty
  BY <1>5 DEF iter_empty, LoopNull, TypeOK
<1>6. ASSUME NEW c \in Conn, next_new_full_conn(c) PROVE TypeOK'
  BY <1>6 DEF next_new_full_conn, TypeOK
<1>7. ASSUME NEW c \in Conn, tick(c) PROVE TypeOK'
  BY <1>7, EngineAssumption
  DEF tick, TickSend, SendFlag, TickReturns, TypeOK, RefFlag
<1>8. ASSUME NEW c \in Conn, tick_close(c) PROVE TypeOK'
  <2>1. cn_flags' \in [Conn -> SUBSET (RefFlag \cup ModeFlag)]
    BY <1>8 DEF tick_close, SendFlag, TypeOK, RefFlag, ModeFlag
  <2>2. out' \in [Conn -> Nat] /\ conns_out' \subseteq Conn
    BY <1>8, EngineAssumption DEF tick_close, TickSend, TypeOK
  <2>3. conns_hash' \subseteq CID \X Conn /\ closed_conns' \subseteq Conn
    BY <1>8 DEF tick_close, HashEntries, TypeOK
  <2>4. nalloc' \in Nat
    BY <1>8, GrownAllocType DEF tick_close, TypeOK
  <2>5. UNCHANGED <<live, cids, conns_tickable, attq, ticked_conns,
                    new_full_conns, sendVars, n_conns, mini_conns_count,
                    rxVars, can_send, cooldown>>
    BY <1>8 DEF tick_close
  <2>6. pc' = "loop" /\ cur' = NoConn
    BY <1>8 DEF tick_close, TickReturns
  <2> QED
    BY <2>1, <2>2, <2>3, <2>4, <2>5, <2>6 DEF TypeOK
<1>9. ASSUME NEW c \in Conn, NEW f \in Conn, tick_promote(c, f) PROVE TypeOK'
  <2>1. cn_flags' \in [Conn -> SUBSET (RefFlag \cup ModeFlag)]
    <3> DEFINE fl(send) == (cn_flags[c] \cup SendFlag(send)
                              \cup {"HANDSHAKE_DONE", "PROMOTED", "CLOSING",
                                    "TICK_CLOSE"}) \ {"HASHED"}
    <3>1. \A send \in BOOLEAN : fl(send) \in SUBSET (RefFlag \cup ModeFlag)
      BY DEF SendFlag, TypeOK, RefFlag, ModeFlag
    <3>2. PICK send \in BOOLEAN :
             cn_flags' = [cn_flags EXCEPT ![c] = fl(send),
                              ![f] = {"HANDSHAKE_DONE", "HASHED"}]
      BY <1>9 DEF tick_promote
    <3> HIDE DEF fl
    <3> QED
      BY <3>1, <3>2 DEF TypeOK, RefFlag, ModeFlag
  <2>2. /\ conns_hash' \subseteq CID \X Conn
        /\ cids' \in [Conn -> SUBSET CID]
    BY <1>9 DEF tick_promote, EntriesFor, HashEntries, TypeOK
  <2>3. out' \in [Conn -> Nat] /\ conns_out' \subseteq Conn
    <3>1. PICK n \in 0..MaxOut : out' = [out EXCEPT ![c] = n, ![f] = 0]
      BY <1>9 DEF tick_promote
    <3>2. conns_out' = conns_out \/ conns_out' = conns_out \cup {c}
      BY <1>9 DEF tick_promote
    <3> QED
      BY <3>1, <3>2, EngineAssumption DEF TypeOK
  <2>4. n_conns' \in Int /\ nalloc' \in Nat
    BY <1>9, GrownAllocType DEF tick_promote, TypeOK
  <2> QED
    BY <2>1, <2>2, <2>3, <2>4, <1>9 DEF tick_promote, TickReturns, TypeOK
<1>10. CASE flush
  BY <1>10 DEF flush, TypeOK
<1>11. ASSUME NEW c \in Conn, close_closed(c) PROVE TypeOK'
  <2>1. cn_flags[c] \ {"CLOSING"} \in SUBSET (RefFlag \cup ModeFlag)
    BY DEF TypeOK
  <2> QED
    BY <1>11, <2>1, SetFlagsType DEF close_closed, TypeOK
<1>12. CASE close_done
  BY <1>12 DEF close_done, TypeOK
<1>13. ASSUME NEW c \in Conn, requeue_ticked(c) PROVE TypeOK'
  <2>1. \A x \in {{}, {"TICKABLE"}, {"ATTQ"}} :
           (cn_flags[c] \ {"TICKED"}) \cup x \in SUBSET (RefFlag \cup ModeFlag)
    BY DEF TypeOK, RefFlag
  <2> QED
    BY <1>13, <2>1, SetFlagsType DEF requeue_ticked, TypeOK
<1>14. CASE ticked_done
  BY <1>14 DEF ticked_done, TypeOK
<1> QED
  BY <1>1, <1>2, <1>3, <1>4, <1>5, <1>6, <1>7, <1>8, <1>9, <1>10, <1>11,
     <1>12, <1>13, <1>14 DEF Process

\* ... send_packets_out and send_batch, ...
LEMMA TypeSend == TypeOK /\ Send => TypeOK'
<1> SUFFICES ASSUME TypeOK, Send PROVE TypeOK'
  OBVIOUS
<1> USE DEF queueVars, connVars, callVars, sendVars, countVars, rxVars, engVars
<1>0. ASSUME NEW c \in Conn, CloseImmediately(c)
      PROVE  /\ cn_flags' \in [Conn -> SUBSET (RefFlag \cup ModeFlag)]
             /\ closed_conns' \subseteq Conn /\ ticked_conns' \subseteq Conn
             /\ conns_hash' \subseteq CID \X Conn
  BY <1>0 DEF CloseImmediately, TypeOK, RefFlag, ModeFlag
<1>1. CASE send_unsent_packets
  BY <1>1 DEF send_unsent_packets, TypeOK, RefFlag
<1>2. ASSUME NEW c \in Conn, coi_deactivate(c) PROVE TypeOK'
  BY <1>2 DEF coi_deactivate, CoiNext, TypeOK
<1>3. ASSUME NEW c \in Conn, batch_packet(c) PROVE TypeOK'
  <2>1. batch' \in Seq(Conn) /\ Len(batch') = Len(batch) + 1
    BY <1>3 DEF batch_packet, TypeOK
  <2>2. out' \in [Conn -> Nat]
    BY <1>3 DEF batch_packet, TypeOK
  <2>3. Len(batch) < BatchSize /\ Len(batch) \in Nat
    BY <1>3 DEF batch_packet, CoiNext, TypeOK
  <2>4. Len(batch') <= BatchSize /\ skip <= Len(batch')
    BY <2>1, <2>3, EngineAssumption DEF TypeOK
  <2>5. conns_out' \subseteq Conn /\ coi_active' \subseteq Conn
    BY <1>3 DEF batch_packet, CoiNext, TypeOK
  <2>6. UNCHANGED <<live, cn_flags, cids, conns_hash, conns_tickable, attq,
                    callVars, coi_inactive, skip, stop, countVars, rxVars,
                    engVars>>
    BY <1>3 DEF batch_packet
  <2> QED
    BY <2>1, <2>2, <2>4, <2>5, <2>6 DEF TypeOK
<1>4. ASSUME NEW c \in Conn, batch_nomem(c) PROVE TypeOK'
  BY <1>4 DEF batch_nomem, CoiNext, TypeOK
<1>5. ASSUME NEW c \in Conn, batch_badcrypt(c) PROVE TypeOK'
  BY <1>5, <1>0 DEF batch_badcrypt, CoiNext, TypeOK
<1>6. CASE coi_end
  BY <1>6 DEF coi_end, TypeOK
<1>7. ASSUME NEW k \in Nat, ReturnPackets(k)
      PROVE  /\ out' \in [Conn -> Nat]
             /\ coi_active' \subseteq Conn /\ coi_inactive' \subseteq Conn
             /\ batch' \in Seq(Conn) /\ Len(batch') <= BatchSize
             /\ skip' \in Nat /\ skip' <= Len(batch')
  <2>1. /\ out' \in [Conn -> Nat]
        /\ coi_active' \subseteq Conn /\ coi_inactive' \subseteq Conn
        /\ batch' = <<>> /\ skip' = 0
    BY <1>7, ReturnPacketsType
  <2>2. BatchSize \in Nat
    BY EngineAssumption
  <2> QED
    BY <2>1, <2>2
<1>8. CASE send_batch_all
  <2>1. Len(batch) \in Nat /\ ReturnPackets(Len(batch))
    BY <1>8 DEF send_batch_all, TypeOK
  <2>2. UNCHANGED <<live, cn_flags, cids, queueVars, callVars, countVars,
                    rxVars, engVars>>
    BY <1>8 DEF send_batch_all
  <2>4. stop' \in BOOLEAN
    BY <1>8 DEF send_batch_all, TypeOK
  <2>3. /\ out' \in [Conn -> Nat]
        /\ coi_active' \subseteq Conn /\ coi_inactive' \subseteq Conn
        /\ batch' \in Seq(Conn) /\ Len(batch') <= BatchSize
        /\ skip' \in Nat /\ skip' <= Len(batch')
    BY <1>7, <2>1
  <2> QED
    BY <2>2, <2>3, <2>4 DEF TypeOK
<1>9. CASE send_batch_eagain
  <2> PICK k \in skip..(Len(batch) - 1) : ReturnPackets(k)
    BY <1>9 DEF send_batch_eagain
  <2>1. k \in Nat
    BY DEF TypeOK
  <2>2. /\ stop' = TRUE /\ can_send' = FALSE
        /\ UNCHANGED <<live, cn_flags, cids, queueVars, callVars, countVars,
                       rxVars, cooldown, pc>>
    BY <1>9 DEF send_batch_eagain
  <2>3. /\ out' \in [Conn -> Nat]
        /\ coi_active' \subseteq Conn /\ coi_inactive' \subseteq Conn
        /\ batch' \in Seq(Conn) /\ Len(batch') <= BatchSize
        /\ skip' \in Nat /\ skip' <= Len(batch')
    BY <1>7, <2>1
  <2> QED
    BY <2>2, <2>3 DEF TypeOK
<1>10. CASE send_batch_error
  <2> PICK k \in skip..(Len(batch) - 1) :
         ReturnPackets(k) /\ CloseImmediately(batch[ErrorIndex(k)])
    BY <1>10 DEF send_batch_error
  <2>1. k \in Nat /\ batch[ErrorIndex(k)] \in Conn
    BY DEF ErrorIndex, TypeOK
  <2>2. /\ stop' = TRUE /\ can_send' = FALSE
        /\ UNCHANGED <<live, cids, conns_tickable, conns_out, attq,
                       new_full_conns, cur, countVars, rxVars, cooldown, pc>>
    BY <1>10 DEF send_batch_error
  <2>3. /\ out' \in [Conn -> Nat]
        /\ coi_active' \subseteq Conn /\ coi_inactive' \subseteq Conn
        /\ batch' \in Seq(Conn) /\ Len(batch') <= BatchSize
        /\ skip' \in Nat /\ skip' <= Len(batch')
    BY <1>7, <2>1
  <2>4. /\ cn_flags' \in [Conn -> SUBSET (RefFlag \cup ModeFlag)]
        /\ closed_conns' \subseteq Conn /\ ticked_conns' \subseteq Conn
        /\ conns_hash' \subseteq CID \X Conn
    BY <1>0, <2>1
  <2> QED
    BY <2>2, <2>3, <2>4 DEF TypeOK
<1>11. CASE send_batch_too_large
  <2> PICK k \in skip..(Len(batch) - 1) :
         IF k + 1 < Len(batch)
            THEN /\ skip' = k + 1
                 /\ UNCHANGED <<out, coi_active, coi_inactive, batch, stop>>
            ELSE ReturnPackets(Len(batch)) /\ stop' \in {stop, TRUE}
    BY <1>11 DEF send_batch_too_large
  <2>1. k \in Nat /\ Len(batch) \in Nat
    BY DEF TypeOK
  <2>2. CASE k + 1 < Len(batch)
    <3>1. skip' \in Nat /\ skip' <= Len(batch)
      BY <2>1, <2>2
    <3>2. UNCHANGED <<connVars, coi_active, coi_inactive, batch, stop,
                      queueVars, callVars, countVars, rxVars, engVars>>
      BY <1>11, <2>2 DEF send_batch_too_large
    <3> QED
      BY <3>1, <3>2 DEF TypeOK
  <2>3. CASE ~(k + 1 < Len(batch))
    <3>1. UNCHANGED <<live, cn_flags, cids, queueVars, callVars, countVars,
                      rxVars, engVars>>
      BY <1>11 DEF send_batch_too_large
    <3>2. ReturnPackets(Len(batch)) /\ stop' \in {stop, TRUE}
      BY <2>3
    <3>3. /\ out' \in [Conn -> Nat]
          /\ coi_active' \subseteq Conn /\ coi_inactive' \subseteq Conn
          /\ batch' \in Seq(Conn) /\ Len(batch') <= BatchSize
          /\ skip' \in Nat /\ skip' <= Len(batch')
      BY <1>7, <2>1, <3>2
    <3>4. stop' \in BOOLEAN
      BY <3>2 DEF TypeOK
    <3> QED
      BY <3>1, <3>3, <3>4 DEF TypeOK
  <2> QED
    BY <2>2, <2>3
<1>12. CASE send_batch_emsgsize
  <2> PICK k \in skip..(Len(batch) - 1) :
         ReturnPackets(k) /\ CloseImmediately(batch[k + 1])
    BY <1>12 DEF send_batch_emsgsize
  <2>1. k \in Nat /\ batch[k + 1] \in Conn
    BY DEF TypeOK
  <2>2. /\ stop' = TRUE
        /\ UNCHANGED <<live, cids, conns_tickable, conns_out, attq,
                       new_full_conns, cur, countVars, rxVars, engVars>>
    BY <1>12 DEF send_batch_emsgsize
  <2>3. /\ out' \in [Conn -> Nat]
        /\ coi_active' \subseteq Conn /\ coi_inactive' \subseteq Conn
        /\ batch' \in Seq(Conn) /\ Len(batch') <= BatchSize
        /\ skip' \in Nat /\ skip' <= Len(batch')
    BY <1>7, <2>1
  <2>4. /\ cn_flags' \in [Conn -> SUBSET (RefFlag \cup ModeFlag)]
        /\ closed_conns' \subseteq Conn /\ ticked_conns' \subseteq Conn
        /\ conns_hash' \subseteq CID \X Conn
    BY <1>0, <2>1
  <2> QED
    BY <2>2, <2>3, <2>4 DEF TypeOK
<1>13. \A c \in Conn :
          cn_flags[c] \ {"HAS_OUTGOING"} \in SUBSET (RefFlag \cup ModeFlag)
  BY DEF TypeOK
<1>14. ASSUME NEW c \in Conn, reheap_active(c) PROVE TypeOK'
  BY <1>14, <1>13, SetFlagsType DEF reheap_active, TypeOK
<1>15. ASSUME NEW c \in Conn, reheap_inactive(c) PROVE TypeOK'
  BY <1>15, <1>13, SetFlagsType DEF reheap_inactive, TypeOK
<1>16. CASE send_done
  BY <1>16 DEF send_done, TypeOK
<1> QED
  BY <1>1, <1>2, <1>3, <1>4, <1>5, <1>6, <1>8, <1>9, <1>10, <1>11, <1>12,
     <1>14, <1>15, <1>16 DEF Send

\* ... and lsquic_engine_destroy.
LEMMA TypeDestroy == TypeOK /\ Destroy => TypeOK'
<1> SUFFICES ASSUME TypeOK, Destroy PROVE TypeOK'
  OBVIOUS
<1> USE DEF queueVars, connVars, callVars, sendVars, countVars, rxVars, engVars
<1>1. CASE engine_destroy
  BY <1>1 DEF engine_destroy, TypeOK
<1>2. \A c \in Conn :
        /\ cn_flags[c] \ {"HAS_OUTGOING"} \in SUBSET (RefFlag \cup ModeFlag)
        /\ cn_flags[c] \ {"TICKABLE"} \in SUBSET (RefFlag \cup ModeFlag)
        /\ cn_flags[c] \ {"ATTQ", "HASHED"} \in SUBSET (RefFlag \cup ModeFlag)
        /\ cn_flags[c] \ {"ATTQ"} \in SUBSET (RefFlag \cup ModeFlag)
  BY DEF TypeOK
<1>3. ASSUME NEW c \in Conn, dtor_out(c) PROVE TypeOK'
  BY <1>3, <1>2, SetFlagsType DEF dtor_out, TypeOK
<1>4. ASSUME NEW c \in Conn, dtor_tickable(c) PROVE TypeOK'
  BY <1>4, <1>2, SetFlagsType DEF dtor_tickable, TypeOK
<1>5. ASSUME NEW c \in Conn, force_close_conn(c) PROVE TypeOK'
  BY <1>5, <1>2, SetFlagsType DEF force_close_conn, TypeOK
<1>6. ASSUME NEW c \in Conn, dtor_attq(c) PROVE TypeOK'
  BY <1>6, <1>2, SetFlagsType DEF dtor_attq, TypeOK
<1>7. CASE dtor_next
  BY <1>7 DEF dtor_next, TypeOK
<1> QED
  BY <1>1, <1>3, <1>4, <1>5, <1>6, <1>7 DEF Destroy

\* The types hold when the engine is created.
LEMMA TypeInit == Init => TypeOK
<1> SUFFICES ASSUME Init PROVE TypeOK
  OBVIOUS
<1>1. /\ batch \in Seq(Conn) /\ Len(batch) <= BatchSize
      /\ skip \in Nat /\ skip <= Len(batch)
  <2>1. batch = <<>> /\ skip = 0
    BY DEF Init
  <2>2. BatchSize \in Nat
    BY EngineAssumption
  <2> QED
    BY <2>1, <2>2
<1>2. /\ cn_flags \in [Conn -> SUBSET (RefFlag \cup ModeFlag)]
      /\ cids \in [Conn -> SUBSET CID]
      /\ out \in [Conn -> Nat]
  BY DEF Init
<1>3. stop \in BOOLEAN /\ can_send \in BOOLEAN /\ cooldown \in BOOLEAN
  BY DEF Init
<1>4. /\ n_conns \in Int /\ mini_conns_count \in Int /\ nalloc \in Nat
      /\ conns_hash \subseteq CID \X Conn
  BY DEF Init
<1>5. /\ live \subseteq Conn
      /\ conns_tickable \subseteq Conn
      /\ conns_out \subseteq Conn
      /\ attq \subseteq Conn
      /\ closed_conns \subseteq Conn
      /\ ticked_conns \subseteq Conn
      /\ new_full_conns \subseteq Conn
      /\ coi_active \subseteq Conn /\ coi_inactive \subseteq Conn
  BY DEF Init
<1>6. /\ cur \in Conn \cup {NoConn} /\ curr_conn \in Conn \cup {NoConn}
      /\ dgram \in SUBSET CID /\ pc = "idle"
  BY DEF Init
<1> QED
  BY <1>1, <1>2, <1>3, <1>4, <1>5, <1>6 DEF TypeOK

\* Every step keeps them.
LEMMA TypeNext == TypeOK /\ [Next]_vars => TypeOK'
<1> SUFFICES ASSUME TypeOK, [Next]_vars PROVE TypeOK'
  OBVIOUS
<1>1. CASE UNCHANGED vars
  BY <1>1 DEF vars, queueVars, connVars, callVars, sendVars, countVars,
              rxVars, engVars, TypeOK
<1> QED
  BY <1>1, TypeReceive, TypeUserCall, TypeProcess, TypeSend, TypeDestroy
  DEF Next

\* Every reachable state of the engine is well typed; in particular the output
\* batch never outgrows batch_size and skip never passes its end.
THEOREM TypeCorrect == Spec => []TypeOK
BY TypeInit, TypeNext, PTL DEF Spec

-----------------------------------------------------------------------------
(***************************************************************************)
(* References and pointers                                                 *)
(***************************************************************************)

\* A step leaves connection x alone.
Same(x) ==
    /\ cn_flags'[x] = cn_flags[x]
    /\ cids'[x] = cids[x]
    /\ x \in live' <=> x \in live
    /\ HashEntries(x)' = HashEntries(x)
    /\ x \in conns_tickable' <=> x \in conns_tickable
    /\ x \in attq' <=> x \in attq
    /\ x \in closed_conns' <=> x \in closed_conns
    /\ x \in ticked_conns' <=> x \in ticked_conns
    /\ HasOut(x)' <=> HasOut(x)
    /\ x \in conns_out' => x \in conns_out

\* Unreferenced, flag by flag.
LEMMA UnreferencedFlags ==
    \A fl : Unreferenced(fl) <=>
        /\ "HASHED" \notin fl /\ "HAS_OUTGOING" \notin fl
        /\ "TICKABLE" \notin fl /\ "TICKED" \notin fl
        /\ "CLOSING" \notin fl /\ "ATTQ" \notin fl
BY DEF Unreferenced, RefFlag

\* The properties that are about one connection at a time.
LEMMA InvOf ==
    EngineInv => RefsMatch /\ LiveIffReferenced /\ TickedIsHashed
<1> SUFFICES ASSUME EngineInv PROVE RefsMatch /\ LiveIffReferenced /\ TickedIsHashed
  OBVIOUS
<1>1. RefsMatch
  BY DEF EngineInv, RefsMatch, RefsOf, HasOut
<1>2. LiveIffReferenced
  BY DEF EngineInv, LiveIffReferenced, RefsOf
<1>3. TickedIsHashed
  BY DEF EngineInv, TickedIsHashed, ModeOf
<1> QED
  BY <1>1, <1>2, <1>3

\* A connection that a step leaves alone keeps its references, ...
LEMMA RefsFrame ==
    ASSUME NEW x, RefsOf(x), Same(x)
    PROVE  RefsOf(x)'
BY DEF RefsOf, Same

\* ... and its mode, if control stays where it is.
LEMMA ModeFrame ==
    ASSUME NEW x, ModeOf(x), Same(x), pc' = pc, cooldown' = cooldown
    PROVE  ModeOf(x)'
BY DEF ModeOf, Same, Ticking

\* engine_decref_conn destroys the connection or leaves it with the flags fl,
\* and touches no other connection.
LEMMA SetFlagsEffect ==
    ASSUME TypeOK, NEW c \in Conn, NEW fl, SetFlags(c, fl)
    PROVE  /\ \A x \in Conn \ {c} : /\ cn_flags'[x] = cn_flags[x]
                                    /\ cids'[x] = cids[x]
                                    /\ x \in live' <=> x \in live
           /\ Unreferenced(fl) => c \notin live' /\ cn_flags'[c] = {}
           /\ ~Unreferenced(fl) => /\ c \in live' <=> c \in live
                                   /\ cn_flags'[c] = fl
                                   /\ cids'[c] = cids[c]
<1>1. CASE Unreferenced(fl)
  BY <1>1 DEF SetFlags, destroy_conn, TypeOK
<1>2. CASE ~Unreferenced(fl)
  BY <1>2 DEF SetFlags, TypeOK
<1> QED
  BY <1>1, <1>2

\* What changes of the hash mean for the entries of each connection.
LEMMA HashSame ==
    ASSUME UNCHANGED conns_hash
    PROVE  \A x : HashEntries(x)' = HashEntries(x)
BY DEF HashEntries

\* remove_cces_from_hash
LEMMA HashRemove ==
    ASSUME NEW c, conns_hash' = conns_hash \ HashEntries(c)
    PROVE  /\ HashEntries(c)' = {}
           /\ \A x : x # c => HashEntries(x)' = HashEntries(x)
BY DEF HashEntries

\* insert_conn_into_hash
LEMMA HashAdd ==
    ASSUME NEW c \in Conn, NEW D \in SUBSET CID, NEW d \in D,
           HashEntries(c) = {},
           conns_hash' = conns_hash \cup EntriesFor(c, D)
    PROVE  /\ HashEntries(c)' # {} /\ \A e \in HashEntries(c)' : e[1] \in D
           /\ \A x : x # c => HashEntries(x)' = HashEntries(x)
<1>1. <<d, c>> \in HashEntries(c)'
  BY DEF HashEntries, EntriesFor
<1>2. ASSUME NEW x, x # c PROVE HashEntries(x)' = HashEntries(x)
  BY <1>2 DEF HashEntries, EntriesFor
<1>3. ASSUME NEW e \in HashEntries(c)' PROVE e[1] \in D
  BY DEF HashEntries, EntriesFor
<1> QED
  BY <1>1, <1>2, <1>3

\* Promotion: the entries of connection c become entries of connection f.
LEMMA HashPromote ==
    ASSUME NEW c \in Conn, NEW f \in Conn, c # f, HashEntries(f) = {},
           NEW D \in SUBSET CID, D # {},
           conns_hash' = (conns_hash \cup EntriesFor(f, D)) \ HashEntries(c)
    PROVE  /\ HashEntries(c)' = {}
           /\ HashEntries(f)' # {} /\ \A e \in HashEntries(f)' : e[1] \in D
           /\ \A x : x # c /\ x # f => HashEntries(x)' = HashEntries(x)
<1> PICK d \in D : TRUE
  OBVIOUS
<1>1. <<d, f>> \in HashEntries(f)'
  BY DEF HashEntries, EntriesFor
<1>2. ASSUME NEW x, x # c, x # f PROVE HashEntries(x)' = HashEntries(x)
  BY <1>2 DEF HashEntries, EntriesFor
<1>3. HashEntries(c)' = {}
  BY DEF HashEntries, EntriesFor
<1>4. ASSUME NEW e \in HashEntries(f)' PROVE e[1] \in D
  BY DEF HashEntries, EntriesFor
<1> QED
  BY <1>1, <1>2, <1>3, <1>4

\* close_conn_immediately takes the connection out of the hash and off the
\* ticked queue, whether or not it was being closed.
LEMMA CloseEffect ==
    ASSUME EngineInv, NEW c \in Conn, CloseImmediately(c)
    PROVE  /\ \A x \in Conn \ {c} : cn_flags'[x] = cn_flags[x]
           /\ cn_flags'[c] = (cn_flags[c] \cup {"IMMED_CLOSE", "CLOSING"})
                                 \ {"TICKED", "HASHED"}
           /\ HashEntries(c)' = {}
           /\ \A x : x # c => HashEntries(x)' = HashEntries(x)
           /\ closed_conns' = closed_conns \cup {c}
           /\ ticked_conns' = ticked_conns \ {c}
<1> USE DEF EngineInv
<1>1. CASE "CLOSING" \in cn_flags[c]
  <2>1. "HASHED" \notin cn_flags[c] /\ HashEntries(c) = {}
    BY <1>1 DEF ModeOf, RefsOf
  <2>2. /\ cn_flags' = [cn_flags EXCEPT ![c] =
                (@ \cup {"IMMED_CLOSE", "CLOSING"}) \ {"TICKED"}]
        /\ UNCHANGED conns_hash
        /\ closed_conns' = closed_conns \cup {c}
        /\ ticked_conns' = ticked_conns \ {c}
    BY <1>1 DEF CloseImmediately
  <2>3. \A x : HashEntries(x)' = HashEntries(x)
    BY <2>2, HashSame
  <2>4. /\ \A x \in Conn \ {c} : cn_flags'[x] = cn_flags[x]
        /\ cn_flags'[c] = (cn_flags[c] \cup {"IMMED_CLOSE", "CLOSING"})
                              \ {"TICKED"}
    BY <2>2 DEF TypeOK
  <2>5. cn_flags'[c] = (cn_flags[c] \cup {"IMMED_CLOSE", "CLOSING"})
                           \ {"TICKED", "HASHED"}
    BY <2>1, <2>4
  <2> QED
    BY <2>1, <2>2, <2>3, <2>4, <2>5
<1>2. CASE "CLOSING" \notin cn_flags[c]
  <2>1. /\ cn_flags' = [cn_flags EXCEPT ![c] =
                (@ \cup {"IMMED_CLOSE", "CLOSING"}) \ {"TICKED", "HASHED"}]
        /\ conns_hash' = conns_hash \ HashEntries(c)
        /\ closed_conns' = closed_conns \cup {c}
        /\ ticked_conns' = ticked_conns \ {c}
    BY <1>2 DEF CloseImmediately
  <2>2. /\ \A x \in Conn \ {c} : cn_flags'[x] = cn_flags[x]
        /\ cn_flags'[c] = (cn_flags[c] \cup {"IMMED_CLOSE", "CLOSING"})
                              \ {"TICKED", "HASHED"}
    BY <2>1 DEF TypeOK
  <2> QED
    BY <2>1, <2>2, HashRemove
<1> QED
  BY <1>1, <1>2

\* Giving packets back moves connections from one list of the iterator to the
\* other.
LEMMA ReturnEffect ==
    ASSUME EngineInv, NEW k \in Nat, ReturnPackets(k)
    PROVE  /\ \A x : x \in coi_active' \cup coi_inactive'
                         <=> x \in coi_active \cup coi_inactive
           /\ coi_active' \cap coi_inactive' = {}
           /\ batch' = <<>>
<1>1. NotSent(k) \subseteq coi_active \cup coi_inactive
  BY DEF EngineInv, IteratorInv, TypeOK, NotSent
<1>2. /\ coi_active' = coi_active \cup NotSent(k)
      /\ coi_inactive' = coi_inactive \ NotSent(k)
      /\ batch' = <<>>
  BY DEF ReturnPackets
<1>3. coi_active \cap coi_inactive = {}
  BY DEF EngineInv, IteratorInv
<1> QED
  BY <1>1, <1>2, <1>3

\* ... the receipt of packets, unless memory for a hash entry runs out, ...
LEMMA InvReceive ==
    ASSUME "hash_failure" \notin Events, EngineInv, TypeOK', Receive
    PROVE  EngineInv'
<1> USE DEF EngineInv, connVars, queueVars, callVars, sendVars, countVars,
            rxVars, engVars
<1>1. ASSUME NEW d \in CID, NEW c \in Conn, create_mini_conn(d, c)
      PROVE  EngineInv'
  <2>1. /\ pc = "idle" /\ dgram = {}
        /\ c \notin live /\ live' = live \cup {c}
        /\ conns_tickable' = conns_tickable \cup {c}
        /\ UNCHANGED <<conns_out, attq, callVars, sendVars, cooldown, pc>>
    BY <1>1 DEF create_mini_conn, Idle
  <2>2. PICK s \in CID :
           /\ cids' = [cids EXCEPT ![c] = {d, s}]
           /\ conns_hash' = conns_hash \cup EntriesFor(c, {d, s})
    BY <1>1 DEF create_mini_conn
  <2>3. cn_flags' = [cn_flags EXCEPT ![c] = {"MINI", "HASHED", "TICKABLE"}]
    BY <1>1 DEF create_mini_conn
  <2>4. /\ \A x \in Conn \ {c} : /\ cn_flags'[x] = cn_flags[x]
                                 /\ cids'[x] = cids[x]
                                 /\ x \in live' <=> x \in live
        /\ cn_flags'[c] = {"MINI", "HASHED", "TICKABLE"}
        /\ cids'[c] = {d, s}
    BY <2>1, <2>2, <2>3 DEF TypeOK
  <2>5. /\ HashEntries(c)' # {} /\ \A e \in HashEntries(c)' : e[1] \in {d, s}
        /\ \A x : x # c => HashEntries(x)' = HashEntries(x)
    BY <2>1, <2>2, HashAdd DEF RefsOf
  <2>6. \/ dgram' = {} /\ curr_conn' = NoConn
        \/ dgram' # {} /\ curr_conn' \in {c, curr_conn}
    BY <1>1 DEF create_mini_conn, RxNext
  <2>7. \A x \in Conn \ {c} : Same(x)
    BY <2>1, <2>4, <2>5 DEF Same, HasOut
  <2>8. RefsOf(c)'
    BY <2>1, <2>2, <2>3, <2>4, <2>5, <2>6, UnreferencedFlags
    DEF RefsOf, HasOut
  <2>9. ModeOf(c)'
    BY <2>1, <2>2, <2>3, <2>4, <2>5, <2>6, UnreferencedFlags
    DEF ModeOf, Ticking
  <2>10. IteratorInv'
    BY <2>1, <2>2, <2>3, <2>4, <2>5, <2>6 DEF IteratorInv
  <2>11. PointerInv'
    BY <2>1, <2>2, <2>3, <2>4, <2>5, <2>6
    DEF PointerInv, Ticking, RefsOf, TypeOK
  <2>12. CooldownInv'
    BY <2>1, <2>2, <2>3, <2>4, <2>5, <2>6 DEF CooldownInv
  <2> QED
    BY <2>1, <2>7, <2>8, <2>9, <2>10, <2>11, <2>12, RefsFrame, ModeFrame
<1>2. ASSUME NEW d \in CID, NEW c \in Conn, packet_in(d, c)
      PROVE  EngineInv'
  <2>1. /\ pc = "idle" /\ conns_tickable' = conns_tickable \cup {c}
        /\ UNCHANGED <<live, cids, conns_hash, conns_out, attq, callVars, sendVars,
                       cooldown, pc>>
    BY <1>2 DEF packet_in, RxPacket
  <2>2. c \in live
    BY <1>2 DEF packet_in, HashEntries, RefsOf
  <2>3. /\ \A x \in Conn \ {c} : cn_flags'[x] = cn_flags[x]
        /\ cn_flags'[c] = cn_flags[c] \cup {"TICKABLE"}
    BY <1>2 DEF packet_in, TypeOK
  <2>4. \/ dgram' = {} /\ curr_conn' = NoConn
        \/ dgram' # {} /\ curr_conn' \in {c, curr_conn}
    BY <1>2 DEF packet_in, RxNext
  <2>5. \A x \in Conn \ {c} : Same(x)
    BY <2>1, <2>2, <2>3, <2>4, HashSame DEF Same, HasOut, TypeOK
  <2>6. RefsOf(c)'
    BY <2>1, <2>2, <2>3, <2>4, UnreferencedFlags, HashSame DEF RefsOf, HasOut
  <2>7. ModeOf(c)'
    BY <2>1, <2>2, <2>3, <2>4, UnreferencedFlags DEF ModeOf, Ticking
  <2>8. IteratorInv'
    BY <2>1, <2>2, <2>3, <2>4 DEF IteratorInv
  <2>9. PointerInv'
    BY <2>1, <2>2, <2>3, <2>4 DEF PointerInv, Ticking, TypeOK
  <2>10. CooldownInv'
    BY <2>1, <2>2, <2>3, <2>4 DEF CooldownInv
  <2> QED
    BY <2>1, <2>5, <2>6, <2>7, <2>8, <2>9, <2>10, RefsFrame, ModeFrame
<1>3. ASSUME NEW d \in CID, NEW c \in Conn, NEW f \in Conn, packet_in_promote(d, c, f)
      PROVE  EngineInv'
  <2>1. /\ pc = "idle" /\ f \notin live /\ live' = live \cup {f}
        /\ "MINI" \in cn_flags[c]
        /\ conns_hash' = (conns_hash \cup EntriesFor(f, cids[c])) \ HashEntries(c)
        /\ attq' = attq \ {c} /\ conns_tickable' = conns_tickable \cup {c, f}
        /\ UNCHANGED <<conns_out, callVars, sendVars, cooldown, pc>>
    BY <1>3 DEF packet_in_promote, RxPacket
  <2>2. c \in live
    BY <1>3 DEF packet_in_promote, HashEntries, RefsOf
  <2>3. c # f /\ cids[c] \in SUBSET CID /\ cids[c] # {} /\ HashEntries(f) = {}
    BY <2>1, <2>2 DEF RefsOf, TypeOK
  <2>4. /\ \A x \in Conn \ {c, f} : cn_flags'[x] = cn_flags[x]
        /\ cn_flags'[c] = (cn_flags[c] \cup {"HANDSHAKE_DONE", "PROMOTED", "TICKABLE"})
                              \ {"ATTQ", "HASHED"}
        /\ cn_flags'[f] = {"HANDSHAKE_DONE", "HASHED", "TICKABLE"}
    BY <1>3, <2>3 DEF packet_in_promote, TypeOK
  <2>5. /\ \A x \in Conn \ {f} : cids'[x] = cids[x]
        /\ cids'[f] = cids[c]
    BY <1>3, <2>3 DEF packet_in_promote, TypeOK
  <2>6. /\ HashEntries(c)' = {} 
        /\ HashEntries(f)' # {} /\ \A e \in HashEntries(f)' : e[1] \in cids[c]
        /\ \A x : x # c /\ x # f => HashEntries(x)' = HashEntries(x)
    BY <2>1, <2>3, HashPromote
  <2>7. \/ dgram' = {} /\ curr_conn' = NoConn
        \/ dgram' # {} /\ curr_conn' = f
    BY <1>3 DEF packet_in_promote
  <2>8. \A x \in Conn \ {c, f} : Same(x)
    BY <2>1, <2>3, <2>4, <2>5, <2>6 DEF Same, HasOut
  <2>9. RefsOf(c)'
    BY <2>1, <2>2, <2>3, <2>4, <2>5, <2>6, <2>7, UnreferencedFlags
    DEF RefsOf, HasOut
  <2>10. ModeOf(c)'
    BY <2>1, <2>2, <2>3, <2>4, <2>5, <2>6, <2>7, UnreferencedFlags
    DEF ModeOf, Ticking
  <2>11. RefsOf(f)'
    BY <2>1, <2>2, <2>3, <2>4, <2>5, <2>6, <2>7, UnreferencedFlags
    DEF RefsOf, HasOut
  <2>12. ModeOf(f)'
    BY <2>1, <2>2, <2>3, <2>4, <2>5, <2>6, <2>7, UnreferencedFlags
    DEF ModeOf, Ticking
  <2>13. IteratorInv'
    BY <2>1, <2>2, <2>3, <2>4, <2>5, <2>6, <2>7 DEF IteratorInv
  <2>14. PointerInv'
    BY <2>1, <2>2, <2>3, <2>4, <2>5, <2>6, <2>7
    DEF PointerInv, Ticking, RefsOf, TypeOK
  <2>15. CooldownInv'
    BY <2>1, <2>2, <2>3, <2>4, <2>5, <2>6, <2>7 DEF CooldownInv
  <2> QED
    BY <2>1, <2>8, <2>9, <2>10, <2>11, <2>12, <2>13, <2>14, <2>15, RefsFrame,
       ModeFrame
<1>4. ASSUME NEW d \in CID, NEW c \in Conn, packet_in_promote_fail(d, c)
      PROVE  EngineInv'
  <2>1. /\ pc = "idle" /\ conns_tickable' = conns_tickable \cup {c}
        /\ UNCHANGED <<live, cids, conns_hash, conns_out, attq, callVars, sendVars,
                       cooldown, pc>>
    BY <1>4 DEF packet_in_promote_fail, RxPacket
  <2>2. c \in live
    BY <1>4 DEF packet_in_promote_fail, HashEntries, RefsOf
  <2>3. /\ \A x \in Conn \ {c} : cn_flags'[x] = cn_flags[x]
        /\ cn_flags'[c] =
             cn_flags[c] \cup {"HANDSHAKE_DONE", "PROMOTE_FAIL", "TICKABLE"}
    BY <1>4 DEF packet_in_promote_fail, TypeOK
  <2>4. \/ dgram' = {} /\ curr_conn' = NoConn
        \/ dgram' # {} /\ curr_conn' \in {c, curr_conn}
    BY <1>4 DEF packet_in_promote_fail, RxNext
  <2>5. \A x \in Conn \ {c} : Same(x)
    BY <2>1, <2>2, <2>3, <2>4, HashSame DEF Same, HasOut, TypeOK
  <2>6. RefsOf(c)'
    BY <2>1, <2>2, <2>3, <2>4, UnreferencedFlags, HashSame DEF RefsOf, HasOut
  <2>7. ModeOf(c)'
    BY <2>1, <2>2, <2>3, <2>4, UnreferencedFlags DEF ModeOf, Ticking
  <2>8. IteratorInv'
    BY <2>1, <2>2, <2>3, <2>4 DEF IteratorInv
  <2>9. PointerInv'
    BY <2>1, <2>2, <2>3, <2>4 DEF PointerInv, Ticking, TypeOK
  <2>10. CooldownInv'
    BY <2>1, <2>2, <2>3, <2>4 DEF CooldownInv
  <2> QED
    BY <2>1, <2>5, <2>6, <2>7, <2>8, <2>9, <2>10, RefsFrame, ModeFrame
<1>5. CASE packet_in_end
  <2>1. /\ pc = "idle" /\ dgram' = {} /\ curr_conn' = NoConn
        /\ UNCHANGED <<connVars, queueVars, callVars, sendVars, cooldown, pc>>
    BY <1>5 DEF packet_in_end, PointerInv
  <2>2. \A x \in Conn : Same(x)
    BY <2>1, HashSame DEF Same, HasOut, TypeOK
  <2>3. IteratorInv'
    BY <2>1 DEF IteratorInv
  <2>4. PointerInv'
    BY <2>1 DEF PointerInv, Ticking
  <2>5. CooldownInv'
    BY <2>1 DEF CooldownInv
  <2> QED
    BY <2>1, <2>2, <2>3, <2>4, <2>5, RefsFrame, ModeFrame
<1> QED
  BY <1>1, <1>2, <1>3, <1>4, <1>5 DEF Receive

\* ... so do the calls of the user, ...
LEMMA InvUserCall ==
    ASSUME EngineInv, TypeOK', UserCall
    PROVE  EngineInv'
<1> USE DEF EngineInv, connVars, queueVars, callVars, sendVars, countVars,
            rxVars, engVars
<1>1. ASSUME NEW c \in Conn, NEW d \in CID, connect(c, d)
      PROVE  EngineInv'
  <2>1. /\ pc = "tick" \/ (pc = "idle" /\ dgram = {})
        /\ c \notin live /\ live' = live \cup {c}
        /\ conns_hash' = conns_hash \cup EntriesFor(c, {d})
        /\ conns_tickable' = conns_tickable \cup {c}
        /\ UNCHANGED <<conns_out, attq, callVars, sendVars, rxVars, cooldown, pc>>
    BY <1>1 DEF connect, UserRuns, Idle
  <2>2. /\ \A x \in Conn \ {c} : /\ cn_flags'[x] = cn_flags[x]
                                 /\ cids'[x] = cids[x]
                                 /\ x \in live' <=> x \in live
        /\ cn_flags'[c] = {"HASHED", "TICKABLE"}
        /\ cids'[c] = {d}
    BY <1>1 DEF connect, TypeOK
  <2>3. /\ HashEntries(c)' # {} /\ \A e \in HashEntries(c)' : e[1] \in {d}
        /\ \A x : x # c => HashEntries(x)' = HashEntries(x)
    BY <2>1, HashAdd DEF RefsOf
  <2>4. \A x \in Conn \ {c} : Same(x)
    BY <2>1, <2>2, <2>3 DEF Same, HasOut
  <2>5. RefsOf(c)'
    BY <2>1, <2>2, <2>3, UnreferencedFlags DEF RefsOf, HasOut
  <2>6. ModeOf(c)'
    BY <2>1, <2>2, <2>3, UnreferencedFlags DEF ModeOf, Ticking
  <2>7. IteratorInv'
    BY <2>1, <2>2, <2>3 DEF IteratorInv
  <2>8. PointerInv'
    <3>1. \A x \in new_full_conns :
             /\ x \in Conn \ {c} /\ "HASHED" \in cn_flags[x]
             /\ "TICKED" \notin cn_flags[x] /\ "TICKABLE" \notin cn_flags[x]
      BY <2>1 DEF PointerInv, TypeOK, RefsOf
    <3>2. pc = "tick" => cur \in Conn \ {c}
      BY <2>1 DEF PointerInv, TypeOK
    <3> QED
      BY <2>1, <2>2, <3>1, <3>2 DEF PointerInv, Ticking
  <2>9. CooldownInv'
    BY <2>1, <2>2, <2>3 DEF CooldownInv
  <2> QED
    BY <2>1, <2>4, <2>5, <2>6, <2>7, <2>8, <2>9, RefsFrame, ModeFrame
<1>2. CASE create_fail
  <2>1. UNCHANGED <<connVars, queueVars, callVars, sendVars, rxVars, cooldown, pc>>
    BY <1>2 DEF create_fail
  <2>2. \A x \in Conn : Same(x)
    BY <2>1, HashSame DEF Same, HasOut, TypeOK
  <2>3. IteratorInv'
    BY <2>1 DEF IteratorInv
  <2>4. PointerInv'
    BY <2>1 DEF PointerInv, Ticking
  <2>5. CooldownInv'
    BY <2>1 DEF CooldownInv
  <2> QED
    BY <2>1, <2>2, <2>3, <2>4, <2>5, RefsFrame, ModeFrame
<1>3. ASSUME NEW c \in Conn, add_conn_to_tickable(c)
      PROVE  EngineInv'
  <2>1. /\ pc = "idle" /\ dgram = {} /\ c \in live
        /\ conns_tickable' = conns_tickable \cup {c}
        /\ UNCHANGED <<live, cids, conns_hash, conns_out, attq, callVars, sendVars,
                       rxVars, cooldown, pc>>
    BY <1>3 DEF add_conn_to_tickable, NotProcessing, Idle
  <2>2. /\ \A x \in Conn \ {c} : cn_flags'[x] = cn_flags[x]
        /\ cn_flags'[c] = cn_flags[c] \cup {"TICKABLE"}
    BY <1>3 DEF add_conn_to_tickable, TypeOK
  <2>3. \A x \in Conn \ {c} : Same(x)
    BY <2>1, <2>2, HashSame DEF Same, HasOut, TypeOK
  <2>4. RefsOf(c)'
    BY <2>1, <2>2, UnreferencedFlags, HashSame DEF RefsOf, HasOut
  <2>5. ModeOf(c)'
    BY <2>1, <2>2, UnreferencedFlags DEF ModeOf, Ticking
  <2>6. IteratorInv'
    BY <2>1, <2>2 DEF IteratorInv
  <2>7. PointerInv'
    BY <2>1, <2>2 DEF PointerInv, Ticking
  <2>8. CooldownInv'
    BY <2>1, <2>2 DEF CooldownInv
  <2> QED
    BY <2>1, <2>3, <2>4, <2>5, <2>6, <2>7, <2>8, RefsFrame, ModeFrame
<1>4. ASSUME NEW c \in Conn, add_conn_to_attq(c)
      PROVE  EngineInv'
  <2>1. /\ c \in live
        /\ attq' = attq \cup {c}
        /\ UNCHANGED <<live, cids, conns_hash, conns_tickable, conns_out, callVars,
                       sendVars, rxVars, cooldown, pc>>
    BY <1>4 DEF add_conn_to_attq
  <2>2. /\ \A x \in Conn \ {c} : cn_flags'[x] = cn_flags[x]
        /\ cn_flags'[c] = cn_flags[c] \cup {"ATTQ"}
    BY <1>4 DEF add_conn_to_attq, TypeOK
  <2>3. \A x \in Conn : cn_flags[x] \subseteq cn_flags'[x]
                        /\ cn_flags'[x] \subseteq cn_flags[x] \cup {"ATTQ"}
    BY <2>2
  <2>4. \A x \in Conn \ {c} : Same(x)
    BY <2>1, <2>2, <2>3, HashSame DEF Same, HasOut, TypeOK
  <2>5. RefsOf(c)'
    BY <2>1, <2>2, <2>3, UnreferencedFlags, HashSame DEF RefsOf, HasOut
  <2>6. ModeOf(c)'
    BY <2>1, <2>2, <2>3, UnreferencedFlags DEF ModeOf, Ticking
  <2>7. IteratorInv'
    BY <2>1, <2>2, <2>3 DEF IteratorInv
  <2>8. PointerInv'
    BY <2>1, <2>2, <2>3 DEF PointerInv, Ticking, TypeOK
  <2>9. CooldownInv'
    BY <2>1, <2>2, <2>3 DEF CooldownInv
  <2> QED
    BY <2>1, <2>4, <2>5, <2>6, <2>7, <2>8, <2>9, RefsFrame, ModeFrame
<1>5. ASSUME NEW c \in Conn, NEW d \in CID, add_cid(c, d)
      PROVE  EngineInv'
  <2>1. /\ pc = "tick" /\ c = cur /\ "MINI" \notin cn_flags[c]
        /\ "TICK_CLOSE" \notin cn_flags[c]
        /\ conns_hash' = conns_hash \cup {<<d, c>>}
        /\ UNCHANGED <<live, cn_flags, conns_tickable, conns_out, attq, callVars,
                       sendVars, rxVars, cooldown, pc>>
    BY <1>5 DEF add_cid
  <2>2. /\ \A x \in Conn \ {c} : cids'[x] = cids[x]
        /\ cids'[c] = cids[c] \cup {d}
    BY <1>5 DEF add_cid, TypeOK
  <2>3. /\ HashEntries(c)' = HashEntries(c) \cup {<<d, c>>}
        /\ \A x : x # c => HashEntries(x)' = HashEntries(x)
    BY <2>1 DEF HashEntries
  <2>4. \A x \in Conn \ {c} : Same(x)
    BY <2>1, <2>2, <2>3 DEF Same, HasOut
  <2>5. RefsOf(c)'
    BY <2>1, <2>2, <2>3, UnreferencedFlags
    DEF RefsOf, HasOut, ModeOf, PointerInv
  <2>6. ModeOf(c)'
    BY <2>1, <2>2, <2>3, UnreferencedFlags DEF ModeOf, Ticking
  <2>7. IteratorInv'
    BY <2>1, <2>2, <2>3 DEF IteratorInv
  <2>8. PointerInv'
    BY <2>1, <2>2, <2>3 DEF PointerInv, Ticking
  <2>9. CooldownInv'
    BY <2>1, <2>2, <2>3 DEF CooldownInv
  <2> QED
    BY <2>1, <2>4, <2>5, <2>6, <2>7, <2>8, <2>9, RefsFrame, ModeFrame
<1>6. ASSUME NEW c \in Conn, NEW d \in CID, NEW e \in CID, retire_cid(c, d, e)
      PROVE  EngineInv'
  <2>1. /\ <<d, c>> \in conns_hash /\ <<e, c>> \in conns_hash /\ d # e
        /\ conns_hash' = conns_hash \ {<<d, c>>}
        /\ UNCHANGED <<live, cn_flags, conns_tickable, conns_out, attq, callVars,
                       sendVars, rxVars, cooldown, pc>>
    BY <1>6 DEF retire_cid
  <2>2. /\ \A x \in Conn \ {c} : cids'[x] = cids[x]
        /\ cids'[c] = cids[c] \ {d}
    BY <1>6 DEF retire_cid, TypeOK
  <2>3. /\ <<e, c>> \in HashEntries(c)' /\ <<e, c>> \in HashEntries(c)
        /\ \A h \in HashEntries(c)' : h \in HashEntries(c) /\ h[1] # d
        /\ \A x : x # c => HashEntries(x)' = HashEntries(x)
    BY <2>1 DEF HashEntries, TypeOK
  <2>4. e \in cids'[c]
    BY <2>1, <2>2, <2>3 DEF RefsOf
  <2>5. \A x \in Conn \ {c} : Same(x)
    BY <2>1, <2>2, <2>3 DEF Same, HasOut
  <2>6. RefsOf(c)'
    BY <2>1, <2>2, <2>3, <2>4, UnreferencedFlags DEF RefsOf, HasOut
  <2>7. ModeOf(c)'
    BY <2>1, <2>2, <2>3, <2>4, UnreferencedFlags DEF ModeOf, Ticking
  <2>8. IteratorInv'
    BY <2>1, <2>2, <2>3, <2>4 DEF IteratorInv
  <2>9. PointerInv'
    BY <2>1, <2>2, <2>3, <2>4 DEF PointerInv, Ticking
  <2>10. CooldownInv'
    BY <2>1, <2>2, <2>3, <2>4 DEF CooldownInv
  <2> QED
    BY <2>1, <2>5, <2>6, <2>7, <2>8, <2>9, <2>10, RefsFrame, ModeFrame
<1>7. CASE engine_cooldown
  <2>1. /\ pc = "idle" /\ pc' \in {"cooldown", "idle"} /\ dgram = {}
        /\ cooldown' = TRUE /\ "cooldown" \in Events
        /\ UNCHANGED <<connVars, queueVars, callVars, sendVars, rxVars>>
    BY <1>7 DEF engine_cooldown, Idle
  <2>2. \A x \in Conn : Same(x)
    BY <2>1, HashSame DEF Same, HasOut, TypeOK
  <2>3. \A x \in Conn : ModeOf(x)'
    BY <2>1, <2>2 DEF ModeOf, Same, Ticking
  <2>4. IteratorInv'
    BY <2>1 DEF IteratorInv
  <2>5. PointerInv'
    BY <2>1 DEF PointerInv, Ticking
  <2>6. CooldownInv'
    BY <2>1 DEF CooldownInv
  <2> QED
    BY <2>1, <2>2, <2>4, <2>5, <2>6, <2>3, RefsFrame
<1>8. ASSUME NEW c \in Conn, drop_mini_conn(c)
      PROVE  EngineInv'
  <2> DEFINE fl == cn_flags[c] \ {"HASHED"}
  <2>1. /\ pc = "cooldown" /\ "MINI" \in cn_flags[c]
        /\ conns_hash' = conns_hash \ HashEntries(c)
        /\ SetFlags(c, fl)
        /\ UNCHANGED <<conns_tickable, conns_out, attq, callVars, sendVars, rxVars,
                       cooldown, pc>>
    BY <1>8 DEF drop_mini_conn
  <2>2. /\ \A x \in Conn \ {c} : /\ cn_flags'[x] = cn_flags[x]
                                 /\ cids'[x] = cids[x]
                                 /\ x \in live' <=> x \in live
        /\ Unreferenced(fl) => c \notin live' /\ cn_flags'[c] = {}
        /\ ~Unreferenced(fl) => /\ c \in live' <=> c \in live
                                /\ cn_flags'[c] = fl
                                /\ cids'[c] = cids[c]
    BY <2>1, SetFlagsEffect
  <2>3. \A x \in Conn \ {c} : Same(x)
    BY <2>1, <2>2, HashRemove DEF Same, HasOut
  <2>4. RefsOf(c)'
    BY <2>1, <2>2, UnreferencedFlags, HashRemove DEF RefsOf, HasOut
  <2>5. ModeOf(c)'
    BY <2>1, <2>2, UnreferencedFlags DEF ModeOf, Ticking, CooldownInv
  <2>6. IteratorInv'
    BY <2>1, <2>2 DEF IteratorInv
  <2>7. PointerInv'
    BY <2>1, <2>2 DEF PointerInv, Ticking
  <2>8. CooldownInv'
    BY <2>1, <2>2 DEF CooldownInv
  <2> QED
    BY <2>1, <2>3, <2>4, <2>5, <2>6, <2>7, <2>8, RefsFrame, ModeFrame
<1>9. CASE cooldown_done
  <2>1. /\ pc = "cooldown" /\ pc' = "idle"
        /\ UNCHANGED <<connVars, queueVars, callVars, sendVars, rxVars, cooldown>>
    BY <1>9 DEF cooldown_done
  <2>2. \A x \in Conn : Same(x)
    BY <2>1, HashSame DEF Same, HasOut, TypeOK
  <2>3. \A x \in Conn : ModeOf(x)'
    BY <2>1, <2>2 DEF ModeOf, Same, Ticking
  <2>4. IteratorInv'
    BY <2>1 DEF IteratorInv
  <2>5. PointerInv'
    BY <2>1 DEF PointerInv, Ticking
  <2>6. CooldownInv'
    BY <2>1 DEF CooldownInv
  <2> QED
    BY <2>1, <2>2, <2>4, <2>5, <2>6, <2>3, RefsFrame
<1> QED
  BY <1>1, <1>2, <1>3, <1>4, <1>5, <1>6, <1>7, <1>8, <1>9 DEF UserCall

\* ... the processing of connections ...
LEMMA InvProcess ==
    ASSUME EngineInv, TypeOK', Process
    PROVE  EngineInv'
<1> USE DEF EngineInv, connVars, queueVars, callVars, sendVars, countVars,
            rxVars, engVars
<1>1. CASE process_conns
  <2>1. /\ pc = "idle" /\ dgram = {} /\ pc' = "attq"
        /\ UNCHANGED <<connVars, queueVars, callVars, sendVars, rxVars,
                       cooldown>>
    BY <1>1 DEF process_conns, Idle
  <2>2. \A x \in Conn : Same(x)
    BY <2>1, HashSame DEF Same, HasOut, TypeOK
  <2>3. \A x \in Conn : ModeOf(x)'
    BY <2>1, <2>2 DEF ModeOf, Same, Ticking
  <2>4. IteratorInv'
    BY <2>1 DEF IteratorInv
  <2>5. PointerInv'
    BY <2>1 DEF PointerInv, Ticking
  <2>6. CooldownInv'
    BY <2>1 DEF CooldownInv
  <2> QED
    BY <2>1, <2>2, <2>4, <2>5, <2>6, <2>3, RefsFrame
<1>2. ASSUME NEW c \in Conn, attq_pop(c)
      PROVE  EngineInv'
  <2>1. /\ pc = "attq" /\ c \in attq /\ attq' = attq \ {c}
        /\ UNCHANGED <<conns_hash, conns_out, callVars, sendVars, rxVars,
                       cooldown, pc>>
    BY <1>2 DEF attq_pop
  <2>2. \/ /\ Unreferenced(cn_flags[c] \ {"ATTQ"})
           /\ SetFlags(c, cn_flags[c] \ {"ATTQ"}) /\ UNCHANGED conns_tickable
        \/ /\ SetFlags(c, (cn_flags[c] \ {"ATTQ"}) \cup {"TICKABLE"})
           /\ conns_tickable' = conns_tickable \cup {c}
    BY <1>2 DEF attq_pop
  <2>3. /\ \A x \in Conn \ {c} : /\ cn_flags'[x] = cn_flags[x]
                                 /\ cids'[x] = cids[x]
                                 /\ x \in live' <=> x \in live
                                 /\ x \in conns_tickable' <=> x \in conns_tickable
        /\ \/ /\ Unreferenced(cn_flags[c] \ {"ATTQ"})
              /\ c \notin live' /\ cn_flags'[c] = {} /\ UNCHANGED conns_tickable
           \/ /\ c \in live' <=> c \in live
              /\ cn_flags'[c] = (cn_flags[c] \ {"ATTQ"}) \cup {"TICKABLE"}
              /\ cids'[c] = cids[c] /\ conns_tickable' = conns_tickable \cup {c}
    BY <2>2, SetFlagsEffect, UnreferencedFlags
  <2>4. \A x \in Conn \ {c} : Same(x)
    BY <2>1, <2>3, HashSame DEF Same, HasOut
  <2>5. RefsOf(c)'
    BY <2>1, <2>2, <2>3, UnreferencedFlags, HashSame DEF RefsOf, HasOut
  <2>6. ModeOf(c)'
    BY <2>1, <2>2, <2>3, UnreferencedFlags DEF ModeOf, Ticking
  <2>7. IteratorInv'
    BY <2>1, <2>2, <2>3 DEF IteratorInv
  <2>8. PointerInv'
    BY <2>1, <2>2, <2>3 DEF PointerInv, Ticking
  <2>9. CooldownInv'
    BY <2>1, <2>2, <2>3 DEF CooldownInv
  <2> QED
    BY <2>1, <2>4, <2>5, <2>6, <2>7, <2>8, <2>9, RefsFrame, ModeFrame
<1>3. CASE attq_done
  <2>1. /\ pc = "attq" /\ pc' = "loop"
        /\ UNCHANGED <<connVars, queueVars, callVars, sendVars, rxVars,
                       cooldown>>
    BY <1>3 DEF attq_done
  <2>2. \A x \in Conn : Same(x)
    BY <2>1, HashSame DEF Same, HasOut, TypeOK
  <2>3. \A x \in Conn : ModeOf(x)'
    BY <2>1, <2>2 DEF ModeOf, Same, Ticking
  <2>4. IteratorInv'
    BY <2>1 DEF IteratorInv
  <2>5. PointerInv'
    BY <2>1 DEF PointerInv, Ticking
  <2>6. CooldownInv'
    BY <2>1 DEF CooldownInv
  <2> QED
    BY <2>1, <2>2, <2>4, <2>5, <2>6, <2>3, RefsFrame
<1>4. ASSUME NEW c \in Conn, iter_next_tickable(c)
      PROVE  EngineInv'
  <2> DEFINE fl == cn_flags[c] \ {"TICKABLE", "ATTQ"}
  <2>1. /\ pc = "loop" /\ c \in conns_tickable /\ c \in live
        /\ conns_tickable' = conns_tickable \ {c} /\ attq' = attq \ {c}
        /\ SetFlags(c, fl)
        /\ UNCHANGED <<conns_hash, conns_out, closed_conns, ticked_conns,
                       new_full_conns, sendVars, rxVars, cooldown>>
    BY <1>4 DEF iter_next_tickable, RefsOf
  <2>2. IF Unreferenced(fl)
        THEN pc' \in {"flush", "loop_full"} /\ cur' = cur
             /\ (new_full_conns # {} => pc' = "loop_full")
        ELSE pc' = "tick" /\ cur' = c
    BY <1>4, <2>1 DEF iter_next_tickable, LoopNull
  <2>3. /\ \A x \in Conn \ {c} : /\ cn_flags'[x] = cn_flags[x]
                                 /\ cids'[x] = cids[x]
                                 /\ x \in live' <=> x \in live
        /\ Unreferenced(fl) => c \notin live' /\ cn_flags'[c] = {}
        /\ ~Unreferenced(fl) => /\ c \in live' <=> c \in live
                                /\ cn_flags'[c] = fl
                                /\ cids'[c] = cids[c]
    BY <2>1, SetFlagsEffect
  <2>4. \A x \in Conn \ {c} : Same(x)
    BY <2>1, <2>2, <2>3, HashSame DEF Same, HasOut
  <2>5. RefsOf(c)'
    BY <2>1, <2>2, <2>3, UnreferencedFlags, HashSame DEF RefsOf, HasOut
  <2>6. ModeOf(c)'
    BY <2>1, <2>2, <2>3, UnreferencedFlags DEF ModeOf, Ticking
  <2>7. \A x \in Conn \ {c} : ModeOf(x)'
    BY <2>1, <2>2, <2>3, <2>4 DEF ModeOf, Same, Ticking
  <2>8. IteratorInv'
    BY <2>1, <2>2, <2>3 DEF IteratorInv
  <2>9. PointerInv'
    <3>1. \A x \in new_full_conns :
             /\ x \in Conn \ {c} /\ "HASHED" \in cn_flags[x]
             /\ "TICKED" \notin cn_flags[x] /\ "TICKABLE" \notin cn_flags[x]
      BY <2>1 DEF PointerInv, TypeOK, RefsOf
    <3>2. ~Unreferenced(fl) =>
             /\ c \in live'
             /\ "TICKED" \notin cn_flags'[c] /\ "CLOSING" \notin cn_flags'[c]
             /\ "TICKABLE" \notin cn_flags'[c]
             /\ "IMMED_CLOSE" \notin cn_flags'[c]
      BY <2>1, <2>2, <2>3, UnreferencedFlags DEF ModeOf, RefsOf, Ticking
    <3>3. cur = NoConn /\ NoConn \notin Conn /\ dgram = {} /\ curr_conn = NoConn
      BY <2>1, EngineAssumption DEF PointerInv
    <3> QED
      BY <2>1, <2>2, <2>3, <3>1, <3>2, <3>3 DEF PointerInv, Ticking
  <2>10. CooldownInv'
    BY <2>1, <2>2, <2>3 DEF CooldownInv
  <2> QED
    BY <2>1, <2>4, <2>5, <2>6, <2>8, <2>9, <2>10, <2>7, RefsFrame
<1>5. CASE iter_empty
  <2>1. /\ pc = "loop" /\ pc' \in {"flush", "loop_full"}
        /\ new_full_conns # {} => pc' = "loop_full"
        /\ UNCHANGED <<connVars, queueVars, callVars, sendVars, rxVars,
                       cooldown>>
    BY <1>5 DEF iter_empty, LoopNull
  <2>2. \A x \in Conn : Same(x)
    BY <2>1, HashSame DEF Same, HasOut, TypeOK
  <2>3. \A x \in Conn : ModeOf(x)'
    BY <2>1, <2>2 DEF ModeOf, Same, Ticking
  <2>4. IteratorInv'
    BY <2>1 DEF IteratorInv
  <2>5. PointerInv'
    BY <2>1 DEF PointerInv, Ticking
  <2>6. CooldownInv'
    BY <2>1 DEF CooldownInv
  <2> QED
    BY <2>1, <2>2, <2>4, <2>5, <2>6, <2>3, RefsFrame
<1>6. ASSUME NEW c \in Conn, next_new_full_conn(c)
      PROVE  EngineInv'
  <2>1. /\ pc = "loop_full" /\ pc' = "tick"
        /\ c \in new_full_conns /\ new_full_conns' = new_full_conns \ {c}
        /\ cur' = c
        /\ UNCHANGED <<connVars, queueVars, closed_conns, ticked_conns, sendVars,
                       rxVars, cooldown>>
    BY <1>6 DEF next_new_full_conn
  <2>2. \A x \in Conn : Same(x)
    BY <2>1, HashSame DEF Same, HasOut, TypeOK
  <2>3. \A x \in Conn : ModeOf(x)'
    BY <2>1, <2>2 DEF ModeOf, Same, Ticking
  <2>4. IteratorInv'
    BY <2>1 DEF IteratorInv
  <2>5. PointerInv'
    BY <2>1 DEF PointerInv, Ticking, RefsOf, ModeOf, TypeOK
  <2>6. CooldownInv'
    BY <2>1 DEF CooldownInv
  <2> QED
    BY <2>1, <2>2, <2>4, <2>5, <2>6, <2>3, RefsFrame
<1>7. ASSUME NEW c \in Conn, tick(c)
      PROVE  EngineInv'
  <2>1. /\ pc = "tick" /\ c = cur /\ pc' = "loop" /\ cur' = NoConn
        /\ ~MustClose(c) /\ ticked_conns' = ticked_conns \cup {c}
        /\ UNCHANGED <<live, cids, conns_hash, conns_tickable, attq, closed_conns,
                       new_full_conns, sendVars, rxVars, cooldown>>
    BY <1>7 DEF tick, TickReturns
  <2>2. /\ cur = c /\ c \in live /\ c \notin new_full_conns
        /\ "TICKED" \notin cn_flags[c] /\ "CLOSING" \notin cn_flags[c]
        /\ "TICKABLE" \notin cn_flags[c] /\ "IMMED_CLOSE" \notin cn_flags[c]
    BY <2>1 DEF PointerInv
  <2>3. PICK send \in BOOLEAN :
           /\ cn_flags' = [cn_flags EXCEPT ![c] = @ \cup SendFlag(send)
                                                  \cup {"TICKED"}]
           /\ conns_out' = IF send /\ "HAS_OUTGOING" \notin cn_flags[c]
                           THEN conns_out \cup {c} ELSE conns_out
    BY <1>7 DEF tick, TickSend
  <2>4. /\ \A x \in Conn \ {c} : cn_flags'[x] = cn_flags[x]
        /\ cn_flags'[c] = cn_flags[c] \cup SendFlag(send) \cup {"TICKED"}
    BY <2>3 DEF TypeOK
  <2>5. /\ cn_flags[c] \cup {"TICKED"} \subseteq cn_flags'[c]
        /\ cn_flags'[c] \subseteq cn_flags[c] \cup {"TICKED", "HAS_OUTGOING"}
        /\ "HAS_OUTGOING" \in cn_flags'[c] <=> send \/ "HAS_OUTGOING" \in cn_flags[c]
    BY <2>4 DEF SendFlag
  <2>6. "HASHED" \in cn_flags[c] \/ (cooldown /\ "MINI" \in cn_flags[c])
    BY <2>1, <2>2 DEF ModeOf, MustClose
  <2>7. \A x \in Conn \ {c} : Same(x)
    BY <2>1, <2>2, <2>3, <2>4, <2>5, <2>6, HashSame DEF Same, HasOut, TypeOK
  <2>8. RefsOf(c)'
    BY <2>1, <2>2, <2>3, <2>4, <2>5, <2>6, UnreferencedFlags, HashSame
    DEF RefsOf, HasOut
  <2>9. ModeOf(c)'
    BY <2>1, <2>2, <2>3, <2>4, <2>5, <2>6, UnreferencedFlags
    DEF ModeOf, Ticking
  <2>10. \A x \in Conn \ {c} : ModeOf(x)'
    BY <2>1, <2>2, <2>3, <2>4, <2>5, <2>6, <2>7 DEF ModeOf, Same, Ticking
  <2>11. IteratorInv'
    BY <2>1, <2>2, <2>3, <2>4, <2>5, <2>6 DEF IteratorInv, RefsOf, HasOut
  <2>12. PointerInv'
    <3>1. \A x \in new_full_conns :
             /\ x \in Conn \ {c} /\ "HASHED" \in cn_flags[x]
             /\ "TICKED" \notin cn_flags[x] /\ "TICKABLE" \notin cn_flags[x]
      BY <2>1, <2>2 DEF PointerInv, TypeOK
    <3>2. NoConn \notin Conn /\ dgram = {} /\ curr_conn = NoConn
      BY <2>1, EngineAssumption DEF PointerInv
    <3> QED
      BY <2>1, <2>4, <3>1, <3>2 DEF PointerInv, Ticking
  <2>13. CooldownInv'
    BY <2>1, <2>2, <2>3, <2>4, <2>5, <2>6 DEF CooldownInv
  <2> QED
    BY <2>1, <2>7, <2>8, <2>9, <2>11, <2>12, <2>13, <2>10, RefsFrame
<1>8. ASSUME NEW c \in Conn, tick_close(c)
      PROVE  EngineInv'
  <2>1. /\ pc = "tick" /\ c = cur /\ pc' = "loop" /\ cur' = NoConn
        /\ closed_conns' = closed_conns \cup {c}
        /\ conns_hash' = conns_hash \ HashEntries(c)
        /\ UNCHANGED <<live, cids, conns_tickable, attq, ticked_conns,
                       new_full_conns, sendVars, rxVars, cooldown>>
    BY <1>8 DEF tick_close, TickReturns
  <2>2. /\ cur = c /\ c \in live /\ c \notin new_full_conns
        /\ "TICKED" \notin cn_flags[c] /\ "CLOSING" \notin cn_flags[c]
        /\ "TICKABLE" \notin cn_flags[c] /\ "IMMED_CLOSE" \notin cn_flags[c]
    BY <2>1 DEF PointerInv
  <2>3. PICK send \in BOOLEAN :
           /\ cn_flags' = [cn_flags EXCEPT ![c] =
                  (@ \cup SendFlag(send) \cup {"CLOSING", "TICK_CLOSE"})
                      \ {"HASHED"}]
           /\ conns_out' = IF send /\ "HAS_OUTGOING" \notin cn_flags[c]
                           THEN conns_out \cup {c} ELSE conns_out
    BY <1>8 DEF tick_close, TickSend
  <2>4. /\ \A x \in Conn \ {c} : cn_flags'[x] = cn_flags[x]
        /\ cn_flags'[c] = (cn_flags[c] \cup SendFlag(send)
                              \cup {"CLOSING", "TICK_CLOSE"}) \ {"HASHED"}
    BY <2>3 DEF TypeOK
  <2>5. /\ (cn_flags[c] \ {"HASHED"}) \cup {"CLOSING", "TICK_CLOSE"} \subseteq cn_flags'[c]
        /\ cn_flags'[c] \subseteq (cn_flags[c] \ {"HASHED"})
                             \cup {"CLOSING", "TICK_CLOSE", "HAS_OUTGOING"}
        /\ "HAS_OUTGOING" \in cn_flags'[c] <=> send \/ "HAS_OUTGOING" \in cn_flags[c]
    BY <2>4 DEF SendFlag
  <2>6. \A x \in Conn \ {c} : Same(x)
    BY <2>1, <2>3, <2>4, HashRemove DEF Same, HasOut
  <2>7. RefsOf(c)'
    BY <2>1, <2>2, <2>3, <2>4, <2>5, UnreferencedFlags, HashRemove
    DEF RefsOf, HasOut
  <2>8. ModeOf(c)'
    BY <2>1, <2>2, <2>5 DEF ModeOf, Ticking
  <2>9. \A x \in Conn \ {c} : ModeOf(x)'
    BY <2>1, <2>2, <2>3, <2>4, <2>5, <2>6 DEF ModeOf, Same, Ticking
  <2>10. IteratorInv'
    BY <2>1, <2>2, <2>3, <2>4, <2>5 DEF IteratorInv, RefsOf, HasOut
  <2>11. PointerInv'
    <3>1. \A x \in new_full_conns :
             /\ x \in Conn \ {c} /\ "HASHED" \in cn_flags[x]
             /\ "TICKED" \notin cn_flags[x] /\ "TICKABLE" \notin cn_flags[x]
      BY <2>1, <2>2 DEF PointerInv, TypeOK
    <3>2. NoConn \notin Conn /\ dgram = {} /\ curr_conn = NoConn
      BY <2>1, EngineAssumption DEF PointerInv
    <3> QED
      BY <2>1, <2>4, <3>1, <3>2 DEF PointerInv, Ticking
  <2>12. CooldownInv'
    BY <2>1, <2>2, <2>3, <2>4, <2>5 DEF CooldownInv
  <2> QED
    BY <2>1, <2>6, <2>7, <2>8, <2>10, <2>11, <2>12, <2>9, RefsFrame
<1>9. ASSUME NEW c \in Conn, NEW f \in Conn, tick_promote(c, f)
      PROVE  EngineInv'
  <2>1. /\ pc = "tick" /\ c = cur /\ pc' = "loop" /\ cur' = NoConn
        /\ "MINI" \in cn_flags[c] /\ f \notin live /\ live' = live \cup {f}
        /\ closed_conns' = closed_conns \cup {c}
        /\ new_full_conns' = new_full_conns \cup {f}
        /\ conns_hash' = (conns_hash \cup EntriesFor(f, cids[c])) \ HashEntries(c)
        /\ UNCHANGED <<conns_tickable, attq, ticked_conns, sendVars, rxVars,
                       cooldown>>
    BY <1>9 DEF tick_promote, TickReturns
  <2>2. /\ cur = c /\ c \in live /\ c \notin new_full_conns
        /\ "TICKED" \notin cn_flags[c] /\ "CLOSING" \notin cn_flags[c]
        /\ "TICKABLE" \notin cn_flags[c] /\ "IMMED_CLOSE" \notin cn_flags[c]
    BY <2>1 DEF PointerInv
  <2>3. c # f /\ cids[c] \in SUBSET CID /\ cids[c] # {} /\ HashEntries(f) = {}
    BY <2>1, <2>2 DEF RefsOf, TypeOK
  <2>4. PICK send \in BOOLEAN :
           /\ cn_flags' = [cn_flags EXCEPT
                  ![c] = (@ \cup SendFlag(send)
                            \cup {"HANDSHAKE_DONE", "PROMOTED", "CLOSING",
                                  "TICK_CLOSE"}) \ {"HASHED"},
                  ![f] = {"HANDSHAKE_DONE", "HASHED"}]
           /\ conns_out' = IF send /\ "HAS_OUTGOING" \notin cn_flags[c]
                           THEN conns_out \cup {c} ELSE conns_out
    BY <1>9 DEF tick_promote
  <2>5. /\ \A x \in Conn \ {c, f} : cn_flags'[x] = cn_flags[x]
        /\ cn_flags'[c] = (cn_flags[c] \cup SendFlag(send)
                              \cup {"HANDSHAKE_DONE", "PROMOTED", "CLOSING",
                                    "TICK_CLOSE"}) \ {"HASHED"}
        /\ cn_flags'[f] = {"HANDSHAKE_DONE", "HASHED"}
    BY <2>3, <2>4 DEF TypeOK
  <2>6. /\ (cn_flags[c] \ {"HASHED"}) \cup {"CLOSING", "TICK_CLOSE"} \subseteq cn_flags'[c]
        /\ cn_flags'[c] \subseteq (cn_flags[c] \ {"HASHED"})
                             \cup {"CLOSING", "TICK_CLOSE", "HAS_OUTGOING",
                                   "HANDSHAKE_DONE", "PROMOTED"}
        /\ "HAS_OUTGOING" \in cn_flags'[c] <=> send \/ "HAS_OUTGOING" \in cn_flags[c]
    BY <2>5 DEF SendFlag
  <2>7. /\ \A x \in Conn \ {f} : cids'[x] = cids[x]
        /\ cids'[f] = cids[c]
    BY <1>9 DEF tick_promote, TypeOK
  <2>8. /\ HashEntries(c)' = {}
        /\ HashEntries(f)' # {} /\ \A e \in HashEntries(f)' : e[1] \in cids[c]
        /\ \A x : x # c /\ x # f => HashEntries(x)' = HashEntries(x)
    BY <2>1, <2>3, HashPromote
  <2>9. \A x \in Conn \ {c, f} : Same(x)
    BY <2>1, <2>3, <2>4, <2>5, <2>7, <2>8 DEF Same, HasOut
  <2>10. RefsOf(c)'
    BY <2>1, <2>2, <2>3, <2>4, <2>6, <2>7, <2>8, UnreferencedFlags
    DEF RefsOf, HasOut
  <2>11. ModeOf(c)'
    BY <2>1, <2>2, <2>6 DEF ModeOf, Ticking
  <2>12. RefsOf(f)'
    BY <2>1, <2>2, <2>3, <2>4, <2>5, <2>6, <2>7, <2>8, UnreferencedFlags
    DEF RefsOf, HasOut
  <2>13. ModeOf(f)'
    BY <2>1, <2>5 DEF ModeOf, Ticking
  <2>14. \A x \in Conn \ {c, f} : ModeOf(x)'
    BY <2>1, <2>9 DEF ModeOf, Same, Ticking
  <2>15. IteratorInv'
    BY <2>1, <2>2, <2>3, <2>4, <2>5, <2>6, <2>7, <2>8
    DEF IteratorInv, RefsOf, HasOut
  <2>16. PointerInv'
    <3>1. \A x \in new_full_conns :
             /\ x \in Conn \ {c, f} /\ "HASHED" \in cn_flags[x]
             /\ "TICKED" \notin cn_flags[x] /\ "TICKABLE" \notin cn_flags[x]
      BY <2>1, <2>2 DEF PointerInv, TypeOK, RefsOf
    <3>2. NoConn \notin Conn /\ dgram = {} /\ curr_conn = NoConn
      BY <2>1, EngineAssumption DEF PointerInv
    <3> QED
      BY <2>1, <2>5, <3>1, <3>2 DEF PointerInv, Ticking
  <2>17. CooldownInv'
    BY <2>1, <2>2, <2>3, <2>4, <2>5, <2>6, <2>7, <2>8 DEF CooldownInv
  <2> QED
    BY <2>1, <2>9, <2>10, <2>11, <2>12, <2>13, <2>15, <2>16, <2>17, <2>14,
       RefsFrame
<1>10. CASE flush
  <2>1. /\ pc = "flush" /\ pc' \in {"send", "close"}
        /\ UNCHANGED <<connVars, queueVars, callVars, sendVars, rxVars,
                       cooldown>>
    BY <1>10 DEF flush
  <2>2. \A x \in Conn : Same(x)
    BY <2>1, HashSame DEF Same, HasOut, TypeOK
  <2>3. \A x \in Conn : ModeOf(x)'
    BY <2>1, <2>2 DEF ModeOf, Same, Ticking
  <2>4. IteratorInv'
    BY <2>1 DEF IteratorInv
  <2>5. PointerInv'
    BY <2>1 DEF PointerInv, Ticking
  <2>6. CooldownInv'
    BY <2>1 DEF CooldownInv
  <2> QED
    BY <2>1, <2>2, <2>4, <2>5, <2>6, <2>3, RefsFrame
<1>11. ASSUME NEW c \in Conn, close_closed(c)
      PROVE  EngineInv'
  <2> DEFINE fl == cn_flags[c] \ {"CLOSING"}
  <2>1. /\ pc = "close" /\ closed_conns' = closed_conns \ {c}
        /\ SetFlags(c, fl)
        /\ UNCHANGED <<queueVars, ticked_conns, new_full_conns, cur, sendVars,
                       rxVars, cooldown, pc>>
    BY <1>11 DEF close_closed
  <2>2. /\ \A x \in Conn \ {c} : /\ cn_flags'[x] = cn_flags[x]
                                 /\ cids'[x] = cids[x]
                                 /\ x \in live' <=> x \in live
        /\ Unreferenced(fl) => c \notin live' /\ cn_flags'[c] = {}
        /\ ~Unreferenced(fl) => /\ c \in live' <=> c \in live
                                /\ cn_flags'[c] = fl
                                /\ cids'[c] = cids[c]
    BY <2>1, SetFlagsEffect
  <2>3. \A x \in Conn \ {c} : Same(x)
    BY <2>1, <2>2, HashSame DEF Same, HasOut
  <2>4. RefsOf(c)'
    BY <2>1, <2>2, UnreferencedFlags, HashSame DEF RefsOf, HasOut
  <2>5. ModeOf(c)'
    BY <2>1, <2>2, UnreferencedFlags DEF ModeOf, Ticking
  <2>6. IteratorInv'
    BY <2>1, <2>2 DEF IteratorInv
  <2>7. PointerInv'
    BY <2>1, <2>2 DEF PointerInv, Ticking
  <2>8. CooldownInv'
    BY <2>1, <2>2 DEF CooldownInv
  <2> QED
    BY <2>1, <2>3, <2>4, <2>5, <2>6, <2>7, <2>8, RefsFrame, ModeFrame
<1>12. CASE close_done
  <2>1. /\ pc = "close" /\ closed_conns = {} /\ pc' = "ticked"
        /\ UNCHANGED <<connVars, queueVars, callVars, sendVars, rxVars,
                       cooldown>>
    BY <1>12 DEF close_done
  <2>2. \A x \in Conn : Same(x)
    BY <2>1, HashSame DEF Same, HasOut, TypeOK
  <2>3. \A x \in Conn : ModeOf(x)'
    BY <2>1, <2>2 DEF ModeOf, Same, Ticking, RefsOf
  <2>4. IteratorInv'
    BY <2>1 DEF IteratorInv
  <2>5. PointerInv'
    BY <2>1 DEF PointerInv, Ticking
  <2>6. CooldownInv'
    BY <2>1 DEF CooldownInv
  <2> QED
    BY <2>1, <2>2, <2>4, <2>5, <2>6, <2>3, RefsFrame
<1>13. ASSUME NEW c \in Conn, requeue_ticked(c)
      PROVE  EngineInv'
  <2>1. /\ pc = "ticked" /\ c \in ticked_conns /\ ticked_conns' = ticked_conns \ {c}
        /\ UNCHANGED <<conns_hash, conns_out, closed_conns, new_full_conns, cur,
                       sendVars, rxVars, cooldown>>
    BY <1>13 DEF requeue_ticked
  <2>2. PICK g \in {{}, {"TICKABLE"}, {"ATTQ"}} :
           /\ SetFlags(c, (cn_flags[c] \ {"TICKED"}) \cup g)
           /\ conns_tickable' = IF "TICKABLE" \in g THEN conns_tickable \cup {c}
                                                   ELSE conns_tickable
           /\ attq' = IF "ATTQ" \in g THEN attq \cup {c} ELSE attq
           /\ \/ pc' = pc
              \/ pc' = "undefined" /\ g = {} /\ Unreferenced(cn_flags[c] \ {"TICKED"})
    BY <1>13 DEF requeue_ticked
  <2>3. /\ \A x \in Conn \ {c} : /\ cn_flags'[x] = cn_flags[x]
                                 /\ cids'[x] = cids[x]
                                 /\ x \in live' <=> x \in live
                                 /\ x \in conns_tickable' <=> x \in conns_tickable
                                 /\ x \in attq' <=> x \in attq
        /\ LET fl == (cn_flags[c] \ {"TICKED"}) \cup g
           IN /\ Unreferenced(fl) => c \notin live' /\ cn_flags'[c] = {}
              /\ ~Unreferenced(fl) => /\ c \in live' <=> c \in live
                                      /\ cn_flags'[c] = fl
                                      /\ cids'[c] = cids[c]
    BY <2>2, SetFlagsEffect
  <2>4. \A x \in Conn \ {c} : Same(x)
    BY <2>1, <2>3, HashSame DEF Same, HasOut
  <2>5. RefsOf(c)'
    BY <2>1, <2>2, <2>3, UnreferencedFlags, HashSame DEF RefsOf, HasOut
  <2>6. ModeOf(c)'
    BY <2>1, <2>2, <2>3, UnreferencedFlags DEF ModeOf, Ticking
  <2>7. \A x \in Conn \ {c} : ModeOf(x)'
    BY <2>1, <2>2, <2>3, <2>4 DEF ModeOf, Same, Ticking
  <2>8. IteratorInv'
    BY <2>1, <2>2, <2>3 DEF IteratorInv
  <2>9. PointerInv'
    BY <2>1, <2>2, <2>3 DEF PointerInv, Ticking
  <2>10. CooldownInv'
    BY <2>1, <2>2, <2>3, UnreferencedFlags DEF CooldownInv, ModeOf, RefsOf
  <2> QED
    BY <2>1, <2>4, <2>5, <2>6, <2>8, <2>9, <2>10, <2>7, RefsFrame
<1>14. CASE ticked_done
  <2>1. /\ pc = "ticked" /\ ticked_conns = {} /\ pc' = "idle"
        /\ UNCHANGED <<connVars, queueVars, callVars, sendVars, rxVars,
                       cooldown>>
    BY <1>14 DEF ticked_done
  <2>2. \A x \in Conn : Same(x)
    BY <2>1, HashSame DEF Same, HasOut, TypeOK
  <2>3. \A x \in Conn : ModeOf(x)'
    BY <2>1, <2>2 DEF ModeOf, Same, Ticking, RefsOf
  <2>4. IteratorInv'
    BY <2>1 DEF IteratorInv
  <2>5. PointerInv'
    BY <2>1 DEF PointerInv, Ticking
  <2>6. CooldownInv'
    BY <2>1 DEF CooldownInv
  <2> QED
    BY <2>1, <2>2, <2>4, <2>5, <2>6, <2>3, RefsFrame
<1> QED
  BY <1>1, <1>2, <1>3, <1>4, <1>5, <1>6, <1>7, <1>8, <1>9, <1>10, <1>11,
     <1>12, <1>13, <1>14
  DEF Process

\* ... and the sending of packets.
LEMMA InvSend ==
    ASSUME EngineInv, TypeOK', Send
    PROVE  EngineInv'
<1> USE DEF EngineInv, connVars, queueVars, callVars, sendVars, countVars,
            rxVars, engVars
<1>1. CASE send_unsent_packets
  <2>1. /\ pc = "idle" /\ dgram = {} /\ pc' = "send"
        /\ UNCHANGED <<live, cids, conns_hash, conns_out, attq, callVars,
                       sendVars, rxVars, cooldown>>
    BY <1>1 DEF send_unsent_packets, Idle
  <2>2. PICK T \in SUBSET {c \in Conn : "HASHED" \in cn_flags[c]
                                     /\ "TICKABLE" \notin cn_flags[c]} :
           /\ conns_tickable' = conns_tickable \cup T
           /\ cn_flags' = [c \in Conn |-> IF c \in T
                      THEN cn_flags[c] \cup {"TICKABLE"} ELSE cn_flags[c]]
    BY <1>1 DEF send_unsent_packets
  <2>3. ASSUME NEW x \in Conn PROVE RefsOf(x)' /\ ModeOf(x)'
    <3>1. CASE x \in T
      <4>1. /\ cn_flags'[x] = cn_flags[x] \cup {"TICKABLE"}
            /\ "HASHED" \in cn_flags[x] /\ x \in conns_tickable'
        BY <2>2, <3>1
      <4>2. RefsOf(x)'
        BY <2>1, <4>1, HashSame, UnreferencedFlags DEF RefsOf, HasOut
      <4>3. ModeOf(x)'
        BY <2>1, <4>1 DEF ModeOf, Ticking
      <4> QED
        BY <4>2, <4>3
    <3>2. CASE x \notin T
      <4>1. /\ cn_flags'[x] = cn_flags[x]
            /\ x \in conns_tickable' <=> x \in conns_tickable
        BY <2>2, <3>2
      <4>2. RefsOf(x)'
        BY <2>1, <4>1, HashSame DEF RefsOf, HasOut
      <4>3. ModeOf(x)'
        BY <2>1, <4>1 DEF ModeOf, Ticking
      <4> QED
        BY <4>2, <4>3
    <3> QED
      BY <3>1, <3>2
  <2>4. IteratorInv'
    BY <2>1 DEF IteratorInv
  <2>5. PointerInv'
    BY <2>1 DEF PointerInv, Ticking
  <2>6. CooldownInv'
    BY <2>1 DEF CooldownInv
  <2> QED
    BY <2>3, <2>4, <2>5, <2>6
<1>2. ASSUME NEW c \in Conn, coi_deactivate(c)
      PROVE  EngineInv'
  <2>1. /\ pc = "send" /\ c \in conns_out \cup coi_active
        /\ conns_out' = conns_out \ {c}
        /\ coi_active' = coi_active \ {c} /\ coi_inactive' = coi_inactive \cup {c}
        /\ UNCHANGED <<connVars, conns_hash, conns_tickable, attq, callVars, batch,
                       rxVars, cooldown, pc>>
    BY <1>2 DEF coi_deactivate, CoiNext
  <2>2. \A x \in Conn : Same(x)
    BY <2>1, HashSame DEF Same, HasOut, TypeOK
  <2>3. IteratorInv'
    BY <2>1 DEF IteratorInv
  <2>4. PointerInv'
    BY <2>1 DEF PointerInv, Ticking
  <2>5. CooldownInv'
    BY <2>1 DEF CooldownInv
  <2> QED
    BY <2>1, <2>2, <2>3, <2>4, <2>5, RefsFrame, ModeFrame
<1>3. ASSUME NEW c \in Conn, batch_packet(c)
      PROVE  EngineInv'
  <2>1. /\ pc = "send" /\ c \in conns_out \cup coi_active
        /\ conns_out' = conns_out \ {c}
        /\ coi_active' = coi_active \cup {c}
        /\ batch' = Append(batch, c)
        /\ UNCHANGED <<live, cn_flags, cids, conns_hash, conns_tickable, attq,
                       callVars, coi_inactive, rxVars, cooldown, pc>>
    BY <1>3 DEF batch_packet, CoiNext
  <2>2. /\ Len(batch) \in Nat /\ Len(batch') = Len(batch) + 1
        /\ \A i \in 1..Len(batch') :
              batch'[i] = IF i <= Len(batch) THEN batch[i] ELSE c
    BY <2>1 DEF TypeOK
  <2>3. \A i \in 1..Len(batch') :
           batch'[i] \in coi_active' \cup coi_inactive'
    BY <2>1, <2>2 DEF IteratorInv
  <2>4. \A x \in Conn : Same(x)
    BY <2>1, <2>2, <2>3, HashSame DEF Same, HasOut, TypeOK
  <2>5. IteratorInv'
    BY <2>1, <2>2, <2>3 DEF IteratorInv
  <2>6. PointerInv'
    BY <2>1, <2>2, <2>3 DEF PointerInv, Ticking
  <2>7. CooldownInv'
    BY <2>1, <2>2, <2>3 DEF CooldownInv
  <2> QED
    BY <2>1, <2>4, <2>5, <2>6, <2>7, RefsFrame, ModeFrame
<1>4. ASSUME NEW c \in Conn, batch_nomem(c)
      PROVE  EngineInv'
  <2>1. /\ pc = "send" /\ c \in conns_out \cup coi_active
        /\ conns_out' = conns_out \ {c}
        /\ coi_active' = coi_active \cup {c}
        /\ UNCHANGED <<connVars, conns_hash, conns_tickable, attq, callVars,
                       coi_inactive, batch, rxVars, cooldown, pc>>
    BY <1>4 DEF batch_nomem, CoiNext
  <2>2. \A x \in Conn : Same(x)
    BY <2>1, HashSame DEF Same, HasOut, TypeOK
  <2>3. IteratorInv'
    BY <2>1 DEF IteratorInv
  <2>4. PointerInv'
    BY <2>1 DEF PointerInv, Ticking
  <2>5. CooldownInv'
    BY <2>1 DEF CooldownInv
  <2> QED
    BY <2>1, <2>2, <2>3, <2>4, <2>5, RefsFrame, ModeFrame
<1>5. ASSUME NEW c \in Conn, batch_badcrypt(c)
      PROVE  EngineInv'
  <2>1. /\ pc = "send" /\ c \in conns_out \cup coi_active
        /\ conns_out' = conns_out \ {c}
        /\ coi_active' = coi_active \ {c} /\ coi_inactive' = coi_inactive \cup {c}
        /\ CloseImmediately(c)
        /\ UNCHANGED <<live, cids, conns_tickable, attq, new_full_conns, cur, batch,
                       rxVars, cooldown, pc>>
    BY <1>5 DEF batch_badcrypt, CoiNext
  <2>2. /\ \A x \in Conn \ {c} : cn_flags'[x] = cn_flags[x]
        /\ cn_flags'[c] = (cn_flags[c] \cup {"IMMED_CLOSE", "CLOSING"})
                              \ {"TICKED", "HASHED"}
        /\ HashEntries(c)' = {}
        /\ \A x : x # c => HashEntries(x)' = HashEntries(x)
        /\ closed_conns' = closed_conns \cup {c}
        /\ ticked_conns' = ticked_conns \ {c}
    BY <2>1, CloseEffect
  <2>3. c \in live
    BY <2>1 DEF RefsOf, HasOut
  <2>4. \A x \in Conn \ {c} : Same(x)
    BY <2>1, <2>2, <2>3 DEF Same, HasOut, TypeOK
  <2>5. RefsOf(c)'
    BY <2>1, <2>2, <2>3, UnreferencedFlags DEF RefsOf, HasOut
  <2>6. ModeOf(c)'
    BY <2>1, <2>2, <2>3, UnreferencedFlags DEF ModeOf, Ticking
  <2>7. IteratorInv'
    BY <2>1, <2>2, <2>3 DEF IteratorInv
  <2>8. PointerInv'
    BY <2>1, <2>2, <2>3 DEF PointerInv, Ticking
  <2>9. CooldownInv'
    BY <2>1, <2>2, <2>3 DEF CooldownInv
  <2> QED
    BY <2>1, <2>4, <2>5, <2>6, <2>7, <2>8, <2>9, RefsFrame, ModeFrame
<1>6. CASE coi_end
  <2>1. UNCHANGED <<connVars, queueVars, callVars, coi_active, coi_inactive, batch,
                    rxVars, cooldown, pc>>
    BY <1>6 DEF coi_end
  <2>2. \A x \in Conn : Same(x)
    BY <2>1, HashSame DEF Same, HasOut, TypeOK
  <2>3. IteratorInv'
    BY <2>1 DEF IteratorInv
  <2>4. PointerInv'
    BY <2>1 DEF PointerInv, Ticking
  <2>5. CooldownInv'
    BY <2>1 DEF CooldownInv
  <2> QED
    BY <2>1, <2>2, <2>3, <2>4, <2>5, RefsFrame, ModeFrame
<1>7. CASE send_batch_all
  <2>1. /\ pc = "send"
        /\ UNCHANGED <<live, cn_flags, cids, queueVars, callVars, rxVars, cooldown,
                       pc>>
    BY <1>7 DEF send_batch_all, BatchReady
  <2>2. Len(batch) \in Nat /\ ReturnPackets(Len(batch))
    BY <1>7 DEF send_batch_all, TypeOK
  <2>3. /\ \A x : x \in coi_active' \cup coi_inactive'
                      <=> x \in coi_active \cup coi_inactive
        /\ coi_active' \cap coi_inactive' = {}
        /\ batch' = <<>>
    BY <2>2, ReturnEffect
  <2>4. \A x \in Conn : Same(x)
    BY <2>1, <2>2, <2>3, HashSame DEF Same, HasOut, TypeOK
  <2>5. IteratorInv'
    BY <2>1, <2>2, <2>3 DEF IteratorInv
  <2>6. PointerInv'
    BY <2>1, <2>2, <2>3 DEF PointerInv, Ticking
  <2>7. CooldownInv'
    BY <2>1, <2>2, <2>3 DEF CooldownInv
  <2> QED
    BY <2>1, <2>4, <2>5, <2>6, <2>7, RefsFrame, ModeFrame
<1>8. CASE send_batch_eagain
  <2>1. /\ pc = "send"
        /\ UNCHANGED <<live, cn_flags, cids, queueVars, callVars, rxVars, cooldown,
                       pc>>
    BY <1>8 DEF send_batch_eagain, BatchReady
  <2>2. PICK k \in skip..(Len(batch) - 1) : ReturnPackets(k)
    BY <1>8 DEF send_batch_eagain
  <2>3. k \in Nat
    BY <2>2 DEF TypeOK
  <2>4. /\ \A x : x \in coi_active' \cup coi_inactive'
                      <=> x \in coi_active \cup coi_inactive
        /\ coi_active' \cap coi_inactive' = {}
        /\ batch' = <<>>
    BY <2>2, <2>3, ReturnEffect
  <2>5. \A x \in Conn : Same(x)
    BY <2>1, <2>2, <2>3, <2>4, HashSame DEF Same, HasOut, TypeOK
  <2>6. IteratorInv'
    BY <2>1, <2>2, <2>3, <2>4 DEF IteratorInv
  <2>7. PointerInv'
    BY <2>1, <2>2, <2>3, <2>4 DEF PointerInv, Ticking
  <2>8. CooldownInv'
    BY <2>1, <2>2, <2>3, <2>4 DEF CooldownInv
  <2> QED
    BY <2>1, <2>5, <2>6, <2>7, <2>8, RefsFrame, ModeFrame
<1>9. CASE send_batch_error
  <2>1. /\ pc = "send"
        /\ UNCHANGED <<live, cids, conns_tickable, conns_out, attq, new_full_conns,
                       cur, rxVars, cooldown, pc>>
    BY <1>9 DEF send_batch_error, BatchReady
  <2>2. PICK k \in skip..(Len(batch) - 1) :
           ReturnPackets(k) /\ CloseImmediately(batch[ErrorIndex(k)])
    BY <1>9 DEF send_batch_error
  <2>3. k \in Nat /\ ErrorIndex(k) \in 1..Len(batch)
    BY <2>2 DEF TypeOK, ErrorIndex
  <2>4. PICK c \in Conn : /\ c = batch[ErrorIndex(k)] /\ CloseImmediately(c)
                           /\ c \in coi_active \cup coi_inactive
    BY <2>2, <2>3 DEF TypeOK, IteratorInv
  <2>5. /\ \A x \in Conn \ {c} : cn_flags'[x] = cn_flags[x]
        /\ cn_flags'[c] = (cn_flags[c] \cup {"IMMED_CLOSE", "CLOSING"})
                              \ {"TICKED", "HASHED"}
        /\ HashEntries(c)' = {}
        /\ \A x : x # c => HashEntries(x)' = HashEntries(x)
        /\ closed_conns' = closed_conns \cup {c}
        /\ ticked_conns' = ticked_conns \ {c}
    BY <2>4, CloseEffect
  <2>6. /\ \A x : x \in coi_active' \cup coi_inactive'
                      <=> x \in coi_active \cup coi_inactive
        /\ coi_active' \cap coi_inactive' = {}
        /\ batch' = <<>>
    BY <2>2, <2>3, ReturnEffect
  <2>7. c \in live
    BY <2>4 DEF RefsOf, HasOut
  <2>8. \A x \in Conn \ {c} : Same(x)
    BY <2>1, <2>5, <2>6 DEF Same, HasOut
  <2>9. RefsOf(c)'
    BY <2>1, <2>2, <2>3, <2>4, <2>5, <2>6, <2>7, UnreferencedFlags
    DEF RefsOf, HasOut
  <2>10. ModeOf(c)'
    BY <2>1, <2>2, <2>3, <2>4, <2>5, <2>6, <2>7, UnreferencedFlags
    DEF ModeOf, Ticking, IteratorInv
  <2>11. IteratorInv'
    BY <2>1, <2>2, <2>3, <2>4, <2>5, <2>6, <2>7 DEF IteratorInv
  <2>12. PointerInv'
    BY <2>1, <2>2, <2>3, <2>4, <2>5, <2>6, <2>7 DEF PointerInv, Ticking
  <2>13. CooldownInv'
    BY <2>1, <2>2, <2>3, <2>4, <2>5, <2>6, <2>7 DEF CooldownInv
  <2> QED
    BY <2>1, <2>8, <2>9, <2>10, <2>11, <2>12, <2>13, RefsFrame, ModeFrame
<1>10. CASE send_batch_emsgsize
  <2>1. /\ pc = "send"
        /\ UNCHANGED <<live, cids, conns_tickable, conns_out, attq, new_full_conns,
                       cur, rxVars, cooldown, pc>>
    BY <1>10 DEF send_batch_emsgsize, BatchReady
  <2>2. PICK k \in skip..(Len(batch) - 1) :
           ReturnPackets(k) /\ CloseImmediately(batch[k + 1])
    BY <1>10 DEF send_batch_emsgsize
  <2>3. k \in Nat /\ k + 1 \in 1..Len(batch)
    BY <2>2 DEF TypeOK
  <2>4. PICK c \in Conn : /\ c = batch[k + 1] /\ CloseImmediately(c)
                           /\ c \in coi_active \cup coi_inactive
    BY <2>2, <2>3 DEF TypeOK, IteratorInv
  <2>5. /\ \A x \in Conn \ {c} : cn_flags'[x] = cn_flags[x]
        /\ cn_flags'[c] = (cn_flags[c] \cup {"IMMED_CLOSE", "CLOSING"})
                              \ {"TICKED", "HASHED"}
        /\ HashEntries(c)' = {}
        /\ \A x : x # c => HashEntries(x)' = HashEntries(x)
        /\ closed_conns' = closed_conns \cup {c}
        /\ ticked_conns' = ticked_conns \ {c}
    BY <2>4, CloseEffect
  <2>6. /\ \A x : x \in coi_active' \cup coi_inactive'
                      <=> x \in coi_active \cup coi_inactive
        /\ coi_active' \cap coi_inactive' = {}
        /\ batch' = <<>>
    BY <2>2, <2>3, ReturnEffect
  <2>7. c \in live
    BY <2>4 DEF RefsOf, HasOut
  <2>8. \A x \in Conn \ {c} : Same(x)
    BY <2>1, <2>5, <2>6 DEF Same, HasOut
  <2>9. RefsOf(c)'
    BY <2>1, <2>2, <2>3, <2>4, <2>5, <2>6, <2>7, UnreferencedFlags
    DEF RefsOf, HasOut
  <2>10. ModeOf(c)'
    BY <2>1, <2>2, <2>3, <2>4, <2>5, <2>6, <2>7, UnreferencedFlags
    DEF ModeOf, Ticking, IteratorInv
  <2>11. IteratorInv'
    BY <2>1, <2>2, <2>3, <2>4, <2>5, <2>6, <2>7 DEF IteratorInv
  <2>12. PointerInv'
    BY <2>1, <2>2, <2>3, <2>4, <2>5, <2>6, <2>7 DEF PointerInv, Ticking
  <2>13. CooldownInv'
    BY <2>1, <2>2, <2>3, <2>4, <2>5, <2>6, <2>7 DEF CooldownInv
  <2> QED
    BY <2>1, <2>8, <2>9, <2>10, <2>11, <2>12, <2>13, RefsFrame, ModeFrame
<1>11. CASE send_batch_too_large
  <2>1. /\ pc = "send"
        /\ UNCHANGED <<live, cn_flags, cids, queueVars, callVars, rxVars,
                       cooldown, pc>>
    BY <1>11 DEF send_batch_too_large, BatchReady
  <2> PICK k \in skip..(Len(batch) - 1) :
         IF k + 1 < Len(batch)
            THEN /\ skip' = k + 1
                 /\ UNCHANGED <<out, coi_active, coi_inactive, batch, stop>>
            ELSE ReturnPackets(Len(batch)) /\ stop' \in {stop, TRUE}
    BY <1>11 DEF send_batch_too_large
  <2>2. \/ UNCHANGED <<coi_active, coi_inactive, batch>>
        \/ Len(batch) \in Nat /\ ReturnPackets(Len(batch))
    <3>1. Len(batch) \in Nat
      BY DEF TypeOK
    <3>2. CASE k + 1 < Len(batch)
      BY <3>2
    <3>3. CASE ~(k + 1 < Len(batch))
      BY <3>1, <3>3
    <3> QED
      BY <3>2, <3>3
  <2>3. /\ \A x : x \in coi_active' \cup coi_inactive'
                      <=> x \in coi_active \cup coi_inactive
        /\ coi_active' \cap coi_inactive' = {}
        /\ batch' = <<>> \/ batch' = batch
    BY <2>2, ReturnEffect DEF IteratorInv
  <2>4. \A x \in Conn : Same(x)
    BY <2>1, <2>3, HashSame DEF Same, HasOut
  <2>5. IteratorInv'
    BY <2>1, <2>3 DEF IteratorInv
  <2>6. PointerInv'
    BY <2>1 DEF PointerInv, Ticking
  <2>7. CooldownInv'
    BY <2>1 DEF CooldownInv
  <2> QED
    BY <2>1, <2>4, <2>5, <2>6, <2>7, RefsFrame, ModeFrame
<1>12. ASSUME NEW c \in Conn, reheap_active(c)
      PROVE  EngineInv'
  <2>1. /\ pc = "send" /\ batch = <<>> /\ c \in coi_active
        /\ coi_active' = coi_active \ {c}
        /\ UNCHANGED <<conns_hash, conns_tickable, attq, callVars, coi_inactive,
                       batch, rxVars, cooldown, pc>>
    BY <1>12 DEF reheap_active
  <2>2. \/ /\ conns_out' = conns_out \cup {c} /\ UNCHANGED <<live, cn_flags, cids>>
           /\ "IMMED_CLOSE" \notin cn_flags[c]
        \/ SetFlags(c, cn_flags[c] \ {"HAS_OUTGOING"}) /\ UNCHANGED conns_out
    BY <1>12 DEF reheap_active, SendsAgain
  <2>3. /\ \A x \in Conn \ {c} : /\ cn_flags'[x] = cn_flags[x]
                                 /\ cids'[x] = cids[x]
                                 /\ x \in live' <=> x \in live
                                 /\ x \in conns_out' <=> x \in conns_out
        /\ \/ /\ conns_out' = conns_out \cup {c} /\ UNCHANGED <<live, cn_flags, cids>>
              /\ "IMMED_CLOSE" \notin cn_flags[c]
           \/ /\ UNCHANGED conns_out
              /\ LET fl == cn_flags[c] \ {"HAS_OUTGOING"}
                 IN /\ Unreferenced(fl) => c \notin live' /\ cn_flags'[c] = {}
                    /\ ~Unreferenced(fl) => /\ c \in live' <=> c \in live
                                            /\ cn_flags'[c] = fl
                                            /\ cids'[c] = cids[c]
    BY <2>2, SetFlagsEffect
  <2>4. \A x \in Conn \ {c} : Same(x)
    BY <2>1, <2>3, HashSame DEF Same, HasOut
  <2>5. RefsOf(c)'
    BY <2>1, <2>2, <2>3, UnreferencedFlags, HashSame
    DEF RefsOf, HasOut, IteratorInv
  <2>6. ModeOf(c)'
    BY <2>1, <2>2, <2>3, UnreferencedFlags DEF ModeOf, Ticking, IteratorInv
  <2>7. IteratorInv'
    BY <2>1, <2>2, <2>3 DEF IteratorInv
  <2>8. PointerInv'
    BY <2>1, <2>2, <2>3 DEF PointerInv, Ticking
  <2>9. CooldownInv'
    BY <2>1, <2>2, <2>3 DEF CooldownInv
  <2> QED
    BY <2>1, <2>4, <2>5, <2>6, <2>7, <2>8, <2>9, RefsFrame, ModeFrame
<1>13. ASSUME NEW c \in Conn, reheap_inactive(c)
      PROVE  EngineInv'
  <2> DEFINE fl == cn_flags[c] \ {"HAS_OUTGOING"}
  <2>1. /\ pc = "send" /\ batch = <<>> /\ c \in coi_inactive
        /\ coi_inactive' = coi_inactive \ {c}
        /\ SetFlags(c, fl)
        /\ UNCHANGED <<queueVars, callVars, coi_active, batch, rxVars, cooldown,
                       pc>>
    BY <1>13 DEF reheap_inactive
  <2>2. /\ \A x \in Conn \ {c} : /\ cn_flags'[x] = cn_flags[x]
                                 /\ cids'[x] = cids[x]
                                 /\ x \in live' <=> x \in live
        /\ Unreferenced(fl) => c \notin live' /\ cn_flags'[c] = {}
        /\ ~Unreferenced(fl) => /\ c \in live' <=> c \in live
                                /\ cn_flags'[c] = fl
                                /\ cids'[c] = cids[c]
    BY <2>1, SetFlagsEffect
  <2>3. \A x \in Conn \ {c} : Same(x)
    BY <2>1, <2>2, HashSame DEF Same, HasOut
  <2>4. RefsOf(c)'
    BY <2>1, <2>2, UnreferencedFlags, HashSame DEF RefsOf, HasOut, IteratorInv
  <2>5. ModeOf(c)'
    BY <2>1, <2>2, UnreferencedFlags DEF ModeOf, Ticking
  <2>6. IteratorInv'
    BY <2>1, <2>2 DEF IteratorInv
  <2>7. PointerInv'
    BY <2>1, <2>2 DEF PointerInv, Ticking
  <2>8. CooldownInv'
    BY <2>1, <2>2 DEF CooldownInv
  <2> QED
    BY <2>1, <2>3, <2>4, <2>5, <2>6, <2>7, <2>8, RefsFrame, ModeFrame
<1>14. CASE send_done
  <2>1. /\ pc = "send" /\ pc' = "close"
        /\ batch = <<>> /\ coi_active = {} /\ coi_inactive = {}
        /\ UNCHANGED <<connVars, queueVars, callVars, coi_active, coi_inactive,
                       batch, rxVars, cooldown>>
    BY <1>14 DEF send_done
  <2>2. \A x \in Conn : Same(x)
    BY <2>1, HashSame DEF Same, HasOut, TypeOK
  <2>3. \A x \in Conn : ModeOf(x)'
    BY <2>1, <2>2 DEF ModeOf, Same, Ticking, RefsOf, HasOut
  <2>4. IteratorInv'
    BY <2>1 DEF IteratorInv
  <2>5. PointerInv'
    BY <2>1 DEF PointerInv, Ticking
  <2>6. CooldownInv'
    BY <2>1 DEF CooldownInv
  <2> QED
    BY <2>1, <2>2, <2>4, <2>5, <2>6, <2>3, RefsFrame
<1> QED
  BY <1>1, <1>2, <1>3, <1>4, <1>5, <1>6, <1>7, <1>8, <1>9, <1>10, <1>11,
     <1>12, <1>13, <1>14
  DEF Send

\* Destroying the engine preserves the invariant, ...
LEMMA InvDestroy ==
    ASSUME EngineInv, TypeOK', Destroy
    PROVE  EngineInv'
<1> USE DEF EngineInv, connVars, queueVars, callVars, sendVars, countVars,
            rxVars, engVars
<1>1. CASE engine_destroy
  <2>1. /\ pc = "idle" /\ pc' = "dtor_out" /\ dgram = {}
        /\ UNCHANGED <<connVars, queueVars, callVars, sendVars, rxVars, cooldown>>
    BY <1>1 DEF engine_destroy, Idle
  <2>2. \A x \in Conn : Same(x)
    BY <2>1, HashSame DEF Same, HasOut, TypeOK
  <2>3. \A x \in Conn : ModeOf(x)'
    BY <2>1, <2>2 DEF ModeOf, Same, Ticking
  <2>4. IteratorInv'
    BY <2>1 DEF IteratorInv
  <2>5. PointerInv'
    BY <2>1 DEF PointerInv, Ticking
  <2>6. CooldownInv'
    BY <2>1 DEF CooldownInv
  <2> QED
    BY <2>1, <2>2, <2>4, <2>5, <2>6, <2>3, RefsFrame
<1>2. ASSUME NEW c \in Conn, dtor_out(c)
      PROVE  EngineInv'
  <2> DEFINE fl == cn_flags[c] \ {"HAS_OUTGOING"}
  <2>1. /\ pc = "dtor_out" /\ c \in conns_out /\ conns_out' = conns_out \ {c}
        /\ SetFlags(c, fl)
        /\ UNCHANGED <<conns_hash, conns_tickable, attq, callVars, sendVars,
                       rxVars, cooldown, pc>>
    BY <1>2 DEF dtor_out
  <2>2. /\ \A x \in Conn \ {c} : /\ cn_flags'[x] = cn_flags[x]
                                 /\ cids'[x] = cids[x]
                                 /\ x \in live' <=> x \in live
        /\ Unreferenced(fl) => c \notin live' /\ cn_flags'[c] = {}
        /\ ~Unreferenced(fl) => /\ c \in live' <=> c \in live
                                /\ cn_flags'[c] = fl
                                /\ cids'[c] = cids[c]
    BY <2>1, SetFlagsEffect
  <2>3. \A x \in Conn \ {c} : Same(x)
    BY <2>1, <2>2, HashSame DEF Same, HasOut
  <2>4. RefsOf(c)'
    BY <2>1, <2>2, UnreferencedFlags, HashSame DEF RefsOf, HasOut, IteratorInv
  <2>5. ModeOf(c)'
    BY <2>1, <2>2, UnreferencedFlags DEF ModeOf, Ticking
  <2>6. IteratorInv'
    BY <2>1, <2>2 DEF IteratorInv
  <2>7. PointerInv'
    BY <2>1, <2>2 DEF PointerInv, Ticking
  <2>8. CooldownInv'
    BY <2>1, <2>2 DEF CooldownInv
  <2> QED
    BY <2>1, <2>3, <2>4, <2>5, <2>6, <2>7, <2>8, RefsFrame, ModeFrame
<1>3. ASSUME NEW c \in Conn, dtor_tickable(c)
      PROVE  EngineInv'
  <2> DEFINE fl == cn_flags[c] \ {"TICKABLE"}
  <2>1. /\ pc = "dtor_tickable" /\ conns_tickable' = conns_tickable \ {c}
        /\ SetFlags(c, fl)
        /\ UNCHANGED <<conns_hash, conns_out, attq, callVars, sendVars, rxVars,
                       cooldown, pc>>
    BY <1>3 DEF dtor_tickable
  <2>2. /\ \A x \in Conn \ {c} : /\ cn_flags'[x] = cn_flags[x]
                                 /\ cids'[x] = cids[x]
                                 /\ x \in live' <=> x \in live
        /\ Unreferenced(fl) => c \notin live' /\ cn_flags'[c] = {}
        /\ ~Unreferenced(fl) => /\ c \in live' <=> c \in live
                                /\ cn_flags'[c] = fl
                                /\ cids'[c] = cids[c]
    BY <2>1, SetFlagsEffect
  <2>3. \A x \in Conn \ {c} : Same(x)
    BY <2>1, <2>2, HashSame DEF Same, HasOut
  <2>4. RefsOf(c)'
    BY <2>1, <2>2, UnreferencedFlags, HashSame DEF RefsOf, HasOut
  <2>5. ModeOf(c)'
    BY <2>1, <2>2, UnreferencedFlags DEF ModeOf, Ticking
  <2>6. IteratorInv'
    BY <2>1, <2>2 DEF IteratorInv
  <2>7. PointerInv'
    BY <2>1, <2>2 DEF PointerInv, Ticking
  <2>8. CooldownInv'
    BY <2>1, <2>2 DEF CooldownInv
  <2> QED
    BY <2>1, <2>3, <2>4, <2>5, <2>6, <2>7, <2>8, RefsFrame, ModeFrame
<1>4. ASSUME NEW c \in Conn, force_close_conn(c)
      PROVE  EngineInv'
  <2> DEFINE fl == cn_flags[c] \ {"ATTQ", "HASHED"}
  <2>1. /\ pc = "dtor_hash" /\ attq' = attq \ {c}
        /\ conns_hash' = conns_hash \ HashEntries(c)
        /\ SetFlags(c, fl)
        /\ UNCHANGED <<conns_tickable, conns_out, callVars, sendVars, rxVars,
                       cooldown, pc>>
    BY <1>4 DEF force_close_conn
  <2>2. /\ \A x \in Conn \ {c} : /\ cn_flags'[x] = cn_flags[x]
                                 /\ cids'[x] = cids[x]
                                 /\ x \in live' <=> x \in live
        /\ Unreferenced(fl) => c \notin live' /\ cn_flags'[c] = {}
        /\ ~Unreferenced(fl) => /\ c \in live' <=> c \in live
                                /\ cn_flags'[c] = fl
                                /\ cids'[c] = cids[c]
    BY <2>1, SetFlagsEffect
  <2>3. \A x \in Conn \ {c} : Same(x)
    BY <2>1, <2>2, HashRemove DEF Same, HasOut
  <2>4. RefsOf(c)'
    BY <2>1, <2>2, UnreferencedFlags, HashRemove DEF RefsOf, HasOut
  <2>5. ModeOf(c)'
    BY <2>1, <2>2, UnreferencedFlags DEF ModeOf, Ticking
  <2>6. IteratorInv'
    BY <2>1, <2>2 DEF IteratorInv
  <2>7. PointerInv'
    BY <2>1, <2>2 DEF PointerInv, Ticking
  <2>8. CooldownInv'
    BY <2>1, <2>2 DEF CooldownInv
  <2> QED
    BY <2>1, <2>3, <2>4, <2>5, <2>6, <2>7, <2>8, RefsFrame, ModeFrame
<1>5. ASSUME NEW c \in Conn, dtor_attq(c)
      PROVE  EngineInv'
  <2> DEFINE fl == cn_flags[c] \ {"ATTQ"}
  <2>1. /\ pc = "dtor_attq" /\ attq' = attq \ {c}
        /\ SetFlags(c, fl)
        /\ UNCHANGED <<conns_hash, conns_tickable, conns_out, callVars, sendVars,
                       rxVars, cooldown, pc>>
    BY <1>5 DEF dtor_attq
  <2>2. /\ \A x \in Conn \ {c} : /\ cn_flags'[x] = cn_flags[x]
                                 /\ cids'[x] = cids[x]
                                 /\ x \in live' <=> x \in live
        /\ Unreferenced(fl) => c \notin live' /\ cn_flags'[c] = {}
        /\ ~Unreferenced(fl) => /\ c \in live' <=> c \in live
                                /\ cn_flags'[c] = fl
                                /\ cids'[c] = cids[c]
    BY <2>1, SetFlagsEffect
  <2>3. \A x \in Conn \ {c} : Same(x)
    BY <2>1, <2>2, HashSame DEF Same, HasOut
  <2>4. RefsOf(c)'
    BY <2>1, <2>2, UnreferencedFlags, HashSame DEF RefsOf, HasOut
  <2>5. ModeOf(c)'
    BY <2>1, <2>2, UnreferencedFlags DEF ModeOf, Ticking
  <2>6. IteratorInv'
    BY <2>1, <2>2 DEF IteratorInv
  <2>7. PointerInv'
    BY <2>1, <2>2 DEF PointerInv, Ticking
  <2>8. CooldownInv'
    BY <2>1, <2>2 DEF CooldownInv
  <2> QED
    BY <2>1, <2>3, <2>4, <2>5, <2>6, <2>7, <2>8, RefsFrame, ModeFrame
<1>6. CASE dtor_next
  <2>1. /\ pc \in {"dtor_out", "dtor_tickable", "dtor_hash", "dtor_attq"}
        /\ pc' \in {"dtor_tickable", "dtor_hash", "dtor_attq", "destroyed"}
        /\ pc \in {"dtor_hash", "dtor_attq"} => pc' \in {"dtor_attq", "destroyed"}
        /\ UNCHANGED <<connVars, queueVars, callVars, sendVars, rxVars, cooldown>>
    BY <1>6 DEF dtor_next
  <2>2. \A x \in Conn : Same(x)
    BY <2>1, HashSame DEF Same, HasOut, TypeOK
  <2>3. \A x \in Conn : ModeOf(x)'
    BY <2>1, <2>2 DEF ModeOf, Same, Ticking
  <2>4. IteratorInv'
    BY <2>1 DEF IteratorInv
  <2>5. PointerInv'
    BY <2>1 DEF PointerInv, Ticking
  <2>6. CooldownInv'
    BY <2>1 DEF CooldownInv
  <2> QED
    BY <2>1, <2>2, <2>4, <2>5, <2>6, <2>3, RefsFrame
<1> QED
  BY <1>1, <1>2, <1>3, <1>4, <1>5, <1>6 DEF Destroy

\* In every reachable state the inductive invariant holds, unless memory for a
\* hash entry may run out during a promotion.
THEOREM Invariance ==
    ASSUME "hash_failure" \notin Events
    PROVE  Spec => []EngineInv
<1>1. Init => EngineInv
  <2> SUFFICES ASSUME Init PROVE EngineInv
    OBVIOUS
  <2>1. TypeOK
    BY TypeInit
  <2>2. IteratorInv /\ PointerInv /\ CooldownInv
    BY DEF Init, IteratorInv, PointerInv, CooldownInv, Ticking
  <2>3. \A x \in Conn : RefsOf(x) /\ ModeOf(x)
    BY DEF Init, RefsOf, ModeOf, HasOut, HashEntries
  <2> QED
    BY <2>1, <2>2, <2>3 DEF EngineInv
<1>2. EngineInv /\ [Next]_vars => EngineInv'
  <2> SUFFICES ASSUME EngineInv, [Next]_vars PROVE EngineInv'
    OBVIOUS
  <2>1. TypeOK'
    BY TypeNext DEF EngineInv
  <2>2. CASE Next
    BY <2>1, <2>2, InvReceive, InvUserCall, InvProcess, InvSend, InvDestroy
    DEF Next
  <2>3. CASE UNCHANGED vars
    <3>1. UNCHANGED <<connVars, queueVars, callVars, sendVars, countVars,
                      rxVars, engVars>>
      BY <2>3 DEF vars
    <3>2. \A x \in Conn : Same(x)
      BY <3>1, HashSame DEF Same, HasOut, connVars, queueVars, callVars,
         sendVars
    <3>3. IteratorInv' /\ PointerInv' /\ CooldownInv'
      BY <3>1 DEF EngineInv, IteratorInv, PointerInv, CooldownInv, Ticking,
         connVars, queueVars, callVars, sendVars, rxVars, engVars
    <3> QED
      BY <2>1, <3>1, <3>2, <3>3, RefsFrame, ModeFrame DEF EngineInv, engVars
  <2> QED
    BY <2>2, <2>3
<1> QED
  BY <1>1, <1>2, PTL DEF Spec

\* Each reference flag of a connection is set exactly when the structure it
\* stands for holds the connection: engine_incref_conn and engine_decref_conn
\* are called wherever they have to be.
THEOREM RefsAreExact ==
    ASSUME "hash_failure" \notin Events
    PROVE  Spec => []RefsMatch
<1>1. EngineInv => RefsMatch
  BY InvOf
<1> QED
  BY <1>1, Invariance, PTL

\* No connection is leaked and none is destroyed while it is referenced.
THEOREM NoLeak ==
    ASSUME "hash_failure" \notin Events
    PROVE  Spec => []LiveIffReferenced
<1>1. EngineInv => LiveIffReferenced
  BY InvOf
<1> QED
  BY <1>1, Invariance, PTL

\* Every connection pointer of the engine, counted as a reference or not, leads
\* to a connection that exists.
THEOREM PointersAreValid ==
    ASSUME "hash_failure" \notin Events
    PROVE  Spec => []NoDangling
<1>1. EngineInv => NoDangling
  <2> SUFFICES ASSUME EngineInv PROVE NoDangling
    OBVIOUS
  <2> USE DEF EngineInv
  <2>1. \A x \in Conn : cn_flags[x] # {} => x \in live
    BY DEF RefsOf
  <2>2. \A e \in conns_hash : e[2] \in live
    <3> TAKE e \in conns_hash
    <3>1. e[2] \in Conn /\ e \in HashEntries(e[2])
      BY DEF TypeOK, HashEntries
    <3> QED
      BY <2>1, <3>1 DEF RefsOf
  <2>3. conns_tickable \cup conns_out \cup attq \subseteq live
    BY <2>1 DEF RefsOf, HasOut, TypeOK
  <2>4. closed_conns \cup ticked_conns \cup new_full_conns \subseteq live
    BY <2>1 DEF RefsOf, PointerInv, TypeOK
  <2>5. coi_active \cup coi_inactive \subseteq live
    BY <2>1 DEF RefsOf, HasOut, TypeOK
  <2>6. \A i \in 1..Len(batch) : batch[i] \in live
    BY <2>5 DEF IteratorInv
  <2>7. /\ cur # NoConn => cur \in live
        /\ dgram # {} /\ curr_conn # NoConn => curr_conn \in live
    BY DEF PointerInv
  <2> QED
    BY <2>2, <2>3, <2>4, <2>5, <2>6, <2>7 DEF NoDangling
<1> QED
  BY <1>1, Invariance, PTL

\* A connection on the ticked queue is in the hash, unless a cooldown dropped it
\* as a mini connection.
THEOREM TickedStaysHashed ==
    ASSUME "hash_failure" \notin Events
    PROVE  Spec => []TickedIsHashed
<1>1. EngineInv => TickedIsHashed
  BY InvOf
<1> QED
  BY <1>1, Invariance, PTL

\* In one call of process_connections no connection is ticked twice.
THEOREM NoDoubleTick ==
    ASSUME "hash_failure" \notin Events
    PROVE  Spec => []TickedOnce
<1>1. EngineInv => TickedOnce
  BY DEF EngineInv, TickedOnce, PointerInv, RefsOf, TypeOK
<1> QED
  BY <1>1, Invariance, PTL

\* A program that never calls lsquic_engine_cooldown never makes the engine use
\* a connection after its destruction.
THEOREM NoUseAfterFree ==
    ASSUME "hash_failure" \notin Events, "cooldown" \notin Events
    PROVE  Spec => []NoUseAfterDestroy
<1>1. EngineInv => NoUseAfterDestroy
  BY DEF EngineInv, NoUseAfterDestroy, CooldownInv
<1> QED
  BY <1>1, Invariance, PTL

\* Together: without cooldown, no sequence of operations leaks a connection,
\* destroys one that is referenced, or follows a pointer to a destroyed one.
THEOREM LifetimesAreSound ==
    ASSUME "hash_failure" \notin Events, "cooldown" \notin Events
    PROVE  Spec => []LifetimesSound
<1>1. RefsMatch /\ LiveIffReferenced /\ NoDangling /\ NoUseAfterDestroy
        => LifetimesSound
  BY DEF LifetimesSound
<1> QED
  BY <1>1, RefsAreExact, NoLeak, PointersAreValid, NoUseAfterFree, PTL

\* The loops of process_connections tick a connection once, and find the ticked
\* ones still hashed.
THEOREM TickingIsSound ==
    ASSUME "hash_failure" \notin Events
    PROVE  Spec => []TickingSound
<1>1. TickedOnce /\ TickedIsHashed => TickingSound
  BY DEF TickingSound
<1> QED
  BY <1>1, NoDoubleTick, TickedStaysHashed, PTL

-----------------------------------------------------------------------------
(***************************************************************************)
(* The directory of connections, the output iterator, destruction          *)
(***************************************************************************)

\* A step keeps what connection x, which it does not create, is and owns.
Steady(x) ==
    /\ Open(x)' => Open(x) /\ cids'[x] = cids[x]
    /\ "HASHED" \in cn_flags'[x] =>
         /\ "HASHED" \in cn_flags[x]
         /\ HashEntries(x)' = HashEntries(x)
         /\ Open(x) => Open(x)' 

\* A step keeps the counters right: connections and minis stay what they are.
Counted ==
    /\ live' = live
    /\ \A x \in Conn : "MINI" \in cn_flags'[x] <=> "MINI" \in cn_flags[x]
    /\ n_conns' = n_conns /\ mini_conns_count' = mini_conns_count
    /\ nalloc' >= nalloc

\* Steady steps keep the owners of CIDs apart.
LEMMA OwnersSteady ==
    ASSUME TypeOK, OwnersInv, \A x \in Conn : Steady(x)
    PROVE  OwnersInv'
<1>1. ASSUME NEW x \in Conn, "HASHED" \in cn_flags'[x], NEW d \in cids'[x]
      PROVE  Open(x)' /\ <<d, x>> \in conns_hash'
  <2>1. /\ "HASHED" \in cn_flags[x] /\ HashEntries(x)' = HashEntries(x)
        /\ Open(x) => Open(x)'
    BY <1>1 DEF Steady
  <2>2. Open(x) /\ Open(x)' /\ cids'[x] = cids[x]
    BY <2>1 DEF OwnersInv, Steady
  <2>3. <<d, x>> \in HashEntries(x)
    BY <2>1, <2>2 DEF OwnersInv, HashEntries
  <2> QED
    BY <2>1, <2>2, <2>3 DEF HashEntries
<1>2. ASSUME NEW x \in Conn, "HASHED" \in cn_flags'[x]
      PROVE  Open(x)'
  BY <1>2 DEF Steady, OwnersInv
<1>3. ASSUME NEW x \in Conn, NEW y \in Conn, Open(x)', Open(y)', x # y
      PROVE  cids'[x] \cap cids'[y] = {}
  BY <1>3 DEF Steady, OwnersInv
<1> QED
  BY <1>1, <1>2, <1>3 DEF OwnersInv

\* Steps that create and destroy nothing keep the counters right.
LEMMA CountsKept ==
    ASSUME TypeOK, TypeOK', CountsInv, Counted
    PROVE  CountsInv'
<1>1. {c \in live : "MINI" \in cn_flags[c]}' = {c \in live : "MINI" \in cn_flags[c]}
  BY DEF Counted, TypeOK
<1>2. CountsExact'
  BY <1>1 DEF CountsInv, CountsExact, Counted
<1>3. (n_conns <= nalloc)'
  BY DEF CountsInv, Counted, TypeOK
<1> QED
  BY <1>2, <1>3 DEF CountsInv

\* The set of connections is finite.
LEMMA LiveIsFinite ==
    ASSUME TypeOK
    PROVE  /\ IsFiniteSet(live)
           /\ \A T \in SUBSET live : IsFiniteSet(T) /\ Cardinality(T) \in Nat
<1>1. IsFiniteSet(Conn) /\ live \subseteq Conn
  BY EngineAssumption DEF TypeOK
<1> QED
  BY <1>1, FS_Subset, FS_CardinalityType

\* engine_decref_conn keeps the counters right, whether or not it destroys.
LEMMA CountsDecref ==
    ASSUME TypeOK, TypeOK', CountsInv, NEW c \in live, NEW fl, SetFlags(c, fl),
           "MINI" \in fl <=> "MINI" \in cn_flags[c], nalloc' = nalloc
    PROVE  CountsInv'
<1> DEFINE Minis == {x \in live : "MINI" \in cn_flags[x]}
<1>0. c \in Conn
  BY DEF TypeOK
<1>1. CASE Unreferenced(fl)
  <2>1. /\ live' = live \ {c} /\ n_conns' = n_conns - 1
        /\ cn_flags' = [cn_flags EXCEPT ![c] = {}]
        /\ mini_conns_count' = mini_conns_count - MiniCount(fl)
    BY <1>1 DEF SetFlags, destroy_conn
  <2>2. Cardinality(live') = Cardinality(live) - 1
    BY <2>1, LiveIsFinite, FS_RemoveElement
  <2>3. Minis' = Minis \ {c}
    BY <1>0, <2>1 DEF TypeOK
  <2>4. IsFiniteSet(Minis) /\ Minis \subseteq live
    BY LiveIsFinite
  <2>5. Cardinality(Minis') = Cardinality(Minis) - MiniCount(fl)
    <3>1. CASE "MINI" \in fl
      <4>1. c \in Minis
        BY <3>1
      <4>2. Cardinality(Minis \ {c}) = Cardinality(Minis) - 1
        BY <4>1, <2>4, FS_RemoveElement
      <4> QED
        BY <3>1, <2>3, <4>2 DEF MiniCount
    <3>2. CASE "MINI" \notin fl
      <4>1. Minis' = Minis
        BY <3>2, <2>3
      <4>2. Cardinality(Minis) \in Nat
        BY <2>4, FS_CardinalityType
      <4> HIDE DEF Minis
      <4> QED
        BY <3>2, <4>1, <4>2 DEF MiniCount
    <3> QED
      BY <3>1, <3>2
  <2>6. CountsExact'
    <3>1. n_conns = Cardinality(live) /\ mini_conns_count = Cardinality(Minis)
      BY DEF CountsInv, CountsExact
    <3>2. (n_conns = Cardinality(live) /\ mini_conns_count = Cardinality(Minis))'
      <4> HIDE DEF Minis
      <4> QED
        BY <2>1, <2>2, <2>5, <3>1
    <3> QED
      BY <3>2 DEF CountsExact
  <2>7. (n_conns <= nalloc)'
    BY <2>1 DEF CountsInv, TypeOK
  <2> QED
    BY <2>6, <2>7 DEF CountsInv
<1>2. CASE ~Unreferenced(fl)
  <2>1. /\ cn_flags' = [cn_flags EXCEPT ![c] = fl]
        /\ UNCHANGED <<live, cids, n_conns, mini_conns_count>>
    BY <1>2 DEF SetFlags
  <2>2. ASSUME NEW x \in Conn
        PROVE  "MINI" \in cn_flags'[x] <=> "MINI" \in cn_flags[x]
    BY <1>0, <2>1 DEF TypeOK
  <2>3. nalloc' >= nalloc
    BY DEF TypeOK
  <2>4. Counted
    BY <2>1, <2>2, <2>3 DEF Counted
  <2> QED
    BY <2>4, CountsKept
<1> QED
  BY <1>1, <1>2

\* maybe_grow_conn_heaps makes room for one more connection.
LEMMA GrownHasRoom ==
    ASSUME TypeOK, CountsInv
    PROVE  n_conns + 1 <= GrownAlloc /\ nalloc <= GrownAlloc
BY EngineAssumption DEF TypeOK, CountsInv, GrownAlloc

\* A new connection f, with the flags fl, is counted.
LEMMA CountsCreate ==
    ASSUME TypeOK, TypeOK', CountsInv, NEW f \in Conn, f \notin live,
           live' = live \cup {f},
           \A x \in live : "MINI" \in cn_flags'[x] <=> "MINI" \in cn_flags[x],
           n_conns' = n_conns + 1, nalloc' = GrownAlloc,
           mini_conns_count' = mini_conns_count + MiniCount(cn_flags'[f])
    PROVE  CountsInv'
<1> DEFINE Minis == {x \in live : "MINI" \in cn_flags[x]}
<1>1. Cardinality(live') = Cardinality(live) + 1
  BY LiveIsFinite, FS_AddElement
<1>2. IsFiniteSet(Minis) /\ Minis \subseteq live /\ Cardinality(Minis) \in Nat
  BY LiveIsFinite
<1>3. Cardinality(Minis') = Cardinality(Minis) + MiniCount(cn_flags'[f])
  <2>1. CASE "MINI" \in cn_flags'[f]
    <3>1. Minis' = Minis \cup {f} /\ f \notin Minis
      BY <2>1
    <3>2. Cardinality(Minis') = Cardinality(Minis) + 1
      BY <3>1, <1>2, FS_AddElement
    <3> QED
      BY <2>1, <3>2 DEF MiniCount
  <2>2. CASE "MINI" \notin cn_flags'[f]
    <3>1. Minis' = Minis
      BY <2>2
    <3> HIDE DEF Minis
    <3> QED
      BY <2>2, <3>1, <1>2 DEF MiniCount
  <2> QED
    BY <2>1, <2>2
<1>4. CountsExact'
  BY <1>1, <1>3 DEF CountsInv, CountsExact
<1> QED
  BY <1>4, GrownHasRoom DEF CountsInv

\* The flags that say what a connection is and whether it is closed.
Kind == {"MINI", "HASHED", "PROMOTED", "TICK_CLOSE", "IMMED_CLOSE"}

\* A step that touches neither the hash nor the kind of a connection.
LEMMA PlainStep ==
    ASSUME EngineInv, TypeOK', DirectoryInv,
           UNCHANGED <<live, cids, conns_hash, n_conns, mini_conns_count>>,
           nalloc' >= nalloc,
           \A x \in Conn : \A k \in Kind : k \in cn_flags'[x] <=> k \in cn_flags[x]
    PROVE  OwnersInv' /\ CountsInv'
<1>1. ASSUME NEW x \in Conn PROVE Steady(x)
  <2>1. /\ "HASHED" \in cn_flags'[x] <=> "HASHED" \in cn_flags[x]
        /\ "PROMOTED" \in cn_flags'[x] <=> "PROMOTED" \in cn_flags[x]
        /\ "TICK_CLOSE" \in cn_flags'[x] <=> "TICK_CLOSE" \in cn_flags[x]
        /\ "IMMED_CLOSE" \in cn_flags'[x] <=> "IMMED_CLOSE" \in cn_flags[x]
    BY DEF Kind
  <2>2. Open(x)' <=> Open(x)
    BY <2>1 DEF Open
  <2> QED
    BY <2>1, <2>2, HashSame DEF Steady
<1>2. Counted
  BY DEF Counted, Kind
<1> QED
  BY <1>1, <1>2, OwnersSteady, CountsKept DEF EngineInv, DirectoryInv

\* A step that takes connection c out of the hash and may close it.
LEMMA UnhashStep ==
    ASSUME EngineInv, TypeOK', DirectoryInv, NEW c \in Conn,
           UNCHANGED <<live, cids, n_conns, mini_conns_count>>, nalloc' >= nalloc,
           \A x : x # c => HashEntries(x)' = HashEntries(x),
           \A x \in Conn \ {c} : cn_flags'[x] = cn_flags[x],
           "HASHED" \notin cn_flags'[c],
           cn_flags[c] \ RefFlag \subseteq cn_flags'[c],
           "MINI" \in cn_flags'[c] => "MINI" \in cn_flags[c]
    PROVE  OwnersInv' /\ CountsInv'
<1>1. \A k \in {"MINI", "PROMOTED", "TICK_CLOSE", "IMMED_CLOSE"} :
        k \in cn_flags[c] => k \in cn_flags'[c]
  BY DEF RefFlag
<1>2. Steady(c)
  <2>1. Open(c)' => Open(c)
    BY <1>1 DEF Open
  <2> QED
    BY <2>1 DEF Steady
<1>3. ASSUME NEW x \in Conn, x # c PROVE Steady(x)
  BY <1>3 DEF Steady, Open
<1>4. Counted
  <2>1. ASSUME NEW x \in Conn
        PROVE  "MINI" \in cn_flags'[x] <=> "MINI" \in cn_flags[x]
    BY <1>1
  <2> QED
    BY <2>1 DEF Counted
<1> QED
  BY <1>2, <1>3, <1>4, OwnersSteady, CountsKept DEF EngineInv, DirectoryInv

\* engine_decref_conn, for connection c, which is taken out of the hash if it
\* loses that flag.
LEMMA DecrefStep ==
    ASSUME EngineInv, TypeOK', DirectoryInv, NEW c \in live, NEW fl,
           SetFlags(c, fl), nalloc' = nalloc,
           \A k \in Kind \ {"HASHED"} : k \in fl <=> k \in cn_flags[c],
           "HASHED" \in fl => "HASHED" \in cn_flags[c],
           \A x : x # c \/ "HASHED" \in fl => HashEntries(x)' = HashEntries(x)
    PROVE  OwnersInv' /\ CountsInv'
<1>0. c \in Conn
  BY DEF EngineInv, TypeOK
<1>1. /\ \A x \in Conn \ {c} : /\ cn_flags'[x] = cn_flags[x]
                               /\ cids'[x] = cids[x]
                               /\ x \in live' <=> x \in live
      /\ Unreferenced(fl) => c \notin live' /\ cn_flags'[c] = {}
      /\ ~Unreferenced(fl) => /\ c \in live' <=> c \in live
                              /\ cn_flags'[c] = fl
                              /\ cids'[c] = cids[c]
  BY <1>0, SetFlagsEffect DEF EngineInv
<1>2. ASSUME NEW x \in Conn, x # c PROVE Steady(x)
  BY <1>1, <1>2 DEF Steady, Open
<1>3. Steady(c)
  <2>1. CASE Unreferenced(fl)
    BY <1>1, <2>1 DEF Steady, Open
  <2>2. CASE ~Unreferenced(fl)
    <3>1. /\ "PROMOTED" \in fl <=> "PROMOTED" \in cn_flags[c]
          /\ "TICK_CLOSE" \in fl <=> "TICK_CLOSE" \in cn_flags[c]
          /\ "IMMED_CLOSE" \in fl <=> "IMMED_CLOSE" \in cn_flags[c]
      BY DEF Kind
    <3>2. Open(c)' <=> Open(c)
      BY <1>1, <2>2, <3>1 DEF Open
    <3> QED
      BY <1>1, <2>2, <3>2 DEF Steady
  <2> QED
    BY <2>1, <2>2
<1>4. "MINI" \in fl <=> "MINI" \in cn_flags[c]
  BY DEF Kind
<1>5. CountsInv'
  BY <1>4, CountsDecref DEF EngineInv, DirectoryInv
<1>6. OwnersInv'
  BY <1>2, <1>3, OwnersSteady DEF EngineInv, DirectoryInv
<1> QED
  BY <1>5, <1>6

\* A new connection c has CIDs D that no open connection has.
LEMMA OwnersCreate ==
    ASSUME TypeOK, OwnersInv, NEW c \in Conn, c \notin live, NEW D,
           live' = live \cup {c},
           \A x \in Conn \ {c} : cn_flags'[x] = cn_flags[x] /\ cids'[x] = cids[x],
           cids'[c] = D, \A x \in Conn : Open(x) => D \cap cids[x] = {},
           {"PROMOTED", "TICK_CLOSE", "IMMED_CLOSE"} \cap cn_flags'[c] = {},
           conns_hash' = conns_hash \cup EntriesFor(c, D)
    PROVE  OwnersInv'
<1>1. \A x \in Conn \ {c} : Open(x)' <=> Open(x)
  BY DEF Open
<1>2. Open(c)'
  BY DEF Open
<1>3. \A k \in cids'[c] : <<k, c>> \in conns_hash'
  BY DEF EntriesFor
<1>4. \A x \in Conn : "HASHED" \in cn_flags'[x] =>
        Open(x)' /\ \A k \in cids'[x] : <<k, x>> \in conns_hash'
  BY <1>1, <1>2, <1>3 DEF OwnersInv
<1>5. ASSUME NEW x \in Conn, NEW y \in Conn, Open(x)', Open(y)', x # y
      PROVE  cids'[x] \cap cids'[y] = {}
  <2>1. CASE x # c /\ y # c
    BY <1>1, <1>5, <2>1 DEF OwnersInv
  <2>2. CASE x = c
    BY <1>1, <1>5, <2>2
  <2>3. CASE y = c
    BY <1>1, <1>5, <2>3
  <2> QED
    BY <2>1, <2>2, <2>3
<1> QED
  BY <1>4, <1>5 DEF OwnersInv

\* promote_mini_conn: connection f takes over the CIDs of connection c.
LEMMA OwnersPromote ==
    ASSUME TypeOK, OwnersInv, NEW c \in live, NEW f \in Conn, f \notin live,
           live' = live \cup {f}, Open(c),
           \A x \in Conn \ {c, f} : cn_flags'[x] = cn_flags[x],
           \A x \in Conn \ {f} : cids'[x] = cids[x],
           cids'[f] = cids[c],
           "PROMOTED" \in cn_flags'[c], "HASHED" \notin cn_flags'[c],
           {"PROMOTED", "TICK_CLOSE", "IMMED_CLOSE"} \cap cn_flags'[f] = {},
           conns_hash' = (conns_hash \cup EntriesFor(f, cids[c])) \ HashEntries(c)
    PROVE  OwnersInv'
<1>0. c \in Conn /\ c # f
  BY DEF TypeOK
<1>1. \A x \in Conn \ {c, f} : Open(x)' <=> Open(x)
  BY DEF Open
<1>2. ~Open(c)' /\ Open(f)'
  BY DEF Open
<1>3. ASSUME NEW k \in cids[c] PROVE <<k, f>> \in conns_hash'
  BY <1>0 DEF EntriesFor, HashEntries
<1>4. ASSUME NEW x \in Conn \ {c, f}, NEW k, <<k, x>> \in conns_hash
      PROVE  <<k, x>> \in conns_hash'
  BY <1>4 DEF EntriesFor, HashEntries
<1>5. ASSUME NEW x \in Conn, "HASHED" \in cn_flags'[x]
      PROVE  Open(x)' /\ \A k \in cids'[x] : <<k, x>> \in conns_hash'
  BY <1>0, <1>1, <1>2, <1>3, <1>4, <1>5 DEF OwnersInv
<1>6. ASSUME NEW x \in Conn, NEW y \in Conn, Open(x)', Open(y)', x # y
      PROVE  cids'[x] \cap cids'[y] = {}
  BY <1>0, <1>1, <1>2, <1>6 DEF OwnersInv
<1> QED
  BY <1>5, <1>6 DEF OwnersInv

\* A step that leads neither into sending nor into the destruction.
LEMMA AsideStep ==
    ASSUME IteratorInv', DirectoryInv, skip' = skip,
           pc' \notin {"send", "dtor_tickable", "dtor_hash", "dtor_attq", "destroyed"}
    PROVE  DestroyInv' /\ OutputInv'
BY DEF DirectoryInv, DestroyInv, OutputInv, IteratorInv

\* The steps of lsquic_engine_packet_in keep DirectoryInv, ...
LEMMA DirReceive ==
    ASSUME "hash_failure" \notin Events, EngineInv, EngineInv', DirectoryInv, Receive
    PROVE  DirectoryInv'
<1> USE DEF connVars, queueVars, callVars, sendVars, countVars, rxVars, engVars
<1>0. TypeOK /\ TypeOK' /\ IteratorInv'
  BY DEF EngineInv
<1>1. ASSUME NEW d \in CID, NEW c \in Conn, create_mini_conn(d, c)
      PROVE  DirectoryInv'
  <2>1. /\ pc = "idle" /\ ~cooldown /\ c \notin live /\ live' = live \cup {c}
        /\ \A e \in conns_hash : e[1] # d
        /\ cn_flags' = [cn_flags EXCEPT ![c] = {"MINI", "HASHED", "TICKABLE"}]
        /\ n_conns' = n_conns + 1 /\ mini_conns_count' = mini_conns_count + 1
        /\ nalloc' = GrownAlloc /\ skip' = skip /\ pc' = pc
    BY <1>1 DEF create_mini_conn, Idle
  <2>2. PICK s \in {d} \cup {x \in CID : FreshCID(x)} :
           /\ cids' = [cids EXCEPT ![c] = {d, s}]
           /\ conns_hash' = conns_hash \cup EntriesFor(c, {d, s})
    BY <1>1 DEF create_mini_conn
  <2>3. /\ \A x \in Conn \ {c} : cn_flags'[x] = cn_flags[x] /\ cids'[x] = cids[x]
        /\ cn_flags'[c] = {"MINI", "HASHED", "TICKABLE"} /\ cids'[c] = {d, s}
    BY <1>0, <2>1, <2>2 DEF TypeOK
  <2>4. CountsInv'
    BY <1>0, <2>1, <2>3, CountsCreate DEF DirectoryInv, MiniCount, TypeOK
  <2>5. ASSUME NEW x \in Conn, Open(x)
        PROVE  d \notin cids[x] /\ s \notin cids[x]
    <3>1. "HASHED" \in cn_flags[x]
      BY <2>1, <2>5 DEF EngineInv, ModeOf, Open
    <3>2. d \notin cids[x]
      <4>1. d \in cids[x] => <<d, x>> \in conns_hash
        BY <3>1 DEF DirectoryInv, OwnersInv
      <4>2. <<d, x>>[1] = d
        OBVIOUS
      <4> QED
        BY <2>1, <4>1, <4>2
    <3> QED
      BY <3>2, <2>5 DEF FreshCID, Open
  <2>6. OwnersInv'
    <3>1. \A x \in Conn : Open(x) => {d, s} \cap cids[x] = {}
      BY <2>5
    <3>2. {"PROMOTED", "TICK_CLOSE", "IMMED_CLOSE"} \cap cn_flags'[c] = {}
      BY <2>3
    <3> QED
      BY <1>0, <2>1, <2>2, <2>3, <3>1, <3>2, OwnersCreate DEF DirectoryInv
  <2> QED
    BY <1>0, <2>1, <2>4, <2>6, AsideStep DEF DirectoryInv
<1>2. ASSUME NEW d \in CID, NEW c \in Conn, packet_in(d, c)
      PROVE  DirectoryInv'
  <2>1. \A x \in Conn : \A k \in Kind : k \in cn_flags'[x] <=> k \in cn_flags[x]
    BY <1>0, <1>2 DEF packet_in, Kind, TypeOK
  <2>2. OwnersInv' /\ CountsInv'
    BY <1>0, <1>2, <2>1, PlainStep DEF packet_in, TypeOK
  <2> QED
    BY <1>0, <1>2, <2>2, AsideStep DEF packet_in, RxPacket, DirectoryInv
<1>3. ASSUME NEW d \in CID, NEW c \in Conn, NEW f \in Conn, packet_in_promote(d, c, f)
      PROVE  DirectoryInv'
  <2>1. /\ pc = "idle" /\ f \notin live /\ live' = live \cup {f}
        /\ <<d, c>> \in conns_hash
        /\ conns_hash' = (conns_hash \cup EntriesFor(f, cids[c])) \ HashEntries(c)
        /\ n_conns' = n_conns + 1 /\ mini_conns_count' = mini_conns_count
        /\ nalloc' = GrownAlloc /\ skip' = skip /\ pc' = pc
    BY <1>3 DEF packet_in_promote, RxPacket
  <2>2. "HASHED" \in cn_flags[c] /\ c \in live /\ c # f
    BY <2>1 DEF EngineInv, RefsOf, HashEntries
  <2>3. /\ \A x \in Conn \ {c, f} : cn_flags'[x] = cn_flags[x]
        /\ \A x \in Conn \ {f} : cids'[x] = cids[x]
        /\ cn_flags'[c] = (cn_flags[c] \cup {"HANDSHAKE_DONE", "PROMOTED", "TICKABLE"})
                              \ {"ATTQ", "HASHED"}
        /\ cn_flags'[f] = {"HANDSHAKE_DONE", "HASHED", "TICKABLE"}
        /\ cids'[f] = cids[c]
    BY <1>0, <1>3, <2>2 DEF packet_in_promote, TypeOK
  <2>4. CountsInv'
    <3>0. live \subseteq Conn
      BY <1>0 DEF TypeOK
    <3>1. ASSUME NEW x \in live
          PROVE  "MINI" \in cn_flags'[x] <=> "MINI" \in cn_flags[x]
      <4>1. CASE x = c
        BY <2>3, <4>1
      <4>2. CASE x # c
        BY <2>1, <2>3, <3>0, <4>2
      <4> QED
        BY <4>1, <4>2
    <3>2. mini_conns_count' = mini_conns_count + MiniCount(cn_flags'[f])
      BY <1>0, <2>1, <2>3 DEF MiniCount, TypeOK
    <3> QED
      BY <1>0, <2>1, <3>1, <3>2, CountsCreate DEF DirectoryInv
  <2>5. OwnersInv'
    <3>1. Open(c)
      BY <2>2 DEF DirectoryInv, OwnersInv
    <3> QED
      BY <1>0, <2>1, <2>2, <2>3, <3>1, OwnersPromote DEF DirectoryInv
  <2> QED
    BY <1>0, <2>1, <2>4, <2>5, AsideStep DEF DirectoryInv
<1>4. ASSUME NEW d \in CID, NEW c \in Conn, packet_in_promote_fail(d, c)
      PROVE  DirectoryInv'
  <2>1. \A x \in Conn : \A k \in Kind : k \in cn_flags'[x] <=> k \in cn_flags[x]
    BY <1>0, <1>4 DEF packet_in_promote_fail, Kind, TypeOK
  <2>2. nalloc' >= nalloc
    BY <1>0, <1>4, GrownHasRoom, GrownAllocType
    DEF packet_in_promote_fail, DirectoryInv, TypeOK
  <2>3. OwnersInv' /\ CountsInv'
    BY <1>0, <1>4, <2>1, <2>2, PlainStep DEF packet_in_promote_fail
  <2> QED
    BY <1>0, <1>4, <2>3, AsideStep DEF packet_in_promote_fail, RxPacket, DirectoryInv
<1>5. CASE packet_in_end
  <2>1. UNCHANGED <<live, cn_flags, cids, conns_hash, countVars, skip>>
    BY <1>5 DEF packet_in_end
  <2>2. pc' \in {pc, "undefined"} /\ pc = "idle"
    BY <1>5 DEF packet_in_end, EngineInv, PointerInv
  <2>3. OwnersInv' /\ CountsInv'
    BY <1>0, <2>1, PlainStep, SMTT(30) DEF TypeOK
  <2> QED
    BY <1>0, <2>1, <2>2, <2>3, AsideStep DEF DirectoryInv
<1> QED
  BY <1>1, <1>2, <1>3, <1>4, <1>5 DEF Receive

\* ... the user's other calls ...
LEMMA DirUserCall ==
    ASSUME EngineInv, EngineInv', DirectoryInv, UserCall
    PROVE  DirectoryInv'
<1> USE DEF connVars, queueVars, callVars, sendVars, countVars, rxVars, engVars
<1>0. TypeOK /\ TypeOK' /\ IteratorInv' /\ OwnersInv
  BY DEF EngineInv, DirectoryInv
<1>1. ASSUME NEW c \in Conn, NEW d \in CID, connect(c, d)
      PROVE  DirectoryInv'
  <2>1. /\ pc \in {"idle", "tick"} /\ c \notin live /\ FreshCID(d)
        /\ live' = live \cup {c}
        /\ conns_hash' = conns_hash \cup EntriesFor(c, {d})
        /\ n_conns' = n_conns + 1 /\ mini_conns_count' = mini_conns_count
        /\ nalloc' = GrownAlloc /\ skip' = skip /\ pc' = pc
    BY <1>1 DEF connect, UserRuns, Idle
  <2>2. /\ \A x \in Conn \ {c} : cn_flags'[x] = cn_flags[x] /\ cids'[x] = cids[x]
        /\ cn_flags'[c] = {"HASHED", "TICKABLE"} /\ cids'[c] = {d}
    BY <1>0, <1>1 DEF connect, TypeOK
  <2>3. CountsInv'
    <3>1. \A x \in live : "MINI" \in cn_flags'[x] <=> "MINI" \in cn_flags[x]
      BY <1>0, <2>1, <2>2 DEF TypeOK
    <3>2. mini_conns_count' = mini_conns_count + MiniCount(cn_flags'[c])
      BY <1>0, <2>1, <2>2 DEF MiniCount, TypeOK
    <3> QED
      BY <1>0, <2>1, <3>1, <3>2, CountsCreate DEF DirectoryInv
  <2>4. OwnersInv'
    <3>1. \A x \in Conn : Open(x) => {d} \cap cids[x] = {}
      BY <2>1 DEF FreshCID, Open
    <3>2. {"PROMOTED", "TICK_CLOSE", "IMMED_CLOSE"} \cap cn_flags'[c] = {}
      BY <2>2
    <3> QED
      BY <1>0, <2>1, <2>2, <3>1, <3>2, OwnersCreate
  <2> QED
    BY <1>0, <2>1, <2>3, <2>4, AsideStep DEF DirectoryInv
<1>2. CASE create_fail
  <2>1. /\ UNCHANGED <<live, cn_flags, cids, conns_hash, n_conns, mini_conns_count>>
        /\ pc \in {"idle", "tick"} /\ skip' = skip /\ pc' = pc
        /\ nalloc' = GrownAlloc
    BY <1>2 DEF create_fail, UserRuns, Idle
  <2>2. nalloc' >= nalloc
    BY <1>0, <2>1, GrownHasRoom, GrownAllocType DEF DirectoryInv, TypeOK
  <2>3. OwnersInv' /\ CountsInv'
    BY <1>0, <2>1, <2>2, PlainStep
  <2> QED
    BY <1>0, <2>1, <2>3, AsideStep DEF DirectoryInv
<1>3. ASSUME NEW c \in Conn, add_conn_to_tickable(c) PROVE DirectoryInv'
  <2>1. /\ UNCHANGED <<live, cids, conns_hash, countVars>>
        /\ pc = "idle" /\ skip' = skip /\ pc' = pc
        /\ cn_flags' = [cn_flags EXCEPT ![c] = @ \cup {"TICKABLE"}]
    BY <1>3 DEF add_conn_to_tickable, NotProcessing, Idle
  <2>2. \A x \in Conn : \A k \in Kind : k \in cn_flags'[x] <=> k \in cn_flags[x]
    BY <1>0, <2>1 DEF Kind, TypeOK
  <2>3. OwnersInv' /\ CountsInv'
    BY <1>0, <2>1, <2>2, PlainStep, SMTT(30) DEF TypeOK
  <2> QED
    BY <1>0, <2>1, <2>3, AsideStep DEF DirectoryInv
<1>4. ASSUME NEW c \in Conn, add_conn_to_attq(c) PROVE DirectoryInv'
  <2>1. /\ UNCHANGED <<live, cids, conns_hash, countVars>>
        /\ pc \in {"idle", "tick"} /\ skip' = skip /\ pc' = pc
        /\ cn_flags' = [cn_flags EXCEPT ![c] = @ \cup {"ATTQ"}]
    BY <1>4 DEF add_conn_to_attq, UserRuns, Idle
  <2>2. \A x \in Conn : \A k \in Kind : k \in cn_flags'[x] <=> k \in cn_flags[x]
    BY <1>0, <2>1 DEF Kind, TypeOK
  <2>3. OwnersInv' /\ CountsInv'
    BY <1>0, <2>1, <2>2, PlainStep, SMTT(30) DEF TypeOK
  <2> QED
    BY <1>0, <2>1, <2>3, AsideStep DEF DirectoryInv
<1>5. ASSUME NEW c \in Conn, NEW d \in CID, add_cid(c, d) PROVE DirectoryInv'
  <2>1. /\ UNCHANGED <<live, cn_flags, countVars>>
        /\ pc = "tick" /\ skip' = skip /\ pc' = pc /\ FreshCID(d)
        /\ conns_hash' = conns_hash \cup {<<d, c>>}
    BY <1>5 DEF add_cid
  <2>2. /\ \A x \in Conn \ {c} : cids'[x] = cids[x]
        /\ cids'[c] = cids[c] \cup {d}
    BY <1>0, <1>5 DEF add_cid, TypeOK
  <2>3. \A x \in Conn : Open(x)' <=> Open(x)
    BY <2>1 DEF Open
  <2>4. \A x \in Conn : Open(x) => d \notin cids[x]
    BY <2>1 DEF FreshCID, Open
  <2>5. \A x \in Conn : "HASHED" \in cn_flags'[x] =>
          Open(x)' /\ \A k \in cids'[x] : <<k, x>> \in conns_hash'
    BY <1>0, <2>1, <2>2, <2>3 DEF OwnersInv
  <2>6. ASSUME NEW x \in Conn, NEW y \in Conn, Open(x)', Open(y)', x # y
        PROVE  cids'[x] \cap cids'[y] = {}
    <3>1. cids[x] \cap cids[y] = {}
      BY <1>0, <2>3, <2>6 DEF OwnersInv
    <3> QED
      BY <2>2, <2>3, <2>4, <2>6, <3>1
  <2>7. CountsInv'
    <3>1. Counted
      BY <1>0, <2>1 DEF Counted, TypeOK
    <3> QED
      BY <1>0, <3>1, CountsKept DEF DirectoryInv
  <2> QED
    BY <1>0, <2>1, <2>5, <2>6, <2>7, AsideStep DEF DirectoryInv, OwnersInv
<1>6. ASSUME NEW c \in Conn, NEW d \in CID, NEW e \in CID, retire_cid(c, d, e)
      PROVE  DirectoryInv'
  <2>1. /\ UNCHANGED <<live, cn_flags, countVars>>
        /\ pc = "idle" /\ skip' = skip /\ pc' = pc
        /\ conns_hash' = conns_hash \ {<<d, c>>}
    BY <1>6 DEF retire_cid, Idle
  <2>2. /\ \A x \in Conn \ {c} : cids'[x] = cids[x]
        /\ cids'[c] = cids[c] \ {d}
    BY <1>0, <1>6 DEF retire_cid, TypeOK
  <2>3. \A x \in Conn : Open(x)' <=> Open(x)
    BY <2>1 DEF Open
  <2>4. \A x \in Conn : "HASHED" \in cn_flags'[x] =>
          Open(x)' /\ \A k \in cids'[x] : <<k, x>> \in conns_hash'
    BY <1>0, <2>1, <2>2, <2>3 DEF OwnersInv
  <2>5. ASSUME NEW x \in Conn, NEW y \in Conn, Open(x)', Open(y)', x # y
        PROVE  cids'[x] \cap cids'[y] = {}
    <3>1. cids[x] \cap cids[y] = {}
      BY <1>0, <2>3, <2>5 DEF OwnersInv
    <3> QED
      BY <2>2, <3>1
  <2>6. CountsInv'
    <3>1. Counted
      BY <1>0, <2>1 DEF Counted, TypeOK
    <3> QED
      BY <1>0, <3>1, CountsKept DEF DirectoryInv
  <2> QED
    BY <1>0, <2>1, <2>4, <2>5, <2>6, AsideStep DEF DirectoryInv, OwnersInv
<1>7. CASE engine_cooldown \/ cooldown_done
  <2>1. /\ UNCHANGED <<live, cn_flags, cids, conns_hash, countVars, skip>>
        /\ pc' \in {"cooldown", "idle"}
    BY <1>7 DEF engine_cooldown, cooldown_done
  <2>2. OwnersInv' /\ CountsInv'
    BY <1>0, <2>1, PlainStep, SMTT(30) DEF TypeOK
  <2> QED
    BY <1>0, <2>1, <2>2, AsideStep DEF DirectoryInv
<1>8. ASSUME NEW c \in Conn, drop_mini_conn(c) PROVE DirectoryInv'
  <2> DEFINE fl == cn_flags[c] \ {"HASHED"}
  <2>1. /\ SetFlags(c, fl) /\ conns_hash' = conns_hash \ HashEntries(c)
        /\ pc = "cooldown" /\ pc' = pc /\ skip' = skip /\ nalloc' = nalloc
        /\ "HASHED" \in cn_flags[c]
    BY <1>8 DEF drop_mini_conn
  <2>2. c \in live
    BY <2>1 DEF EngineInv, RefsOf
  <2>3. OwnersInv' /\ CountsInv'
    BY <1>0, <2>1, <2>2, HashRemove, DecrefStep DEF Kind
  <2> QED
    BY <1>0, <2>1, <2>3, AsideStep DEF DirectoryInv
<1> QED
  BY <1>1, <1>2, <1>3, <1>4, <1>5, <1>6, <1>7, <1>8 DEF UserCall

\* ... the processing of connections ...
LEMMA DirProcess ==
    ASSUME EngineInv, EngineInv', DirectoryInv, Process
    PROVE  DirectoryInv'
<1> USE DEF connVars, queueVars, callVars, sendVars, countVars, rxVars, engVars
<1>0. TypeOK /\ TypeOK' /\ IteratorInv' /\ OwnersInv
  BY DEF EngineInv, DirectoryInv
<1>1. ASSUME UNCHANGED <<live, cn_flags, cids, conns_hash, countVars, skip>>,
             pc' \notin {"send", "dtor_tickable", "dtor_hash", "dtor_attq", "destroyed"}
      PROVE  DirectoryInv'
  <2>1. OwnersInv' /\ CountsInv'
    BY <1>0, <1>1, PlainStep, SMTT(30) DEF TypeOK
  <2> QED
    BY <1>0, <1>1, <2>1, AsideStep DEF DirectoryInv
<1>2. CASE process_conns \/ attq_done \/ close_done \/ ticked_done
  BY <1>1, <1>2 DEF process_conns, attq_done, close_done, ticked_done
<1>3. ASSUME NEW c \in Conn, attq_pop(c) PROVE DirectoryInv'
  <2>1. /\ pc = "attq" /\ pc' = pc /\ skip' = skip /\ nalloc' = nalloc
        /\ c \in attq /\ UNCHANGED conns_hash
    BY <1>3 DEF attq_pop
  <2>2. c \in live
    BY <2>1 DEF EngineInv, RefsOf
  <2>3. PICK fl : /\ SetFlags(c, fl)
                  /\ \A k \in Kind : k \in fl <=> k \in cn_flags[c]
    <3>1. CASE Unreferenced(cn_flags[c] \ {"ATTQ"})
      <4>1. SetFlags(c, cn_flags[c] \ {"ATTQ"})
        BY <1>3, <3>1 DEF attq_pop
      <4> QED
        BY <4>1 DEF Kind
    <3>2. CASE ~Unreferenced(cn_flags[c] \ {"ATTQ"})
      <4>1. SetFlags(c, (cn_flags[c] \ {"ATTQ"}) \cup {"TICKABLE"})
        BY <1>3, <3>2 DEF attq_pop
      <4> QED
        BY <4>1 DEF Kind
    <3> QED
      BY <3>1, <3>2
  <2>4. OwnersInv' /\ CountsInv'
    BY <1>0, <2>1, <2>2, <2>3, HashSame, DecrefStep DEF Kind
  <2> QED
    BY <1>0, <2>1, <2>4, AsideStep DEF DirectoryInv
<1>4. ASSUME NEW c \in Conn, iter_next_tickable(c) PROVE DirectoryInv'
  <2> DEFINE fl == cn_flags[c] \ {"TICKABLE", "ATTQ"}
  <2>1. c \in live
    BY <1>4 DEF iter_next_tickable, EngineInv, RefsOf
  <2>2. /\ pc' \in {"tick", "flush", "loop_full"} /\ skip' = skip
        /\ UNCHANGED <<conns_hash, nalloc>> /\ SetFlags(c, fl)
    BY <1>4, <2>1 DEF iter_next_tickable, LoopNull
  <2>3. OwnersInv' /\ CountsInv'
    BY <1>0, <2>1, <2>2, HashSame, DecrefStep DEF Kind
  <2> QED
    BY <1>0, <2>2, <2>3, AsideStep DEF DirectoryInv
<1>5. CASE iter_empty
  BY <1>1, <1>5 DEF iter_empty, LoopNull
<1>6. ASSUME NEW c \in Conn, next_new_full_conn(c) PROVE DirectoryInv'
  BY <1>1, <1>6 DEF next_new_full_conn
<1>7. ASSUME NEW c \in Conn, tick(c) PROVE DirectoryInv'
  <2>1. /\ UNCHANGED <<live, cids, conns_hash, countVars, skip>> /\ pc' = "loop"
    BY <1>7 DEF tick, TickReturns
  <2>2. \A x \in Conn : \A k \in Kind : k \in cn_flags'[x] <=> k \in cn_flags[x]
    BY <1>0, <1>7 DEF tick, SendFlag, Kind, TypeOK
  <2>3. OwnersInv' /\ CountsInv'
    BY <1>0, <2>1, <2>2, PlainStep, SMTT(30) DEF TypeOK
  <2> QED
    BY <1>0, <2>1, <2>3, AsideStep DEF DirectoryInv
<1>8. ASSUME NEW c \in Conn, tick_close(c) PROVE DirectoryInv'
  <2>1. /\ UNCHANGED <<live, cids, n_conns, mini_conns_count, skip>> /\ pc' = "loop"
        /\ conns_hash' = conns_hash \ HashEntries(c)
        /\ nalloc' \in {nalloc, GrownAlloc}
    BY <1>8 DEF tick_close, TickReturns
  <2>2. /\ \A x \in Conn \ {c} : cn_flags'[x] = cn_flags[x]
        /\ \E send \in BOOLEAN : cn_flags'[c] =
               (cn_flags[c] \cup SendFlag(send) \cup {"CLOSING", "TICK_CLOSE"})
                   \ {"HASHED"}
    BY <1>0, <1>8 DEF tick_close, TypeOK
  <2>3. /\ "HASHED" \notin cn_flags'[c]
        /\ cn_flags[c] \ RefFlag \subseteq cn_flags'[c]
        /\ "MINI" \in cn_flags'[c] => "MINI" \in cn_flags[c]
    BY <2>2 DEF SendFlag, RefFlag
  <2>4. nalloc' >= nalloc
    <3>1. nalloc <= GrownAlloc /\ GrownAlloc \in Nat
      BY <1>0, GrownHasRoom, GrownAllocType DEF DirectoryInv
    <3> QED
      BY <1>0, <2>1, <3>1 DEF TypeOK
  <2>5. OwnersInv' /\ CountsInv'
    BY <1>0, <2>1, <2>2, <2>3, <2>4, HashRemove, UnhashStep
  <2> QED
    BY <1>0, <2>1, <2>5, AsideStep DEF DirectoryInv
<1>9. ASSUME NEW c \in Conn, NEW f \in Conn, tick_promote(c, f)
      PROVE  DirectoryInv'
  <2>1. /\ pc = "tick" /\ c = cur /\ "MINI" \in cn_flags[c] /\ ~MustClose(c)
        /\ f \notin live /\ live' = live \cup {f}
        /\ conns_hash' = (conns_hash \cup EntriesFor(f, cids[c])) \ HashEntries(c)
        /\ n_conns' = n_conns + 1 /\ mini_conns_count' = mini_conns_count
        /\ nalloc' = GrownAlloc /\ skip' = skip /\ pc' = "loop"
    BY <1>9 DEF tick_promote, TickReturns
  <2>2. c \in live /\ c # f /\ Open(c)
    BY <2>1 DEF EngineInv, PointerInv, MustClose, Open
  <2>3. /\ \A x \in Conn \ {c, f} : cn_flags'[x] = cn_flags[x]
        /\ \E send \in BOOLEAN : cn_flags'[c] =
               (cn_flags[c] \cup SendFlag(send)
                   \cup {"HANDSHAKE_DONE", "PROMOTED", "CLOSING", "TICK_CLOSE"})
                   \ {"HASHED"}
        /\ cn_flags'[f] = {"HANDSHAKE_DONE", "HASHED"}
    BY <1>0, <1>9, <2>2 DEF tick_promote, TypeOK
  <2>4. /\ \A x \in Conn \ {f} : cids'[x] = cids[x]
        /\ cids'[f] = cids[c]
    BY <1>0, <1>9, <2>2 DEF tick_promote, TypeOK
  <2>5. CountsInv'
    <3>0. live \subseteq Conn
      BY <1>0 DEF TypeOK
    <3>1. ASSUME NEW x \in live
          PROVE  "MINI" \in cn_flags'[x] <=> "MINI" \in cn_flags[x]
      <4>1. CASE x = c
        BY <2>1, <2>3, <4>1
      <4>2. CASE x # c
        BY <2>1, <2>3, <3>0, <4>2
      <4> QED
        BY <4>1, <4>2
    <3>2. mini_conns_count' = mini_conns_count + MiniCount(cn_flags'[f])
      BY <1>0, <2>1, <2>3 DEF MiniCount, TypeOK
    <3> QED
      BY <1>0, <2>1, <3>1, <3>2, CountsCreate DEF DirectoryInv
  <2>6. OwnersInv'
    <3>1. "PROMOTED" \in cn_flags'[c] /\ "HASHED" \notin cn_flags'[c]
      BY <2>3
    <3>2. {"PROMOTED", "TICK_CLOSE", "IMMED_CLOSE"} \cap cn_flags'[f] = {}
      BY <2>3
    <3> QED
      BY <1>0, <2>1, <2>2, <2>3, <2>4, <3>1, <3>2, OwnersPromote
  <2> QED
    BY <1>0, <2>1, <2>5, <2>6, AsideStep DEF DirectoryInv
<1>10. CASE flush
  <2>1. /\ UNCHANGED <<live, cn_flags, cids, conns_hash, countVars, sendVars>>
        /\ pc = "flush" /\ pc' \in {"send", "close"}
    BY <1>10 DEF flush
  <2>2. OwnersInv' /\ CountsInv'
    BY <1>0, <2>1, PlainStep, SMTT(30) DEF TypeOK
  <2>3. coi_inactive' = {}
    BY <2>1 DEF EngineInv, IteratorInv
  <2>4. DestroyInv' /\ OutputInv'
    BY <2>1, <2>3 DEF DirectoryInv, DestroyInv, OutputInv
  <2> QED
    BY <2>2, <2>4 DEF DirectoryInv
<1>11. ASSUME NEW c \in Conn, close_closed(c) PROVE DirectoryInv'
  <2> DEFINE fl == cn_flags[c] \ {"CLOSING"}
  <2>1. /\ pc = "close" /\ pc' = pc /\ skip' = skip
        /\ UNCHANGED <<conns_hash, nalloc>> /\ SetFlags(c, fl) /\ c \in closed_conns
    BY <1>11 DEF close_closed
  <2>2. c \in live
    BY <2>1 DEF EngineInv, RefsOf
  <2>3. OwnersInv' /\ CountsInv'
    BY <1>0, <2>1, <2>2, HashSame, DecrefStep DEF Kind
  <2> QED
    BY <1>0, <2>1, <2>3, AsideStep DEF DirectoryInv
<1>12. ASSUME NEW c \in Conn, requeue_ticked(c) PROVE DirectoryInv'
  <2> DEFINE fl == cn_flags[c] \ {"TICKED"}
  <2>1. /\ pc = "ticked" /\ pc' \in {pc, "undefined"} /\ skip' = skip
        /\ UNCHANGED <<conns_hash, nalloc>> /\ c \in ticked_conns
        /\ \E g \in {fl, fl \cup {"TICKABLE"}, fl \cup {"ATTQ"}} : SetFlags(c, g)
    BY <1>12 DEF requeue_ticked
  <2>2. c \in live
    BY <2>1 DEF EngineInv, RefsOf
  <2>3. PICK g \in {fl, fl \cup {"TICKABLE"}, fl \cup {"ATTQ"}} : SetFlags(c, g)
    BY <2>1
  <2>4. \A k \in Kind : k \in g <=> k \in cn_flags[c]
    BY <2>3 DEF Kind
  <2>5. OwnersInv' /\ CountsInv'
    BY <1>0, <2>1, <2>2, <2>3, <2>4, HashSame, DecrefStep DEF Kind
  <2> QED
    BY <1>0, <2>1, <2>5, AsideStep DEF DirectoryInv
<1> QED
  BY <1>2, <1>3, <1>4, <1>5, <1>6, <1>7, <1>8, <1>9, <1>10, <1>11, <1>12 DEF Process

\* A step of send_packets_out that adds nobody to the inactive list and gives
\* nobody on it something to send.
LEMMA OutputKept ==
    ASSUME DirectoryInv, pc = "send", pc' \in {"send", "close"},
           coi_inactive' \subseteq coi_inactive, skip' \in {skip, 0},
           \A x \in coi_inactive' : out'[x] = out[x],
           \A x \in coi_inactive' : \A k \in {"MINI", "IMMED_CLOSE"} :
               k \in cn_flags[x] => k \in cn_flags'[x]
    PROVE  DestroyInv' /\ OutputInv'
<1>1. DestroyInv'
  BY DEF DestroyInv
<1>2. ASSUME NEW x \in coi_inactive', {"MINI", "IMMED_CLOSE"} \cap cn_flags'[x] = {}
      PROVE  out'[x] = 0
  <2>1. {"MINI", "IMMED_CLOSE"} \cap cn_flags[x] = {}
    BY <1>2
  <2> QED
    BY <2>1, <1>2 DEF DirectoryInv, OutputInv
<1> QED
  BY <1>1, <1>2 DEF DirectoryInv, OutputInv

\* The connections whose packets are given back leave the inactive list; those
\* on it get nothing back.
LEMMA ReturnOutput ==
    ASSUME TypeOK, NEW k \in Nat, ReturnPackets(k)
    PROVE  /\ coi_inactive' \subseteq coi_inactive /\ skip' = 0
           /\ \A x \in coi_inactive' : out'[x] = out[x]
           /\ \A i \in (k + 1)..Len(batch) : out'[batch[i]] > out[batch[i]]
<1> DEFINE Back(x) == {i \in (k + 1)..Len(batch) : batch[i] = x}
<1>0. Len(batch) \in Nat
  BY DEF TypeOK
<1>1. /\ coi_inactive' = coi_inactive \ NotSent(k) /\ skip' = 0
      /\ out' = [x \in Conn |-> out[x] + Cardinality(Back(x))]
  BY DEF ReturnPackets
<1>2. ASSUME NEW x \in coi_inactive' PROVE out'[x] = out[x]
  <2>1. Back(x) = {}
    BY <1>1 DEF NotSent
  <2>2. Cardinality(Back(x)) = 0
    BY <2>1, FS_EmptySet
  <2>3. x \in Conn /\ out[x] \in Nat
    BY <1>1 DEF TypeOK
  <2> HIDE DEF Back
  <2> QED
    BY <1>1, <2>2, <2>3
<1>3. ASSUME NEW i \in (k + 1)..Len(batch) PROVE out'[batch[i]] > out[batch[i]]
  <2>1. IsFiniteSet(Back(batch[i]))
    <3>1. IsFiniteSet((k + 1)..Len(batch))
      BY <1>0, FS_Interval
    <3> QED
      BY <3>1, FS_Subset
  <2>2. Back(batch[i]) # {}
    OBVIOUS
  <2> HIDE DEF Back
  <2>3. Cardinality(Back(batch[i])) \in Nat /\ Cardinality(Back(batch[i])) # 0
    BY <2>1, <2>2, FS_CardinalityType, FS_EmptySet
  <2>4. batch[i] \in Conn
    BY <1>0 DEF TypeOK
  <2>5. out[batch[i]] \in Nat
    BY <2>4 DEF TypeOK
  <2> QED
    BY <1>1, <2>3, <2>4, <2>5
<1> QED
  BY <1>1, <1>2, <1>3

\* close_conn_immediately keeps the owners apart and the counters right.
LEMMA CloseStep ==
    ASSUME EngineInv, TypeOK', DirectoryInv, NEW c \in Conn, CloseImmediately(c),
           UNCHANGED <<live, cids, n_conns, mini_conns_count, nalloc>>
    PROVE  /\ OwnersInv' /\ CountsInv'
           /\ "IMMED_CLOSE" \in cn_flags'[c]
           /\ \A x \in Conn : \A k \in {"MINI", "IMMED_CLOSE"} :
                 k \in cn_flags[x] => k \in cn_flags'[x]
           /\ \A x \in Conn : "IMMED_CLOSE" \in cn_flags'[x] \ cn_flags[x] => x = c
<1>1. /\ \A x \in Conn \ {c} : cn_flags'[x] = cn_flags[x]
      /\ cn_flags'[c] = (cn_flags[c] \cup {"IMMED_CLOSE", "CLOSING"})
                            \ {"TICKED", "HASHED"}
      /\ \A x : x # c => HashEntries(x)' = HashEntries(x)
  BY CloseEffect
<1>2. /\ "HASHED" \notin cn_flags'[c]
      /\ cn_flags[c] \ RefFlag \subseteq cn_flags'[c]
      /\ "MINI" \in cn_flags'[c] => "MINI" \in cn_flags[c]
  BY <1>1 DEF RefFlag
<1>3. nalloc' >= nalloc
  BY DEF EngineInv, TypeOK
<1>4. OwnersInv' /\ CountsInv'
  BY <1>1, <1>2, <1>3, UnhashStep
<1>5. \A x \in Conn : \A k \in {"MINI", "IMMED_CLOSE"} :
        k \in cn_flags[x] => k \in cn_flags'[x]
  BY <1>1
<1> QED
  BY <1>1, <1>4, <1>5

\* ... the sending of packets ...
LEMMA DirSend ==
    ASSUME EngineInv, EngineInv', DirectoryInv, Send
    PROVE  DirectoryInv'
<1> USE DEF connVars, queueVars, callVars, sendVars, countVars, rxVars, engVars
<1>0. /\ TypeOK /\ TypeOK' /\ IteratorInv /\ OwnersInv /\ coi_inactive \subseteq Conn
      /\ coi_inactive' \subseteq Conn
  BY DEF EngineInv, DirectoryInv, TypeOK
<1>1. CASE send_unsent_packets
  <2>1. /\ UNCHANGED <<live, cids, conns_hash, countVars, sendVars>>
        /\ pc = "idle" /\ pc' = "send"
    BY <1>1 DEF send_unsent_packets, Idle
  <2>2. PICK T : cn_flags' = [c \in Conn |-> IF c \in T
                     THEN cn_flags[c] \cup {"TICKABLE"} ELSE cn_flags[c]]
    BY <1>1 DEF send_unsent_packets
  <2>3. \A x \in Conn : \A k \in Kind : k \in cn_flags'[x] <=> k \in cn_flags[x]
    BY <2>2 DEF Kind
  <2>4. OwnersInv' /\ CountsInv'
    BY <1>0, <2>1, <2>3, PlainStep, SMTT(30) DEF TypeOK
  <2>5. coi_inactive' = {}
    BY <1>0, <2>1 DEF IteratorInv
  <2>6. DestroyInv' /\ OutputInv'
    BY <2>1, <2>5 DEF DirectoryInv, DestroyInv, OutputInv
  <2> QED
    BY <2>4, <2>6 DEF DirectoryInv
<1>2. ASSUME NEW c \in Conn, coi_deactivate(c) PROVE DirectoryInv'
  <2>1. /\ UNCHANGED <<live, cn_flags, cids, out, conns_hash, countVars, skip>>
        /\ pc = "send" /\ pc' = "send" /\ coi_inactive' = coi_inactive \cup {c}
        /\ out[c] = 0 \/ "MINI" \in cn_flags[c]
    BY <1>2 DEF coi_deactivate, CoiNext
  <2>2. OwnersInv' /\ CountsInv'
    BY <1>0, <2>1, PlainStep, SMTT(30) DEF TypeOK
  <2>3. DestroyInv' /\ OutputInv'
    BY <2>1 DEF DirectoryInv, DestroyInv, OutputInv
  <2> QED
    BY <2>2, <2>3 DEF DirectoryInv
<1>3. ASSUME NEW c \in Conn, batch_packet(c) \/ batch_nomem(c) PROVE DirectoryInv'
  <2>1. /\ UNCHANGED <<live, cn_flags, cids, conns_hash, countVars, coi_inactive, skip>>
        /\ pc = "send" /\ pc' = "send" /\ c \in conns_out \cup coi_active
        /\ out' \in {out, [out EXCEPT ![c] = @ - 1]}
    BY <1>3 DEF batch_packet, batch_nomem, CoiNext
  <2>2. OwnersInv' /\ CountsInv'
    BY <1>0, <2>1, PlainStep, SMTT(30) DEF TypeOK
  <2>3. c \notin coi_inactive
    BY <1>0, <2>1 DEF IteratorInv
  <2>4. \A x \in coi_inactive' : out'[x] = out[x]
    BY <1>0, <2>1, <2>3 DEF TypeOK
  <2> QED
    BY <2>1, <2>2, <2>4, OutputKept DEF DirectoryInv
<1>4. ASSUME NEW c \in Conn, batch_badcrypt(c) PROVE DirectoryInv'
  <2>1. /\ UNCHANGED <<live, cids, out, countVars, skip>> /\ CloseImmediately(c)
        /\ pc = "send" /\ pc' = "send" /\ coi_inactive' = coi_inactive \cup {c}
    BY <1>4 DEF batch_badcrypt, CoiNext
  <2>2. /\ OwnersInv' /\ CountsInv'
        /\ "IMMED_CLOSE" \in cn_flags'[c]
        /\ \A x \in Conn : \A k \in {"MINI", "IMMED_CLOSE"} :
              k \in cn_flags[x] => k \in cn_flags'[x]
    BY <1>0, <2>1, CloseStep
  <2>3. ASSUME NEW x \in coi_inactive', {"MINI", "IMMED_CLOSE"} \cap cn_flags'[x] = {}
        PROVE  out'[x] = 0
    <3>1. x # c
      BY <2>2, <2>3
    <3>2. {"MINI", "IMMED_CLOSE"} \cap cn_flags[x] = {} /\ x \in coi_inactive
      BY <1>0, <2>1, <2>2, <2>3, <3>1
    <3> QED
      BY <2>1, <3>2 DEF DirectoryInv, OutputInv
  <2>4. DestroyInv' /\ OutputInv'
    BY <2>1, <2>3 DEF DirectoryInv, DestroyInv, OutputInv
  <2> QED
    BY <2>2, <2>4 DEF DirectoryInv
<1>5. CASE coi_end \/ send_done
  <2>1. /\ UNCHANGED <<live, cn_flags, cids, out, conns_hash, countVars, coi_inactive,
                       skip>>
        /\ pc = "send" /\ pc' \in {"send", "close"}
    BY <1>5 DEF coi_end, send_done
  <2>2. OwnersInv' /\ CountsInv'
    BY <1>0, <2>1, PlainStep, SMTT(30) DEF TypeOK
  <2> QED
    BY <2>1, <2>2, OutputKept DEF DirectoryInv
<1>6. ASSUME NEW k \in Nat, ReturnPackets(k),
             UNCHANGED <<live, cn_flags, cids, queueVars, countVars>>,
             pc = "send", pc' = "send"
      PROVE  DirectoryInv'
  <2>0. /\ UNCHANGED <<live, cn_flags, cids, conns_hash, n_conns, mini_conns_count>>
        /\ nalloc' >= nalloc
    BY <1>0, <1>6 DEF TypeOK
  <2>1. OwnersInv' /\ CountsInv'
    BY <1>0, <2>0, PlainStep
  <2>2. /\ coi_inactive' \subseteq coi_inactive /\ skip' = 0
        /\ \A x \in coi_inactive' : out'[x] = out[x]
    BY <1>0, <1>6, ReturnOutput
  <2> QED
    BY <1>6, <2>1, <2>2, OutputKept DEF DirectoryInv
<1>7. ASSUME NEW k \in Nat, NEW c \in Conn, ReturnPackets(k), CloseImmediately(c),
             UNCHANGED <<live, cids, countVars>>, pc = "send", pc' = "send"
      PROVE  DirectoryInv'
  <2>1. /\ OwnersInv' /\ CountsInv'
        /\ \A x \in Conn : \A m \in {"MINI", "IMMED_CLOSE"} :
              m \in cn_flags[x] => m \in cn_flags'[x]
    BY <1>0, <1>7, CloseStep
  <2>2. /\ coi_inactive' \subseteq coi_inactive /\ skip' = 0
        /\ \A x \in coi_inactive' : out'[x] = out[x]
    BY <1>0, <1>7, ReturnOutput
  <2> QED
    BY <1>0, <1>7, <2>1, <2>2, OutputKept DEF DirectoryInv
<1>8. CASE send_batch_all
  <2>1. Len(batch) \in Nat
    BY <1>0 DEF TypeOK
  <2> QED
    BY <1>6, <1>8, <2>1 DEF send_batch_all, BatchReady
<1>9. CASE send_batch_eagain
  <2>1. PICK k \in skip..(Len(batch) - 1) : ReturnPackets(k)
    BY <1>9 DEF send_batch_eagain
  <2>2. k \in Nat
    BY <1>0 DEF TypeOK
  <2> QED
    BY <1>6, <1>9, <2>1, <2>2 DEF send_batch_eagain, BatchReady
<1>10. CASE send_batch_error
  <2>1. PICK k \in skip..(Len(batch) - 1) :
           ReturnPackets(k) /\ CloseImmediately(batch[ErrorIndex(k)])
    BY <1>10 DEF send_batch_error
  <2>2. k \in Nat /\ ErrorIndex(k) \in 1..Len(batch)
    BY <1>0 DEF TypeOK, ErrorIndex
  <2>3. batch[ErrorIndex(k)] \in Conn
    <3>1. batch \in Seq(Conn)
      BY <1>0 DEF TypeOK
    <3> QED
      BY <2>2, <3>1
  <2> QED
    BY <1>7, <1>10, <2>1, <2>2, <2>3 DEF send_batch_error, BatchReady
<1>11. CASE send_batch_emsgsize
  <2>1. PICK k \in skip..(Len(batch) - 1) :
           ReturnPackets(k) /\ CloseImmediately(batch[k + 1])
    BY <1>11 DEF send_batch_emsgsize
  <2>2. k \in Nat /\ k + 1 \in 1..Len(batch)
    BY <1>0 DEF TypeOK
  <2>3. batch[k + 1] \in Conn
    BY <1>0, <2>2 DEF TypeOK
  <2> QED
    BY <1>7, <1>11, <2>1, <2>2, <2>3 DEF send_batch_emsgsize, BatchReady
<1>12. CASE send_batch_too_large
  <2>1. /\ UNCHANGED <<live, cn_flags, cids, queueVars, countVars>>
        /\ pc = "send" /\ pc' = "send" /\ "emsgsize" \in Events
    BY <1>12 DEF send_batch_too_large, BatchReady
  <2>2. \/ ReturnPackets(Len(batch))
        \/ UNCHANGED <<out, coi_inactive>>
    BY <1>12 DEF send_batch_too_large
  <2>3. CASE ReturnPackets(Len(batch))
    <3>1. Len(batch) \in Nat
      BY <1>0 DEF TypeOK
    <3> QED
      BY <1>6, <2>1, <2>3, <3>1
  <2>4. CASE UNCHANGED <<out, coi_inactive>>
    <3>1. OwnersInv' /\ CountsInv'
      BY <1>0, <2>1, PlainStep, SMTT(30) DEF TypeOK
    <3>2. DestroyInv' /\ OutputInv'
      BY <2>1, <2>4 DEF DirectoryInv, DestroyInv, OutputInv
    <3> QED
      BY <3>1, <3>2 DEF DirectoryInv
  <2> QED
    BY <2>2, <2>3, <2>4
<1>13. ASSUME NEW c \in Conn, reheap_active(c) PROVE DirectoryInv'
  <2> DEFINE fl == cn_flags[c] \ {"HAS_OUTGOING"}
  <2>1. /\ pc = "send" /\ pc' = "send" /\ c \in coi_active /\ c \notin coi_inactive
        /\ UNCHANGED <<out, conns_hash, coi_inactive, skip, nalloc>>
    BY <1>0, <1>13 DEF reheap_active, IteratorInv
  <2>2. CASE SendsAgain(c)
    <3>1. UNCHANGED <<live, cn_flags, cids, n_conns, mini_conns_count>>
      BY <1>13, <2>2 DEF reheap_active
    <3>2. OwnersInv' /\ CountsInv'
      BY <1>0, <2>1, <3>1, PlainStep, SMTT(30) DEF TypeOK
    <3> QED
      BY <2>1, <3>1, <3>2, OutputKept DEF DirectoryInv
  <2>3. CASE ~SendsAgain(c)
    <3>1. SetFlags(c, fl)
      BY <1>13, <2>3 DEF reheap_active
    <3>2. c \in live
      BY <2>1 DEF EngineInv, RefsOf, HasOut
    <3>3. OwnersInv' /\ CountsInv'
      BY <1>0, <2>1, <3>1, <3>2, HashSame, DecrefStep DEF Kind
    <3>4. \A x \in coi_inactive' : cn_flags'[x] = cn_flags[x]
      BY <1>0, <2>1, <3>1, SetFlagsEffect
    <3> QED
      BY <2>1, <3>3, <3>4, OutputKept DEF DirectoryInv
  <2> QED
    BY <2>2, <2>3
<1>14. ASSUME NEW c \in Conn, reheap_inactive(c) PROVE DirectoryInv'
  <2> DEFINE fl == cn_flags[c] \ {"HAS_OUTGOING"}
  <2>1. /\ pc = "send" /\ pc' = "send" /\ c \in coi_inactive
        /\ coi_inactive' = coi_inactive \ {c}
        /\ UNCHANGED <<out, conns_hash, skip, nalloc>> /\ SetFlags(c, fl)
    BY <1>14 DEF reheap_inactive
  <2>2. c \in live
    BY <2>1 DEF EngineInv, RefsOf, HasOut
  <2>3. OwnersInv' /\ CountsInv'
    BY <1>0, <2>1, <2>2, HashSame, DecrefStep DEF Kind
  <2>4. \A x \in coi_inactive' : cn_flags'[x] = cn_flags[x]
    BY <1>0, <2>1, SetFlagsEffect
  <2> QED
    BY <2>1, <2>3, <2>4, OutputKept DEF DirectoryInv
<1> QED
  BY <1>1, <1>2, <1>3, <1>4, <1>5, <1>8, <1>9, <1>10, <1>11, <1>12, <1>13, <1>14 DEF Send

\* ... and lsquic_engine_destroy.
LEMMA DirDestroy ==
    ASSUME EngineInv, EngineInv', DirectoryInv, Destroy
    PROVE  DirectoryInv'
<1> USE DEF connVars, queueVars, callVars, sendVars, countVars, rxVars, engVars
<1>0. TypeOK /\ TypeOK' /\ IteratorInv' /\ OwnersInv /\ DestroyInv
  BY DEF EngineInv, DirectoryInv
<1>1. ASSUME pc' # "send", skip' = skip PROVE OutputInv'
  BY <1>0, <1>1 DEF IteratorInv, DirectoryInv, OutputInv
<1>2. CASE engine_destroy \/ dtor_next
  <2>1. UNCHANGED <<live, cn_flags, cids, queueVars, countVars, skip>>
    BY <1>2 DEF engine_destroy, dtor_next
  <2>2. OwnersInv' /\ CountsInv'
    BY <1>0, <2>1, PlainStep, SMTT(30) DEF TypeOK
  <2>3. DestroyInv'
    BY <1>0, <1>2, <2>1 DEF engine_destroy, dtor_next, DestroyInv
  <2>4. OutputInv'
    BY <1>1, <1>2, <2>1 DEF engine_destroy, dtor_next
  <2> QED
    BY <2>2, <2>3, <2>4 DEF DirectoryInv
<1>3. ASSUME NEW c \in Conn, dtor_out(c) PROVE DirectoryInv'
  <2>1. /\ pc = "dtor_out" /\ pc' = pc /\ skip' = skip /\ c \in conns_out
        /\ UNCHANGED <<conns_hash, nalloc>>
        /\ SetFlags(c, cn_flags[c] \ {"HAS_OUTGOING"})
    BY <1>3 DEF dtor_out
  <2>2. c \in live
    BY <2>1 DEF EngineInv, RefsOf, HasOut
  <2>3. OwnersInv' /\ CountsInv'
    BY <1>0, <2>1, <2>2, HashSame, DecrefStep DEF Kind
  <2>4. DestroyInv'
    BY <2>1 DEF DestroyInv
  <2> QED
    BY <1>1, <2>1, <2>3, <2>4 DEF DirectoryInv
<1>4. ASSUME NEW c \in Conn, dtor_tickable(c) PROVE DirectoryInv'
  <2>1. /\ pc = "dtor_tickable" /\ pc' = pc /\ skip' = skip /\ c \in conns_tickable
        /\ UNCHANGED <<conns_hash, conns_out, nalloc>>
        /\ SetFlags(c, cn_flags[c] \ {"TICKABLE"})
    BY <1>4 DEF dtor_tickable
  <2>2. c \in live
    BY <2>1 DEF EngineInv, RefsOf
  <2>3. OwnersInv' /\ CountsInv'
    BY <1>0, <2>1, <2>2, HashSame, DecrefStep DEF Kind
  <2>4. DestroyInv'
    BY <1>0, <2>1 DEF DestroyInv
  <2> QED
    BY <1>1, <2>1, <2>3, <2>4 DEF DirectoryInv
<1>5. ASSUME NEW c \in Conn, force_close_conn(c) PROVE DirectoryInv'
  <2> DEFINE fl == cn_flags[c] \ {"ATTQ", "HASHED"}
  <2>1. /\ pc = "dtor_hash" /\ pc' = pc /\ skip' = skip /\ HashEntries(c) # {}
        /\ conns_hash' = conns_hash \ HashEntries(c)
        /\ UNCHANGED <<conns_tickable, conns_out, nalloc>> /\ SetFlags(c, fl)
    BY <1>5 DEF force_close_conn
  <2>2. c \in live
    BY <2>1 DEF EngineInv, RefsOf
  <2>3. OwnersInv' /\ CountsInv'
    BY <1>0, <2>1, <2>2, HashRemove, DecrefStep DEF Kind
  <2>4. DestroyInv'
    BY <1>0, <2>1 DEF DestroyInv
  <2> QED
    BY <1>1, <2>1, <2>3, <2>4 DEF DirectoryInv
<1>6. ASSUME NEW c \in Conn, dtor_attq(c) PROVE DirectoryInv'
  <2>1. /\ pc = "dtor_attq" /\ pc' = pc /\ skip' = skip /\ c \in attq
        /\ UNCHANGED <<conns_hash, conns_tickable, conns_out, nalloc>>
        /\ SetFlags(c, cn_flags[c] \ {"ATTQ"})
    BY <1>6 DEF dtor_attq
  <2>2. c \in live
    BY <2>1 DEF EngineInv, RefsOf
  <2>3. OwnersInv' /\ CountsInv'
    BY <1>0, <2>1, <2>2, HashSame, DecrefStep DEF Kind
  <2>4. DestroyInv'
    BY <1>0, <2>1 DEF DestroyInv
  <2> QED
    BY <1>1, <2>1, <2>3, <2>4 DEF DirectoryInv
<1> QED
  BY <1>2, <1>3, <1>4, <1>5, <1>6 DEF Destroy

-----------------------------------------------------------------------------
\* DirectoryInv holds beside EngineInv in every reachable state.
THEOREM DirectoryInvariance ==
    ASSUME "hash_failure" \notin Events
    PROVE  Spec => []DirectoryInv
<1>1. Init => DirectoryInv
  <2> SUFFICES ASSUME Init PROVE DirectoryInv
    OBVIOUS
  <2>1. /\ live = {} /\ coi_inactive = {} /\ skip = 0 /\ pc = "idle"
        /\ cn_flags = [c \in Conn |-> {}]
        /\ n_conns = 0 /\ mini_conns_count = 0 /\ nalloc = 0
    BY DEF Init
  <2>2. CountsInv
    <3>1. {c \in live : "MINI" \in cn_flags[c]} = {}
      BY <2>1
    <3>2. Cardinality({}) = 0
      BY FS_EmptySet
    <3> QED
      BY <2>1, <3>1, <3>2 DEF CountsInv, CountsExact
  <2>3. OwnersInv
    BY <2>1 DEF OwnersInv, Open
  <2>4. DestroyInv /\ OutputInv
    BY <2>1 DEF DestroyInv, OutputInv
  <2> QED
    BY <2>2, <2>3, <2>4 DEF DirectoryInv
<1>2. EngineInv /\ EngineInv' /\ DirectoryInv /\ [Next]_vars => DirectoryInv'
  <2> SUFFICES ASSUME EngineInv, EngineInv', DirectoryInv, [Next]_vars
               PROVE  DirectoryInv'
    OBVIOUS
  <2>1. CASE UNCHANGED vars
    <3>1. UNCHANGED <<live, cn_flags, cids, out, conns_hash, conns_tickable, conns_out,
                      attq, coi_inactive, skip, n_conns, mini_conns_count, nalloc, pc>>
      BY <2>1 DEF vars, connVars, queueVars, callVars, sendVars, countVars, rxVars,
                  engVars
    <3>2. nalloc' >= nalloc
      BY <3>1 DEF EngineInv, TypeOK
    <3>3. OwnersInv' /\ CountsInv'
      BY <3>1, <3>2, PlainStep DEF EngineInv
    <3>4. DestroyInv' /\ OutputInv'
      BY <3>1 DEF DirectoryInv, DestroyInv, OutputInv
    <3> QED
      BY <3>3, <3>4 DEF DirectoryInv
  <2> QED
    BY <2>1, DirReceive, DirUserCall, DirProcess, DirSend, DirDestroy DEF Next
<1> QED
  BY <1>1, <1>2, Invariance, PTL DEF Spec

\* For every number of connections and CIDs: a CID leads to the one connection
\* that owns it, through promotion and closing, and n_conns and
\* mini_conns_count are exact.
THEOREM DirectoryIsSound ==
    ASSUME "hash_failure" \notin Events
    PROVE  Spec => []DirectorySound
<1>1. EngineInv /\ DirectoryInv => DirectorySound
  <2> SUFFICES ASSUME EngineInv, DirectoryInv PROVE DirectorySound
    OBVIOUS
  <2>1. ASSUME NEW e \in conns_hash
        PROVE  e[2] \in Conn /\ Open(e[2]) /\ e[1] \in cids[e[2]]
    <3>1. e[2] \in Conn
      BY DEF EngineInv, TypeOK
    <3>2. e \in HashEntries(e[2])
      BY DEF HashEntries
    <3>3. "HASHED" \in cn_flags[e[2]] /\ e[1] \in cids[e[2]]
      BY <3>1, <3>2 DEF EngineInv, RefsOf
    <3> QED
      BY <3>1, <3>3 DEF DirectoryInv, OwnersInv
  <2>2. ASSUME NEW e1 \in conns_hash, NEW e2 \in conns_hash, e1[1] = e2[1]
        PROVE  e1 = e2
    <3>1. e1[2] = e2[2]
      BY <2>1, <2>2 DEF DirectoryInv, OwnersInv
    <3>2. e1 \in CID \X Conn /\ e2 \in CID \X Conn
      BY DEF EngineInv, TypeOK
    <3> QED
      BY <2>2, <3>1, <3>2
  <2> QED
    BY <2>1, <2>2 DEF DirectorySound, RoutingIsUnique, DirectoryInv, CountsInv
<1> QED
  BY <1>1, Invariance, DirectoryInvariance, PTL

\* For every number of connections: lsquic_mh_insert never overflows, and
\* lsquic_engine_destroy leaves no connection and no count behind.
THEOREM HeapsAndDestroyAreSound ==
    ASSUME "hash_failure" \notin Events
    PROVE  Spec => []HeapsAndDestroySound
<1>1. EngineInv /\ DirectoryInv => HeapsAndDestroySound
  <2> SUFFICES ASSUME EngineInv, DirectoryInv PROVE HeapsAndDestroySound
    OBVIOUS
  <2> DEFINE Outgoing == conns_out \cup coi_active \cup coi_inactive
  <2>0. TypeOK
    BY DEF EngineInv
  <2>1. \A x \in Conn : cn_flags[x] # {} => x \in live
    BY DEF EngineInv, RefsOf
  <2>2. conns_tickable \subseteq live /\ Outgoing \subseteq live
    BY <2>0, <2>1 DEF EngineInv, RefsOf, HasOut, TypeOK
  <2>3. IsFiniteSet(live) /\ Cardinality(live) \in Nat /\ Cardinality(live) <= nalloc
    BY <2>0, LiveIsFinite DEF DirectoryInv, CountsInv, CountsExact
  <2>4. Cardinality(Outgoing) \in Nat /\ Cardinality(Outgoing) <= Cardinality(live)
    BY <2>2, <2>3, FS_Subset, FS_CardinalityType
  <2>5. HeapsHaveRoom
    <3>1. conns_tickable \cup live = live
      BY <2>2
    <3>2. nalloc \in Nat
      BY <2>0 DEF TypeOK
    <3>3. Cardinality(Outgoing) <= nalloc
      BY <2>3, <2>4, <3>2
    <3> QED
      BY <2>3, <3>1, <3>3 DEF HeapsHaveRoom
  <2>6. DestroyIsComplete
    <3>1. SUFFICES ASSUME pc = "destroyed"
                   PROVE  live = {} /\ n_conns = 0 /\ mini_conns_count = 0
      BY DEF DestroyIsComplete
    <3>2. /\ conns_out = {} /\ conns_tickable = {} /\ conns_hash = {} /\ attq = {}
          /\ coi_active = {} /\ coi_inactive = {}
      BY <3>1 DEF DirectoryInv, DestroyInv, EngineInv, IteratorInv
    <3>3. ASSUME NEW x \in Conn PROVE x \notin live
      <4>1. "CLOSING" \notin cn_flags[x] /\ "TICKED" \notin cn_flags[x]
        BY <3>1 DEF EngineInv, ModeOf, Ticking
      <4>2. HashEntries(x) = {}
        BY <3>2 DEF HashEntries
      <4>3. Unreferenced(cn_flags[x])
        BY <3>2, <4>1, <4>2, UnreferencedFlags DEF EngineInv, RefsOf, HasOut
      <4> QED
        BY <4>3 DEF EngineInv, RefsOf
    <3>4. live = {}
      BY <2>0, <3>3 DEF TypeOK
    <3>5. Cardinality({}) = 0 /\ {c \in live : "MINI" \in cn_flags[c]} = {}
      BY <3>4, FS_EmptySet
    <3> QED
      BY <3>4, <3>5 DEF DirectoryInv, CountsInv, CountsExact
  <2> QED
    BY <2>5, <2>6 DEF HeapsAndDestroySound
<1> QED
  BY <1>1, Invariance, DirectoryInvariance, PTL

\* For every number of connections and size of the batch: coi_reheap drops no
\* full connection that has packets to send.
THEOREM NothingIsForgotten ==
    ASSUME "hash_failure" \notin Events
    PROVE  Spec => []OutgoingNotForgotten
<1>1. DirectoryInv => OutgoingNotForgotten
  BY DEF DirectoryInv, OutputInv, OutgoingNotForgotten
<1> QED
  BY <1>1, DirectoryInvariance, PTL

\* A connection closed because of a send error is never ticked again: when the
\* heap yields it, its last reference is dropped and it is destroyed.
THEOREM ImmedCloseEnds ==
    ASSUME "hash_failure" \notin Events
    PROVE  Spec => ImmedCloseIsFinal
<1>1. ASSUME EngineInv, EngineInv', [Next]_vars, NEW c \in Conn,
             "IMMED_CLOSE" \in cn_flags[c]
      PROVE  cur' # c
  <2>1. c # NoConn /\ cur # c
    BY <1>1, EngineAssumption DEF EngineInv, PointerInv
  <2>2. CASE cur' = cur \/ cur' = NoConn
    BY <2>1, <2>2
  <2>3. ASSUME NEW x \in Conn, iter_next_tickable(x) PROVE cur' # c
    <3>1. CASE x = c
      <4>1. Unreferenced(cn_flags[c] \ {"TICKABLE", "ATTQ"})
        BY <1>1, <2>3, UnreferencedFlags DEF iter_next_tickable, EngineInv, ModeOf
      <4> QED
        BY <2>1, <2>3, <3>1, <4>1 DEF iter_next_tickable
    <3>2. CASE x # c
      BY <2>1, <2>3, <3>2 DEF iter_next_tickable
    <3> QED
      BY <3>1, <3>2
  <2>4. ASSUME NEW x \in Conn, next_new_full_conn(x) PROVE cur' # c
    BY <1>1, <2>4 DEF next_new_full_conn, EngineInv, PointerInv, ModeOf
  <2>5. [Next]_vars => \/ cur' = cur \/ cur' = NoConn
                       \/ \E x \in Conn : iter_next_tickable(x) \/ next_new_full_conn(x)
    <3> USE DEF callVars
    <3>1. Receive => cur' = cur
      BY DEF Receive, create_mini_conn, packet_in, packet_in_promote,
             packet_in_promote_fail, packet_in_end
    <3>2. UserCall => cur' = cur
      BY DEF UserCall, connect, create_fail, add_conn_to_tickable, add_conn_to_attq,
             add_cid, retire_cid, engine_cooldown, drop_mini_conn, cooldown_done
    <3>3. Process => \/ cur' = cur \/ cur' = NoConn
                     \/ \E x \in Conn : iter_next_tickable(x) \/ next_new_full_conn(x)
      BY DEF Process, process_conns, attq_pop, attq_done, iter_empty, tick, tick_close,
             tick_promote, TickReturns, flush, close_closed, close_done,
             requeue_ticked, ticked_done
    <3>4. Send => cur' = cur
      BY DEF Send, send_unsent_packets, coi_deactivate, batch_packet, batch_nomem,
             batch_badcrypt, coi_end, send_batch_all, send_batch_eagain,
             send_batch_error, send_batch_too_large, send_batch_emsgsize,
             reheap_active, reheap_inactive, send_done
    <3>5. Destroy => cur' = cur
      BY DEF Destroy, engine_destroy, dtor_out, dtor_tickable, force_close_conn,
             dtor_attq, dtor_next
    <3> QED
      BY <3>1, <3>2, <3>3, <3>4, <3>5 DEF Next, vars
  <2> QED
    BY <1>1, <2>2, <2>3, <2>4, <2>5
<1>2. EngineInv /\ EngineInv' /\ [Next]_vars
        => [\A c \in Conn : "IMMED_CLOSE" \in cn_flags[c] => cur' # c]_vars
  BY <1>1
<1> QED
  BY <1>2, Invariance, PTL DEF Spec, ImmedCloseIsFinal

\* Where packets_out never fails with EMSGSIZE, so that no datagram of a batch
\* is skipped, close_conn_on_send_error closes the connection whose datagram
\* failed.  (With skipped datagrams its index is wrong: see ErrorIndex.)
THEOREM ErrorClosesTheFailed ==
    ASSUME "hash_failure" \notin Events, "emsgsize" \notin Events
    PROVE  Spec => ErrorClosesFailed
<1>1. ASSUME EngineInv, DirectoryInv, [Next]_vars, NEW c \in Conn, pc = "send",
             batch # <<>>, batch' = <<>>, "IMMED_CLOSE" \in cn_flags'[c] \ cn_flags[c]
      PROVE  out'[c] > out[c]
  <2>0. TypeOK /\ skip = 0
    BY <1>1 DEF EngineInv, DirectoryInv, OutputInv
  <2>1. send_batch_error
    <3>1. ~Receive
      BY <1>1 DEF Receive, create_mini_conn, packet_in, packet_in_promote,
                  packet_in_promote_fail, packet_in_end, EngineInv, PointerInv,
                  RxPacket, Idle
    <3>2. ~UserCall /\ ~Process /\ ~Destroy
      BY <1>1 DEF UserCall, connect, create_fail, add_conn_to_tickable,
             add_conn_to_attq, add_cid, retire_cid, engine_cooldown, drop_mini_conn,
             cooldown_done, UserRuns, Idle, NotProcessing, Process, process_conns,
             attq_pop, attq_done, iter_next_tickable, iter_empty, next_new_full_conn,
             tick, tick_close, tick_promote, flush, close_closed, close_done,
             requeue_ticked, ticked_done, Destroy, engine_destroy, dtor_out,
             dtor_tickable, force_close_conn, dtor_attq, dtor_next
    <3>3. ~send_unsent_packets /\ ~coi_end /\ ~send_done
      BY <1>1 DEF send_unsent_packets, coi_end, send_done, Idle, connVars
    <3>4. ~\E x \in Conn : \/ coi_deactivate(x) \/ batch_packet(x)
                            \/ batch_nomem(x) \/ batch_badcrypt(x)
                            \/ reheap_active(x) \/ reheap_inactive(x)
      <4>1. \A x \in Conn : Append(batch, x) # <<>>
        <5>1. batch \in Seq(Conn)
          BY <2>0 DEF TypeOK
        <5> QED
          BY <5>1
      <4> QED
        BY <1>1, <4>1 DEF coi_deactivate, batch_packet, batch_nomem, batch_badcrypt,
             reheap_active, reheap_inactive, connVars
    <3>5. ~send_batch_all /\ ~send_batch_eagain /\ ~send_batch_too_large
      BY <1>1 DEF send_batch_all, send_batch_eagain, send_batch_too_large
    <3>6. ~send_batch_emsgsize
      BY DEF send_batch_emsgsize
    <3>7. ~UNCHANGED vars
      BY <1>1 DEF vars, sendVars
    <3> QED
      BY <1>1, <3>1, <3>2, <3>3, <3>4, <3>5, <3>6, <3>7 DEF Next, Send
  <2>2. PICK k \in skip..(Len(batch) - 1) :
           ReturnPackets(k) /\ CloseImmediately(batch[ErrorIndex(k)])
    BY <2>1 DEF send_batch_error
  <2>3. k \in Nat /\ ErrorIndex(k) = k + 1 /\ k + 1 \in (k + 1)..Len(batch)
    BY <2>0 DEF TypeOK, ErrorIndex
  <2>4. batch[k + 1] \in Conn
    BY <2>0, <2>3 DEF TypeOK
  <2>5. c = batch[k + 1]
    BY <1>1, <2>2, <2>3, <2>4, CloseEffect
  <2> QED
    BY <2>0, <2>2, <2>3, <2>5, ReturnOutput
<1>2. EngineInv /\ DirectoryInv /\ [Next]_vars =>
        [\A c \in Conn :
            (pc = "send" /\ batch # <<>> /\ batch' = <<>>
                 /\ "IMMED_CLOSE" \in cn_flags'[c] \ cn_flags[c])
                => out'[c] > out[c]]_vars
  BY <1>1
<1> QED
  BY <1>2, Invariance, DirectoryInvariance, PTL DEF Spec, ErrorClosesFailed
=============================================================================

------------------------------ MODULE PrQueue ------------------------------
(***************************************************************************)
(* The packet request queue of a server, lsquic_pr_queue.c: packets that   *)
(* are sent on behalf of no connection (version negotiation, Retry, public *)
(* and stateless resets).  A request waits in a hash; to be sent it is     *)
(* given an "evanescent" connection, which the engine asks for one packet  *)
(* and tells whether the packet could be sent.  Requests live in slots of  *)
(* a pool, and connections are reused.                                     *)
(***************************************************************************)
EXTENDS Integers, Sequences, FiniteSets, FiniteSetsExt, SequencesExt

CONSTANTS
    QCid,           \* the connection IDs that packets carry
    MaxReqs,        \* prq_max_reqs
    MaxConns,       \* prq_max_conns
    MinReset,       \* IQUIC_MIN_SRST_SIZE
    MaxReset,       \* IQUIC_MAX_SRST_SIZE
    Sizes           \* sizes of the packets that arrive

ASSUME PrQueueAssumption ==
    /\ MaxReqs \in Nat /\ MaxConns \in Nat
    /\ MinReset \in Nat /\ MaxReset \in Nat /\ Sizes \subseteq Nat

VARIABLES
    req,            \* the requests, by slot of prq_reqs_pool
    reqs_hash,      \* prq_reqs_hash: the slots of those that wait
    evc_req,        \* the slot that each evanescent connection refers to
    evc_drop,       \* the connections with EVC_DROP
    free_conns, returned_conns,
    batched,        \* the connections in the engine's hands, in its batch
    nreqs, nconns,
    send_over       \* the engine's send loop has met an error and stops

qvars == <<req, reqs_hash, evc_req, evc_drop, free_conns, returned_conns,
           batched, nreqs, nconns, send_over>>

QSlot == 1 .. MaxReqs
EvConn == 1 .. MaxConns
Freed == [type |-> "freed"]
NoSlot == 0
Types == {"verneg", "pubres", "retry"}

Allocated == {s \in QSlot : req[s] # Freed}
KnownConns == ToSet(free_conns) \cup ToSet(returned_conns) \cup batched

PrQueueInit ==
    /\ req = [s \in QSlot |-> Freed]
    /\ reqs_hash = {}
    /\ evc_req = [e \in EvConn |-> NoSlot]
    /\ evc_drop = {}
    /\ free_conns = << >> /\ returned_conns = << >>
    /\ batched = {}
    /\ nreqs = 0 /\ nconns = 0
    /\ send_over = FALSE

-----------------------------------------------------------------------------
(***************************************************************************)
(* lsquic_prq_new_req_ext(), called while a packet that has arrived is     *)
(* processed.  A stateless reset is shorter than the packet it answers, by *)
(* a random amount, so that two endpoints cannot reset each other forever. *)
(* A request for the same ID and of the same type is not queued twice.     *)
(***************************************************************************)
ResetSizes(sz) ==
    LET max == Min({MaxReset, sz - 1}) IN
    IF max > MinReset THEN {MinReset + (r % (max - MinReset)) : r \in 0 .. 255}
    ELSE {MinReset}
Waiting_bug(type, cid) == FALSE
Waiting(type, cid) ==
    \E s \in reqs_hash : req[s].type = type /\ req[s].cid = cid

NewReq(type, gquic, cid, sz) ==
    /\ batched = {} /\ ~send_over
    /\ type = "retry" => ~gquic         \* schedule_mini_retry()
    /\ nreqs < MaxReqs
    /\ ~Waiting(type, cid)
    /\ \E size \in IF type = "pubres" /\ ~gquic
                   THEN (IF sz <= MinReset THEN {} ELSE ResetSizes(sz)) ELSE {0} :
         LET s == Min(QSlot \ Allocated) IN
         /\ req' = [req EXCEPT ![s] = [type |-> type, cid |-> cid, size |-> size,
                                       trigger |-> sz]]
         /\ reqs_hash' = reqs_hash \cup {s}
    /\ nreqs' = nreqs + 1
    /\ UNCHANGED <<evc_req, evc_drop, free_conns, returned_conns, batched, nconns,
                   send_over>>

(***************************************************************************)
(* lsquic_prq_next_conn(): a connection whose packet was not sent comes    *)
(* first; else a request, in the order of the hash, gets a connection.     *)
(***************************************************************************)
NextReturned ==
    /\ ~send_over
    /\ returned_conns # << >>
    /\ batched' = batched \cup {Head(returned_conns)}
    /\ returned_conns' = Tail(returned_conns)
    /\ UNCHANGED <<req, reqs_hash, evc_req, evc_drop, free_conns, nreqs, nconns,
                   send_over>>

GetEvconn ==
    IF free_conns # << >> THEN Head(free_conns) ELSE Min(EvConn \ KnownConns)
ConnLimit == nconns >= MaxConns
NextConn(s) ==
    /\ ~send_over
    /\ returned_conns = << >>
    /\ s \in reqs_hash
    /\ ~ConnLimit
    /\ LET e == GetEvconn IN
         /\ free_conns' = IF free_conns # << >> THEN Tail(free_conns) ELSE << >>
         /\ evc_drop' = evc_drop \ {e}
         /\ evc_req' = [evc_req EXCEPT ![e] = s]
         /\ batched' = batched \cup {e}
    /\ reqs_hash' = reqs_hash \ {s}
    /\ nconns' = nconns + 1
    /\ UNCHANGED <<req, returned_conns, nreqs, send_over>>

-----------------------------------------------------------------------------
PutReq(s) ==
    /\ req' = [req EXCEPT ![s] = Freed]
    /\ nreqs' = nreqs - 1
FreeConn(e) ==                          \* prq_free_conn()
    /\ PutReq(evc_req[e])
    /\ free_conns' = <<e>> \o free_conns
    /\ nconns' = nconns - 1

PacketSent(e) ==                        \* evanescent_conn_ci_packet_sent()
    /\ e \in batched /\ e \notin evc_drop
    /\ FreeConn(e)
    /\ batched' = batched \ {e}
    /\ UNCHANGED <<reqs_hash, evc_req, evc_drop, returned_conns, send_over>>

DropConn(e) ==                          \* lsquic_prq_drop(): an error to report
    /\ e \in batched /\ ~send_over
    /\ evc_drop' = evc_drop \cup {e}
    /\ send_over' = TRUE
    /\ UNCHANGED <<req, reqs_hash, evc_req, free_conns, returned_conns, batched,
                   nreqs, nconns>>

PacketNotSent(e) ==                     \* evanescent_conn_ci_packet_not_sent()
    /\ e \in batched
    /\ IF e \in evc_drop
       THEN FreeConn(e) /\ UNCHANGED returned_conns
       ELSE /\ returned_conns' = <<e>> \o returned_conns
            /\ UNCHANGED <<req, nreqs, free_conns, nconns>>
    /\ batched' = batched \ {e}
    /\ send_over' = TRUE
    /\ UNCHANGED <<reqs_hash, evc_req, evc_drop>>

SendEnds ==                             \* the engine has left send_packets_out()
    /\ batched = {} /\ send_over
    /\ send_over' = FALSE
    /\ UNCHANGED <<req, reqs_hash, evc_req, evc_drop, free_conns, returned_conns,
                   batched, nreqs, nconns>>

PrQueueNext ==
    \/ \E type \in Types, gquic \in BOOLEAN, cid \in QCid, sz \in Sizes :
          NewReq(type, gquic, cid, sz)
    \/ NextReturned
    \/ \E s \in QSlot : NextConn(s)
    \/ \E e \in EvConn : PacketSent(e) \/ DropConn(e) \/ PacketNotSent(e)
    \/ SendEnds

PrQueueSpec == PrQueueInit /\ [][PrQueueNext]_qvars

(***************************************************************************)
(* lsquic_prq_have_pending(), on which lsquic_engine_has_unsent_packets()  *)
(* rests.                                                                  *)
(***************************************************************************)
HavePending == reqs_hash # {}

-----------------------------------------------------------------------------
(***************************************************************************)
(* Every request is referred to once, by the hash or by a connection that  *)
(* is being sent or waits to be sent again; none is freed while it is      *)
(* referred to, none is leaked, and the counters agree with the lists, so  *)
(* the limits on requests and connections never lock the queue up.         *)
(***************************************************************************)
InUse == batched \cup ToSet(returned_conns)
RequestsOwnedOnce ==
    /\ \A e \in InUse : evc_req[e] \in Allocated \ reqs_hash
    /\ \A e, f \in InUse : evc_req[e] = evc_req[f] => e = f
    /\ Allocated = reqs_hash \cup {evc_req[e] : e \in InUse}
    /\ nreqs = Cardinality(Allocated)
    /\ nconns = Cardinality(InUse)
    /\ IsInjective(free_conns) /\ IsInjective(returned_conns)
    /\ ToSet(free_conns) \cap InUse = {}
    /\ \A s, t \in reqs_hash : req[s].type = req[t].type /\ req[s].cid = req[t].cid
                                  => s = t

(***************************************************************************)
(* A stateless reset is shorter than the packet that provoked it.          *)
(***************************************************************************)
ResetIsShorter ==
    \A s \in Allocated : req[s].size > 0 => req[s].size < req[s].trigger

PacketQueueIsSound == RequestsOwnedOnce /\ ResetIsShorter

(***************************************************************************)
(* With the types, and the connections in the engine's hands told from     *)
(* those that wait, PacketQueueIsSound is inductive.                       *)
(***************************************************************************)
Request == [type : Types, cid : QCid, size : Nat, trigger : Nat]
PrQueueTypeOK ==
    /\ req \in [QSlot -> Request \cup {Freed}]
    /\ reqs_hash \in SUBSET QSlot
    /\ evc_req \in [EvConn -> QSlot \cup {NoSlot}]
    /\ free_conns \in Seq(EvConn) /\ returned_conns \in Seq(EvConn)
    /\ batched \in SUBSET EvConn
    /\ nreqs \in Nat /\ nconns \in Nat
PrQueueInv ==
    /\ PrQueueTypeOK
    /\ PacketQueueIsSound
    /\ batched \cap ToSet(returned_conns) = {}

(***************************************************************************)
(* "Returns true if engine has some unsent packets.  This happens if       *)
(* ea_packets_out() could not send everything out": what lsquic.h says of  *)
(* lsquic_engine_has_unsent_packets(), for the packets of this queue.      *)
(***************************************************************************)
UnsentIsReported == returned_conns # << >> => HavePending
=============================================================================

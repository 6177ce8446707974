------------------------------- MODULE Engine -------------------------------
(***************************************************************************)
(* The connection life cycle of the lsquic engine (lsquic_engine.c).       *)
(*                                                                         *)
(* A connection object is referenced from six places: the CID hash, the    *)
(* outgoing heap, the tickable heap, the advisory tick time queue and two  *)
(* queues that are local to one call (connections being closed, and        *)
(* connections that were ticked).  Each place has a reference flag in      *)
(* cn_flags, and the object is destroyed when its last reference flag is   *)
(* cleared.  Several further places hold connection pointers with no flag  *)
(* of their own: the list of new full connections, the output iterator,    *)
(* the output batch, curr_conn, and the connection being ticked.           *)
(*                                                                         *)
(* The engine is single-threaded.  Control is the variable pc, which names *)
(* the function that is running; user code runs when pc = "idle", and      *)
(* inside a tick, where it calls back into the engine.  What connections   *)
(* do is external to this module: their ticks, and their answers to        *)
(* ci_is_tickable, ci_next_tick_time and ci_next_packet_to_send, are       *)
(* nondeterministic choices restricted to what the code of the mini and    *)
(* the full connection allows.                                             *)
(***************************************************************************)
EXTENDS Integers, Sequences, FiniteSets

CONSTANTS
    Conn,          \* connection objects (memory that may be allocated)
    CID,           \* connection IDs
    Server,        \* TRUE: server engine; FALSE: client engine
    MaxInchoate,   \* es_max_inchoate, the limit on mini connections
    FirstAlloc,    \* size of each of the heaps when first allocated
    BatchSize,     \* batch_size: datagrams in an output batch
    MaxOut,        \* bound: datagrams a connection has ready to send
    Events,        \* what the environment of the engine may do or suffer
    NoConn         \* the NULL connection pointer

\* The environment events that a configuration may switch off:
\*   "cooldown"     the user calls lsquic_engine_cooldown
\*   "hash_failure" memory for a CID hash entry cannot be allocated
\*   "emsgsize"     packets_out fails with EMSGSIZE
\*   "send_error"   packets_out fails with an errno of another kind, or a
\*                  packet cannot be encrypted
\*   "destroy"      the user destroys the engine
EnvEvent == {"cooldown", "hash_failure", "emsgsize", "send_error", "destroy"}

ASSUME EngineAssumption ==
    /\ IsFiniteSet(Conn)
    /\ Server \in BOOLEAN
    /\ MaxInchoate \in Nat
    /\ FirstAlloc \in Nat \ {0}
    /\ BatchSize \in Nat \ {0}
    /\ MaxOut \in Nat \ {0}
    /\ Events \subseteq EnvEvent
    /\ NoConn \notin Conn

-----------------------------------------------------------------------------
(***************************************************************************)
(* State                                                                   *)
(***************************************************************************)

\* CONN_REF_FLAGS: the flags that keep a connection alive.
RefFlag == {"HASHED", "HAS_OUTGOING", "TICKABLE", "TICKED", "CLOSING", "ATTQ"}

\* The other flags of cn_flags that steer the engine, and TICK_CLOSE, the
\* connection's own record (IFC_TICK_CLOSE) that a tick returned TICK_CLOSE.
ModeFlag == {"MINI", "HANDSHAKE_DONE", "PROMOTED", "PROMOTE_FAIL",
             "IMMED_CLOSE", "TICK_CLOSE"}

VARIABLES
    live,              \* connection objects that exist
    cn_flags,          \* flags of each connection
    cids,              \* source CIDs of each connection (cn_cces)
    out,               \* datagrams each connection has ready to send
    conns_hash,        \* CID hash: <<CID, connection>> pairs
    conns_tickable,    \* tickable heap
    conns_out,         \* outgoing heap
    attq,              \* advisory tick time queue
    closed_conns,      \* closing queue, local to one call
    ticked_conns,      \* ticked queue, local to one call
    new_full_conns,    \* full connections created in this call
    cur,               \* the connection inside ci_tick
    coi_active,        \* output iterator: connections that may have packets
    coi_inactive,      \* output iterator: connections without packets
    batch,             \* batch->conns: the connection of each datagram
    skip,              \* send_batch: datagrams settled before a restart
    stop,              \* send_packets_out has left its batching loop
    n_conns,           \* counter of connection objects
    mini_conns_count,  \* counter of mini connections
    nalloc,            \* mh_nalloc of both heaps
    curr_conn,         \* connection of the datagram being received
    dgram,             \* CID of the datagram being received, {} if none
    can_send,          \* ENPUB_CAN_SEND
    cooldown,          \* ENG_COOLDOWN
    pc                 \* the function that is running

connVars  == <<live, cn_flags, cids, out>>
queueVars == <<conns_hash, conns_tickable, conns_out, attq>>
callVars  == <<closed_conns, ticked_conns, new_full_conns, cur>>
sendVars  == <<coi_active, coi_inactive, batch, skip, stop>>
countVars == <<n_conns, mini_conns_count, nalloc>>
rxVars    == <<curr_conn, dgram>>
engVars   == <<can_send, cooldown, pc>>
vars == <<connVars, queueVars, callVars, sendVars, countVars, rxVars, engVars>>

Init ==
    /\ live = {}
    /\ cn_flags = [c \in Conn |-> {}]
    /\ cids = [c \in Conn |-> {}]
    /\ out = [c \in Conn |-> 0]
    /\ conns_hash = {}
    /\ conns_tickable = {} /\ conns_out = {} /\ attq = {}
    /\ closed_conns = {} /\ ticked_conns = {} /\ new_full_conns = {}
    /\ cur = NoConn
    /\ coi_active = {} /\ coi_inactive = {}
    /\ batch = <<>> /\ skip = 0 /\ stop = FALSE
    /\ n_conns = 0 /\ mini_conns_count = 0 /\ nalloc = 0
    /\ curr_conn = NoConn /\ dgram = {}
    /\ can_send = TRUE /\ cooldown = FALSE
    /\ pc = "idle"

-----------------------------------------------------------------------------
(***************************************************************************)
(* Building blocks                                                         *)
(***************************************************************************)

\* Definitions whose names end in _bug are plausible mistakes in the code: each
\* has the parameters of the definition that follows it.

\* remove_cces_from_hash stops at the first CID.
HashEntries_bug(c) ==
    LET E == {e \in conns_hash : e[2] = c}
    IN IF E = {} THEN {} ELSE {CHOOSE e \in E : TRUE}

\* remove_cces_from_hash and remove_all_cces_from_hash: the entries of c.
HashEntries(c) == {e \in conns_hash : e[2] = c}

\* A CID that no connection uses: what the random generator yields.
FreshCID(d) == \A c \in live : d \notin cids[c]

\* The connection whose flags become fl has lost its last reference.
Unreferenced(fl) == fl \cap RefFlag = {}

MiniCount(fl) == IF "MINI" \in fl THEN 1 ELSE 0

\* destroy_conn, for a connection whose flags are fl.
destroy_conn(c, fl) ==
    /\ live' = live \ {c}
    /\ cn_flags' = [cn_flags EXCEPT ![c] = {}]
    /\ cids' = [cids EXCEPT ![c] = {}]
    /\ n_conns' = n_conns - 1
    /\ mini_conns_count' = mini_conns_count - MiniCount(fl)

\* engine_incref_conn and engine_decref_conn: give c the flags fl, which
\* destroys it if none of them is a reference.
SetFlags(c, fl) ==
    IF Unreferenced(fl)
    THEN destroy_conn(c, fl)
    ELSE /\ cn_flags' = [cn_flags EXCEPT ![c] = fl]
         /\ UNCHANGED <<live, cids, n_conns, mini_conns_count>>

\* The heaps grow one connection too late.
GrownAlloc_bug ==
    IF n_conns <= nalloc /\ nalloc > 0 THEN nalloc
    ELSE IF nalloc = 0 THEN FirstAlloc ELSE 2 * nalloc

\* maybe_grow_conn_heaps: the size of the heaps once there is room for one
\* more connection.
GrownAlloc ==
    IF n_conns < nalloc THEN nalloc
    ELSE IF nalloc = 0 THEN FirstAlloc ELSE 2 * nalloc

\* insert_conn_into_hash: what the hash maps to c, whose CIDs are D.
EntriesFor(c, D) == D \X {c}

\* The user is free to call the engine: no call is in progress.
Idle == pc = "idle" /\ dgram = {}

\* User code runs: between calls, or in a callback made by a tick.
UserRuns == Idle \/ pc = "tick"

-----------------------------------------------------------------------------
(***************************************************************************)
(* Incoming packets: lsquic_engine_packet_in                               *)
(*                                                                         *)
(* A datagram is a sequence of packets with one destination CID, each      *)
(* given to process_packet_in.  dgram holds that CID until the last one.   *)
(***************************************************************************)
RxPacket(d) == pc = "idle" /\ dgram \in {{}, {d}}

\* The packet was processed by connection c: another may follow it in the
\* datagram, whose first connection is in curr_conn on a server.
RxNext(d, c) ==
    \/ dgram' = {} /\ curr_conn' = NoConn
    \/ /\ dgram' = {d}
       /\ curr_conn' = IF Server /\ curr_conn = NoConn THEN c ELSE curr_conn

\* find_or_create_conn creates a mini connection for an unknown CID.  (The
\* purgatory and the version and token checks may also refuse the packet.)
create_mini_conn(d, c) ==
    /\ Idle /\ Server /\ ~cooldown
    /\ \A e \in conns_hash : e[1] # d
    /\ mini_conns_count < MaxInchoate
    /\ c \notin live
    /\ \E s \in {d} \cup {x \in CID : FreshCID(x)} :
         /\ cids' = [cids EXCEPT ![c] = {d, s}]
         /\ conns_hash' = conns_hash \cup EntriesFor(c, {d, s})
    /\ live' = live \cup {c}
    /\ cn_flags' = [cn_flags EXCEPT ![c] = {"MINI", "HASHED", "TICKABLE"}]
    /\ out' = [out EXCEPT ![c] = 0]
    /\ conns_tickable' = conns_tickable \cup {c}
    /\ n_conns' = n_conns + 1
    /\ mini_conns_count' = mini_conns_count + 1
    /\ nalloc' = GrownAlloc
    /\ RxNext(d, c)
    /\ UNCHANGED <<conns_out, attq, callVars, sendVars, engVars>>

\* process_packet_in for a known CID: the connection takes the packet and
\* becomes tickable.
packet_in(d, c) ==
    /\ RxPacket(d)
    /\ <<d, c>> \in conns_hash
    /\ ~({"MINI", "HANDSHAKE_DONE"} \subseteq cn_flags[c])
    /\ cn_flags' = [cn_flags EXCEPT ![c] = @ \cup {"TICKABLE"}]
    /\ conns_tickable' = conns_tickable \cup {c}
    /\ RxNext(d, c)
    /\ UNCHANGED <<live, cids, out, conns_hash, conns_out, attq, callVars,
                   sendVars, countVars, engVars>>

\* process_packet_in when the packet leaves a mini connection c with its
\* handshake complete, and promote_mini_conn replaces it by connection f.
packet_in_promote(d, c, f) ==
    /\ RxPacket(d)
    /\ <<d, c>> \in conns_hash
    /\ "MINI" \in cn_flags[c]
    /\ f \notin live
    /\ live' = live \cup {f}
    /\ n_conns' = n_conns + 1
    /\ nalloc' = GrownAlloc
    /\ cids' = [cids EXCEPT ![f] = cids[c]]
    /\ out' = [out EXCEPT ![f] = 0]
    /\ conns_hash' = (conns_hash \cup EntriesFor(f, cids[c])) \ HashEntries(c)
    /\ attq' = attq \ {c}
    /\ conns_tickable' = conns_tickable \cup {c, f}
    /\ cn_flags' = [cn_flags EXCEPT
           ![c] = (@ \cup {"HANDSHAKE_DONE", "PROMOTED", "TICKABLE"})
                       \ {"ATTQ", "HASHED"},
           ![f] = {"HANDSHAKE_DONE", "HASHED", "TICKABLE"}]
    /\ \/ dgram' = {} /\ curr_conn' = NoConn
       \/ dgram' = {d} /\ curr_conn' = f
    /\ UNCHANGED <<conns_out, callVars, sendVars, mini_conns_count, engVars>>

\* The same when the full connection cannot be created: the heaps cannot grow
\* or the constructor fails; or the new connection f cannot be inserted into
\* the hash and is destroyed.  By then its constructor has run the user's
\* on_new_conn callback, which may have put f onto the tickable heap.
packet_in_promote_fail(d, c) ==
    /\ RxPacket(d)
    /\ <<d, c>> \in conns_hash
    /\ "MINI" \in cn_flags[c]
    /\ cn_flags' = [cn_flags EXCEPT
            ![c] = @ \cup {"HANDSHAKE_DONE", "PROMOTE_FAIL", "TICKABLE"}]
    /\ \/ /\ conns_tickable' = conns_tickable \cup {c}
          /\ nalloc' \in {nalloc, GrownAlloc}
       \/ /\ "hash_failure" \in Events
          /\ \E f \in Conn \ live :
                conns_tickable' \in {conns_tickable \cup {c},
                                    conns_tickable \cup {c, f}}
          /\ nalloc' = GrownAlloc
    /\ RxNext(d, c)
    /\ UNCHANGED <<live, cids, out, conns_hash, conns_out, attq, callVars,
                   sendVars, n_conns, mini_conns_count, engVars>>

\* The rest of the datagram is dropped: it cannot be parsed, or its CID is
\* no longer known.  maybe_count_garbage follows curr_conn.
packet_in_end ==
    /\ dgram # {}
    /\ dgram' = {} /\ curr_conn' = NoConn
    /\ IF curr_conn # NoConn /\ curr_conn \notin live
       THEN pc' = "undefined" ELSE pc' = pc
    /\ UNCHANGED <<connVars, queueVars, callVars, sendVars, countVars,
                   can_send, cooldown>>

-----------------------------------------------------------------------------
(***************************************************************************)
(* Other calls into the engine                                             *)
(***************************************************************************)

\* lsquic_engine_connect, also from a callback.
connect(c, d) ==
    /\ UserRuns /\ ~Server
    /\ c \notin live /\ FreshCID(d)
    /\ live' = live \cup {c}
    /\ n_conns' = n_conns + 1
    /\ nalloc' = GrownAlloc
    /\ cids' = [cids EXCEPT ![c] = {d}]
    /\ out' = [out EXCEPT ![c] = 0]
    /\ conns_hash' = conns_hash \cup EntriesFor(c, {d})
    /\ conns_tickable' = conns_tickable \cup {c}
    /\ cn_flags' = [cn_flags EXCEPT ![c] = {"HASHED", "TICKABLE"}]
    /\ UNCHANGED <<conns_out, attq, callVars, sendVars, mini_conns_count,
                   rxVars, engVars>>

\* find_or_create_conn or lsquic_engine_connect grows the heaps, but then the
\* connection cannot be constructed or inserted into the hash.
create_fail ==
    /\ UserRuns
    /\ Server => Idle /\ ~cooldown /\ mini_conns_count < MaxInchoate
    /\ nalloc' = GrownAlloc /\ nalloc' # nalloc
    /\ UNCHANGED <<connVars, queueVars, callVars, sendVars, n_conns,
                   mini_conns_count, rxVars, engVars>>

\* The flag ENPUB_PROC is not consulted.
NotProcessing_bug == UserRuns

\* ENPUB_PROC is not set: the heap may be added to.
NotProcessing == Idle

\* lsquic_engine_add_conn_to_tickable, called by a connection or stream
\* method that the user invokes, and by a stateless reset.  It does nothing
\* while connections are being processed (ENPUB_PROC).
add_conn_to_tickable(c) ==
    /\ NotProcessing
    /\ c \in live /\ "MINI" \notin cn_flags[c]
    /\ "TICKABLE" \notin cn_flags[c]
    /\ conns_tickable' = conns_tickable \cup {c}
    /\ cn_flags' = [cn_flags EXCEPT ![c] = @ \cup {"TICKABLE"}]
    /\ UNCHANGED <<live, cids, out, conns_hash, conns_out, attq, callVars,
                   sendVars, countVars, rxVars, engVars>>

\* lsquic_engine_add_conn_to_attq, called when the pacer blocks a
\* connection.  (A connection already on the queue only changes its time:
\* its old element is free for the new one, so the addition cannot fail.)
add_conn_to_attq(c) ==
    /\ UserRuns
    /\ c \in live /\ "MINI" \notin cn_flags[c]
    /\ {"TICKABLE", "ATTQ"} \cap cn_flags[c] = {}
    /\ attq' = attq \cup {c}
    /\ cn_flags' = [cn_flags EXCEPT ![c] = @ \cup {"ATTQ"}]
    /\ UNCHANGED <<live, cids, out, conns_hash, conns_tickable, conns_out,
                   callVars, sendVars, countVars, rxVars, engVars>>

\* lsquic_engine_add_cid, for a full connection that issues a new CID.
add_cid(c, d) ==
    /\ pc = "tick" /\ c = cur
    /\ {"MINI", "TICK_CLOSE"} \cap cn_flags[c] = {}
    /\ FreshCID(d)
    /\ cids' = [cids EXCEPT ![c] = @ \cup {d}]
    /\ conns_hash' = conns_hash \cup {<<d, c>>}
    /\ UNCHANGED <<live, cn_flags, out, conns_tickable, conns_out, attq,
                   callVars, sendVars, countVars, rxVars, engVars>>

\* lsquic_engine_retire_cid, for a RETIRE_CONNECTION_ID frame.  A peer may not
\* retire the CID of the very packet that carries the frame.
retire_cid(c, d, e) ==
    /\ Idle
    /\ {<<d, c>>, <<e, c>>} \subseteq conns_hash /\ d # e
    /\ "MINI" \notin cn_flags[c]
    /\ cids' = [cids EXCEPT ![c] = @ \ {d}]
    /\ conns_hash' = conns_hash \ {<<d, c>>}
    /\ UNCHANGED <<live, cn_flags, out, conns_tickable, conns_out, attq,
                   callVars, sendVars, countVars, rxVars, engVars>>

\* lsquic_engine_cooldown.  On a server, drop_all_mini_conns then takes the
\* mini connections out of the hash one by one.
engine_cooldown ==
    /\ Idle /\ "cooldown" \in Events /\ ~cooldown
    /\ cooldown' = TRUE
    /\ pc' = IF Server THEN "cooldown" ELSE "idle"
    /\ UNCHANGED <<connVars, queueVars, callVars, sendVars, countVars, rxVars,
                   can_send>>

drop_mini_conn(c) ==
    /\ pc = "cooldown"
    /\ {"MINI", "HASHED"} \subseteq cn_flags[c]
    /\ conns_hash' = conns_hash \ HashEntries(c)
    /\ SetFlags(c, cn_flags[c] \ {"HASHED"})
    /\ UNCHANGED <<out, conns_tickable, conns_out, attq, callVars, sendVars,
                   nalloc, rxVars, engVars>>

cooldown_done ==
    /\ pc = "cooldown"
    /\ \A c \in Conn : ~({"MINI", "HASHED"} \subseteq cn_flags[c])
    /\ pc' = "idle"
    /\ UNCHANGED <<connVars, queueVars, callVars, sendVars, countVars, rxVars,
                   can_send, cooldown>>

-----------------------------------------------------------------------------
(***************************************************************************)
(* lsquic_engine_process_conns and process_connections                     *)
(***************************************************************************)
process_conns ==
    /\ Idle
    /\ pc' = "attq"
    /\ UNCHANGED <<connVars, queueVars, callVars, sendVars, countVars, rxVars,
                   can_send, cooldown>>

\* A connection whose advisory time has passed moves to the tickable heap.
attq_pop(c) ==
    /\ pc = "attq" /\ c \in attq
    /\ attq' = attq \ {c}
    /\ LET fl == cn_flags[c] \ {"ATTQ"}
       IN IF Unreferenced(fl)
          THEN SetFlags(c, fl) /\ UNCHANGED conns_tickable
          ELSE /\ SetFlags(c, fl \cup {"TICKABLE"})
               /\ conns_tickable' = conns_tickable \cup {c}
    /\ UNCHANGED <<out, conns_hash, conns_out, callVars, sendVars, nalloc,
                   rxVars, engVars>>

\* No other advisory time has passed.  The failsafe of process_connections
\* may find that sending was disabled a second ago and enable it.
attq_done ==
    /\ pc = "attq"
    /\ can_send' \in {can_send, TRUE}
    /\ pc' = "loop"
    /\ UNCHANGED <<connVars, queueVars, callVars, sendVars, countVars, rxVars,
                   cooldown>>

\* The iterator returned NULL: the loop turns to the new full connections and
\* ends if there are none.
LoopNull == pc' = IF new_full_conns = {} THEN "flush" ELSE "loop_full"

\* conn_iter_next_tickable.  NULL is returned when the heap is empty, and also
\* when the connection was destroyed as its references were dropped.
iter_next_tickable(c) ==
    /\ pc = "loop" /\ c \in conns_tickable
    /\ conns_tickable' = conns_tickable \ {c}
    /\ IF c \notin live
       THEN /\ pc' = "undefined"
            /\ UNCHANGED <<live, cn_flags, cids, n_conns, mini_conns_count,
                           attq, cur>>
       ELSE LET fl == cn_flags[c] \ {"TICKABLE", "ATTQ"}
            IN /\ SetFlags(c, fl)
               /\ attq' = attq \ {c}
               /\ IF Unreferenced(fl)
                  THEN LoopNull /\ UNCHANGED cur
                  ELSE pc' = "tick" /\ cur' = c
    /\ UNCHANGED <<out, conns_hash, conns_out, closed_conns, ticked_conns,
                   new_full_conns, sendVars, nalloc, rxVars, can_send,
                   cooldown>>

iter_empty ==
    /\ pc = "loop" /\ conns_tickable = {}
    /\ LoopNull
    /\ UNCHANGED <<connVars, queueVars, callVars, sendVars, countVars, rxVars,
                   can_send, cooldown>>

next_new_full_conn(c) ==
    /\ pc = "loop_full" /\ c \in new_full_conns
    /\ new_full_conns' = new_full_conns \ {c}
    /\ cur' = c
    /\ pc' = "tick"
    /\ UNCHANGED <<connVars, queueVars, closed_conns, ticked_conns, sendVars,
                   countVars, rxVars, can_send, cooldown>>

\* ci_tick returns to the loop.
TickReturns == pc' = "loop" /\ cur' = NoConn

\* A mini connection that has been (or could not be) promoted, and a
\* connection that once returned TICK_CLOSE, only ever return TICK_CLOSE.
MustClose(c) ==
    {"PROMOTED", "PROMOTE_FAIL", "TICK_CLOSE"} \cap cn_flags[c] # {}

\* TICK_SEND puts the connection, which has n datagrams, on the outgoing heap.
TickSend(c, send, n) ==
    /\ send => n > 0
    /\ out' = [out EXCEPT ![c] = n]
    /\ conns_out' = IF send /\ "HAS_OUTGOING" \notin cn_flags[c]
                    THEN conns_out \cup {c} ELSE conns_out

SendFlag(send) == IF send THEN {"HAS_OUTGOING"} ELSE {}

\* The tick of cur returns TICK_SEND or TICK_QUIET.
tick(c) ==
    /\ pc = "tick" /\ c = cur
    /\ ~MustClose(c)
    /\ \E send \in BOOLEAN, n \in 0..MaxOut :
         /\ TickSend(c, send, n)
         /\ cn_flags' = [cn_flags EXCEPT ![c] = @ \cup SendFlag(send)
                                                  \cup {"TICKED"}]
    /\ ticked_conns' = ticked_conns \cup {c}
    /\ TickReturns
    /\ UNCHANGED <<live, cids, conns_hash, conns_tickable, attq, closed_conns,
                   new_full_conns, sendVars, countVars, rxVars, can_send,
                   cooldown>>

\* The tick of cur returns TICK_CLOSE, with or without TICK_SEND (or, for a
\* mini connection, TICK_RETRY; or TICK_PROMOTE when no full connection can
\* be created, though the heaps may have grown for it).
tick_close(c) ==
    /\ pc = "tick" /\ c = cur
    /\ \E send \in BOOLEAN, n \in 0..MaxOut :
         /\ {"PROMOTED", "PROMOTE_FAIL"} \cap cn_flags[c] # {} => ~send
         /\ send \/ n \in {0, out[c]}
         /\ TickSend(c, send, n)
         /\ cn_flags' = [cn_flags EXCEPT ![c] =
                (@ \cup SendFlag(send) \cup {"CLOSING", "TICK_CLOSE"})
                    \ {"HASHED"}]
    /\ closed_conns' = closed_conns \cup {c}
    /\ conns_hash' = conns_hash \ HashEntries(c)
    /\ nalloc' \in {nalloc} \cup (IF "MINI" \in cn_flags[c] THEN {GrownAlloc}
                                                            ELSE {})
    /\ TickReturns
    /\ UNCHANGED <<live, cids, conns_tickable, attq, ticked_conns,
                   new_full_conns, sendVars, n_conns, mini_conns_count, rxVars,
                   can_send, cooldown>>

\* The tick of the mini connection cur returns TICK_PROMOTE and the full
\* connection f is created.  The mini connection is closed.
tick_promote(c, f) ==
    /\ pc = "tick" /\ c = cur
    /\ "MINI" \in cn_flags[c] /\ ~MustClose(c)
    /\ f \notin live
    /\ live' = live \cup {f}
    /\ n_conns' = n_conns + 1
    /\ nalloc' = GrownAlloc
    /\ cids' = [cids EXCEPT ![f] = cids[c]]
    /\ conns_hash' = (conns_hash \cup EntriesFor(f, cids[c])) \ HashEntries(c)
    /\ new_full_conns' = new_full_conns \cup {f}
    /\ closed_conns' = closed_conns \cup {c}
    /\ \E send \in BOOLEAN, n \in 0..MaxOut :
         /\ send => n > 0
         /\ out' = [out EXCEPT ![c] = n, ![f] = 0]
         /\ conns_out' = IF send /\ "HAS_OUTGOING" \notin cn_flags[c]
                         THEN conns_out \cup {c} ELSE conns_out
         /\ cn_flags' = [cn_flags EXCEPT
                ![c] = (@ \cup SendFlag(send)
                          \cup {"HANDSHAKE_DONE", "PROMOTED", "CLOSING",
                                "TICK_CLOSE"}) \ {"HASHED"},
                ![f] = {"HANDSHAKE_DONE", "HASHED"}]
    /\ TickReturns
    /\ UNCHANGED <<conns_tickable, attq, ticked_conns, sendVars,
                   mini_conns_count, rxVars, can_send, cooldown>>

\* After the loop, packets are sent out if there are any.
flush ==
    /\ pc = "flush"
    /\ pc' = IF can_send /\ conns_out # {} THEN "send" ELSE "close"
    /\ UNCHANGED <<connVars, queueVars, callVars, sendVars, countVars, rxVars,
                   can_send, cooldown>>

\* The closing queue is emptied.
close_closed(c) ==
    /\ pc = "close" /\ c \in closed_conns
    /\ closed_conns' = closed_conns \ {c}
    /\ SetFlags(c, cn_flags[c] \ {"CLOSING"})
    /\ UNCHANGED <<out, queueVars, ticked_conns, new_full_conns, cur, sendVars,
                   nalloc, rxVars, engVars>>

close_done ==
    /\ pc = "close" /\ closed_conns = {}
    /\ pc' = "ticked"
    /\ UNCHANGED <<connVars, queueVars, callVars, sendVars, countVars, rxVars,
                   can_send, cooldown>>

\* The ticked queue is emptied.  The reference is dropped first, and the
\* connection is then asked whether it is tickable, or for the time of its
\* next tick: it becomes tickable again, or waits on the advisory tick time
\* queue, or is left on no queue (without an idle timeout).
requeue_ticked(c) ==
    /\ pc = "ticked" /\ c \in ticked_conns
    /\ ticked_conns' = ticked_conns \ {c}
    /\ LET fl == cn_flags[c] \ {"TICKED"}
       IN \/ /\ Unreferenced(fl)
             /\ SetFlags(c, fl)
             /\ pc' = "undefined"
             /\ UNCHANGED <<conns_tickable, attq>>
          \/ /\ ~Unreferenced(fl) /\ "TICKABLE" \notin fl
             /\ SetFlags(c, fl \cup {"TICKABLE"})
             /\ conns_tickable' = conns_tickable \cup {c}
             /\ UNCHANGED <<attq, pc>>
          \/ /\ ~Unreferenced(fl) /\ "ATTQ" \notin fl
             /\ SetFlags(c, fl \cup {"ATTQ"})
             /\ attq' = attq \cup {c}
             /\ UNCHANGED <<conns_tickable, pc>>
          \/ /\ ~Unreferenced(fl)
             /\ SetFlags(c, fl)
             /\ UNCHANGED <<conns_tickable, attq, pc>>
    /\ UNCHANGED <<out, conns_hash, conns_out, closed_conns, new_full_conns,
                   cur, sendVars, nalloc, rxVars, can_send, cooldown>>

ticked_done ==
    /\ pc = "ticked" /\ ticked_conns = {}
    /\ pc' = "idle"
    /\ UNCHANGED <<connVars, queueVars, callVars, sendVars, countVars, rxVars,
                   can_send, cooldown>>

-----------------------------------------------------------------------------
(***************************************************************************)
(* Sending: lsquic_engine_send_unsent_packets, send_packets_out and        *)
(* send_batch.  LSCONN_COI_ACTIVE and LSCONN_COI_INACTIVE say on which of  *)
(* the two lists of the iterator a connection is: here, membership does.   *)
(***************************************************************************)

\* If sending was disabled, check_tickable_conns_again asks every connection
\* in the hash whether it is tickable.
send_unsent_packets ==
    /\ Idle
    /\ can_send' = TRUE
    /\ \E T \in SUBSET {c \in Conn : "HASHED" \in cn_flags[c]
                                     /\ "TICKABLE" \notin cn_flags[c]} :
         /\ can_send => T = {}
         /\ conns_tickable' = conns_tickable \cup T
         /\ cn_flags' = [c \in Conn |-> IF c \in T
                            THEN cn_flags[c] \cup {"TICKABLE"} ELSE cn_flags[c]]
    /\ pc' = "send"
    /\ UNCHANGED <<live, cids, out, conns_hash, conns_out, attq, callVars,
                   sendVars, countVars, rxVars, cooldown>>

\* The batch is not sent when it is full.
CoiNext_bug(c) ==
    /\ pc = "send" /\ ~stop
    /\ c \in conns_out \cup coi_active
    /\ conns_out' = conns_out \ {c}

\* coi_next: the heap first, then the active list in turn.
CoiNext(c) ==
    /\ pc = "send" /\ ~stop
    /\ Len(batch) < BatchSize
    /\ \/ c \in conns_out
       \/ conns_out = {} /\ c \in coi_active
    /\ conns_out' = conns_out \ {c}

\* The connection is left on the ticked queue.
CloseImmediately_bug(c) ==
    /\ cn_flags' = [cn_flags EXCEPT ![c] =
           (@ \cup {"IMMED_CLOSE", "CLOSING"}) \ {"HASHED"}]
    /\ closed_conns' = closed_conns \cup {c}
    /\ conns_hash' = conns_hash \ HashEntries(c)
    /\ UNCHANGED ticked_conns

\* close_conn_immediately
CloseImmediately(c) ==
    LET closing == "CLOSING" \in cn_flags[c] IN
    /\ cn_flags' = [cn_flags EXCEPT ![c] =
           (@ \cup {"IMMED_CLOSE", "CLOSING"})
               \ (IF closing THEN {"TICKED"} ELSE {"TICKED", "HASHED"})]
    /\ closed_conns' = closed_conns \cup {c}
    /\ conns_hash' = IF closing THEN conns_hash ELSE conns_hash \ HashEntries(c)
    /\ ticked_conns' = ticked_conns \ {c}

\* The connection has no packet to send (or, if it is a mini connection, may
\* not send it yet: the client's address has not been validated).
coi_deactivate(c) ==
    /\ CoiNext(c)
    /\ out[c] = 0 \/ "MINI" \in cn_flags[c]
    /\ coi_active' = coi_active \ {c}
    /\ coi_inactive' = coi_inactive \cup {c}
    /\ UNCHANGED <<connVars, conns_hash, conns_tickable, attq, callVars, batch,
                   skip, stop, countVars, rxVars, engVars>>

\* A datagram of the connection is encrypted and placed into the batch.
batch_packet(c) ==
    /\ CoiNext(c)
    /\ out[c] > 0
    /\ coi_active' = coi_active \cup {c}
    /\ out' = [out EXCEPT ![c] = @ - 1]
    /\ batch' = Append(batch, c)
    /\ UNCHANGED <<live, cn_flags, cids, conns_hash, conns_tickable, attq,
                   callVars, coi_inactive, skip, stop, countVars, rxVars,
                   engVars>>

\* ENCPA_NOMEM: the packet is given back and batching ends.
batch_nomem(c) ==
    /\ CoiNext(c)
    /\ out[c] > 0
    /\ coi_active' = coi_active \cup {c}
    /\ stop' = TRUE
    /\ UNCHANGED <<connVars, conns_hash, conns_tickable, attq, callVars,
                   coi_inactive, batch, skip, countVars, rxVars, engVars>>

\* ENCPA_BADCRYPT: the packet is given back and the connection closed.
batch_badcrypt(c) ==
    /\ CoiNext(c) /\ "send_error" \in Events
    /\ out[c] > 0
    /\ CloseImmediately(c)
    /\ coi_active' = coi_active \ {c}
    /\ coi_inactive' = coi_inactive \cup {c}
    /\ UNCHANGED <<live, cids, out, conns_tickable, attq, new_full_conns, cur,
                   batch, skip, stop, countVars, rxVars, engVars>>

\* coi_next returns NULL.
coi_end ==
    /\ pc = "send" /\ ~stop
    /\ Len(batch) < BatchSize
    /\ conns_out = {} /\ coi_active = {}
    /\ stop' = TRUE
    /\ UNCHANGED <<connVars, queueVars, callVars, coi_active, coi_inactive,
                   batch, skip, countVars, rxVars, engVars>>

\* send_batch is called: the batch is full, or it is what was left over.
BatchReady ==
    /\ pc = "send"
    /\ Len(batch) = BatchSize \/ (stop /\ batch # <<>>)

\* coi_reactivate is not called.
NotSent_bug(k) == {}

\* The connections of the datagrams after the first k, whose packets are
\* given back by ci_packet_not_sent; coi_reactivate puts them back onto the
\* active list.
NotSent(k) == {batch[i] : i \in (k + 1)..Len(batch)}

ReturnPackets(k) ==
    /\ out' = [c \in Conn |->
          out[c] + Cardinality({i \in (k + 1)..Len(batch) : batch[i] = c})]
    /\ coi_active' = coi_active \cup NotSent(k)
    /\ coi_inactive' = coi_inactive \ NotSent(k)
    /\ batch' = <<>> /\ skip' = 0

\* packets_out sends the first n datagrams after the skipped ones and no
\* more.  If that is all of them, the loop goes on unless the batch was short
\* or the deadline has passed.
send_batch_all ==
    /\ BatchReady
    /\ ReturnPackets(Len(batch))
    /\ stop' \in {stop, TRUE}
    /\ UNCHANGED <<live, cn_flags, cids, queueVars, callVars, countVars,
                   rxVars, engVars>>

\* EAGAIN: sending is disabled and the rest of the packets are given back.
send_batch_eagain ==
    /\ BatchReady
    /\ \E k \in skip..(Len(batch) - 1) : ReturnPackets(k)
    /\ can_send' = FALSE
    /\ stop' = TRUE
    /\ UNCHANGED <<live, cn_flags, cids, queueVars, callVars, countVars,
                   rxVars, cooldown, pc>>

\* The connection of the last datagram that was sent.
ErrorIndex_bug(k) == IF k > skip THEN k - skip ELSE 1

\* Another error: likewise, and close_conn_on_send_error closes the connection
\* it takes to be the one whose datagram failed.  The index it is given does
\* not count the datagrams that were skipped.
ErrorIndex(k) == (k - skip) + 1

send_batch_error ==
    /\ BatchReady /\ "send_error" \in Events
    /\ \E k \in skip..(Len(batch) - 1) :
         /\ ReturnPackets(k)
         /\ CloseImmediately(batch[ErrorIndex(k)])
    /\ can_send' = FALSE
    /\ stop' = TRUE
    /\ UNCHANGED <<live, cids, conns_tickable, conns_out, attq, new_full_conns,
                   cur, countVars, rxVars, cooldown, pc>>

\* EMSGSIZE for datagram k + 1 of a connection that handles it
\* (ci_packet_too_large): the packet is discarded and the rest is tried again.
send_batch_too_large ==
    /\ BatchReady /\ "emsgsize" \in Events
    /\ \E k \in skip..(Len(batch) - 1) :
         /\ "MINI" \notin cn_flags[batch[k + 1]]
         /\ IF k + 1 < Len(batch)
            THEN /\ skip' = k + 1
                 /\ UNCHANGED <<out, coi_active, coi_inactive, batch, stop>>
            ELSE ReturnPackets(Len(batch)) /\ stop' \in {stop, TRUE}
    /\ UNCHANGED <<live, cn_flags, cids, queueVars, callVars, countVars,
                   rxVars, engVars>>

\* EMSGSIZE for a connection that cannot handle it (a mini connection, or a
\* datagram of several packets): it is closed.
send_batch_emsgsize ==
    /\ BatchReady /\ "emsgsize" \in Events
    /\ \E k \in skip..(Len(batch) - 1) :
         /\ ReturnPackets(k)
         /\ CloseImmediately(batch[k + 1])
    /\ stop' = TRUE
    /\ UNCHANGED <<live, cids, conns_tickable, conns_out, attq, new_full_conns,
                   cur, countVars, rxVars, engVars>>

\* The connection closed because of an error goes on sending, as does ...
SendsAgain_bug(c) == cn_flags[c] \cap RefFlag # {"HAS_OUTGOING"}

\* ... the closed connection.
SendsForever_bug(c) == "IMMED_CLOSE" \notin cn_flags[c]

\* A connection that is referenced from nowhere else has had its one shot at
\* sending its packets.
SendsAgain(c) ==
    /\ cn_flags[c] \cap RefFlag # {"HAS_OUTGOING"}
    /\ "IMMED_CLOSE" \notin cn_flags[c]

\* coi_reheap, for the connections on the active list.
reheap_active(c) ==
    /\ pc = "send" /\ stop /\ batch = <<>>
    /\ c \in coi_active
    /\ coi_active' = coi_active \ {c}
    /\ IF SendsAgain(c)
       THEN /\ conns_out' = conns_out \cup {c}
            /\ UNCHANGED <<live, cn_flags, cids, n_conns, mini_conns_count>>
       ELSE /\ SetFlags(c, cn_flags[c] \ {"HAS_OUTGOING"})
            /\ UNCHANGED conns_out
    /\ UNCHANGED <<out, conns_hash, conns_tickable, attq, callVars,
                   coi_inactive, batch, skip, stop, nalloc, rxVars, engVars>>

\* coi_reheap, for the connections that have no more packets.
reheap_inactive(c) ==
    /\ pc = "send" /\ stop /\ batch = <<>> /\ coi_active = {}
    /\ c \in coi_inactive
    /\ coi_inactive' = coi_inactive \ {c}
    /\ SetFlags(c, cn_flags[c] \ {"HAS_OUTGOING"})
    /\ UNCHANGED <<out, queueVars, callVars, coi_active, batch, skip, stop,
                   nalloc, rxVars, engVars>>

send_done ==
    /\ pc = "send" /\ stop /\ batch = <<>>
    /\ coi_active = {} /\ coi_inactive = {}
    /\ stop' = FALSE
    /\ pc' = "close"
    /\ UNCHANGED <<connVars, queueVars, callVars, coi_active, coi_inactive,
                   batch, skip, countVars, rxVars, can_send, cooldown>>

-----------------------------------------------------------------------------
(***************************************************************************)
(* lsquic_engine_destroy empties the queues one after the other.           *)
(***************************************************************************)
engine_destroy ==
    /\ Idle /\ "destroy" \in Events
    /\ pc' = "dtor_out"
    /\ UNCHANGED <<connVars, queueVars, callVars, sendVars, countVars, rxVars,
                   can_send, cooldown>>

dtor_out(c) ==
    /\ pc = "dtor_out" /\ c \in conns_out
    /\ conns_out' = conns_out \ {c}
    /\ SetFlags(c, cn_flags[c] \ {"HAS_OUTGOING"})
    /\ UNCHANGED <<out, conns_hash, conns_tickable, attq, callVars, sendVars,
                   nalloc, rxVars, engVars>>

dtor_tickable(c) ==
    /\ pc = "dtor_tickable" /\ c \in conns_tickable
    /\ conns_tickable' = conns_tickable \ {c}
    /\ SetFlags(c, cn_flags[c] \ {"TICKABLE"})
    /\ UNCHANGED <<out, conns_hash, conns_out, attq, callVars, sendVars,
                   nalloc, rxVars, engVars>>

\* force_close_conn, for each connection in the hash.
force_close_conn(c) ==
    /\ pc = "dtor_hash" /\ HashEntries(c) # {}
    /\ conns_hash' = conns_hash \ HashEntries(c)
    /\ attq' = attq \ {c}
    /\ SetFlags(c, cn_flags[c] \ {"ATTQ", "HASHED"})
    /\ UNCHANGED <<out, conns_tickable, conns_out, callVars, sendVars, nalloc,
                   rxVars, engVars>>

dtor_attq(c) ==
    /\ pc = "dtor_attq" /\ c \in attq
    /\ attq' = attq \ {c}
    /\ SetFlags(c, cn_flags[c] \ {"ATTQ"})
    /\ UNCHANGED <<out, conns_hash, conns_tickable, conns_out, callVars,
                   sendVars, nalloc, rxVars, engVars>>

dtor_next ==
    /\ \/ pc = "dtor_out"      /\ conns_out = {}      /\ pc' = "dtor_tickable"
       \/ pc = "dtor_tickable" /\ conns_tickable = {} /\ pc' = "dtor_hash"
       \/ pc = "dtor_hash"     /\ conns_hash = {}     /\ pc' = "dtor_attq"
       \/ pc = "dtor_attq"     /\ attq = {}           /\ pc' = "destroyed"
    /\ UNCHANGED <<connVars, queueVars, callVars, sendVars, countVars, rxVars,
                   can_send, cooldown>>

-----------------------------------------------------------------------------
Receive ==
    \/ \E d \in CID, c \in Conn : create_mini_conn(d, c)
    \/ \E d \in CID, c \in Conn : packet_in(d, c)
    \/ \E d \in CID, c, f \in Conn : packet_in_promote(d, c, f)
    \/ \E d \in CID, c \in Conn : packet_in_promote_fail(d, c)
    \/ packet_in_end

UserCall ==
    \/ \E c \in Conn, d \in CID : connect(c, d)
    \/ create_fail
    \/ \E c \in Conn : add_conn_to_tickable(c)
    \/ \E c \in Conn : add_conn_to_attq(c)
    \/ \E c \in Conn, d \in CID : add_cid(c, d)
    \/ \E c \in Conn, d, e \in CID : retire_cid(c, d, e)
    \/ engine_cooldown
    \/ \E c \in Conn : drop_mini_conn(c)
    \/ cooldown_done

Process ==
    \/ process_conns
    \/ \E c \in Conn : attq_pop(c)
    \/ attq_done
    \/ \E c \in Conn : iter_next_tickable(c)
    \/ iter_empty
    \/ \E c \in Conn : next_new_full_conn(c)
    \/ \E c \in Conn : tick(c)
    \/ \E c \in Conn : tick_close(c)
    \/ \E c, f \in Conn : tick_promote(c, f)
    \/ flush
    \/ \E c \in Conn : close_closed(c)
    \/ close_done
    \/ \E c \in Conn : requeue_ticked(c)
    \/ ticked_done

Send ==
    \/ send_unsent_packets
    \/ \E c \in Conn : coi_deactivate(c)
    \/ \E c \in Conn : batch_packet(c)
    \/ \E c \in Conn : batch_nomem(c)
    \/ \E c \in Conn : batch_badcrypt(c)
    \/ coi_end
    \/ send_batch_all
    \/ send_batch_eagain
    \/ send_batch_error
    \/ send_batch_too_large
    \/ send_batch_emsgsize
    \/ \E c \in Conn : reheap_active(c)
    \/ \E c \in Conn : reheap_inactive(c)
    \/ send_done

Destroy ==
    \/ engine_destroy
    \/ \E c \in Conn : dtor_out(c)
    \/ \E c \in Conn : dtor_tickable(c)
    \/ \E c \in Conn : force_close_conn(c)
    \/ \E c \in Conn : dtor_attq(c)
    \/ dtor_next

Next == Receive \/ UserCall \/ Process \/ Send \/ Destroy

Spec == Init /\ [][Next]_vars

\* Once the engine has been entered it runs until it returns (no call blocks
\* and the user's callbacks return), and the program calls process_conns again
\* and again.  As time passes, the advisory tick time of every queued connection
\* comes and the failsafe finds that a second has elapsed since sending was
\* disabled.  There is memory for encrypting a packet again and again.
Fairness ==
    /\ WF_vars(pc # "idle" /\ (UserCall \/ Process \/ Send \/ Destroy))
    /\ WF_vars(packet_in_end)
    /\ SF_vars(process_conns)
    /\ \A c \in Conn : SF_vars(attq_pop(c))
    /\ SF_vars(attq_done /\ can_send')
    /\ SF_vars(\E c \in Conn : batch_packet(c))

FairSpec == Spec /\ Fairness

-----------------------------------------------------------------------------
(***************************************************************************)
(* Properties                                                              *)
(***************************************************************************)

\* The types of the variables: every queue holds connections, the batch is
\* never longer than batch_size, and the counters are natural numbers.
TypeOK ==
    /\ live \subseteq Conn
    /\ cn_flags \in [Conn -> SUBSET (RefFlag \cup ModeFlag)]
    /\ cids \in [Conn -> SUBSET CID]
    /\ out \in [Conn -> Nat]
    /\ conns_hash \subseteq CID \X Conn
    /\ conns_tickable \subseteq Conn
    /\ conns_out \subseteq Conn
    /\ attq \subseteq Conn
    /\ closed_conns \subseteq Conn
    /\ ticked_conns \subseteq Conn
    /\ new_full_conns \subseteq Conn
    /\ cur \in Conn \cup {NoConn}
    /\ coi_active \subseteq Conn /\ coi_inactive \subseteq Conn
    /\ batch \in Seq(Conn) /\ Len(batch) <= BatchSize
    /\ skip \in Nat /\ skip <= Len(batch)
    /\ stop \in BOOLEAN
    /\ n_conns \in Int /\ mini_conns_count \in Int /\ nalloc \in Nat
    /\ curr_conn \in Conn \cup {NoConn}
    /\ dgram \in SUBSET CID
    /\ can_send \in BOOLEAN /\ cooldown \in BOOLEAN
    /\ pc \in {"idle", "attq", "loop", "loop_full", "tick", "flush", "send",
              "close", "ticked", "cooldown", "dtor_out", "dtor_tickable",
              "dtor_hash", "dtor_attq", "destroyed", "undefined"}

\* Each reference flag tells the truth: it is set exactly when the structure
\* it stands for holds the connection (engine_incref_conn and
\* engine_decref_conn are called by hand beside every insertion and removal).
RefsMatch ==
    \A c \in Conn :
        /\ "HASHED" \in cn_flags[c] <=> HashEntries(c) # {}
        /\ "TICKABLE" \in cn_flags[c] <=> c \in conns_tickable
        /\ "ATTQ" \in cn_flags[c] <=> c \in attq
        /\ "CLOSING" \in cn_flags[c] <=> c \in closed_conns
        /\ "TICKED" \in cn_flags[c] <=> c \in ticked_conns
        /\ "HAS_OUTGOING" \in cn_flags[c]
                <=> c \in conns_out \cup coi_active \cup coi_inactive

\* A connection exists exactly as long as it is referenced: none is leaked and
\* none is destroyed early.
LiveIffReferenced ==
    \A c \in Conn : IF c \in live THEN ~Unreferenced(cn_flags[c])
                                  ELSE cn_flags[c] = {}

\* Every pointer the engine holds leads to a connection that exists, also the
\* ones no reference flag stands for: new full connections, the connection
\* inside ci_tick, curr_conn and the connections of the batch.
NoDangling ==
    /\ {e[2] : e \in conns_hash} \subseteq live
    /\ conns_tickable \cup conns_out \cup attq \subseteq live
    /\ closed_conns \cup ticked_conns \cup new_full_conns \subseteq live
    /\ coi_active \cup coi_inactive \subseteq live
    /\ \A i \in 1..Len(batch) : batch[i] \in live
    /\ cur # NoConn => cur \in live
    /\ dgram # {} /\ curr_conn # NoConn => curr_conn \in live

\* The engine never follows a pointer to a destroyed connection.  In the loop
\* that empties the ticked queue, the reference is dropped before the
\* connection is asked whether it is tickable.
NoUseAfterDestroy == pc # "undefined"

\* That loop is safe until lsquic_engine_cooldown is called: a ticked
\* connection is still in the hash unless cooldown dropped it as a mini
\* connection.
TickedIsHashed ==
    \A c \in Conn : "TICKED" \in cn_flags[c] =>
        "HASHED" \in cn_flags[c] \/ (cooldown /\ "MINI" \in cn_flags[c])

\* In one call of process_connections a connection is ticked at most once: the
\* closing and the ticked queue, which are lists linked through the connection,
\* never take it twice (the assertion in engine_incref_conn).
TickedOnce == pc = "tick" => cur \notin ticked_conns \cup closed_conns

\* n_conns and mini_conns_count count what they say: the first decides when
\* the heaps grow, the second when new connections are refused.
CountsExact ==
    /\ n_conns = Cardinality(live)
    /\ mini_conns_count = Cardinality({c \in live : "MINI" \in cn_flags[c]})

\* lsquic_mh_insert never overflows: both heaps, which only grow when a
\* connection is created, have room for every connection, also those that the
\* output iterator has taken off the outgoing heap and will put back.
HeapsHaveRoom ==
    /\ Cardinality(conns_tickable \cup live) <= nalloc
    /\ Cardinality(conns_out \cup coi_active \cup coi_inactive) <= nalloc

\* A CID leads to one connection: the one that owns it.  This holds through
\* promotion, when a mini and a full connection with the same CIDs exist.
RoutingIsUnique ==
    /\ \A e1, e2 \in conns_hash : e1[1] = e2[1] => e1 = e2
    /\ \A e \in conns_hash : e[1] \in cids[e[2]]

\* A full connection leaves the outgoing queue because it has nothing left to
\* send, and not because send_batch gave its packets back after the iterator
\* had found it without any.
OutgoingNotForgotten ==
    pc = "send" /\ batch = <<>> =>
        \A c \in coi_inactive :
            {"MINI", "IMMED_CLOSE"} \cap cn_flags[c] = {} => out[c] = 0

\* A connection closed because of a send error is never ticked again, though
\* it may be left on the tickable heap and on the advisory tick time queue.
ImmedCloseIsFinal ==
    [][\A c \in Conn : "IMMED_CLOSE" \in cn_flags[c] => cur' # c]_vars

\* The connection that send_batch closes is one whose packet was not sent:
\* the packet has just been given back to it.
ErrorClosesFailed ==
    [][\A c \in Conn :
         (pc = "send" /\ batch # <<>> /\ batch' = <<>>
              /\ "IMMED_CLOSE" \in cn_flags'[c] \ cn_flags[c])
             => out'[c] > out[c]]_vars

\* Destroying the engine destroys every connection: the assertions on n_conns
\* and mini_conns_count at the end of lsquic_engine_destroy.
DestroyIsComplete ==
    pc = "destroyed" => live = {} /\ n_conns = 0 /\ mini_conns_count = 0

\* A connection that has been closed is eventually destroyed, whatever happens
\* to the packets it still wants to send, unless the program keeps making it
\* tickable: each time it is ticked again it may produce another packet.
ClosedIsDestroyed ==
    \A c \in Conn :
        {"TICK_CLOSE", "IMMED_CLOSE"} \cap cn_flags[c] # {}
            ~> c \notin live \/ "TICKABLE" \in cn_flags[c]

\* Connections live exactly as long as they are needed: the flags, the
\* structures, the pointers and the uses agree, whatever the sequence of
\* operations (engine_incref_conn, engine_decref_conn, destroy_conn).
LifetimesSound ==
    RefsMatch /\ LiveIffReferenced /\ NoDangling /\ NoUseAfterDestroy

\* What process_connections relies on in its two loops: what it ticks is not
\* queued already, and what it takes off the ticked queue is still hashed.
TickingSound == TickedOnce /\ TickedIsHashed

\* The directory of connections is exact: a CID leads to its one owner, and the
\* counters that limit new connections count what is there.
DirectorySound == RoutingIsUnique /\ CountsExact

\* The heaps never overflow, and lsquic_engine_destroy leaves nothing behind.
HeapsAndDestroySound == HeapsHaveRoom /\ DestroyIsComplete

-----------------------------------------------------------------------------
(***************************************************************************)
(* The inductive invariant                                                 *)
(***************************************************************************)

\* Control is inside lsquic_engine_process_conns, before and in its tick loop.
Ticking == pc \in {"loop", "loop_full", "tick"}

\* The output iterator exists while packets are sent.  Its lists and the
\* outgoing heap do not overlap, and it holds every connection of the batch.
IteratorInv ==
    /\ pc # "send" => coi_active = {} /\ coi_inactive = {} /\ batch = <<>>
    /\ coi_active \cap coi_inactive = {}
    /\ conns_out \cap (coi_active \cup coi_inactive) = {}
    /\ \A i \in 1..Len(batch) : batch[i] \in coi_active \cup coi_inactive

\* Where the pointers that are no references come from.
PointerInv ==
    /\ IF pc = "tick"
       THEN /\ cur \in live
            /\ "TICKED" \notin cn_flags[cur] /\ "CLOSING" \notin cn_flags[cur]
            /\ "TICKABLE" \notin cn_flags[cur]
            /\ "IMMED_CLOSE" \notin cn_flags[cur]
       ELSE cur = NoConn
    /\ new_full_conns # {} => Ticking
    /\ \A c \in new_full_conns :
         /\ c # cur
         /\ "HASHED" \in cn_flags[c]
         /\ "TICKED" \notin cn_flags[c] /\ "TICKABLE" \notin cn_flags[c]
    /\ IF dgram = {} THEN curr_conn = NoConn
                     ELSE pc = "idle" /\ curr_conn \in live \cup {NoConn}

\* The connection is on the outgoing heap or with the output iterator.
HasOut(x) == x \in conns_out \cup coi_active \cup coi_inactive

\* The flags of connection x tell the truth, it is referenced and has a CID if
\* it exists, and the hash knows it by its CIDs only.
RefsOf(x) ==
    /\ "HASHED" \in cn_flags[x] <=> HashEntries(x) # {}
    /\ "TICKABLE" \in cn_flags[x] <=> x \in conns_tickable
    /\ "ATTQ" \in cn_flags[x] <=> x \in attq
    /\ "CLOSING" \in cn_flags[x] <=> x \in closed_conns
    /\ "TICKED" \in cn_flags[x] <=> x \in ticked_conns
    /\ "HAS_OUTGOING" \in cn_flags[x] <=> HasOut(x)
    /\ x \in live => ~Unreferenced(cn_flags[x]) /\ cids[x] # {}
    /\ x \notin live => cn_flags[x] = {}
    /\ \A e \in HashEntries(x) : e[1] \in cids[x]

\* What the invariant says of the flags of connection x at this point.
ModeOf(x) ==
    /\ "PROMOTED" \in cn_flags[x] => "MINI" \in cn_flags[x]
    /\ x \in conns_out => "IMMED_CLOSE" \notin cn_flags[x]
    /\ "CLOSING" \in cn_flags[x] =>
         /\ "HASHED" \notin cn_flags[x]
         /\ "TICKED" \notin cn_flags[x]
         /\ Ticking \/ pc \in {"flush", "send", "close"}
         /\ Ticking => "TICKABLE" \notin cn_flags[x]
                       /\ "IMMED_CLOSE" \notin cn_flags[x]
    /\ "IMMED_CLOSE" \in cn_flags[x] =>
         /\ "HASHED" \notin cn_flags[x] /\ "TICKED" \notin cn_flags[x]
         /\ pc # "send" => "HAS_OUTGOING" \notin cn_flags[x]
         /\ "CLOSING" \in cn_flags[x] => pc \in {"send", "close"}
    /\ "TICKED" \in cn_flags[x] =>
         /\ "TICKABLE" \notin cn_flags[x]
         /\ Ticking \/ pc \in {"flush", "send", "close", "ticked", "undefined"}
         /\ "HASHED" \in cn_flags[x] \/ (cooldown /\ "MINI" \in cn_flags[x])
    /\ x \in live /\ "HASHED" \notin cn_flags[x] =>
         \/ "TICK_CLOSE" \in cn_flags[x]
         \/ "IMMED_CLOSE" \in cn_flags[x]
         \/ "PROMOTED" \in cn_flags[x]
         \/ cooldown /\ "MINI" \in cn_flags[x]
         \/ pc \in {"dtor_hash", "dtor_attq", "destroyed"}

\* Only a cooldown drops connections and leads to a use after destruction.
CooldownInv ==
    /\ cooldown => "cooldown" \in Events
    /\ pc \in {"cooldown", "undefined"} => cooldown

\* All of it.
EngineInv ==
    /\ TypeOK
    /\ IteratorInv
    /\ PointerInv
    /\ CooldownInv
    /\ \A x \in Conn : RefsOf(x) /\ ModeOf(x)

\* Connection x has been neither promoted nor closed: its CIDs are its own.
Open(x) ==
    /\ x \in live
    /\ {"PROMOTED", "TICK_CLOSE", "IMMED_CLOSE"} \cap cn_flags[x] = {}

\* Open connections share no CID, and those in the hash are open and can be
\* found there by each of their CIDs.
OwnersInv ==
    /\ \A x \in Conn : "HASHED" \in cn_flags[x] =>
         Open(x) /\ \A d \in cids[x] : <<d, x>> \in conns_hash
    /\ \A x, y \in Conn : Open(x) /\ Open(y) /\ x # y => cids[x] \cap cids[y] = {}

\* The counters are exact, and the heaps have room for every connection.
CountsInv == CountsExact /\ n_conns <= nalloc

\* lsquic_engine_destroy has emptied the queues it is done with.
DestroyInv ==
    /\ pc \in {"dtor_tickable", "dtor_hash", "dtor_attq", "destroyed"}
         => conns_out = {}
    /\ pc \in {"dtor_hash", "dtor_attq", "destroyed"} => conns_tickable = {}
    /\ pc \in {"dtor_attq", "destroyed"} => conns_hash = {}
    /\ pc = "destroyed" => attq = {}

\* A full connection on the inactive list has nothing to send, also while some
\* of its datagrams are in the batch; without EMSGSIZE none of these is skipped.
OutputInv ==
    /\ \A x \in coi_inactive :
         {"MINI", "IMMED_CLOSE"} \cap cn_flags[x] = {} => out[x] = 0
    /\ "emsgsize" \notin Events => skip = 0

\* What these add to EngineInv.
DirectoryInv == OwnersInv /\ CountsInv /\ DestroyInv /\ OutputInv

=============================================================================

---------------------------- MODULE MCContainers ----------------------------
(***************************************************************************)
(* Model checking of the containers, of the exchange of acknowledgements   *)
(* on top of one of them, and of what a stream writes and promises.  One   *)
(* run explores each in turn instead of their product: focus, chosen in    *)
(* the initial state, is the one that is used, and the others stay as they *)
(* were created.                                                           *)
(***************************************************************************)
EXTENDS AckExchange, Purga, PrQueue, PushPromise

CONSTANTS RMaxPackno, Limits, InitialElems,             \* RecHist
          TMaxPackno, TMaxRanges, TCountMax,            \* TRecHist
          AConn, ATimes, MItem, MVals,                  \* Attq, MinHeap
          MaxOff, DataSize, Events,                     \* DataIn
          W1, W2, PackSize, Thresh, PacketRooms, MaxPackets, HblockSize, WriteSizes,
          StreamCredits, ConnCredits, IOVECS, PreadvMin, MaxWrites      \* StreamWrite

VARIABLES elems, mask, n_alloced, n_used, head, max_ranges, r_cutoff, cutoff_set,
          largest_recv, verdict, failed,
          te, te_mask, te_ret,
          aq_heap, adv_time, heap_idx, mh_elems, mh_val,
          final, d_peer, di, strm, sm, app,
          focus

(***************************************************************************)
(* Bloom filter bits of the IDs, so that one ID is a false positive of the *)
(* other two.                                                              *)
(***************************************************************************)
FilterBits == [c \in PCid |-> PCid \ {c}]

R == INSTANCE RecHist WITH MaxPackno <- RMaxPackno, cutoff <- r_cutoff
T == INSTANCE TRecHist
A == INSTANCE Attq
M == INSTANCE MinHeap
D == INSTANCE DataIn WITH peer <- d_peer
W == INSTANCE StreamWrite

ASSUME R!RecHistAssumption /\ D!DataInAssumption /\ W!StreamWriteAssumption

rvars == <<elems, mask, n_alloced, n_used, head, max_ranges, r_cutoff, cutoff_set,
           largest_recv, verdict, failed>>
tvars == <<te, te_mask, te_ret>>
avars == <<aq_heap, adv_time, heap_idx>>
mvars == <<mh_elems, mh_val>>
dvars == <<final, d_peer, di, strm>>
wvars == <<sm, app>>
allvars == <<rvars, tvars, avars, mvars, pvars, qvars, dvars, wvars, ppvars, vars, focus>>

MCInit ==
    /\ focus \in {"rechist", "trechist", "attq", "min_heap", "purga", "pr_queue",
                  "data_in", "acks", "write", "push"}
    /\ R!Init /\ (focus # "rechist" => max_ranges = 0 /\ r_cutoff = 0)
    /\ T!TRecHistInit
    /\ A!AttqInit
    /\ M!MinHeapInit
    /\ PurgaInit
    /\ PrQueueInit
    /\ D!Init /\ (focus # "data_in" => final = 0)
    /\ Init
    /\ IF focus = "write" THEN W!SWInit ELSE sm = 0 /\ app = 0
    /\ PPInit

\* The exchange of acknowledgements, writing and promises may come to an end.
MCNext ==
    /\ UNCHANGED focus
    /\ \/ focus = "rechist" /\ R!Next
       \/ focus # "rechist" /\ UNCHANGED rvars
    /\ \/ focus = "trechist" /\ T!TRecHistNext
       \/ focus # "trechist" /\ UNCHANGED tvars
    /\ \/ focus = "attq" /\ A!AttqNext
       \/ focus # "attq" /\ UNCHANGED avars
    /\ \/ focus = "min_heap" /\ M!MinHeapNext
       \/ focus # "min_heap" /\ UNCHANGED mvars
    /\ \/ focus = "purga" /\ PurgaNext
       \/ focus # "purga" /\ UNCHANGED pvars
    /\ \/ focus = "pr_queue" /\ PrQueueNext
       \/ focus # "pr_queue" /\ UNCHANGED qvars
    /\ \/ focus = "data_in" /\ D!Next
       \/ focus # "data_in" /\ UNCHANGED dvars
    /\ \/ focus = "acks" /\ Next
       \/ UNCHANGED vars
    /\ \/ focus = "write" /\ W!SWNext
       \/ UNCHANGED wvars
    /\ \/ focus = "push" /\ PPNext
       \/ UNCHANGED ppvars

MCSpec == MCInit /\ [][MCNext]_allvars

-----------------------------------------------------------------------------
(***************************************************************************)
(* The properties of the containers that are instantiated here, each       *)
(* evaluated where its container is the one in use.  Those of AckExchange, *)
(* Purga, PrQueue and PushPromise are checked as they are stated there.    *)
(***************************************************************************)
\* RecHist: the array behaves as a set that forgets its lowest range, no order
\* of arrivals, cutoffs and copies corrupts its list, and the ACK delay is
\* counted from the largest packet that is reported.
ImplementsHistory ==
    /\ R!H!HistoryInit
    /\ [](focus = "rechist" => R!ListIsSane /\ R!DelayIsOfLargest)
    /\ [][focus = "rechist" => R!H!HistoryNext]_<<R!Held, max_ranges, r_cutoff,
                                cutoff_set, largest_recv, verdict>>
\* TRecHist: the tiny history keeps the highest ranges received, in a sane list.
TinyHistoryIsRight ==
    /\ [](focus = "trechist" => T!TinyListIsSane)
    /\ [][focus = "trechist" => T!KeepsHighest]_tvars
\* Attq and MinHeap: lsquic_attq_pop() and lsquic_mh_pop() take one of the
\* earliest and nothing is lost; the advisory tick time queue stays a heap whose
\* elements know their positions.
HeapsServeEarliest ==
    /\ A!PQ!PQInit /\ M!PQ!PQInit
    /\ [](focus = "attq" => A!TickOrderKept)
    /\ [][focus = "attq" => A!TickStep]_avars
    /\ [][focus = "min_heap" => M!HeapStep]_mvars
\* DataIn: the containers behave as one byte stream: what has arrived can be
\* read, no cached answer is stale when used, and no order of an honest peer's
\* frames aborts the connection.
ImplementsByteStream ==
    /\ D!Stream!Init
    /\ [](focus = "data_in" =>
            D!ReceivedIsReadable /\ D!CacheIsRight /\ D!NeverAborted)
    /\ [][focus = "data_in" => D!ByteStreamStep]_dvars
\* StreamWrite: the peer gets a well-formed sequence of frames with all that was
\* written, within the credit.
WritesAreFramed == focus = "write" => W!WritesAreFramed
=============================================================================

------------------------------ MODULE MinHeap ------------------------------
(***************************************************************************)
(* The min-heap of lsquic_min_heap.c, in which the engine keeps the        *)
(* connections to tick, by the time they were last ticked, and those with  *)
(* packets to send, by the time they last sent one.                        *)
(***************************************************************************)
EXTENDS HeapOps, SequencesExt

CONSTANTS
    MItem,          \* connections
    MVals           \* bound: the times by which they are ordered

VARIABLES
    mh_elems,       \* mhe_item of the elements in use
    mh_val          \* mhe_val of the element that holds an item

mvars == <<mh_elems, mh_val>>

MinHeapInit == mh_elems = << >> /\ mh_val = [x \in MItem |-> 0]

(***************************************************************************)
(* lsquic_mh_insert().  That there is room is the engine's business, and   *)
(* so is that no connection is in the heap twice.                          *)
(***************************************************************************)
MhInsert(x, v) ==
    /\ x \notin ToSet(mh_elems)
    /\ mh_val' = [mh_val EXCEPT ![x] = v]
    /\ mh_elems' = SiftUp(Append(mh_elems, x), mh_val', Len(mh_elems) + 1, FALSE)

(***************************************************************************)
(* lsquic_mh_pop()                                                         *)
(***************************************************************************)
MhPop ==
    /\ mh_elems # << >>
    /\ mh_elems' = IF Len(mh_elems) = 1 THEN << >>
                   ELSE Heapify(Front([mh_elems EXCEPT ![1] = Last(mh_elems)]),
                                mh_val, 1)
    /\ mh_val' = [mh_val EXCEPT ![mh_elems[1]] = 0]

MinHeapNext == MhPop \/ \E x \in MItem, v \in MVals : MhInsert(x, v)

MinHeapSpec == MinHeapInit /\ [][MinHeapNext]_mvars

-----------------------------------------------------------------------------
(***************************************************************************)
(* The heap implements a priority queue, and lsquic_mh_pop() takes one of  *)
(* the connections that have waited longest: no connection is starved by   *)
(* others that are ticked, or send, again and again.                       *)
(***************************************************************************)
PQ == INSTANCE PriorityQueue WITH
        PQItem <- MItem, PQTime <- MVals,
        pending <- [x \in ToSet(mh_elems) |-> mh_val[x]]
HeapStep ==
    /\ PQ!PQNext
    /\ MhPop => PQ!PQTake(mh_elems[1])
HeapServesOldest == PQ!PQInit /\ [][HeapStep]_mvars
=============================================================================

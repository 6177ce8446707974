-------------------------------- MODULE Attq --------------------------------
(***************************************************************************)
(* The advisory tick time queue, lsquic_attq.c: the times at which the     *)
(* connections have asked to be processed, in a heap of elements that know *)
(* their own position, so that a connection can also be taken out from the *)
(* middle.                                                                 *)
(***************************************************************************)
EXTENDS HeapOps, FiniteSetsExt, SequencesExt

CONSTANTS
    AConn,          \* connections
    ATimes          \* bound: the times they ask for

VARIABLES
    aq_heap,        \* the connections of the heap's elements
    adv_time,       \* ae_adv_time of a connection's element
    heap_idx        \* ae_heap_idx, 0 when cn_attq_elem is NULL

avars == <<aq_heap, adv_time, heap_idx>>

Queued == ToSet(aq_heap)
Cutoffs == ATimes \cup {Max(ATimes) + 1}

AttqInit ==
    /\ aq_heap = << >>
    /\ adv_time = [c \in AConn |-> 0]
    /\ heap_idx = [c \in AConn |-> 0]

(***************************************************************************)
(* attq_swap() corrects the position of both elements it exchanges, so     *)
(* after any number of swaps every element of h knows where it is.         *)
(***************************************************************************)
Positions(h) ==
    [c \in AConn |->
        IF \E i \in 1 .. Len(h) : h[i] = c
        THEN CHOOSE i \in 1 .. Len(h) : h[i] = c ELSE 0]

(***************************************************************************)
(* lsquic_attq_add().  The engine adds only connections that are not in    *)
(* the queue.                                                              *)
(***************************************************************************)
AddElem(c, t) ==
    /\ heap_idx[c] = 0
    /\ LET key == [adv_time EXCEPT ![c] = t] IN
         /\ adv_time' = key
         /\ aq_heap' = SiftUp(Append(aq_heap, c), key, Len(aq_heap) + 1, TRUE)
    /\ heap_idx' = Positions(aq_heap')

(***************************************************************************)
(* The heap after lsquic_attq_remove(): the last element takes the place   *)
(* of c and moves up, or else down.                                        *)
(***************************************************************************)
Without_bug(c) ==
    LET idx == heap_idx[c]
        h   == Front([aq_heap EXCEPT ![idx] = Last(aq_heap)])
    IN  IF idx <= Len(h) THEN Heapify(h, adv_time, idx) ELSE h
Without(c) ==
    LET idx == heap_idx[c]
        h   == Front([aq_heap EXCEPT ![idx] = Last(aq_heap)])
    IN  IF idx > Len(h) THEN h
        ELSE IF idx > 1 /\ adv_time[h[idx]] < adv_time[h[Parent(idx)]]
        THEN SiftUp(h, adv_time, idx, FALSE)
        ELSE IF Len(h) > 1 THEN Heapify(h, adv_time, idx) ELSE h

Detach(c) ==
    /\ aq_heap' = Without(c)
    /\ heap_idx' = Positions(aq_heap')
    /\ adv_time' = [adv_time EXCEPT ![c] = 0]

RemoveElem(c) ==                        \* lsquic_attq_remove()
    /\ heap_idx[c] # 0
    /\ Detach(c)

PopElem(cutoff) ==                      \* lsquic_attq_pop()
    /\ aq_heap # << >>
    /\ adv_time[aq_heap[1]] < cutoff
    /\ Detach(aq_heap[1])

AttqNext ==
    \/ \E c \in AConn, t \in ATimes : AddElem(c, t)
    \/ \E c \in AConn : RemoveElem(c)
    \/ \E t \in Cutoffs : PopElem(t)

AttqSpec == AttqInit /\ [][AttqNext]_avars

(***************************************************************************)
(* lsquic_attq_count_before(): the levels of the heap are counted until    *)
(* one is not full of elements before the cutoff.                          *)
(***************************************************************************)
CountBefore(cutoff) ==
    LET Level(n) == {i \in 2^n .. 2^(n + 1) - 1 :
                        i <= Len(aq_heap) /\ adv_time[aq_heap[i]] < cutoff}
        Stop == Min({n \in 0 .. Len(aq_heap) : Cardinality(Level(n)) < 2^n})
    IN  Cardinality(UNION {Level(n) : n \in 0 .. Stop})
DueBefore(cutoff) == {c \in Queued : adv_time[c] < cutoff}

-----------------------------------------------------------------------------
(***************************************************************************)
(* Each element knows its position, and no element is due before its       *)
(* parent: what attq_verify() asserts, after any removals from the middle. *)
(* Nothing that is due is missed: the count of due connections is zero     *)
(* only if there is none.                                                  *)
(***************************************************************************)
TickOrderKept ==
    /\ IsHeap(aq_heap, adv_time)
    /\ \A c \in AConn : heap_idx[c] # 0 => aq_heap[heap_idx[c]] = c
    /\ \A i \in 1 .. Len(aq_heap) : heap_idx[aq_heap[i]] = i
    /\ \A t \in Cutoffs : CountBefore(t) = 0 => DueBefore(t) = {}

(***************************************************************************)
(* The heap is a priority queue: nothing is lost or duplicated, and what   *)
(* lsquic_attq_pop() takes is one of the earliest.                         *)
(***************************************************************************)
PQ == INSTANCE PriorityQueue WITH
        PQItem <- AConn, PQTime <- ATimes,
        pending <- [c \in Queued |-> adv_time[c]]
TickStep ==
    /\ PQ!PQNext
    /\ \A t \in Cutoffs : PopElem(t) => PQ!PQTake(aq_heap[1])
TickQueueIsPriority == PQ!PQInit /\ [][TickStep]_avars

(***************************************************************************)
(* "Return number of connections whose advisory tick time is before        *)
(* current time plus `from_now' microseconds": what the comment on         *)
(* lsquic_engine_count_attq() promises of the count.                       *)
(***************************************************************************)
CountIsExact == \A t \in Cutoffs : CountBefore(t) = Cardinality(DueBefore(t))
=============================================================================

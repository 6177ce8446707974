------------------------------ MODULE HeapOps ------------------------------
(***************************************************************************)
(* Binary heaps in arrays, as lsquic_attq.c and lsquic_min_heap.c keep     *)
(* them.  The array is a sequence of items, so that the C index i is       *)
(* position i + 1; key[x] is the time by which item x is ordered.          *)
(***************************************************************************)
EXTENDS Integers, Sequences

Parent(i) == i \div 2
LChild(i) == 2 * i
RChild(i) == 2 * i + 1

Swap(h, a, b) == [h EXCEPT ![a] = h[b], ![b] = h[a]]

(***************************************************************************)
(* The loop that moves the item at position i towards the root for as long *)
(* as its parent's key is above its own, or not below it if ties is TRUE.  *)
(***************************************************************************)
SiftUp(h, key, i, ties) ==
    LET Moves(s) == /\ s.at > 1
                    /\ LET up == key[s.heap[Parent(s.at)]]  own == key[s.heap[s.at]]
                       IN  up > own \/ (ties /\ up = own)
        s[k \in 0 .. Len(h)] ==
            IF k = 0 THEN [heap |-> h, at |-> i]
            ELSE LET p == s[k - 1] IN
                 IF Moves(p)
                 THEN [heap |-> Swap(p.heap, p.at, Parent(p.at)), at |-> Parent(p.at)]
                 ELSE p
    IN  s[Len(h)].heap

(***************************************************************************)
(* Heapify: the item at position i trades places with its smallest child   *)
(* until neither child is smaller.                                         *)
(***************************************************************************)
SmallestOf(h, key, i) ==
    LET l == IF LChild(i) <= Len(h) /\ key[h[LChild(i)]] < key[h[i]]
             THEN LChild(i) ELSE i
    IN  IF RChild(i) <= Len(h) /\ key[h[RChild(i)]] < key[h[l]]
        THEN RChild(i) ELSE l
Heapify(h, key, i) ==
    LET s[k \in 0 .. Len(h)] ==
            IF k = 0 THEN [heap |-> h, at |-> i]
            ELSE LET p == s[k - 1]  least == SmallestOf(p.heap, key, p.at) IN
                 [heap |-> Swap(p.heap, least, p.at), at |-> least]
    IN  s[Len(h)].heap

(***************************************************************************)
(* attq_verify(), a check that only some debug builds make.                *)
(***************************************************************************)
IsHeap(h, key) == \A i \in 2 .. Len(h) : key[h[Parent(i)]] <= key[h[i]]
=============================================================================

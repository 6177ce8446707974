------------------------------ MODULE RecHist ------------------------------
(***************************************************************************)
(* The history of received packets, lsquic_rechist.c: ranges of packet     *)
(* numbers in an array that is also a linked list from the highest range   *)
(* to the lowest, with a bit mask of the slots in use.  Slots that are not *)
(* in use are shown cleared; in memory they keep stale values.             *)
(***************************************************************************)
EXTENDS Integers, FiniteSets, FiniteSetsExt

CONSTANTS
    MaxPackno,      \* bound: packet numbers are 0..MaxPackno
    Limits,         \* values of max_ranges in the calls of rechist_init
    InitialElems    \* size of the first allocation (4 in the code)

RecHistAssumption ==
    /\ MaxPackno \in Nat
    /\ Limits \subseteq Nat
    /\ InitialElems \in Nat \ {0}

VARIABLES
    elems,          \* rh_elems
    mask,           \* rh_masks: the slots in use
    n_alloced, n_used, head,
    max_ranges,     \* rh_max_ranges; zero when there is no limit
    cutoff, cutoff_set,
    largest_recv,   \* rh_largest_acked_received, as the packet that arrived
    verdict,        \* what the last lsquic_rechist_received() returned
    failed          \* history: memory was not available once

list == <<elems, mask, n_alloced, n_used, head>>
vars == <<list, max_ranges, cutoff, cutoff_set, largest_recv, verdict, failed>>

Packno == 0 .. MaxPackno
NIL == -1                               \* UINT_MAX
Slots == 0 .. 2 * MaxPackno + InitialElems      \* more than are ever needed
Cleared == [low |-> 0, count |-> 0, next |-> NIL]
Elem(p, next) == [low |-> p, count |-> 1, next |-> next]

High(i) == elems[i].low + elems[i].count - 1
AtMax == max_ranges # 0 /\ n_used >= max_ranges

(***************************************************************************)
(* The list, as the function from positions 1..n_used to slots.            *)
(***************************************************************************)
Chain ==
    LET at[k \in 0 .. n_used] ==
            IF k = 0 THEN NIL
            ELSE IF k = 1 THEN head
            ELSE IF at[k - 1] = NIL THEN NIL ELSE elems[at[k - 1]].next
    IN  at

Init ==
    /\ elems = [i \in Slots |-> Cleared]
    /\ mask = {}
    /\ n_alloced = 0 /\ n_used = 0 /\ head = 0
    /\ max_ranges \in {IF n = 1 THEN 2 ELSE n : n \in Limits}
    /\ cutoff \in {0, 1}              \* 0 in IETF QUIC, 1 in gQUIC
    /\ cutoff_set = FALSE
    /\ largest_recv = NIL
    /\ verdict = "none" /\ failed = FALSE

-----------------------------------------------------------------------------
(***************************************************************************)
(* Allocation of an element: Grown is the size of the array after growing.*)
(***************************************************************************)
GrownFrom(n) ==
    LET twice == IF n = 0 THEN InitialElems ELSE 2 * n
    IN  IF max_ranges # 0 /\ twice > max_ranges THEN max_ranges ELSE twice
Grown == GrownFrom(n_alloced)

(***************************************************************************)
(* rechist_reuse_last_elem(): the array is full, so the scans need not     *)
(* look at the mask.                                                       *)
(***************************************************************************)
LastElem == Min({i \in 0 .. n_alloced - 1 : elems[i].next = NIL})
Penultimate == Min({i \in 0 .. n_alloced - 1 : elems[i].next = LastElem})
Reuses == n_used = n_alloced /\ AtMax
SizeAfterAlloc == IF n_used = n_alloced THEN Grown ELSE n_alloced
AllocatedSlot ==
    IF Reuses THEN LastElem ELSE Min((0 .. Grown) \ mask)

(***************************************************************************)
(* The array once the element has been taken, before it is filled in.      *)
(***************************************************************************)
AllocElem ==
    IF Reuses
    THEN /\ UNCHANGED <<mask, n_used, n_alloced>>
    ELSE /\ mask' = mask \cup {AllocatedSlot}
         /\ n_used' = n_used + 1
         /\ n_alloced' = SizeAfterAlloc
ElemsAfterAlloc ==
    IF Reuses THEN [elems EXCEPT ![Penultimate].next = NIL] ELSE elems

MaskWithout(slots) == mask \ slots      \* rechist_free_elem()

AllocFails ==                           \* realloc() fails in rechist_grow()
    /\ n_used = n_alloced /\ ~AtMax
    /\ verdict' = "err" /\ failed' = TRUE
    /\ UNCHANGED <<list, max_ranges, cutoff, cutoff_set>>

-----------------------------------------------------------------------------
(***************************************************************************)
(* lsquic_rechist_received().  The walk stops at the first range whose low *)
(* end is not above p + 1.                                                 *)
(***************************************************************************)
Return(v) == verdict' = v /\ UNCHANGED <<max_ranges, cutoff, cutoff_set, failed>>
NotesLargest(p) ==
    largest_recv' = IF p > High(head) THEN p ELSE largest_recv
StopsAt(p) ==
    LET hits == {k \in 1 .. n_used : p >= elems[Chain[k]].low - 1}
    IN  IF hits = {} THEN 0 ELSE Min(hits)

BelowCutoff(p) ==
    /\ n_used > 0 /\ p < cutoff
    /\ Return("dup") /\ UNCHANGED <<list, largest_recv>>

FirstElem(p) ==
    /\ n_used = 0
    /\ IF p < cutoff
       THEN Return("err") /\ UNCHANGED <<list, largest_recv>>
       ELSE \/ AllocFails /\ UNCHANGED largest_recv
            \/ /\ AllocElem
               /\ elems' = [ElemsAfterAlloc EXCEPT ![AllocatedSlot] = Elem(p, NIL)]
               /\ head' = AllocatedSlot
               /\ largest_recv' = p
               /\ Return("ok")

(***************************************************************************)
(* The new range [p, p] goes in front of the range in slot el; prev is the *)
(* slot before it, used only when el is not the head.                      *)
(***************************************************************************)
ReplaceLastEl_bug(p, el) == UNCHANGED list /\ Return("ok")
ReplaceLastEl(p, el) ==
    /\ elems' = [elems EXCEPT ![el].low = p, ![el].count = 1]
    /\ UNCHANGED <<mask, n_alloced, n_used, head>>
    /\ Return("ok")

InsertBefore(p) ==
    /\ n_used > 0 /\ p >= cutoff /\ StopsAt(p) > 0
    /\ NotesLargest(p)
    /\ LET k == StopsAt(p)  el == Chain[k]  prev == Chain[k - 1] IN
         /\ p > High(el) + 1
         /\ IF elems[el].next = NIL /\ AtMax THEN ReplaceLastEl(p, el)
            ELSE \/ AllocFails
                 \/ /\ AllocElem
                    /\ LET filled == [ElemsAfterAlloc EXCEPT
                                        ![AllocatedSlot] = Elem(p, el)]
                       IN  elems' = IF el = head THEN filled
                                    ELSE [filled EXCEPT ![prev].next = AllocatedSlot]
                    /\ head' = IF el = head THEN AllocatedSlot ELSE head
                    /\ Return("ok")

InsertTail(p) ==
    /\ n_used > 0 /\ p >= cutoff /\ StopsAt(p) = 0
    /\ NotesLargest(p)
    /\ LET el == Chain[n_used] IN
         IF AtMax THEN ReplaceLastEl(p, el)
         ELSE \/ AllocFails
              \/ /\ AllocElem
                 /\ elems' = [ElemsAfterAlloc EXCEPT
                                ![AllocatedSlot] = Elem(p, NIL),
                                ![el].next = AllocatedSlot]
                 /\ UNCHANGED head
                 /\ Return("ok")

(***************************************************************************)
(* p is just below the range: it grows, and swallows the next one if they  *)
(* have become adjacent.                                                   *)
(***************************************************************************)
ExtendDown(p) ==
    /\ n_used > 0 /\ p >= cutoff /\ StopsAt(p) > 0
    /\ NotesLargest(p)
    /\ LET el == Chain[StopsAt(p)]  nx == elems[el].next IN
         /\ p = elems[el].low - 1
         /\ IF nx # NIL /\ p = High(nx) + 1
            THEN /\ elems' = [elems EXCEPT
                               ![el] = [low   |-> elems[nx].low,
                                        count |-> @.count + 1 + elems[nx].count,
                                        next  |-> elems[nx].next],
                               ![nx] = Cleared]
                 /\ mask' = MaskWithout({nx})
                 /\ n_used' = n_used - 1
            ELSE /\ elems' = [elems EXCEPT ![el].low = p, ![el].count = @ + 1]
                 /\ UNCHANGED <<mask, n_used>>
    /\ UNCHANGED <<n_alloced, head>>
    /\ Return("ok")

ExtendUp(p) ==
    /\ n_used > 0 /\ p >= cutoff /\ StopsAt(p) > 0
    /\ NotesLargest(p)
    /\ LET el == Chain[StopsAt(p)] IN
         /\ p = High(el) + 1
         /\ elems' = [elems EXCEPT ![el].count = @ + 1]
    /\ UNCHANGED <<mask, n_alloced, n_used, head>>
    /\ Return("ok")

AlreadyIn(p) ==
    /\ n_used > 0 /\ p >= cutoff /\ StopsAt(p) > 0
    /\ LET el == Chain[StopsAt(p)] IN p \in elems[el].low .. High(el)
    /\ Return("dup") /\ UNCHANGED <<list, largest_recv>>

Received(p) ==
    \/ BelowCutoff(p) \/ FirstElem(p) \/ InsertBefore(p) \/ InsertTail(p)
    \/ ExtendDown(p) \/ ExtendUp(p) \/ AlreadyIn(p)

-----------------------------------------------------------------------------
(***************************************************************************)
(* lsquic_rechist_stop_wait(): the range that straddles the cutoff is cut, *)
(* the ranges below it are freed.  The callers see to it that the cutoff   *)
(* does not go back, which the code asserts.                               *)
(***************************************************************************)
FirstBelow(c) == {k \in 1 .. n_used : c > elems[Chain[k]].low}
CutAt(c) ==
    LET k == IF FirstBelow(c) = {} THEN n_used + 1 ELSE Min(FirstBelow(c))
    IN  IF k <= n_used /\ c <= High(Chain[k]) THEN k + 1 ELSE k
Freed(c) == {Chain[k] : k \in CutAt(c) .. n_used}

StopWait(c) ==
    /\ cutoff_set => c >= cutoff
    /\ cutoff' = c
    /\ cutoff_set' = TRUE
    /\ elems' = [i \in Slots |->
                   IF i \in Freed(c) THEN Cleared
                   ELSE IF i \notin mask THEN elems[i]
                   ELSE LET low == Max({c, elems[i].low}) IN
                          [low   |-> low,
                           count |-> High(i) - low + 1,
                           next  |-> IF elems[i].next \in Freed(c) THEN NIL
                                     ELSE elems[i].next]]
    /\ mask' = MaskWithout(Freed(c))
    /\ n_used' = n_used - Cardinality(Freed(c))
    /\ UNCHANGED <<n_alloced, head, max_ranges, largest_recv, verdict, failed>>

(***************************************************************************)
(* lsquic_rechist_copy_ranges(), as a promoted connection calls it, with   *)
(* the arrival time it then stores: the ranges of S from the highest down, *)
(* into slots 0, 1, 2, ..., until there is no room.                        *)
(***************************************************************************)
LowsOf(S) == {p \in S : p - 1 \notin S}
RangesCopied(S) ==
    IF max_ranges = 0 THEN Cardinality(LowsOf(S))
    ELSE Min({max_ranges, Cardinality(LowsOf(S))})
SizeFor(n) ==
    LET size[k \in 0 .. n] == IF k = 0 THEN n_alloced
                              ELSE IF k - 1 < size[k - 1] THEN size[k - 1]
                              ELSE GrownFrom(size[k - 1])
    IN  size[n]
CopyRanges(S) ==
    /\ n_used = 0 /\ ~cutoff_set /\ S # {}
    /\ LET n      == RangesCopied(S)
           nth(k) == CHOOSE p \in LowsOf(S) :
                        Cardinality({q \in LowsOf(S) : q > p}) = k
           len(p) == Cardinality({q \in S : q >= p /\ \A r \in p .. q : r \in S})
       IN  /\ elems' = [i \in Slots |->
                          IF i \in 0 .. n - 1
                          THEN [low   |-> nth(i),
                                count |-> len(nth(i)),
                                next  |-> IF i = n - 1 THEN NIL ELSE i + 1]
                          ELSE elems[i]]
           /\ mask' = 0 .. n - 1
           /\ n_used' = n
           /\ n_alloced' = SizeFor(n)
    /\ head' = 0
    /\ largest_recv' = Max(S)
    /\ UNCHANGED <<max_ranges, cutoff, cutoff_set, verdict, failed>>

Next ==
    \/ \E p \in Packno : Received(p)
    \/ \E c \in 0 .. MaxPackno + 1 : StopWait(c)
    \/ \E S \in SUBSET Packno : CopyRanges(S)

Spec == Init /\ [][Next]_vars

-----------------------------------------------------------------------------
Held == UNION {elems[Chain[k]].low .. High(Chain[k]) : k \in 1 .. n_used}

TypeOK ==
    /\ elems \in [Slots -> [low : Packno, count : 0 .. MaxPackno + 1,
                            next : Slots \cup {NIL}]]
    /\ mask \subseteq Slots
    /\ n_alloced \in Nat /\ n_used \in 0 .. n_alloced
    /\ head \in Slots
    /\ max_ranges \in Nat /\ failed \in BOOLEAN
    /\ cutoff \in 0 .. MaxPackno + 1 /\ cutoff_set \in BOOLEAN
    /\ largest_recv \in Packno \cup {NIL}
    /\ verdict \in {"none", "ok", "dup", "err"}

(***************************************************************************)
(* The list starting at rh_head visits each slot that the mask says is in  *)
(* use exactly once and ends there, and rh_n_used counts them: the         *)
(* assertions of rechist_test_sanity(), which only unit tests compile in.  *)
(***************************************************************************)
ListMatchesMask ==
    n_used > 0 =>
       /\ {Chain[k] : k \in 1 .. n_used} = mask
       /\ Cardinality(mask) = n_used
       /\ elems[Chain[n_used]].next = NIL

(***************************************************************************)
(* Going down the list, there is at least one missing packet number        *)
(* between two ranges, and no range reaches below the cutoff: this is what *)
(* the ACK frame encoder assumes of the ranges it walks.                   *)
(***************************************************************************)
RangesDescend ==
    /\ \A k \in 1 .. n_used : elems[Chain[k]].count > 0
    /\ \A k \in 1 .. n_used - 1 :
          elems[Chain[k]].low > High(Chain[k + 1]) + 1
    /\ n_used > 0 /\ cutoff_set => elems[Chain[n_used]].low >= cutoff
    /\ max_ranges # 0 => n_used <= max_ranges

(***************************************************************************)
(* Both: no order of arrivals, cutoffs and copies corrupts the list.       *)
(***************************************************************************)
ListIsSane == ListMatchesMask /\ RangesDescend

(***************************************************************************)
(* The ACK delay is computed from the arrival of the largest packet number *)
(* that the ACK frame reports.                                             *)
(***************************************************************************)
DelayIsOfLargest ==
    n_used > 0 /\ ~failed => largest_recv = High(head)

(***************************************************************************)
(* The array and its list behave as a set of packet numbers that forgets   *)
(* its lowest range when there are too many.                               *)
(***************************************************************************)
H == INSTANCE PacketHistory WITH recvd <- Held
ImplementsHistory == H!HistorySpec
=============================================================================

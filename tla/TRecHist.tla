------------------------------ MODULE TRecHist ------------------------------
(***************************************************************************)
(* The tiny receive history of mini connections, lsquic_trechist.c: a few  *)
(* elements in a fixed array, each a range of packet numbers with its      *)
(* length in one byte, linked from the highest range down by slot number.  *)
(* The highest range is always in slot 0, so that 0 can mean "no next".    *)
(***************************************************************************)
EXTENDS PacketRanges, FiniteSetsExt

CONSTANTS
    TMaxPackno,     \* bound: packet numbers are 0..TMaxPackno
    TMaxRanges,     \* TRECHIST_MAX_RANGES (16 in the code)
    TCountMax       \* the largest te_count, UCHAR_MAX in the code

VARIABLES
    te,             \* the elements: te_low, te_count, te_next
    te_mask,        \* the slots in use
    te_ret          \* what the last insertion returned

tvars == <<te, te_mask, te_ret>>

TPackno == 0 .. TMaxPackno
TSlots == 0 .. TMaxRanges - 1
TByte(n) == n % (TCountMax + 1)         \* the conversion to unsigned char
Te(low, count, next) == [low |-> low, count |-> TByte(count), next |-> next]

TE_HIGH(i) == te[i].low + te[i].count - 1
Full == te_mask = TSlots

(***************************************************************************)
(* The slots of the list in its order: TeChain[k] is the k-th.             *)
(***************************************************************************)
TeChain ==
    LET at[k \in 1 .. Cardinality(te_mask)] ==
            IF k = 1 THEN 0 ELSE te[at[k - 1]].next
    IN  at
Held == UNION {te[TeChain[k]].low .. TE_HIGH(TeChain[k]) : k \in DOMAIN TeChain}

TRecHistInit ==
    /\ te = [i \in TSlots |-> Te(0, 0, 0)]
    /\ te_mask = {}
    /\ te_ret = "ok"

-----------------------------------------------------------------------------
(***************************************************************************)
(* lsquic_trechist_insert().  The walk down the list stops at the first    *)
(* element that p is not strictly below, with a gap between; when there is *)
(* none it stops at the last one.                                          *)
(***************************************************************************)
StopsAt(p) ==
    LET hits == {k \in DOMAIN TeChain : p + 1 >= te[TeChain[k]].low}
    IN  IF hits = {} THEN 0 ELSE Min(hits)
FreeSlot == Min(TSlots \ te_mask)       \* find_free_slot()
Return(r) == te_ret' = r

InsertFirst(p) ==
    /\ te_mask = {}
    /\ te' = [te EXCEPT ![0] = Te(p, 1, 0)]
    /\ te_mask' = {0}
    /\ Return("ok")

(***************************************************************************)
(* p is just below an element, which grows down and takes over the next    *)
(* one if p was all that separated them.                                   *)
(***************************************************************************)
TooWide(el, nx) == te[el].count + te[nx].count - 1 > TCountMax
MergeBelow_bug(el, nx) ==
    /\ te' = [te EXCEPT ![el] = Te(te[nx].low, @.count + te[nx].count + 1,
                                   te[nx].next)]
    /\ UNCHANGED te_mask
MergeBelow(el, nx) ==
    /\ te' = [te EXCEPT ![el] = Te(te[nx].low, @.count + te[nx].count + 1,
                                   te[nx].next)]
    /\ te_mask' = te_mask \ {nx}

GrowDown(p) ==
    /\ te_mask # {} /\ StopsAt(p) # 0
    /\ LET el == TeChain[StopsAt(p)]  nx == te[el].next IN
         /\ p = te[el].low - 1
         /\ IF nx # 0 /\ te[el].low = TE_HIGH(nx) + 2
            THEN IF TooWide(el, nx) THEN Return("err") /\ UNCHANGED <<te, te_mask>>
                 ELSE MergeBelow(el, nx) /\ Return("ok")
            ELSE /\ UNCHANGED te_mask
                 /\ IF te[el].count = TCountMax THEN Return("err") /\ UNCHANGED te
                    ELSE /\ te' = [te EXCEPT ![el].low = @ - 1, ![el].count = @ + 1]
                         /\ Return("ok")

GrowUp(p) ==
    /\ te_mask # {} /\ StopsAt(p) # 0
    /\ LET el == TeChain[StopsAt(p)] IN
         /\ p = TE_HIGH(el) + 1 /\ p # te[el].low - 1
         /\ IF te[el].count = TCountMax THEN Return("err") /\ UNCHANGED te
            ELSE te' = [te EXCEPT ![el].count = @ + 1] /\ Return("ok")
    /\ UNCHANGED te_mask

AlreadyHeld(p) ==
    /\ te_mask # {} /\ StopsAt(p) # 0
    /\ LET el == TeChain[StopsAt(p)] IN p \in te[el].low .. TE_HIGH(el)
    /\ Return("ok") /\ UNCHANGED <<te, te_mask>>

(***************************************************************************)
(* p is below everything: it is not recorded when the array is full.       *)
(***************************************************************************)
InsertLast(p) ==
    /\ te_mask # {} /\ StopsAt(p) = 0
    /\ Return("ok")
    /\ IF Full THEN UNCHANGED <<te, te_mask>>
       ELSE LET last == TeChain[Cardinality(te_mask)] IN
            /\ te' = [te EXCEPT ![FreeSlot] = Te(p, 1, 0), ![last].next = FreeSlot]
            /\ te_mask' = te_mask \cup {FreeSlot}

(***************************************************************************)
(* p makes a range of its own in front of the k-th element.  A full array  *)
(* gives up its last element, which may be the k-th itself; the search for *)
(* it starts at that element and then wraps around through slot 0.  To     *)
(* stay in slot 0 the first element is moved out of it.                    *)
(***************************************************************************)
LastSlot == TeChain[Cardinality(te_mask)]
Trimmed ==                              \* the array without its last element
    IF Full
    THEN [te EXCEPT ![TeChain[Cardinality(te_mask) - 1]].next = 0]
    ELSE te
InsertBefore(p) ==
    /\ te_mask # {} /\ StopsAt(p) # 0
    /\ p > TE_HIGH(TeChain[StopsAt(p)]) + 1
    /\ LET k   == StopsAt(p)
           idx == IF Full THEN LastSlot ELSE FreeSlot
       IN  /\ te_mask' = te_mask \cup {idx}
           /\ te' = IF k = 1
                    THEN [Trimmed EXCEPT ![idx] = Trimmed[0], ![0] = Te(p, 1, idx)]
                    ELSE [Trimmed EXCEPT
                            ![idx] = Te(p, 1, Trimmed[TeChain[k - 1]].next),
                            ![TeChain[k - 1]].next = idx]
    /\ Return("ok")

Insert(p) ==
    \/ InsertFirst(p) \/ GrowDown(p) \/ GrowUp(p) \/ AlreadyHeld(p)
    \/ InsertLast(p) \/ InsertBefore(p)

(***************************************************************************)
(* lsquic_trechist_copy_ranges(): the highest ranges of the bit mask that  *)
(* the mini connection has kept so far.                                    *)
(***************************************************************************)
CopyRanges(S) ==
    /\ te_mask = {}
    /\ LET n      == Cardinality(Lows(HighestRanges(S, TMaxRanges)))
           nth(k) == CHOOSE l \in Lows(S) : Cardinality({q \in Lows(S) : q > l}) = k
           len(l) == Cardinality({q \in S : q >= l /\ l .. q \subseteq S})
       IN  /\ te' = [i \in TSlots |->
                        IF i < n THEN Te(nth(i), len(nth(i)),
                                         IF i = n - 1 THEN 0 ELSE i + 1)
                        ELSE te[i]]
           /\ te_mask' = 0 .. n - 1
    /\ Return("ok")

TRecHistNext ==
    \/ \E p \in TPackno : Insert(p)
    \/ \E S \in SUBSET (0 .. TCountMax - 1) \ {{}} : CopyRanges(S \cap TPackno)

TRecHistSpec == TRecHistInit /\ [][TRecHistNext]_tvars

-----------------------------------------------------------------------------
(***************************************************************************)
(* lsquic_trechist_contains() and lsquic_trechist_max(), which the mini    *)
(* connection asks about each packet that arrives.                         *)
(***************************************************************************)
Contains(p) ==
    \E k \in DOMAIN TeChain :
       /\ p \in te[TeChain[k]].low .. TE_HIGH(TeChain[k])
       /\ \A j \in 1 .. k - 1 : p <= TE_HIGH(TeChain[j])
MaxHeld == IF te_mask = {} THEN 0 ELSE TE_HIGH(0)

(***************************************************************************)
(* The links visit every slot of the mask once, starting at slot 0, from   *)
(* the highest range down and with a gap between two ranges; the queries   *)
(* agree with the set of packet numbers that the ranges describe.          *)
(***************************************************************************)
TinyListIsSane ==
    te_mask # {} =>
       /\ {TeChain[k] : k \in DOMAIN TeChain} = te_mask
       /\ te[LastSlot].next = 0
       /\ \A k \in DOMAIN TeChain : te[TeChain[k]].count > 0
       /\ \A k \in DOMAIN TeChain \ {1} :
             te[TeChain[k - 1]].low > TE_HIGH(TeChain[k]) + 1
       /\ \A p \in TPackno : Contains(p) <=> p \in Held
       /\ MaxHeld = Max(Held)

(***************************************************************************)
(* An insertion is the insertion into a set that keeps its highest         *)
(* TMaxRanges ranges, whatever the order of arrivals; only an insertion    *)
(* that reports an error leaves the packet out otherwise.                  *)
(***************************************************************************)
KeepsHighest ==
    \/ te_ret' = "err" /\ Held' = Held
    \/ te_mask = {} /\ Held' = HighestRanges(Held', TMaxRanges)
    \/ \E p \in TPackno : Held' = HighestRanges(Held \cup {p}, TMaxRanges)

(***************************************************************************)
(* Both: the tiny history is, in every order of arrivals, the set of the   *)
(* highest ranges received, and its list stays sane.                       *)
(***************************************************************************)
TinyHistoryIsRight == []TinyListIsSane /\ [][KeepsHighest]_tvars

(***************************************************************************)
(* "When the number of elements in a single range cannot be represented by *)
(* te_count, an error is returned": what the comment on                    *)
(* lsquic_trechist_insert() says, so that no range wraps to an empty one.  *)
(***************************************************************************)
CountsDoNotWrap == \A i \in te_mask : te[i].count > 0
=============================================================================

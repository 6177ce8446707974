------------------------------- MODULE Purga -------------------------------
(***************************************************************************)
(* The purgatory of connection IDs, lsquic_purga.c: the IDs of closed      *)
(* connections, remembered for a while so that late packets do not create  *)
(* a connection.  The IDs are in pages; only a full page that is not the   *)
(* last one ever goes, so time is kept per page.                           *)
(***************************************************************************)
EXTENDS Integers, Sequences, FiniteSets, SequencesExt

CONSTANTS
    PCid,           \* connection IDs
    Hash,           \* the Bloom filter bits of an ID
    PerPage,        \* PURGA_ELS_PER_PAGE
    MinLife,        \* pur_min_life
    PMaxTime,       \* bound on the clock
    PMaxPages       \* bound on the pages that have not expired

ASSUME PurgaAssumption ==
    PerPage \in Nat \ {0} /\ MinLife \in Nat /\ PMaxTime \in Nat /\ PMaxPages \in Nat

VARIABLES
    pages,          \* pur_pages: IDs, filter mask, pupa_last
    p_now,          \* the clock
    p_added,        \* history: when each ID was last added
    p_reported      \* history: the IDs given to the remove_cids callback

pvars == <<pages, p_now, p_added, p_reported>>

NoTime == -1
PageIsFull(pg) == Len(pg.cids) >= PerPage
EmptyPage == [cids |-> << >>, mask |-> {}, last |-> 0]

PurgaInit ==
    /\ pages = << >>
    /\ p_now = 0
    /\ p_added = [c \in PCid |-> NoTime]
    /\ p_reported = [c \in PCid |-> FALSE]

PTick == p_now < PMaxTime /\ p_now' = p_now + 1
         /\ UNCHANGED <<pages, p_added, p_reported>>

(***************************************************************************)
(* lsquic_purga_add(): the last page takes the ID; if it is full there is  *)
(* a new page, for which memory may not be available.  Then the pages at   *)
(* the front go whose time is up.                                          *)
(***************************************************************************)
GetPage == IF pages = << >> \/ PageIsFull(Last(pages))
           THEN Append(pages, EmptyPage) ELSE pages
Stamp(pg) == IF PageIsFull(pg) THEN [pg EXCEPT !.last = p_now] ELSE pg
WithId(pg, c) == [pg EXCEPT !.cids = Append(@, c), !.mask = @ \cup Hash[c]]
Filed(ps, c) == [ps EXCEPT ![Len(ps)] = Stamp(WithId(@, c))]
Expired_bug(pg) == PageIsFull(pg)
Expired(pg) == PageIsFull(pg) /\ pg.last + MinLife < p_now
NumExpired(ps) ==
    CHOOSE n \in 0 .. Len(ps) - 1 :
       /\ \A i \in 1 .. n : Expired(ps[i])
       /\ n + 1 < Len(ps) => ~Expired(ps[n + 1])

PurgaAdd(c) ==
    /\ Len(GetPage) <= PMaxPages
    /\ LET ps == Filed(GetPage, c)  n == NumExpired(ps) IN
         /\ pages' = SubSeq(ps, n + 1, Len(ps))
         /\ p_reported' = [d \in PCid |->
                IF \E i \in 1 .. n : d \in ToSet(ps[i].cids) THEN TRUE
                ELSE IF d = c THEN FALSE ELSE p_reported[d]]
    /\ p_added' = [p_added EXCEPT ![c] = p_now]
    /\ UNCHANGED p_now

(***************************************************************************)
(* lsquic_purga_destroy(), after which there is a new, empty purgatory.    *)
(***************************************************************************)
PurgaDestroy ==
    /\ pages # << >>
    /\ pages' = << >>
    /\ p_reported' = [c \in PCid |->
            (\E i \in 1 .. Len(pages) : c \in ToSet(pages[i].cids)) \/ p_reported[c]]
    /\ p_added' = [c \in PCid |-> NoTime]
    /\ UNCHANGED p_now

(***************************************************************************)
(* lsquic_purga_contains(): a page is searched only if all of the ID's     *)
(* bits are in its filter.                                                 *)
(***************************************************************************)
PurgaContains(c) ==
    \E i \in 1 .. Len(pages) :
       Hash[c] \subseteq pages[i].mask /\ c \in ToSet(pages[i].cids)

PurgaNext == PTick \/ PurgaDestroy \/ \E c \in PCid : PurgaAdd(c)

PurgaSpec == PurgaInit /\ [][PurgaNext]_pvars

-----------------------------------------------------------------------------
(***************************************************************************)
(* An ID is found for at least the minimum life from the moment it was     *)
(* added, whatever was added after it; an ID that is no longer found has   *)
(* been reported to the application.                                       *)
(***************************************************************************)
IgnoredLongEnough ==
    \A c \in PCid : p_added[c] # NoTime =>
       /\ p_now <= p_added[c] + MinLife => PurgaContains(c)
       /\ ~PurgaContains(c) => p_reported[c]

(***************************************************************************)
(* What makes IgnoredLongEnough inductive: the ID is in a page that was    *)
(* not filled before the ID was added, or its time is up.                  *)
(***************************************************************************)
Page == [cids : Seq(PCid), mask : SUBSET UNION {Hash[c] : c \in PCid}, last : Nat]
PurgaTypeOK ==
    /\ pages \in Seq(Page)
    /\ p_now \in Nat
    /\ p_added \in [PCid -> Nat \cup {NoTime}]
    /\ p_reported \in [PCid -> BOOLEAN]
Filter == \A i \in DOMAIN pages : \A c \in ToSet(pages[i].cids) : Hash[c] \subseteq pages[i].mask
Kept(c) ==
    \E i \in DOMAIN pages :
       /\ c \in ToSet(pages[i].cids)
       /\ PageIsFull(pages[i]) => p_added[c] <= pages[i].last
PurgaInv ==
    /\ PurgaTypeOK
    /\ Filter
    /\ \A c \in PCid : p_added[c] # NoTime =>
         /\ p_added[c] <= p_now
         /\ Kept(c) \/ (p_reported[c] /\ p_added[c] + MinLife < p_now)
=============================================================================

--------------------------- MODULE PacketHistory ---------------------------
(***************************************************************************)
(* What the history of received packets promises its callers: the set of   *)
(* packet numbers that an ACK frame may report, and the verdict on each    *)
(* packet number offered to it.  The history keeps at most max_ranges      *)
(* ranges of consecutive numbers; to make room it forgets the lowest one.  *)
(* RecHist, the array with the linked list of lsquic_rechist.c, implements *)
(* this specification.                                                     *)
(*                                                                         *)
(* An arrival time is represented by the packet number whose arrival it    *)
(* is: the code only ever stores the time of the packet being recorded.    *)
(***************************************************************************)
EXTENDS PacketRanges, FiniteSetsExt

CONSTANTS
    MaxPackno       \* bound: packet numbers are 0..MaxPackno

VARIABLES
    recvd,          \* the packet numbers in the history
    max_ranges,     \* the limit on ranges; zero when there is none
    cutoff,         \* numbers below it are no longer of interest
    cutoff_set,     \* whether lsquic_rechist_stop_wait() has set the cutoff
    largest_recv,   \* arrival of the largest packet number
    verdict         \* what the last call of lsquic_rechist_received() said

hvars == <<recvd, max_ranges, cutoff, cutoff_set, largest_recv, verdict>>

Packno == 0 .. MaxPackno
NoPackno == -1

HistoryInit ==
    /\ recvd = {}
    /\ max_ranges \in Nat \ {1}
    /\ cutoff \in {0, 1}              \* 0 in IETF QUIC, 1 in gQUIC
    /\ cutoff_set = FALSE
    /\ largest_recv = NoPackno
    /\ verdict = "none"

Record(p) ==
    /\ Verdict(recvd, cutoff, p) = "ok"
    /\ recvd' = Recorded(recvd, p, max_ranges)
    /\ largest_recv' = IF \A q \in recvd : q < p THEN p ELSE largest_recv
    /\ verdict' = "ok"
    /\ UNCHANGED <<max_ranges, cutoff, cutoff_set>>

Duplicate(p) ==
    /\ Verdict(recvd, cutoff, p) = "dup"
    /\ verdict' = "dup"
    /\ UNCHANGED <<recvd, max_ranges, cutoff, cutoff_set, largest_recv>>

(***************************************************************************)
(* An empty history cannot tell a duplicate from an error; memory for a    *)
(* new range may not be available, in which case the arrival of a largest  *)
(* number may have been noted although the number is not recorded.         *)
(***************************************************************************)
Error(p) ==
    /\ \/ Verdict(recvd, cutoff, p) = "err" /\ UNCHANGED largest_recv
       \/ /\ Verdict(recvd, cutoff, p) = "ok"
          /\ p - 1 \notin recvd /\ p + 1 \notin recvd
          /\ largest_recv' \in {largest_recv, p}
    /\ verdict' = "err"
    /\ UNCHANGED <<recvd, max_ranges, cutoff, cutoff_set>>

HistoryReceived(p) == Record(p) \/ Duplicate(p) \/ Error(p)

HistoryStopWait(c) ==
    /\ cutoff_set => c >= cutoff
    /\ recvd' = {p \in recvd : p >= c}
    /\ cutoff' = c
    /\ cutoff_set' = TRUE
    /\ UNCHANGED <<max_ranges, largest_recv, verdict>>

(***************************************************************************)
(* A connection that takes over from a mini connection starts with the     *)
(* packets the latter has received.                                        *)
(***************************************************************************)
HistoryCopy(S) ==
    /\ recvd = {}
    /\ ~cutoff_set
    /\ S # {}
    /\ recvd' = HighestRanges(S, max_ranges)
    /\ largest_recv' = Max(S)
    /\ UNCHANGED <<max_ranges, cutoff, cutoff_set, verdict>>

HistoryNext ==
    \/ \E p \in Packno : HistoryReceived(p)
    \/ \E c \in 0 .. MaxPackno + 1 : HistoryStopWait(c)
    \/ \E S \in SUBSET Packno : HistoryCopy(S)

HistorySpec == HistoryInit /\ [][HistoryNext]_hvars
=============================================================================

---------------------------- MODULE PacketRanges ----------------------------
(***************************************************************************)
(* Sets of packet numbers, seen as ranges of consecutive numbers.          *)
(***************************************************************************)
EXTENDS Integers, FiniteSets

(***************************************************************************)
(* The ranges of S, each named by its lowest member.                       *)
(***************************************************************************)
Lows(S) == {p \in S : p - 1 \notin S}

(***************************************************************************)
(* The members of S that no gap separates from the lowest one.             *)
(***************************************************************************)
LowestRange(S) == {q \in S : \A l \in Lows(S) : l > q \/ \A k \in Lows(S) : l <= k}

(***************************************************************************)
(* The highest n ranges of S, or all of S when n is zero.                  *)
(***************************************************************************)
HighestRanges(S, n) ==
    IF n = 0 THEN S ELSE {p \in S : Cardinality({l \in Lows(S) : l > p}) < n}

(***************************************************************************)
(* S after p has been recorded in it.  When that makes more than n ranges, *)
(* the lowest of the old ones is forgotten, even if p lies below it.       *)
(***************************************************************************)
Recorded(S, p, n) ==
    IF n # 0 /\ Cardinality(Lows(S \cup {p})) > n
    THEN (S \ LowestRange(S)) \cup {p}
    ELSE S \cup {p}

(***************************************************************************)
(* The verdict on p of a history that holds S and is not interested in     *)
(* packet numbers below c.                                                 *)
(***************************************************************************)
Verdict(S, c, p) ==
    IF p < c THEN IF S = {} THEN "err" ELSE "dup"
    ELSE IF p \in S THEN "dup" ELSE "ok"
=============================================================================

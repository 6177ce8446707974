------------------------ MODULE SendCtlQueues_proofs ------------------------
(***************************************************************************)
(* The queues of the send controller, for any number of packets: what its  *)
(* walks over queues compute, and the first layer of its invariant, Basic: *)
(* types, the retransmission alarm and sc_bytes_scheduled.                 *)
(*                                                                         *)
(* SendCtl_proofs has the layers above it.                                 *)
(***************************************************************************)
EXTENDS SendCtl, WellFoundedInduction, FiniteSetTheorems, SequenceTheorems, TLAPS

-----------------------------------------------------------------------------
(***************************************************************************)
(* Walks over a queue. Only and the other recursive functions of SendCtl   *)
(* are unfolded step by step: the function exists, and an induction by the *)
(* least counterexample shows what it computes.                            *)
(***************************************************************************)

(* A non-empty set of natural numbers has a least element. *)
LEMMA Least ==
    ASSUME NEW T \in SUBSET Nat, T # {}
    PROVE  \E n \in T : \A m \in T : n <= m
<1> DEFINE R == OpToRel(<, Nat)
<1>1. \E x \in T : \A y \in T : ~(<<y, x>> \in R)
    BY NatLessThanWellFounded, WFMin
<1>2. \A x, y \in Nat : <<y, x>> \in R <=> y < x
    BY DEF OpToRel
<1> HIDE DEF R
<1>3. PICK n \in T : \A m \in T : ~(<<m, n>> \in R)
    BY <1>1
<1>4. ASSUME NEW m \in T PROVE n <= m
    <2>1. ~(<<m, n>> \in R)
        BY <1>3
    <2>2. m \in Nat /\ n \in Nat
        OBVIOUS
    <2>3. ~(m < n)
        BY <1>2, <2>1, <2>2
    <2> QED BY <2>2, <2>3
<1> QED BY <1>4

(***************************************************************************)
(* Only(q, S), by its recursion.                                           *)
(***************************************************************************)
OnlyAt(q, S, g, i) ==
    IF i = 0 THEN << >>
    ELSE IF q[i] \in S THEN Append(g[i - 1], q[i]) ELSE g[i - 1]

LEMMA OnlyExists ==
    ASSUME NEW q, NEW S, NEW k \in Nat
    PROVE  \E g : g = [i \in 0 .. k |-> OnlyAt(q, S, g, i)]
<1> DEFINE P(n) == \E g : g = [i \in 0 .. n |-> OnlyAt(q, S, g, i)]
           T == {n \in Nat : ~P(n)}
<1>1. SUFFICES ASSUME T # {} PROVE FALSE
    OBVIOUS
<1>2. PICK n \in T : \A m \in T : n <= m
    BY <1>1, Least
<1>3. n # 0
    <2> DEFINE g == [i \in 0 .. 0 |-> << >>]
    <2>1. g = [i \in 0 .. 0 |-> OnlyAt(q, S, g, i)]
        BY DEF OnlyAt
    <2> QED BY <1>2, <2>1
<1>4. n - 1 \in Nat /\ n - 1 \notin T
    BY <1>2, <1>3
<1>5. PICK g : g = [i \in 0 .. n - 1 |-> OnlyAt(q, S, g, i)]
    BY <1>4
<1> DEFINE h == [i \in 0 .. n |-> OnlyAt(q, S, g, i)]
<1>6. \A i \in 0 .. n - 1 : h[i] = g[i]
    BY <1>4, <1>5
<1>7. ASSUME NEW i \in 0 .. n PROVE h[i] = OnlyAt(q, S, h, i)
    <2>1. h[i] = OnlyAt(q, S, g, i)
        OBVIOUS
    <2>2. i # 0 => h[i - 1] = g[i - 1]
        <3>1. i # 0 => i - 1 \in 0 .. n - 1
            BY <1>4
        <3> HIDE DEF h
        <3> QED BY <1>6, <3>1
    <2> HIDE DEF h
    <2> QED BY <2>1, <2>2 DEF OnlyAt
<1>8. h = [i \in 0 .. n |-> OnlyAt(q, S, h, i)]
    BY <1>7, Zenon
<1> QED BY <1>2, <1>8

LEMMA OnlyRec ==
    ASSUME NEW q, NEW S, Len(q) \in Nat
    PROVE  \E g : /\ Only(q, S) = g[Len(q)]
                  /\ \A i \in 0 .. Len(q) : g[i] = OnlyAt(q, S, g, i)
<1> DEFINE g == CHOOSE g : g = [i \in 0 .. Len(q) |-> OnlyAt(q, S, g, i)]
<1>1. g = [i \in 0 .. Len(q) |-> OnlyAt(q, S, g, i)]
    BY OnlyExists
<1>2. Only(q, S) = g[Len(q)]
    BY DEF Only, OnlyAt
<1> HIDE DEF g
<1> QED BY <1>1, <1>2

(* What is left are the packets of S, in the order they were in. *)
IsOnly(r, P, q, S) ==
    /\ r \in Seq(P) /\ Len(r) <= Len(q)
    /\ \A i \in 1 .. Len(r) : r[i] \in S /\ \E k \in 1 .. Len(q) : r[i] = q[k]
    /\ \A k \in 1 .. Len(q) : q[k] \in S => \E i \in 1 .. Len(r) : r[i] = q[k]
    /\ \A i, j \in 1 .. Len(r) : i < j =>
         \E k, l \in 1 .. Len(q) : k < l /\ r[i] = q[k] /\ r[j] = q[l]
    /\ (\A k \in 1 .. Len(q) : q[k] \in S) => r = q

LEMMA OnlyFacts ==
    ASSUME NEW P, NEW q \in Seq(P), NEW S
    PROVE  IsOnly(Only(q, S), P, q, S)
<1> DEFINE r == Only(q, S)
<1>1. PICK g : /\ r = g[Len(q)]
               /\ \A i \in 0 .. Len(q) : g[i] = OnlyAt(q, S, g, i)
    BY OnlyRec
<1> DEFINE Good(n) ==
        /\ g[n] \in Seq(P) /\ Len(g[n]) <= n
        /\ \A i \in 1 .. Len(g[n]) : g[n][i] \in S /\ \E k \in 1 .. n : g[n][i] = q[k]
        /\ \A k \in 1 .. n : q[k] \in S => \E i \in 1 .. Len(g[n]) : g[n][i] = q[k]
        /\ \A i, j \in 1 .. Len(g[n]) : i < j =>
             \E k, l \in 1 .. n : k < l /\ g[n][i] = q[k] /\ g[n][j] = q[l]
        /\ (\A k \in 1 .. n : q[k] \in S) =>
             Len(g[n]) = n /\ \A k \in 1 .. n : g[n][k] = q[k]
           T == {n \in 0 .. Len(q) : ~Good(n)}
<1>2. Good(0)
    <2>1. g[0] = << >>
        BY <1>1 DEF OnlyAt
    <2> QED BY <2>1
<1>3. ASSUME NEW n \in 1 .. Len(q), Good(n - 1) PROVE Good(n)
    <2> DEFINE a == g[n - 1]
               b == g[n]
    <2>1. b = IF q[n] \in S THEN Append(a, q[n]) ELSE a
        BY <1>1 DEF OnlyAt
    <2>2. a \in Seq(P) /\ Len(a) \in Nat /\ Len(a) <= n - 1 /\ q[n] \in P
        BY <1>3
    <2>3. CASE q[n] \notin S
        <3>1. b = a
            BY <2>1, <2>3
        <3> HIDE DEF a, b
        <3>2. Good(n)
            <4> USE DEF a, b
            <4>1. \A k \in 1 .. n - 1 : k \in 1 .. n
                OBVIOUS
            <4>2. n \in 1 .. n
                OBVIOUS
            <4>3. \A k \in 1 .. n : k = n \/ k \in 1 .. n - 1
                OBVIOUS
            <4> HIDE DEF T
            <4> QED BY <1>3, <2>2, <2>3, <3>1, <4>1, <4>2, <4>3
        <3> QED BY <3>2
    <2>4. CASE q[n] \in S
        <3>1. b = Append(a, q[n])
            BY <2>1, <2>4
        <3>2. /\ b \in Seq(P) /\ Len(b) = Len(a) + 1 /\ b[Len(b)] = q[n]
              /\ \A i \in 1 .. Len(a) : b[i] = a[i]
            BY <2>2, <3>1
        <3>3. \A i \in 1 .. Len(b) : i = Len(b) \/ i \in 1 .. Len(a)
            BY <2>2, <3>2
        <3>4. \A k \in 1 .. n : k = n \/ k \in 1 .. n - 1
            OBVIOUS
        <3>5. \A k \in 1 .. n - 1 : k \in 1 .. n /\ k < n
            OBVIOUS
        <3>6. \A i \in 1 .. Len(a) : i \in 1 .. Len(b)
            BY <2>2, <3>2
        <3>7. n \in 1 .. n /\ Len(b) \in 1 .. Len(b) /\ Len(b) <= n
            BY <2>2, <3>2
        <3>8. /\ \A i \in 1 .. Len(a) : a[i] \in S /\ \E k \in 1 .. n - 1 : a[i] = q[k]
              /\ \A k \in 1 .. n - 1 : q[k] \in S => \E i \in 1 .. Len(a) : a[i] = q[k]
              /\ \A i, j \in 1 .. Len(a) : i < j =>
                   \E k, l \in 1 .. n - 1 : k < l /\ a[i] = q[k] /\ a[j] = q[l]
              /\ (\A k \in 1 .. n - 1 : q[k] \in S) =>
                   Len(a) = n - 1 /\ \A k \in 1 .. n - 1 : a[k] = q[k]
            BY <1>3
        <3> HIDE DEF a, b
        <3>9. \A i \in 1 .. Len(b) : b[i] \in S /\ \E k \in 1 .. n : b[i] = q[k]
            <4> SUFFICES ASSUME NEW i \in 1 .. Len(b)
                         PROVE  b[i] \in S /\ \E k \in 1 .. n : b[i] = q[k]
                OBVIOUS
            <4>1. CASE i = Len(b)
                BY <2>4, <3>2, <3>7, <4>1
            <4>2. CASE i \in 1 .. Len(a)
                <5>1. PICK k \in 1 .. n - 1 : a[i] = q[k]
                    BY <3>8, <4>2
                <5> QED BY <3>2, <3>5, <3>8, <4>2, <5>1
            <4> QED BY <3>3, <4>1, <4>2
        <3>10. \A k \in 1 .. n : q[k] \in S => \E i \in 1 .. Len(b) : b[i] = q[k]
            BY <3>2, <3>4, <3>6, <3>7, <3>8
        <3>11. ASSUME NEW i \in 1 .. Len(b), NEW j \in 1 .. Len(b), i < j
               PROVE  \E k, l \in 1 .. n : k < l /\ b[i] = q[k] /\ b[j] = q[l]
            <4>1. i \in 1 .. Len(a)
                BY <2>2, <3>2, <3>11
            <4>2. CASE j = Len(b)
                <5>1. PICK k \in 1 .. n - 1 : a[i] = q[k]
                    BY <3>8, <4>1
                <5> QED BY <3>2, <3>5, <3>7, <4>1, <4>2, <5>1
            <4>3. CASE j \in 1 .. Len(a)
                <5>1. PICK k, l \in 1 .. n - 1 : k < l /\ a[i] = q[k] /\ a[j] = q[l]
                    BY <3>8, <3>11, <4>1, <4>3
                <5> QED BY <3>2, <3>5, <4>1, <4>3, <5>1
            <4> QED BY <3>3, <4>2, <4>3
        <3>12. (\A k \in 1 .. n : q[k] \in S) =>
                 Len(b) = n /\ \A k \in 1 .. n : b[k] = q[k]
            <4> SUFFICES ASSUME \A k \in 1 .. n : q[k] \in S
                         PROVE  Len(b) = n /\ \A k \in 1 .. n : b[k] = q[k]
                OBVIOUS
            <4>1. Len(a) = n - 1 /\ \A k \in 1 .. n - 1 : a[k] = q[k]
                BY <3>5, <3>8
            <4> QED BY <3>2, <3>4, <4>1
        <3> QED BY <3>2, <3>7, <3>9, <3>10, <3>11, <3>12 DEF b
    <2> QED BY <2>3, <2>4
<1> HIDE DEF Good
<1>4. T = {}
    <2> SUFFICES ASSUME T # {} PROVE FALSE
        OBVIOUS
    <2>1. PICK n \in T : \A m \in T : n <= m
        <3>1. T \in SUBSET Nat
            OBVIOUS
        <3> HIDE DEF T
        <3> QED BY <3>1, Least
    <2>2. n # 0
        BY <1>2
    <2>3. n \in 1 .. Len(q) /\ n - 1 \notin T
        BY <2>1, <2>2
    <2> QED BY <1>3, <2>1, <2>3
<1>5. Good(Len(q))
    BY <1>4
<1>6. (\A k \in 1 .. Len(q) : q[k] \in S) => r = q
    <2> SUFFICES ASSUME \A k \in 1 .. Len(q) : q[k] \in S PROVE r = q
        OBVIOUS
    <2>1. r \in Seq(P) /\ Len(r) = Len(q) /\ \A k \in 1 .. Len(q) : r[k] = q[k]
        BY <1>1, <1>5 DEF Good
    <2> QED BY <2>1
<1> HIDE DEF r
<1>7. IsOnly(r, P, q, S)
    <2>1. r \in Seq(P) /\ Len(r) <= Len(q)
        BY <1>1, <1>5 DEF Good
    <2>2. \A i \in 1 .. Len(r) : r[i] \in S /\ \E k \in 1 .. Len(q) : r[i] = q[k]
        BY <1>1, <1>5 DEF Good
    <2>3. \A k \in 1 .. Len(q) : q[k] \in S => \E i \in 1 .. Len(r) : r[i] = q[k]
        BY <1>1, <1>5 DEF Good
    <2>4. \A i, j \in 1 .. Len(r) : i < j =>
            \E k, l \in 1 .. Len(q) : k < l /\ r[i] = q[k] /\ r[j] = q[l]
        BY <1>1, <1>5 DEF Good
    <2> QED BY <1>6, <2>1, <2>2, <2>3, <2>4 DEF IsOnly
<1> QED BY <1>7 DEF r

-----------------------------------------------------------------------------
(***************************************************************************)
(* Sequences, and the bytes of a queue.                                    *)
(***************************************************************************)

LEMMA SeqEq ==
    ASSUME NEW P, NEW a \in Seq(P), NEW b \in Seq(P), Len(a) = Len(b),
           \A i \in 1 .. Len(a) : a[i] = b[i]
    PROVE  a = b
OBVIOUS

LEMMA LenNat ==
    ASSUME NEW P, NEW a \in Seq(P)
    PROVE  Len(a) \in Nat /\ DOMAIN a = 1 .. Len(a)
OBVIOUS

LEMMA ConcatFacts ==
    ASSUME NEW P, NEW a \in Seq(P), NEW b \in Seq(P)
    PROVE  /\ a \o b \in Seq(P) /\ Len(a \o b) = Len(a) + Len(b)
           /\ \A i \in 1 .. Len(a) : (a \o b)[i] = a[i]
           /\ \A i \in 1 .. Len(b) : (a \o b)[Len(a) + i] = b[i]
           /\ \A i \in Len(a) + 1 .. Len(a) + Len(b) : (a \o b)[i] = b[i - Len(a)]
OBVIOUS

LEMMA AppendFacts ==
    ASSUME NEW P, NEW a \in Seq(P), NEW p \in P
    PROVE  /\ Append(a, p) \in Seq(P) /\ Len(Append(a, p)) = Len(a) + 1
           /\ \A i \in 1 .. Len(a) : Append(a, p)[i] = a[i]
           /\ Append(a, p)[Len(a) + 1] = p
OBVIOUS

LEMMA SubSeqFacts ==
    ASSUME NEW P, NEW a \in Seq(P), NEW m \in 1 .. Len(a) + 1, NEW n \in 0 .. Len(a),
           m <= n + 1
    PROVE  /\ SubSeq(a, m, n) \in Seq(P) /\ Len(SubSeq(a, m, n)) = n - m + 1
           /\ \A i \in 1 .. n - m + 1 : SubSeq(a, m, n)[i] = a[m + i - 1]
OBVIOUS

LEMMA RemoveAtFacts ==
    ASSUME NEW P, NEW q \in Seq(P), NEW i \in 1 .. Len(q)
    PROVE  /\ RemoveAt(q, i) \in Seq(P) /\ Len(RemoveAt(q, i)) = Len(q) - 1
           /\ \A j \in 1 .. i - 1 : RemoveAt(q, i)[j] = q[j]
           /\ \A j \in i .. Len(q) - 1 : RemoveAt(q, i)[j] = q[j + 1]
           /\ q = Append(SubSeq(q, 1, i - 1), q[i]) \o SubSeq(q, i + 1, Len(q))
<1> DEFINE a == SubSeq(q, 1, i - 1)
           b == SubSeq(q, i + 1, Len(q))
           c == Append(a, q[i])
<1>1. /\ a \in Seq(P) /\ Len(a) = i - 1
      /\ \A j \in 1 .. i - 1 : a[j] = q[j]
    BY SubSeqFacts
<1>2. /\ b \in Seq(P) /\ Len(b) = Len(q) - i
      /\ \A j \in 1 .. Len(q) - i : b[j] = q[i + j]
    BY SubSeqFacts
<1>3. RemoveAt(q, i) = a \o b
    BY DEF RemoveAt
<1> HIDE DEF a, b
<1>4. /\ c \in Seq(P) /\ Len(c) = i
      /\ \A j \in 1 .. i - 1 : c[j] = q[j]
      /\ c[i] = q[i]
    BY <1>1, AppendFacts
<1> HIDE DEF c
<1>5. /\ a \o b \in Seq(P) /\ Len(a \o b) = Len(q) - 1
      /\ \A j \in 1 .. i - 1 : (a \o b)[j] = q[j]
    BY <1>1, <1>2, ConcatFacts
<1>6. ASSUME NEW j \in i .. Len(q) - 1 PROVE (a \o b)[j] = q[j + 1]
    <2>1. (a \o b)[j] = b[j - (i - 1)]
        BY <1>1, <1>2, ConcatFacts
    <2>2. j - (i - 1) \in 1 .. Len(q) - i /\ i + (j - (i - 1)) = j + 1
        OBVIOUS
    <2> QED BY <1>2, <2>1, <2>2
<1>7. c \o b \in Seq(P) /\ Len(c \o b) = Len(q)
    <2>1. c \o b \in Seq(P) /\ Len(c \o b) = Len(c) + Len(b)
        BY <1>2, <1>4, ConcatFacts
    <2>2. i \in Int /\ Len(q) \in Int
        OBVIOUS
    <2> QED BY <1>2, <1>4, <2>1, <2>2
<1>8. ASSUME NEW j \in 1 .. Len(q) PROVE (c \o b)[j] = q[j]
    <2>1. CASE j <= i
        <3>1. (c \o b)[j] = c[j]
            BY <1>2, <1>4, <2>1, ConcatFacts
        <3> QED BY <1>4, <2>1, <3>1
    <2>2. CASE j > i
        <3>1. (c \o b)[j] = b[j - i]
            <4>1. j \in Len(c) + 1 .. Len(c) + Len(b)
                BY <1>2, <1>4, <2>2
            <4>2. (c \o b)[j] = b[j - Len(c)]
                BY <1>2, <1>4, <4>1, ConcatFacts
            <4> QED BY <1>4, <4>2
        <3>2. j - i \in 1 .. Len(q) - i /\ i + (j - i) = j
            BY <2>2
        <3>3. b[j - i] = q[i + (j - i)]
            <4> DEFINE d == j - i
            <4>1. d \in 1 .. Len(q) - i
                BY <3>2
            <4> HIDE DEF d
            <4>2. b[d] = q[i + d]
                BY <1>2, <4>1
            <4> QED BY <4>2 DEF d
        <3>4. q[i + (j - i)] = q[j]
            BY <3>2
        <3> QED BY <3>1, <3>3, <3>4
    <2>3. i \in Int /\ j \in Int
        OBVIOUS
    <2>4. j <= i \/ j > i
        BY <2>3
    <2> HIDE DEF c
    <2> QED BY <2>1, <2>2, <2>4, Zenon
<1>9. q = c \o b
    BY <1>7, <1>8, SeqEq
<1> QED BY <1>3, <1>5, <1>6, <1>9 DEF a, b, c

LEMMA SizeType ==
    ASSUME NEW p \in PacketType
    PROVE  Size(p) \in Nat /\ Cardinality(p.frames) \in Nat /\ IsFiniteSet(p.frames)
<1>1. IsFiniteSet(Frames)
    <2>1. IsFiniteSet({}) /\ IsFiniteSet({} \cup {"ack"})
        BY FS_EmptySet, FS_AddElement
    <2>2. IsFiniteSet(({} \cup {"ack"}) \cup {"stream"})
        BY <2>1, FS_AddElement
    <2>3. IsFiniteSet((({} \cup {"ack"}) \cup {"stream"}) \cup {"ctl"})
        BY <2>2, FS_AddElement
    <2>4. Frames = ((({} \cup {"ack"}) \cup {"stream"}) \cup {"ctl"})
        BY DEF Frames
    <2> QED BY <2>3, <2>4
<1>2. p.frames \in SUBSET Frames
    BY DEF PacketType
<1>3. IsFiniteSet(p.frames)
    BY <1>1, <1>2, FS_Subset
<1> QED BY <1>3, FS_CardinalityType DEF Size

(***************************************************************************)
(* BytesOf(q), by its recursion.                                           *)
(***************************************************************************)
BytesAt(q, g, i) == IF i = 0 THEN 0 ELSE g[i - 1] + Size(q[i])
Adds(g, q) == \A i \in 0 .. Len(q) : g[i] = BytesAt(q, g, i)

LEMMA BytesExists ==
    ASSUME NEW q, NEW k \in Nat
    PROVE  \E g : g = [i \in 0 .. k |-> BytesAt(q, g, i)]
<1> DEFINE P(n) == \E g : g = [i \in 0 .. n |-> BytesAt(q, g, i)]
           T == {n \in Nat : ~P(n)}
<1>1. SUFFICES ASSUME T # {} PROVE FALSE
    OBVIOUS
<1>2. PICK n \in T : \A m \in T : n <= m
    BY <1>1, Least
<1>3. n # 0
    <2> DEFINE g == [i \in 0 .. 0 |-> 0]
    <2>1. g = [i \in 0 .. 0 |-> BytesAt(q, g, i)]
        BY DEF BytesAt
    <2> QED BY <1>2, <2>1
<1>4. n - 1 \in Nat /\ n - 1 \notin T
    BY <1>2, <1>3
<1>5. PICK g : g = [i \in 0 .. n - 1 |-> BytesAt(q, g, i)]
    BY <1>4
<1> DEFINE h == [i \in 0 .. n |-> BytesAt(q, g, i)]
<1>6. \A i \in 0 .. n - 1 : h[i] = g[i]
    BY <1>4, <1>5
<1>7. ASSUME NEW i \in 0 .. n PROVE h[i] = BytesAt(q, h, i)
    <2>1. h[i] = BytesAt(q, g, i)
        OBVIOUS
    <2>2. i # 0 => h[i - 1] = g[i - 1]
        <3>1. i # 0 => i - 1 \in 0 .. n - 1
            BY <1>4
        <3> HIDE DEF h
        <3> QED BY <1>6, <3>1
    <2> HIDE DEF h
    <2> QED BY <2>1, <2>2 DEF BytesAt
<1>8. h = [i \in 0 .. n |-> BytesAt(q, h, i)]
    BY <1>7, Zenon
<1> QED BY <1>2, <1>8

LEMMA BytesRec ==
    ASSUME NEW q, Len(q) \in Nat
    PROVE  \E g : Adds(g, q) /\ BytesOf(q) = g[Len(q)]
<1> DEFINE g == CHOOSE g : g = [i \in 0 .. Len(q) |-> BytesAt(q, g, i)]
<1>1. g = [i \in 0 .. Len(q) |-> BytesAt(q, g, i)]
    BY BytesExists
<1>2. BytesOf(q) = g[Len(q)]
    BY DEF BytesOf, BytesAt
<1> HIDE DEF g
<1> QED BY <1>1, <1>2 DEF Adds

LEMMA AddsAt ==
    ASSUME NEW q \in Seq(PacketType), NEW g, Adds(g, q)
    PROVE  /\ g[0] = 0
           /\ \A i \in 1 .. Len(q) : g[i] = g[i - 1] + Size(q[i]) /\ Size(q[i]) \in Nat
<1>1. 0 \in 0 .. Len(q) /\ \A i \in 1 .. Len(q) : i \in 0 .. Len(q) /\ i # 0 /\ q[i] \in PacketType
    OBVIOUS
<1>2. g[0] = 0
    BY <1>1 DEF Adds, BytesAt
<1>3. \A i \in 1 .. Len(q) : g[i] = g[i - 1] + Size(q[i])
    BY <1>1 DEF Adds, BytesAt
<1> QED BY <1>1, <1>2, <1>3, SizeType

(* The bytes of the first packets are a number, and depend on their sizes. *)
LEMMA BytesPrefix ==
    ASSUME NEW q \in Seq(PacketType), NEW g, Adds(g, q),
           NEW r \in Seq(PacketType), NEW h, Adds(h, r),
           NEW n \in Nat, n <= Len(q), n <= Len(r),
           \A i \in 1 .. n : Size(q[i]) = Size(r[i])
    PROVE  g[n] \in Nat /\ g[n] = h[n]
<1> DEFINE Good(m) == g[m] \in Nat /\ g[m] = h[m]
           T == {m \in 0 .. n : ~Good(m)}
<1>1. Good(0)
    BY AddsAt
<1>2. ASSUME NEW m \in 1 .. n, Good(m - 1) PROVE Good(m)
    <2>0. m \in 1 .. Len(q) /\ m \in 1 .. Len(r)
        OBVIOUS
    <2>1. g[m] = g[m - 1] + Size(q[m]) /\ h[m] = h[m - 1] + Size(r[m])
        BY <2>0, AddsAt
    <2>2. Size(q[m]) \in Nat /\ Size(q[m]) = Size(r[m])
        BY <2>0, AddsAt
    <2> QED BY <1>2, <2>1, <2>2
<1> HIDE DEF Good
<1>3. T = {}
    <2> SUFFICES ASSUME T # {} PROVE FALSE
        OBVIOUS
    <2>1. PICK m \in T : \A l \in T : m <= l
        <3>1. T \in SUBSET Nat
            OBVIOUS
        <3> HIDE DEF T
        <3> QED BY <3>1, Least
    <2>2. m # 0
        BY <1>1
    <2>3. m \in 1 .. n /\ m - 1 \notin T
        BY <2>1, <2>2
    <2> QED BY <1>2, <2>1, <2>3
<1> QED BY <1>3 DEF Good

LEMMA BytesType ==
    ASSUME NEW q \in Seq(PacketType)
    PROVE  BytesOf(q) \in Nat
<1>1. PICK g : Adds(g, q) /\ BytesOf(q) = g[Len(q)]
    BY BytesRec
<1>2. Len(q) \in Nat /\ Len(q) \in 0 .. Len(q)
    OBVIOUS
<1> QED BY <1>1, <1>2, BytesPrefix

LEMMA BytesEmpty == BytesOf(<< >>) = 0
<1>1. PICK g : Adds(g, << >>) /\ BytesOf(<< >>) = g[0]
    BY BytesRec
<1> QED BY <1>1 DEF Adds, BytesAt

LEMMA BytesSame ==
    ASSUME NEW q \in Seq(PacketType), NEW r \in Seq(PacketType), Len(q) = Len(r),
           \A i \in 1 .. Len(q) : Size(q[i]) = Size(r[i])
    PROVE  BytesOf(q) = BytesOf(r)
<1>1. PICK g : Adds(g, q) /\ BytesOf(q) = g[Len(q)]
    BY BytesRec
<1>2. PICK h : Adds(h, r) /\ BytesOf(r) = h[Len(r)]
    BY BytesRec
<1>3. Len(q) \in Nat /\ Len(q) <= Len(q) /\ Len(q) <= Len(r)
    OBVIOUS
<1>4. g[Len(q)] = h[Len(q)]
    BY <1>1, <1>2, <1>3, BytesPrefix
<1> QED BY <1>1, <1>2, <1>4

LEMMA BytesAppend ==
    ASSUME NEW q \in Seq(PacketType), NEW p \in PacketType
    PROVE  BytesOf(Append(q, p)) = BytesOf(q) + Size(p)
<1> DEFINE r == Append(q, p)
<1>1. r \in Seq(PacketType) /\ Len(r) = Len(q) + 1 /\ r[Len(q) + 1] = p
      /\ \A i \in 1 .. Len(q) : r[i] = q[i]
    OBVIOUS
<1> HIDE DEF r
<1>2. PICK g : Adds(g, q) /\ BytesOf(q) = g[Len(q)]
    BY BytesRec
<1>3. PICK h : Adds(h, r) /\ BytesOf(r) = h[Len(r)]
    BY <1>1, BytesRec
<1>4. g[Len(q)] = h[Len(q)]
    BY <1>1, <1>2, <1>3, BytesPrefix
<1>5. h[Len(r)] = h[Len(q)] + Size(p)
    BY <1>1, <1>3 DEF Adds, BytesAt
<1> QED BY <1>2, <1>3, <1>4, <1>5 DEF r

(* Two queues in a row. *)
LEMMA BytesConcat ==
    ASSUME NEW q \in Seq(PacketType), NEW r \in Seq(PacketType)
    PROVE  BytesOf(q \o r) = BytesOf(q) + BytesOf(r)
<1> DEFINE c == q \o r
<1>1. /\ c \in Seq(PacketType) /\ Len(c) = Len(q) + Len(r)
      /\ \A i \in 1 .. Len(q) : c[i] = q[i]
      /\ \A i \in 1 .. Len(r) : c[Len(q) + i] = r[i]
    BY ConcatFacts
<1>0. Len(c) \in Nat /\ Len(q) \in Nat /\ Len(r) \in Nat
    BY <1>1, LenNat
<1> HIDE DEF c
<1>2. PICK g : Adds(g, q) /\ BytesOf(q) = g[Len(q)]
    BY BytesRec
<1>3. PICK h : Adds(h, r) /\ BytesOf(r) = h[Len(r)]
    BY BytesRec
<1>4. PICK k : Adds(k, c) /\ BytesOf(c) = k[Len(c)]
    BY <1>0, BytesRec
<1>5. k[Len(q)] = g[Len(q)] /\ g[Len(q)] \in Nat
    <2>1. \A i \in 1 .. Len(q) : Size(q[i]) = Size(c[i])
        BY <1>1
    <2>2. Len(q) <= Len(q) /\ Len(q) <= Len(c)
        BY <1>0, <1>1
    <2>3. c \in Seq(PacketType)
        BY <1>1
    <2> QED BY <1>0, <1>2, <1>4, <2>1, <2>2, <2>3, BytesPrefix
<1> DEFINE Good(m) == h[m] \in Nat /\ k[Len(q) + m] = g[Len(q)] + h[m]
           T == {m \in 0 .. Len(r) : ~Good(m)}
<1>6. Good(0)
    <2>1. h[0] = 0
        BY <1>3, AddsAt
    <2> QED BY <1>5, <2>1
<1>7. ASSUME NEW m \in 1 .. Len(r), Good(m - 1) PROVE Good(m)
    <2>1. h[m] = h[m - 1] + Size(r[m])
        BY <1>3, AddsAt
    <2>2. k[Len(q) + m] = k[Len(q) + m - 1] + Size(c[Len(q) + m])
        <3>1. Len(q) + m \in 1 .. Len(c)
            BY <1>1
        <3>2. c \in Seq(PacketType)
            BY <1>1
        <3>3. k[Len(q) + m] = k[(Len(q) + m) - 1] + Size(c[Len(q) + m])
            BY <1>4, <3>1, <3>2, AddsAt
        <3> QED BY <3>3
    <2>3. c[Len(q) + m] = r[m] /\ Size(r[m]) \in Nat
        <3>1. r[m] \in PacketType
            OBVIOUS
        <3> QED BY <1>1, <3>1, SizeType
    <2>4. Len(q) + m - 1 = Len(q) + (m - 1)
        OBVIOUS
    <2> QED BY <1>5, <1>7, <2>1, <2>2, <2>3, <2>4
<1> HIDE DEF Good
<1>8. T = {}
    <2> SUFFICES ASSUME T # {} PROVE FALSE
        OBVIOUS
    <2>1. PICK m \in T : \A l \in T : m <= l
        <3>1. T \in SUBSET Nat
            OBVIOUS
        <3> HIDE DEF T
        <3> QED BY <3>1, Least
    <2>2. m # 0
        BY <1>6
    <2>3. m \in 1 .. Len(r) /\ m - 1 \notin T
        BY <2>1, <2>2
    <2> QED BY <1>7, <2>1, <2>3
<1>9. Good(Len(r))
    BY <1>8
<1> QED BY <1>1, <1>2, <1>3, <1>4, <1>9 DEF Good, c

(* One packet among the others. *)
LEMMA BytesSplit ==
    ASSUME NEW q \in Seq(PacketType), NEW i \in 1 .. Len(q)
    PROVE  BytesOf(q) = BytesOf(RemoveAt(q, i)) + Size(q[i])
<1> DEFINE a == SubSeq(q, 1, i - 1)
           b == SubSeq(q, i + 1, Len(q))
           c == Append(a, q[i])
<1>1. a \in Seq(PacketType) /\ b \in Seq(PacketType) /\ q[i] \in PacketType
    BY SubSeqFacts
<1>2. c \in Seq(PacketType)
    BY <1>1, AppendFacts
<1>3. q = c \o b
    BY RemoveAtFacts
<1>4. RemoveAt(q, i) = a \o b
    BY DEF RemoveAt
<1> HIDE DEF a, b, c
<1>5. BytesOf(q) = BytesOf(c) + BytesOf(b) /\ BytesOf(RemoveAt(q, i)) = BytesOf(a) + BytesOf(b)
    BY <1>1, <1>2, <1>3, <1>4, BytesConcat
<1>6. BytesOf(c) = BytesOf(a) + Size(q[i])
    BY <1>1, BytesAppend DEF c
<1> QED BY <1>1, <1>5, <1>6, BytesType, SizeType

(* One packet is replaced. *)
LEMMA BytesUpdate ==
    ASSUME NEW q \in Seq(PacketType), NEW r \in Seq(PacketType), Len(q) = Len(r),
           NEW i \in 1 .. Len(q), \A j \in 1 .. Len(q) : j # i => r[j] = q[j]
    PROVE  BytesOf(r) = BytesOf(q) - Size(q[i]) + Size(r[i])
<1> DEFINE a == RemoveAt(q, i)
           b == RemoveAt(r, i)
<1>0. i \in 1 .. Len(r)
    OBVIOUS
<1>1. /\ a \in Seq(PacketType) /\ Len(a) = Len(q) - 1
      /\ \A j \in 1 .. i - 1 : a[j] = q[j]
      /\ \A j \in i .. Len(q) - 1 : a[j] = q[j + 1]
    BY RemoveAtFacts
<1>2. /\ b \in Seq(PacketType) /\ Len(b) = Len(r) - 1
      /\ \A j \in 1 .. i - 1 : b[j] = r[j]
      /\ \A j \in i .. Len(r) - 1 : b[j] = r[j + 1]
    BY <1>0, RemoveAtFacts
<1>3. BytesOf(q) = BytesOf(a) + Size(q[i])
    BY BytesSplit
<1>4. BytesOf(r) = BytesOf(b) + Size(r[i])
    BY <1>0, BytesSplit
<1>5. q[i] \in PacketType /\ r[i] \in PacketType
    OBVIOUS
<1> HIDE DEF a, b
<1>6. a = b
    <2>1. ASSUME NEW j \in 1 .. Len(a) PROVE a[j] = b[j]
        <3>1. CASE j < i
            <4>1. j \in 1 .. i - 1 /\ j \in 1 .. Len(q) /\ j # i
                BY <1>1, <3>1
            <4> QED BY <1>1, <1>2, <4>1
        <3>2. CASE j >= i
            <4>1. j \in i .. Len(q) - 1 /\ j + 1 \in 1 .. Len(q) /\ j + 1 # i
                BY <1>1, <3>2
            <4>2. a[j] = q[j + 1] /\ b[j] = r[j + 1]
                BY <1>1, <1>2, <4>1
            <4> QED BY <4>1, <4>2
        <3> QED BY <3>1, <3>2
    <2>2. Len(a) = Len(b)
        BY <1>1, <1>2
    <2> QED BY <1>1, <1>2, <2>1, <2>2, SeqEq
<1>7. BytesOf(a) \in Nat /\ Size(q[i]) \in Nat /\ Size(r[i]) \in Nat
    BY <1>1, <1>5, BytesType, SizeType
<1> QED BY <1>3, <1>4, <1>6, <1>7

(* The bytes of a queue are those of its packets in S and of the others. *)
LEMMA BytesOnly ==
    ASSUME NEW q \in Seq(PacketType), NEW S, NEW R,
           \A i \in 1 .. Len(q) : q[i] \in R <=> q[i] \notin S
    PROVE  BytesOf(q) = BytesOf(Only(q, S)) + BytesOf(Only(q, R))
<1>0. Len(q) \in Nat
    BY LenNat
<1>1. PICK g : Adds(g, q) /\ BytesOf(q) = g[Len(q)]
    BY <1>0, BytesRec
<1>2. PICK a : /\ Only(q, S) = a[Len(q)]
               /\ \A i \in 0 .. Len(q) : a[i] = OnlyAt(q, S, a, i)
    BY <1>0, OnlyRec
<1>3. PICK b : /\ Only(q, R) = b[Len(q)]
               /\ \A i \in 0 .. Len(q) : b[i] = OnlyAt(q, R, b, i)
    BY <1>0, OnlyRec
<1> DEFINE Good(m) == /\ a[m] \in Seq(PacketType) /\ b[m] \in Seq(PacketType)
                      /\ g[m] = BytesOf(a[m]) + BytesOf(b[m])
           T == {m \in 0 .. Len(q) : ~Good(m)}
<1>4. Good(0)
    <2>1. 0 \in 0 .. Len(q)
        BY <1>0
    <2>2. a[0] = << >> /\ b[0] = << >>
        BY <1>2, <1>3, <2>1 DEF OnlyAt
    <2>3. g[0] = 0
        BY <1>1, AddsAt
    <2> QED BY <2>2, <2>3, BytesEmpty
<1>5. ASSUME NEW m \in 1 .. Len(q), Good(m - 1) PROVE Good(m)
    <2>1. m \in 0 .. Len(q) /\ m # 0 /\ q[m] \in PacketType
        OBVIOUS
    <2>2. /\ a[m] = IF q[m] \in S THEN Append(a[m - 1], q[m]) ELSE a[m - 1]
          /\ b[m] = IF q[m] \in R THEN Append(b[m - 1], q[m]) ELSE b[m - 1]
        BY <1>2, <1>3, <2>1 DEF OnlyAt
    <2>3. g[m] = g[m - 1] + Size(q[m]) /\ Size(q[m]) \in Nat
        BY <1>1, AddsAt
    <2>4. BytesOf(a[m - 1]) \in Nat /\ BytesOf(b[m - 1]) \in Nat
        BY <1>5, BytesType
    <2>5. CASE q[m] \in S
        <3>1. a[m] = Append(a[m - 1], q[m]) /\ b[m] = b[m - 1]
            BY <2>2, <2>5
        <3>2. BytesOf(a[m]) = BytesOf(a[m - 1]) + Size(q[m]) /\ a[m] \in Seq(PacketType)
            BY <1>5, <2>1, <3>1, BytesAppend, AppendFacts
        <3> QED BY <1>5, <2>3, <2>4, <3>1, <3>2
    <2>6. CASE q[m] \notin S
        <3>1. b[m] = Append(b[m - 1], q[m]) /\ a[m] = a[m - 1]
            BY <2>2, <2>6
        <3>2. BytesOf(b[m]) = BytesOf(b[m - 1]) + Size(q[m]) /\ b[m] \in Seq(PacketType)
            BY <1>5, <2>1, <3>1, BytesAppend, AppendFacts
        <3> QED BY <1>5, <2>3, <2>4, <3>1, <3>2
    <2> QED BY <2>5, <2>6
<1> HIDE DEF Good
<1>6. T = {}
    <2> SUFFICES ASSUME T # {} PROVE FALSE
        OBVIOUS
    <2>1. PICK m \in T : \A l \in T : m <= l
        <3>1. T \in SUBSET Nat
            OBVIOUS
        <3> HIDE DEF T
        <3> QED BY <3>1, Least
    <2>2. m # 0
        BY <1>4
    <2>3. m \in 1 .. Len(q) /\ m - 1 \notin T
        BY <2>1, <2>2
    <2> QED BY <1>5, <2>1, <2>3
<1>7. Good(Len(q))
    BY <1>0, <1>6
<1> QED BY <1>1, <1>2, <1>3, <1>7 DEF Good

(* Without its stream frame a packet has one byte less. *)
LEMMA ElidedFacts ==
    ASSUME NEW p \in PacketType
    PROVE  /\ Elided(p) \in PacketType
           /\ Size(p) = Size(Elided(p)) + (IF "stream" \in p.frames THEN 1 ELSE 0)
           /\ Elided(p).frames = p.frames \ {"stream"}
           /\ \A f \in {"no", "id", "rec", "re", "retx", "enc"} : Elided(p)[f] = p[f]
<1>1. Elided(p) \in PacketType /\ Elided(p).frames = p.frames \ {"stream"}
    BY DEF Elided, PacketType
<1>2. IsFiniteSet(p.frames) /\ Cardinality(p.frames) \in Nat
    BY SizeType
<1>3. Cardinality(p.frames) = Cardinality(p.frames \ {"stream"})
                                + (IF "stream" \in p.frames THEN 1 ELSE 0)
    <2>1. CASE "stream" \in p.frames
        <3>1. Cardinality(p.frames \ {"stream"}) = Cardinality(p.frames) - 1
            BY <1>2, <2>1, FS_RemoveElement
        <3> QED BY <1>2, <2>1, <3>1
    <2>2. CASE "stream" \notin p.frames
        <3>1. p.frames \ {"stream"} = p.frames
            BY <2>2
        <3> QED BY <1>2, <2>2, <3>1
    <2> QED BY <2>1, <2>2
<1>4. Cardinality(p.frames \ {"stream"}) \in Nat
    BY <1>1, SizeType
<1>5. Size(p) = Size(Elided(p)) + (IF "stream" \in p.frames THEN 1 ELSE 0)
    BY <1>1, <1>2, <1>3, <1>4 DEF Size
<1>6. \A f \in {"no", "id", "rec", "re", "retx", "enc"} : Elided(p)[f] = p[f]
    BY DEF Elided, PacketType
<1> QED BY <1>1, <1>5, <1>6

LEMMA BytesElided ==
    ASSUME NEW q \in Seq(PacketType)
    PROVE  /\ ElidedAll(q) \in Seq(PacketType) /\ Len(ElidedAll(q)) = Len(q)
           /\ \A i \in 1 .. Len(q) : ElidedAll(q)[i] = Elided(q[i])
           /\ BytesOf(ElidedAll(q)) =
                BytesOf(q) - Cardinality({i \in DOMAIN q : "stream" \in q[i].frames})
<1> DEFINE e == ElidedAll(q)
           C(m) == {i \in 1 .. m : "stream" \in q[i].frames}
<1>0. Len(q) \in Nat /\ DOMAIN q = 1 .. Len(q)
    BY LenNat
<1>1. \A i \in 1 .. Len(q) : q[i] \in PacketType /\ Elided(q[i]) \in PacketType
    BY ElidedFacts
<1>2. e \in Seq(PacketType) /\ Len(e) = Len(q) /\ \A i \in 1 .. Len(q) : e[i] = Elided(q[i])
    BY <1>0, <1>1 DEF ElidedAll
<1> HIDE DEF e
<1>3. PICK g : Adds(g, q) /\ BytesOf(q) = g[Len(q)]
    BY <1>0, BytesRec
<1>4. PICK h : Adds(h, e) /\ BytesOf(e) = h[Len(e)]
    BY <1>0, <1>2, BytesRec
<1> DEFINE Good(m) == /\ IsFiniteSet(C(m)) /\ Cardinality(C(m)) \in Nat
                      /\ h[m] \in Nat /\ g[m] = h[m] + Cardinality(C(m))
           T == {m \in 0 .. Len(q) : ~Good(m)}
<1>5. Good(0)
    <2>1. C(0) = {}
        OBVIOUS
    <2>2. g[0] = 0 /\ h[0] = 0
        BY <1>2, <1>3, <1>4, AddsAt
    <2> QED BY <2>1, <2>2, FS_EmptySet
<1>6. ASSUME NEW m \in 1 .. Len(q), Good(m - 1) PROVE Good(m)
    <2>1. g[m] = g[m - 1] + Size(q[m]) /\ Size(q[m]) \in Nat
        BY <1>3, AddsAt
    <2>2. h[m] = h[m - 1] + Size(e[m]) /\ Size(e[m]) \in Nat
        BY <1>2, <1>4, AddsAt
    <2>3. Size(q[m]) = Size(e[m]) + (IF "stream" \in q[m].frames THEN 1 ELSE 0)
        BY <1>1, <1>2, ElidedFacts
    <2>4. CASE "stream" \in q[m].frames
        <3>1. C(m) = C(m - 1) \cup {m} /\ m \notin C(m - 1)
            BY <2>4
        <3> HIDE DEF C
        <3>2. IsFiniteSet(C(m)) /\ Cardinality(C(m)) = Cardinality(C(m - 1)) + 1
            <4> DEFINE D == C(m - 1)
            <4>1. IsFiniteSet(D) /\ C(m) = D \cup {m} /\ m \notin D
                BY <1>6, <3>1
            <4> HIDE DEF D
            <4>2. IsFiniteSet(D \cup {m}) /\ Cardinality(D \cup {m}) = Cardinality(D) + 1
                BY <4>1, FS_AddElement
            <4> QED BY <4>1, <4>2 DEF D
        <3>3. Size(q[m]) = Size(e[m]) + 1
            BY <2>3, <2>4
        <3>4. /\ Cardinality(C(m - 1)) \in Nat /\ h[m - 1] \in Nat
              /\ g[m - 1] = h[m - 1] + Cardinality(C(m - 1))
            BY <1>6
        <3>5. h[m] \in Nat /\ Cardinality(C(m)) \in Nat
            BY <2>2, <3>2, <3>4
        <3>6. g[m] = h[m] + Cardinality(C(m))
            BY <2>1, <2>2, <3>2, <3>3, <3>4
        <3> QED BY <3>2, <3>5, <3>6
    <2>5. CASE "stream" \notin q[m].frames
        <3>1. C(m) = C(m - 1)
            <4>1. \A i \in 1 .. m : i = m \/ i \in 1 .. m - 1
                OBVIOUS
            <4>2. \A i \in 1 .. m - 1 : i \in 1 .. m
                OBVIOUS
            <4> QED BY <2>5, <4>1, <4>2
        <3> HIDE DEF C
        <3> QED BY <1>6, <2>1, <2>2, <2>3, <2>5, <3>1
    <2> QED BY <2>4, <2>5
<1> HIDE DEF Good
<1>7. T = {}
    <2> SUFFICES ASSUME T # {} PROVE FALSE
        OBVIOUS
    <2>1. PICK m \in T : \A l \in T : m <= l
        <3>1. T \in SUBSET Nat
            OBVIOUS
        <3> HIDE DEF T
        <3> QED BY <3>1, Least
    <2>2. m # 0
        BY <1>5
    <2>3. m \in 1 .. Len(q) /\ m - 1 \notin T
        BY <2>1, <2>2
    <2> QED BY <1>6, <2>1, <2>3
<1>8. Good(Len(q))
    BY <1>0, <1>7
<1>9. C(Len(q)) = {i \in DOMAIN q : "stream" \in q[i].frames}
    BY <1>0
<1>10. BytesOf(e) = BytesOf(q) - Cardinality({i \in DOMAIN q : "stream" \in q[i].frames})
    <2> HIDE DEF C
    <2> QED BY <1>2, <1>3, <1>4, <1>8, <1>9 DEF Good
<1> QED BY <1>2, <1>10 DEF e

-----------------------------------------------------------------------------
(***************************************************************************)
(* What a walk leaves of a queue, what RecordLoss and LostFrom make of the *)
(* Unacked Queue, and what DropPackets makes of the Scheduled Queue.       *)
(***************************************************************************)

(* r has what is left of q when packets are taken off it, all of them with ids in I. *)
LeftOf(r, q, I) ==
    /\ r \in Seq(PacketType)
    /\ \A i \in 1 .. Len(r) : \E k \in 1 .. Len(q) : r[i] = q[k]
    /\ \A i, j \in 1 .. Len(r) : i < j =>
         \E k, l \in 1 .. Len(q) : k < l /\ r[i] = q[k] /\ r[j] = q[l]
    /\ \A k \in 1 .. Len(q) : q[k].id \notin I => \E i \in 1 .. Len(r) : r[i] = q[k]

LEMMA InToSet ==
    ASSUME NEW P, NEW q \in Seq(P)
    PROVE  /\ \A i \in 1 .. Len(q) : q[i] \in ToSet(q)
           /\ \A x \in ToSet(q) : x \in P /\ \E i \in 1 .. Len(q) : x = q[i]
BY DEF ToSet

LEMMA WithoutFacts ==
    ASSUME NEW q \in Seq(PacketType), NEW I
    PROVE  /\ LeftOf(Without(q, I), q, I)
           /\ \A i \in 1 .. Len(Without(q, I)) : Without(q, I)[i].id \notin I
<1> DEFINE S == {p \in ToSet(q) : p.id \notin I}
           r == Only(q, S)
<1>1. /\ r \in Seq(PacketType)
      /\ \A i \in 1 .. Len(r) : r[i] \in S /\ \E k \in 1 .. Len(q) : r[i] = q[k]
      /\ \A k \in 1 .. Len(q) : q[k] \in S => \E i \in 1 .. Len(r) : r[i] = q[k]
      /\ \A i, j \in 1 .. Len(r) : i < j =>
           \E k, l \in 1 .. Len(q) : k < l /\ r[i] = q[k] /\ r[j] = q[l]
    <2> HIDE DEF S
    <2> QED BY OnlyFacts DEF IsOnly
<1>2. Without(q, I) = r
    BY DEF Without
<1>3. \A k \in 1 .. Len(q) : q[k] \in ToSet(q)
    BY InToSet
<1> HIDE DEF r
<1>4. LeftOf(r, q, I)
    BY <1>1, <1>3 DEF LeftOf
<1> QED BY <1>1, <1>2, <1>4

(***************************************************************************)
(* The loss of the packets of L on queue u.                                *)
(***************************************************************************)
Marked(p, L) == IF p \in L THEN [p EXCEPT !.rec = "record"] ELSE p

LEMMA MarkedFacts ==
    ASSUME NEW p \in PacketType, NEW L
    PROVE  /\ Marked(p, L) \in PacketType
           /\ \A f \in {"no", "id", "frames", "re", "retx", "enc"} : Marked(p, L)[f] = p[f]
           /\ Marked(p, L).rec = IF p \in L THEN "record" ELSE p.rec
BY DEF Marked, PacketType

IsRecorded(r, u, L) ==
    /\ r \in Seq(PacketType)
    /\ \A i \in 1 .. Len(r) :
         /\ \E k \in 1 .. Len(u) : r[i] = Marked(u[k], L)
         /\ \A p \in L : ~HasData(p) => r[i].id # p.id
    /\ \A i, j \in 1 .. Len(r) : i < j =>
         \E k, l \in 1 .. Len(u) :
            k < l /\ r[i] = Marked(u[k], L) /\ r[j] = Marked(u[l], L)
    /\ \A k \in 1 .. Len(u) :
         /\ u[k] \notin L /\ IsReal(u[k])
         /\ \A p \in L : ~HasData(p) => u[k].id # p.id
         => \E i \in 1 .. Len(r) : r[i] = u[k]

LEMMA RecordLossAre ==
    ASSUME NEW u \in Seq(PacketType), NEW L, NEW recorded \in BOOLEAN,
           NEW r, r = RecordLoss(u, L, recorded)
    PROVE  IsRecorded(r, u, L)
<1> USE DEF IsRecorded
<1> DEFINE gone == {p.id : p \in {x \in L : ~HasData(x)}}
           m == [i \in DOMAIN u |-> Marked(u[i], L)]
           S == {p \in ToSet(m) : /\ p.id \notin gone
                                  /\ recorded \/ [p EXCEPT !.rec = "packet"] \notin L}
<1>1. r = Only(m, S)
    BY DEF RecordLoss, Marked
<1>2. /\ m \in Seq(PacketType) /\ Len(m) = Len(u)
      /\ \A i \in 1 .. Len(u) : m[i] = Marked(u[i], L)
    <2>1. \A i \in 1 .. Len(u) : Marked(u[i], L) \in PacketType
        BY MarkedFacts
    <2> QED BY <2>1, LenNat
<1>3. \A x : x \in S <=> /\ \E i \in 1 .. Len(u) : x = m[i]
                         /\ \A p \in L : ~HasData(p) => x.id # p.id
                         /\ recorded \/ [x EXCEPT !.rec = "packet"] \notin L
    <2>1. \A x : x \in ToSet(m) <=> \E i \in 1 .. Len(u) : x = m[i]
        <3> HIDE DEF m
        <3> QED BY <1>2, InToSet
    <2>2. \A x : x.id \notin gone <=> \A p \in L : ~HasData(p) => x.id # p.id
        OBVIOUS
    <2> HIDE DEF m, gone
    <2> QED BY <2>1, <2>2
<1> HIDE DEF m, S, gone
<1>4. /\ r \in Seq(PacketType)
      /\ \A i \in 1 .. Len(r) : r[i] \in S /\ \E k \in 1 .. Len(m) : r[i] = m[k]
      /\ \A k \in 1 .. Len(m) : m[k] \in S => \E i \in 1 .. Len(r) : r[i] = m[k]
      /\ \A i, j \in 1 .. Len(r) : i < j =>
           \E k, l \in 1 .. Len(m) : k < l /\ r[i] = m[k] /\ r[j] = m[l]
    <2>1. m \in Seq(PacketType)
        BY <1>2
    <2>2. IsOnly(r, PacketType, m, S)
        BY <1>1, <2>1, OnlyFacts
    <2> QED BY <2>2 DEF IsOnly
<1>5. ASSUME NEW i \in 1 .. Len(r)
      PROVE  /\ \E k \in 1 .. Len(u) : r[i] = Marked(u[k], L)
             /\ \A p \in L : ~HasData(p) => r[i].id # p.id
    <2>1. PICK k \in 1 .. Len(m) : r[i] = m[k]
        BY <1>4
    <2>2. k \in 1 .. Len(u) /\ r[i] = Marked(u[k], L)
        BY <1>2, <2>1
    <2>3. r[i] \in S
        BY <1>4
    <2> QED BY <1>3, <2>2, <2>3
<1>6. ASSUME NEW i \in 1 .. Len(r), NEW j \in 1 .. Len(r), i < j
      PROVE  \E k, l \in 1 .. Len(u) :
                   k < l /\ r[i] = Marked(u[k], L) /\ r[j] = Marked(u[l], L)
    <2>1. PICK k, l \in 1 .. Len(m) : k < l /\ r[i] = m[k] /\ r[j] = m[l]
        BY <1>4, <1>6
    <2>2. /\ k \in 1 .. Len(u) /\ r[i] = Marked(u[k], L)
          /\ l \in 1 .. Len(u) /\ r[j] = Marked(u[l], L)
        BY <1>2, <2>1
    <2> QED BY <2>1, <2>2
<1>7. ASSUME NEW k \in 1 .. Len(u), u[k] \notin L, IsReal(u[k]),
             \A p \in L : ~HasData(p) => u[k].id # p.id
      PROVE  \E i \in 1 .. Len(r) : r[i] = u[k]
    <2>1. m[k] = u[k]
        BY <1>2, <1>7 DEF Marked
    <2>2. u[k] \in PacketType
        OBVIOUS
    <2>3. [u[k] EXCEPT !.rec = "packet"] = u[k]
        BY <1>7, <2>2 DEF IsReal, PacketType
    <2>4. u[k] \in S
        BY <1>3, <1>7, <2>1, <2>3
    <2>5. k \in 1 .. Len(m) /\ m[k] \in S
        BY <1>2, <2>1, <2>4
    <2>6. \E i \in 1 .. Len(r) : r[i] = m[k]
        BY <1>4, <2>5
    <2> QED BY <2>1, <2>6
<1> QED BY <1>4, <1>5, <1>6, <1>7

LEMMA RecordLossFacts ==
    ASSUME NEW u \in Seq(PacketType), NEW L, NEW recorded \in BOOLEAN
    PROVE  IsRecorded(RecordLoss(u, L, recorded), u, L)
<1> DEFINE r == RecordLoss(u, L, recorded)
<1>1. r = RecordLoss(u, L, recorded)
    OBVIOUS
<1> HIDE DEF r
<1>2. IsRecorded(r, u, L)
    BY <1>1, RecordLossAre
<1> QED BY <1>2 DEF r

(* The lost packets with data, for the Lost Queue. *)
IsLost(r, u, L) ==
    /\ r \in Seq(PacketType)
    /\ \A i \in 1 .. Len(r) :
         r[i] \in L /\ HasData(r[i]) /\ \E k \in 1 .. Len(u) : r[i] = u[k]
    /\ \A i, j \in 1 .. Len(r) : i < j =>
         \E k, l \in 1 .. Len(u) : k < l /\ r[i] = u[k] /\ r[j] = u[l]
    /\ \A k \in 1 .. Len(u) :
         u[k] \in L /\ HasData(u[k]) => \E i \in 1 .. Len(r) : r[i] = u[k]

LEMMA LostFromAre ==
    ASSUME NEW u \in Seq(PacketType), NEW L, NEW r, r = LostFrom(u, L)
    PROVE  IsLost(r, u, L)
<1> USE DEF IsLost
<1> DEFINE S == {p \in L : HasData(p)}
<1>1. r = Only(u, S)
    BY DEF LostFrom
<1>2. \A x : x \in S <=> x \in L /\ HasData(x)
    OBVIOUS
<1> HIDE DEF S
<1>3. /\ r \in Seq(PacketType)
      /\ \A i \in 1 .. Len(r) : r[i] \in S /\ \E k \in 1 .. Len(u) : r[i] = u[k]
      /\ \A k \in 1 .. Len(u) : u[k] \in S => \E i \in 1 .. Len(r) : r[i] = u[k]
      /\ \A i, j \in 1 .. Len(r) : i < j =>
           \E k, l \in 1 .. Len(u) : k < l /\ r[i] = u[k] /\ r[j] = u[l]
    <2>1. IsOnly(r, PacketType, u, S)
        BY <1>1, OnlyFacts
    <2> QED BY <2>1 DEF IsOnly
<1>4. \A i \in 1 .. Len(r) :
        r[i] \in L /\ HasData(r[i]) /\ \E k \in 1 .. Len(u) : r[i] = u[k]
    BY <1>2, <1>3
<1>5. \A k \in 1 .. Len(u) :
        u[k] \in L /\ HasData(u[k]) => \E i \in 1 .. Len(r) : r[i] = u[k]
    BY <1>2, <1>3
<1> QED BY <1>3, <1>4, <1>5

LEMMA LostFromFacts ==
    ASSUME NEW u \in Seq(PacketType), NEW L
    PROVE  IsLost(LostFrom(u, L), u, L)
<1> DEFINE r == LostFrom(u, L)
<1>1. r = LostFrom(u, L)
    OBVIOUS
<1> HIDE DEF r
<1>2. IsLost(r, u, L)
    BY <1>1, LostFromAre
<1> QED BY <1>2 DEF r

(***************************************************************************)
(* The packets of D are dropped from queue q.                              *)
(***************************************************************************)
IsDrop(s, q, bytes, D) ==
    /\ s \in [q : Seq(PacketType), bytes : Int, ids : SUBSET Nat]
    /\ LeftOf(s.q, q, s.ids)
    /\ \A i \in 1 .. Len(s.q) : s.q[i] \notin D
    /\ \A k \in 1 .. Len(q) :
         q[k] \notin D => \E i \in 1 .. Len(s.q) : s.q[i] = q[k]
    /\ \A id : id \in s.ids <=> \E k \in 1 .. Len(q) : q[k] \in D /\ q[k].id = id
    /\ s.ids = {} => s.q = q
    /\ BytesOf(s.q) - s.bytes = BytesOf(q) - bytes

LEMMA DropPacketsAre ==
    ASSUME NEW q \in Seq(PacketType), NEW bytes \in Int, NEW D,
           NEW s, s = DropPackets(q, bytes, D)
    PROVE  IsDrop(s, q, bytes, D)
<1> USE DEF IsDrop
<1> DEFINE R == ToSet(q) \ D
           r == Only(q, R)
           d == Only(q, D)
           ids == {p.id : p \in ToSet(q) \cap D}
<1>1. s = [q |-> r, bytes |-> bytes - BytesOf(d), ids |-> ids]
    BY DEF DropPackets
<1>2. \A k \in 1 .. Len(q) : q[k] \in R <=> q[k] \notin D
    BY InToSet
<1>3. \A id : id \in ids <=> \E k \in 1 .. Len(q) : q[k] \in D /\ q[k].id = id
    BY InToSet
<1>4. ids \subseteq Nat
    <2>1. \A p \in ToSet(q) : p \in PacketType
        BY InToSet
    <2>2. \A p \in PacketType : p.id \in Nat
        BY DEF PacketType
    <2> QED BY <2>1, <2>2
<1> HIDE DEF R, ids
<1>5. /\ r \in Seq(PacketType)
      /\ \A i \in 1 .. Len(r) : r[i] \in R /\ \E k \in 1 .. Len(q) : r[i] = q[k]
      /\ \A k \in 1 .. Len(q) : q[k] \in R => \E i \in 1 .. Len(r) : r[i] = q[k]
      /\ \A i, j \in 1 .. Len(r) : i < j =>
           \E k, l \in 1 .. Len(q) : k < l /\ r[i] = q[k] /\ r[j] = q[l]
      /\ (\A k \in 1 .. Len(q) : q[k] \in R) => r = q
    BY OnlyFacts DEF IsOnly
<1>6. d \in Seq(PacketType)
    BY OnlyFacts DEF IsOnly
<1>7. BytesOf(q) = BytesOf(d) + BytesOf(r)
    BY <1>2, BytesOnly
<1>8. BytesOf(d) \in Nat /\ BytesOf(r) \in Nat
    BY <1>5, <1>6, BytesType
<1> HIDE DEF r, d
<1>9. s.q = r /\ s.bytes = bytes - BytesOf(d) /\ s.ids = ids
    BY <1>1
<1>10. s \in [q : Seq(PacketType), bytes : Int, ids : SUBSET Nat]
    BY <1>1, <1>4, <1>5, <1>8
<1>11. \A k \in 1 .. Len(q) : q[k] \notin D => \E i \in 1 .. Len(r) : r[i] = q[k]
    BY <1>2, <1>5
<1>12. LeftOf(r, q, ids)
    BY <1>3, <1>5, <1>11 DEF LeftOf
<1>13. \A i \in 1 .. Len(r) : r[i] \notin D
    BY <1>2, <1>5
<1>14. ids = {} => r = q
    BY <1>2, <1>3, <1>5
<1>15. BytesOf(r) - (bytes - BytesOf(d)) = BytesOf(q) - bytes
    BY <1>7, <1>8
<1> QED BY <1>3, <1>9, <1>10, <1>11, <1>12, <1>13, <1>14, <1>15

LEMMA DropPacketsFacts ==
    ASSUME NEW q \in Seq(PacketType), NEW bytes \in Int, NEW D
    PROVE  IsDrop(DropPackets(q, bytes, D), q, bytes, D)
<1> DEFINE s == DropPackets(q, bytes, D)
<1>1. s = DropPackets(q, bytes, D)
    OBVIOUS
<1> HIDE DEF s
<1>2. IsDrop(s, q, bytes, D)
    BY <1>1, DropPacketsAre
<1> QED BY <1>2 DEF s

-----------------------------------------------------------------------------
(***************************************************************************)
(* Numbered queues. The packets that are to be sent, first those of the    *)
(* batch and then those of the Scheduled Queue, carry the numbers that     *)
(* follow the largest one sent, up to the first packet that waits for a new*)
(* number; all after it wait for one.                                      *)
(***************************************************************************)

(* The packets of r are packets of q, but for PO_REPACKNO and the          *)
(* ciphertext, and in the same order; what is missing has an id in I.      *)
Like(p, o) == p.id = o.id /\ p.frames = o.frames /\ p.rec = o.rec /\ p.no = o.no
Kept(r, q, I) ==
    /\ r \in Seq(PacketType)
    /\ \A i \in 1 .. Len(r) : \E k \in 1 .. Len(q) : Like(r[i], q[k])
    /\ \A i, j \in 1 .. Len(r) : i < j =>
         \E k, l \in 1 .. Len(q) : k < l /\ Like(r[i], q[k]) /\ Like(r[j], q[l])
    /\ \A k \in 1 .. Len(q) : q[k].id \notin I => \E i \in 1 .. Len(r) : Like(r[i], q[k])

LEMMA LeftIsKept ==
    ASSUME NEW r, NEW q, NEW I, LeftOf(r, q, I)
    PROVE  Kept(r, q, I)
<1>1. \A i \in 1 .. Len(r) : \E k \in 1 .. Len(q) : Like(r[i], q[k])
    BY DEF LeftOf, Like
<1>2. ASSUME NEW i \in 1 .. Len(r), NEW j \in 1 .. Len(r), i < j
      PROVE  \E k, l \in 1 .. Len(q) : k < l /\ Like(r[i], q[k]) /\ Like(r[j], q[l])
    <2>1. PICK k, l \in 1 .. Len(q) : k < l /\ r[i] = q[k] /\ r[j] = q[l]
        BY <1>2 DEF LeftOf
    <2> QED BY <2>1 DEF Like
<1>3. \A k \in 1 .. Len(q) : q[k].id \notin I => \E i \in 1 .. Len(r) : Like(r[i], q[k])
    BY DEF LeftOf, Like
<1> QED BY <1>1, <1>2, <1>3 DEF LeftOf, Kept

LEMMA SameIsKept ==
    ASSUME NEW r \in Seq(PacketType), NEW q \in Seq(PacketType), Len(r) = Len(q),
           \A i \in 1 .. Len(q) : Like(r[i], q[i]), NEW I
    PROVE  Kept(r, q, I)
BY DEF Kept

LEMMA KeptTransitive ==
    ASSUME NEW r, NEW q, NEW p, NEW I, Kept(r, q, I), Kept(q, p, I)
    PROVE  Kept(r, p, I)
<1>0. \A a, b, c : Like(a, b) /\ Like(b, c) => Like(a, c)
    BY DEF Like
<1>1. ASSUME NEW i \in 1 .. Len(r) PROVE \E k \in 1 .. Len(p) : Like(r[i], p[k])
    <2>1. PICK k \in 1 .. Len(q) : Like(r[i], q[k])
        BY DEF Kept
    <2>2. PICK l \in 1 .. Len(p) : Like(q[k], p[l])
        BY DEF Kept
    <2> QED BY <1>0, <2>1, <2>2
<1>2. ASSUME NEW i \in 1 .. Len(r), NEW j \in 1 .. Len(r), i < j
      PROVE  \E k, l \in 1 .. Len(p) : k < l /\ Like(r[i], p[k]) /\ Like(r[j], p[l])
    <2>1. PICK k, l \in 1 .. Len(q) : k < l /\ Like(r[i], q[k]) /\ Like(r[j], q[l])
        BY <1>2 DEF Kept
    <2>2. PICK m, n \in 1 .. Len(p) : m < n /\ Like(q[k], p[m]) /\ Like(q[l], p[n])
        BY <2>1 DEF Kept
    <2> QED BY <1>0, <2>1, <2>2
<1>3. ASSUME NEW k \in 1 .. Len(p), p[k].id \notin I
      PROVE  \E i \in 1 .. Len(r) : Like(r[i], p[k])
    <2>1. PICK i \in 1 .. Len(q) : Like(q[i], p[k])
        BY <1>3 DEF Kept
    <2>2. q[i].id \notin I
        BY <1>3, <2>1 DEF Like
    <2>3. PICK j \in 1 .. Len(r) : Like(r[j], q[i])
        BY <2>2 DEF Kept
    <2> QED BY <1>0, <2>1, <2>3
<1> QED BY <1>1, <1>2, <1>3 DEF Kept

(***************************************************************************)
(* How packets are numbered: the first m packets of the batch and the      *)
(* Scheduled Queue have the numbers that follow lg, the largest one sent,  *)
(* without g, the one to be skipped; the others wait for new numbers.  c   *)
(* is sc_cur_packno.                                                       *)
(***************************************************************************)
Succ(n, g) == IF n + 1 = g THEN n + 2 ELSE n + 1
Before(q, i, lg) == IF i = 1 THEN lg ELSE q[i - 1].no

NumberedUpTo(m, q, lg, c, g) ==
    /\ \A i \in 1 .. m :
         /\ ~q[i].re
         /\ q[i].no = Succ(Before(q, i, lg), g)
         /\ q[i].no > lg /\ q[i].no # g
    /\ \A i, j \in 1 .. m : i < j => q[i].no < q[j].no
    /\ \A i \in m + 1 .. Len(q) : q[i].re
    /\ c >= Before(q, m + 1, lg) /\ Succ(c, g) = Succ(Before(q, m + 1, lg), g)
Numbered(q, lg, c, g) == \E m \in 0 .. Len(q) : NumberedUpTo(m, q, lg, c, g)

LEMMA FirstWithId ==
    ASSUME NEW q \in Seq(PacketType), NEW id,
           NEW i, i = SelectInSeq(q, LAMBDA p : p.id = id)
    PROVE  \/ i = 0 /\ \A k \in 1 .. Len(q) : q[k].id # id
           \/ i \in 1 .. Len(q) /\ q[i].id = id
<1> DEFINE I == {k \in 1 .. Len(q) : q[k].id = id}
<1>1. i = IF I # {} THEN Min(I) ELSE 0
    BY DEF SelectInSeq
<1>2. CASE I = {}
    BY <1>1, <1>2
<1>3. CASE I # {}
    <2>1. I \in SUBSET Nat
        OBVIOUS
    <2> HIDE DEF I
    <2>2. \E n \in I : \A m \in I : n <= m
        BY <1>3, <2>1, Least
    <2>3. Min(I) \in I
        BY <2>2 DEF Min
    <2> USE DEF I
    <2> QED BY <1>1, <1>3, <2>3
<1> QED BY <1>2, <1>3

LEMMA RenumberedFacts ==
    ASSUME NEW q \in Seq(PacketType), NEW i \in 1 .. Len(q)
    PROVE  /\ RenumberToRight(q, i) \in Seq(PacketType)
           /\ Len(RenumberToRight(q, i)) = Len(q)
           /\ \A j \in 1 .. Len(q) :
                /\ Like(RenumberToRight(q, i)[j], q[j])
                /\ RenumberToRight(q, i)[j].re =
                     (q[j].re \/ (j > i /\ \A k \in i .. j : ~q[k].re))
<1> DEFINE r == RenumberToRight(q, i)
           X(j) == j > i /\ \A k \in i .. j : ~q[k].re
<1>0. DOMAIN q = 1 .. Len(q) /\ Len(q) \in Nat
    BY LenNat
<1>1. r = [j \in 1 .. Len(q) |-> IF X(j) THEN [q[j] EXCEPT !.re = TRUE] ELSE q[j]]
    BY <1>0 DEF RenumberToRight
<1> HIDE DEF X, r
<1>2. ASSUME NEW j \in 1 .. Len(q)
      PROVE  /\ r[j] \in PacketType /\ Like(r[j], q[j])
             /\ r[j].re = (q[j].re \/ X(j))
    <2>1. q[j] \in PacketType
        OBVIOUS
    <2>2. r[j] = IF X(j) THEN [q[j] EXCEPT !.re = TRUE] ELSE q[j]
        BY <1>1
    <2>3. CASE X(j)
        BY <2>1, <2>2, <2>3 DEF PacketType, Like
    <2>4. CASE ~X(j)
        BY <2>1, <2>2, <2>4 DEF PacketType, Like
    <2> QED BY <2>3, <2>4
<1>3. r \in Seq(PacketType) /\ Len(r) = Len(q)
    BY <1>0, <1>1, <1>2
<1> QED BY <1>2, <1>3 DEF r, X

SchedType == [q : Seq(PacketType), bytes : Int, cur : Int]

(* Packet i of a numbered queue goes away. *)
LEMMA DropNumbered ==
    ASSUME NEW q \in Seq(PacketType), NEW i \in 1 .. Len(q),
           NEW lg \in Int, NEW c \in Int, NEW g \in Int, Numbered(q, lg, c, g)
    PROVE  Numbered(RemoveAt(RenumberToRight(q, i), i), lg,
                    IF q[i].re THEN c ELSE q[i].no - 1, g)
<1> DEFINE r == RenumberToRight(q, i)
           d == RemoveAt(r, i)
           e == IF q[i].re THEN c ELSE q[i].no - 1
<1>1. PICK m \in 0 .. Len(q) : NumberedUpTo(m, q, lg, c, g)
    BY DEF Numbered
<1>2. /\ r \in Seq(PacketType) /\ Len(r) = Len(q)
      /\ \A j \in 1 .. Len(q) :
           r[j].no = q[j].no /\ r[j].re = (q[j].re \/ (j > i /\ \A k \in i .. j : ~q[k].re))
    BY RenumberedFacts DEF Like
<1> HIDE DEF r
<1>3. /\ d \in Seq(PacketType) /\ Len(d) = Len(q) - 1
      /\ \A j \in 1 .. i - 1 : d[j] = r[j]
      /\ \A j \in i .. Len(q) - 1 : d[j] = r[j + 1]
    <2>1. r \in Seq(PacketType) /\ i \in 1 .. Len(r) /\ Len(r) = Len(q)
        BY <1>2
    <2>2. /\ d \in Seq(PacketType) /\ Len(d) = Len(r) - 1
          /\ \A j \in 1 .. i - 1 : d[j] = r[j]
          /\ \A j \in i .. Len(r) - 1 : d[j] = r[j + 1]
        BY <2>1, RemoveAtFacts
    <2> QED BY <2>1, <2>2
<1> HIDE DEF d
<1>4. \A j \in 1 .. Len(q) : q[j].no \in Int /\ q[j].re \in BOOLEAN
    <2>1. \A j \in 1 .. Len(q) : q[j] \in PacketType
        OBVIOUS
    <2> QED BY <2>1 DEF PacketType
<1>5. CASE i <= m
    <2>1. ~q[i].re /\ e = q[i].no - 1 /\ e \in Int
        BY <1>1, <1>4, <1>5 DEF NumberedUpTo
    <2>2. ASSUME NEW j \in 1 .. i - 1
          PROVE  d[j].no = q[j].no /\ ~d[j].re /\ Before(d, j, lg) = Before(q, j, lg)
        <3>1. j \in 1 .. Len(q) /\ j \in 1 .. m /\ ~(j > i) /\ (j # 1 => j - 1 \in 1 .. i - 1 /\ j - 1 \in 1 .. Len(q))
            BY <1>5
        <3>2. d[j].no = q[j].no /\ ~d[j].re
            BY <1>1, <1>2, <1>3, <3>1 DEF NumberedUpTo
        <3>3. j # 1 => d[j - 1].no = q[j - 1].no
            BY <1>2, <1>3, <3>1
        <3> QED BY <3>2, <3>3 DEF Before
    <2>3. ASSUME NEW j \in i .. Len(d) PROVE d[j].re
        <3>1. j \in i .. Len(q) - 1 /\ j + 1 \in 1 .. Len(q) /\ j + 1 > i
            BY <1>3
        <3>2. d[j] = r[j + 1]
            BY <1>3, <3>1
        <3>3. CASE j + 1 > m
            <4>1. q[j + 1].re
                BY <1>1, <3>1, <3>3 DEF NumberedUpTo
            <4> QED BY <1>2, <3>1, <3>2, <4>1
        <3>4. CASE j + 1 <= m
            <4>1. \A k \in i .. j + 1 : ~q[k].re
                BY <1>1, <3>4 DEF NumberedUpTo
            <4> QED BY <1>2, <3>1, <3>2, <4>1
        <3>5. j \in Int /\ m \in Int
            OBVIOUS
        <3> QED BY <3>3, <3>4, <3>5
    <2>4. Before(d, i, lg) = Before(q, i, lg) /\ Before(q, i, lg) \in Int
        <3>1. CASE i = 1
            BY <3>1 DEF Before
        <3>2. CASE i # 1
            <4>1. i - 1 \in 1 .. i - 1 /\ i - 1 \in 1 .. Len(q)
                BY <3>2
            <4> QED BY <1>4, <2>2, <3>2, <4>1 DEF Before
        <3> QED BY <3>1, <3>2
    <2>5. q[i].no = Succ(Before(q, i, lg), g)
        BY <1>1, <1>5 DEF NumberedUpTo
    <2>6. e >= Before(d, i, lg) /\ Succ(e, g) = Succ(Before(d, i, lg), g)
        BY <2>1, <2>4, <2>5 DEF Succ
    <2>7. i - 1 \in 0 .. Len(d) /\ (i - 1) + 1 = i
        BY <1>3
    <2>8. NumberedUpTo(i - 1, d, lg, e, g)
        <3>1. \A j \in 1 .. i - 1 : j \in 1 .. m
            BY <1>5
        <3>2. \A j \in 1 .. i - 1 :
                /\ ~d[j].re
                /\ d[j].no = Succ(Before(d, j, lg), g)
                /\ d[j].no > lg /\ d[j].no # g
            BY <1>1, <2>2, <3>1 DEF NumberedUpTo
        <3>3. \A j, k \in 1 .. i - 1 : j < k => d[j].no < d[k].no
            BY <1>1, <2>2, <3>1 DEF NumberedUpTo
        <3> HIDE DEF e
        <3> QED BY <2>3, <2>6, <2>7, <3>2, <3>3 DEF NumberedUpTo
    <2> HIDE DEF e
    <2> QED BY <2>7, <2>8 DEF Numbered, d, r, e
<1>6. CASE i > m
    <2>1. q[i].re /\ e = c
        BY <1>1, <1>6 DEF NumberedUpTo
    <2>2. \A j \in 1 .. Len(q) : r[j].re = q[j].re
        <3> SUFFICES ASSUME NEW j \in 1 .. Len(q), j > i PROVE ~ \A k \in i .. j : ~q[k].re
            BY <1>2, <1>4
        <3>1. i \in i .. j
            OBVIOUS
        <3> QED BY <2>1, <3>1
    <2>3. ASSUME NEW j \in 1 .. m
          PROVE  d[j].no = q[j].no /\ d[j].re = q[j].re /\ Before(d, j, lg) = Before(q, j, lg)
        <3>1. j \in 1 .. i - 1 /\ j \in 1 .. Len(q) /\ (j # 1 => j - 1 \in 1 .. i - 1 /\ j - 1 \in 1 .. Len(q))
            BY <1>6
        <3>2. d[j].no = q[j].no /\ d[j].re = q[j].re
            BY <1>2, <1>3, <2>2, <3>1
        <3>3. j # 1 => d[j - 1].no = q[j - 1].no
            BY <1>2, <1>3, <3>1
        <3> QED BY <3>2, <3>3 DEF Before
    <2>4. ASSUME NEW j \in m + 1 .. Len(d) PROVE d[j].re
        <3>1. CASE j < i
            <4>1. j \in 1 .. i - 1 /\ j \in 1 .. Len(q) /\ j \in m + 1 .. Len(q)
                BY <1>3, <3>1
            <4>2. q[j].re /\ d[j] = r[j]
                BY <1>1, <1>3, <4>1 DEF NumberedUpTo
            <4> QED BY <2>2, <4>1, <4>2
        <3>2. CASE j >= i
            <4>1. j \in i .. Len(q) - 1 /\ j + 1 \in 1 .. Len(q) /\ j + 1 \in m + 1 .. Len(q)
                BY <1>3, <3>2
            <4>2. q[j + 1].re /\ d[j] = r[j + 1]
                BY <1>1, <1>3, <4>1 DEF NumberedUpTo
            <4> QED BY <2>2, <4>1, <4>2
        <3>3. j \in Int /\ i \in Int
            OBVIOUS
        <3> QED BY <3>1, <3>2, <3>3
    <2>5. Before(d, m + 1, lg) = Before(q, m + 1, lg)
        <3>1. CASE m = 0
            BY <3>1 DEF Before
        <3>2. CASE m # 0
            <4>1. m \in 1 .. m /\ (m + 1) - 1 = m /\ m + 1 # 1
                BY <3>2
            <4> QED BY <2>3, <4>1 DEF Before
        <3> QED BY <3>1, <3>2
    <2>6. m \in 0 .. Len(d)
        BY <1>3, <1>6
    <2>7. NumberedUpTo(m, d, lg, e, g)
        <3>1. \A j \in 1 .. m :
                /\ ~d[j].re
                /\ d[j].no = Succ(Before(d, j, lg), g)
                /\ d[j].no > lg /\ d[j].no # g
            BY <1>1, <2>3 DEF NumberedUpTo
        <3>2. \A j, k \in 1 .. m : j < k => d[j].no < d[k].no
            BY <1>1, <2>3 DEF NumberedUpTo
        <3>3. e >= Before(d, m + 1, lg) /\ Succ(e, g) = Succ(Before(d, m + 1, lg), g)
            BY <1>1, <2>1, <2>5 DEF NumberedUpTo
        <3> HIDE DEF e
        <3> QED BY <2>4, <3>1, <3>2, <3>3 DEF NumberedUpTo
    <2> HIDE DEF e
    <2> QED BY <2>6, <2>7 DEF Numbered, d, r, e
<1>7. i \in Int /\ m \in Int
    OBVIOUS
<1> QED BY <1>5, <1>6, <1>7

LEMMA DropAckedFacts ==
    ASSUME NEW s \in SchedType, NEW id
    PROVE  /\ DropAcked(s, id) \in SchedType
           /\ Kept(DropAcked(s, id).q, s.q, {id})
           /\ s.bytes = BytesOf(s.q) => DropAcked(s, id).bytes = BytesOf(DropAcked(s, id).q)
           /\ \A lg, g \in Int : Numbered(s.q, lg, s.cur, g) =>
                Numbered(DropAcked(s, id).q, lg, DropAcked(s, id).cur, g)
<1> DEFINE i == SelectInSeq(s.q, LAMBDA p : p.id = id)
           r == RenumberToRight(s.q, i)
           d == [q     |-> RemoveAt(r, i),
                 bytes |-> s.bytes - Size(s.q[i]),
                 cur   |-> IF s.q[i].re THEN s.cur ELSE s.q[i].no - 1]
<1>1. DropAcked(s, id) = IF i = 0 THEN s ELSE d
    BY DEF DropAcked
<1>2. s.q \in Seq(PacketType) /\ s.bytes \in Int /\ s.cur \in Int
    BY DEF SchedType
<1>3. \/ i = 0 /\ \A k \in 1 .. Len(s.q) : s.q[k].id # id
      \/ i \in 1 .. Len(s.q) /\ s.q[i].id = id
    BY <1>2, FirstWithId
<1> HIDE DEF i
<1>4. CASE i = 0
    <2>1. DropAcked(s, id) = s
        BY <1>1, <1>4
    <2>2. Kept(s.q, s.q, {id})
        BY <1>2, SameIsKept DEF Like
    <2> QED BY <2>1, <2>2
<1>5. CASE i \in 1 .. Len(s.q)
    <2>1. DropAcked(s, id) = d
        BY <1>1, <1>5
    <2>2. /\ r \in Seq(PacketType) /\ Len(r) = Len(s.q)
          /\ \A j \in 1 .. Len(s.q) : Like(r[j], s.q[j])
        BY <1>2, <1>5, RenumberedFacts
    <2> HIDE DEF r
    <2>3. /\ d.q = RemoveAt(r, i) /\ d.bytes = s.bytes - Size(s.q[i])
          /\ d.cur = IF s.q[i].re THEN s.cur ELSE s.q[i].no - 1
        OBVIOUS
    <2>4. s.q[i] \in PacketType /\ r[i] \in PacketType
        BY <1>2, <1>5, <2>2
    <2>5. Size(s.q[i]) \in Nat /\ Size(r[i]) = Size(s.q[i]) /\ s.q[i].no \in Int
        BY <1>5, <2>2, <2>4, SizeType DEF Like, Size, PacketType
    <2>6. /\ RemoveAt(r, i) \in Seq(PacketType) /\ Len(RemoveAt(r, i)) = Len(r) - 1
          /\ \A j \in 1 .. i - 1 : RemoveAt(r, i)[j] = r[j]
          /\ \A j \in i .. Len(r) - 1 : RemoveAt(r, i)[j] = r[j + 1]
        <3>1. r \in Seq(PacketType) /\ i \in 1 .. Len(r)
            BY <1>5, <2>2
        <3> QED BY <3>1, RemoveAtFacts
    <2>7. d \in SchedType
        BY <1>2, <2>5, <2>6 DEF SchedType
    <2>8. Kept(d.q, s.q, {id})
        <3> DEFINE x == RemoveAt(r, i)
        <3>0. x \in Seq(PacketType) /\ Len(x) = Len(s.q) - 1
            BY <2>2, <2>6
        <3> DEFINE at(j) == IF j < i THEN j ELSE j + 1
        <3>1. ASSUME NEW j \in 1 .. Len(x)
              PROVE  at(j) \in 1 .. Len(s.q) /\ Like(x[j], s.q[at(j)])
            <4>1. CASE j < i
                <5>1. j \in 1 .. i - 1 /\ j \in 1 .. Len(s.q)
                    BY <1>5, <4>1
                <5>2. x[j] = r[j]
                    BY <2>6, <5>1
                <5> QED BY <2>2, <4>1, <5>1, <5>2
            <4>2. CASE ~(j < i)
                <5>1. j \in i .. Len(r) - 1 /\ j + 1 \in 1 .. Len(s.q)
                    BY <1>5, <2>2, <3>0, <4>2
                <5>2. x[j] = r[j + 1]
                    BY <2>6, <5>1
                <5> QED BY <2>2, <4>2, <5>1, <5>2
            <4> QED BY <4>1, <4>2
        <3>2. ASSUME NEW j \in 1 .. Len(x), NEW k \in 1 .. Len(x), j < k
              PROVE  at(j) < at(k)
            BY <1>5, <3>2
        <3>3. ASSUME NEW k \in 1 .. Len(s.q), s.q[k].id \notin {id}
              PROVE  \E j \in 1 .. Len(x) : Like(x[j], s.q[k])
            <4>1. k # i
                BY <1>3, <1>5, <3>3
            <4>2. CASE k < i
                <5>1. k \in 1 .. Len(x) /\ at(k) = k
                    BY <1>5, <3>0, <4>2
                <5> QED BY <3>1, <5>1
            <4>3. CASE k > i
                <5>1. k - 1 \in 1 .. Len(x) /\ at(k - 1) = k
                    BY <1>5, <3>0, <4>3
                <5> QED BY <3>1, <5>1
            <4>4. k \in Int /\ i \in Int
                BY <1>5
            <4> QED BY <4>1, <4>2, <4>3, <4>4
        <3> HIDE DEF x, at
        <3>4. \A j \in 1 .. Len(x) : \E k \in 1 .. Len(s.q) : Like(x[j], s.q[k])
            BY <3>1
        <3>5. \A j, k \in 1 .. Len(x) : j < k =>
                \E l, n \in 1 .. Len(s.q) : l < n /\ Like(x[j], s.q[l]) /\ Like(x[k], s.q[n])
            BY <3>1, <3>2
        <3>6. Kept(x, s.q, {id})
            BY <3>0, <3>3, <3>4, <3>5 DEF Kept
        <3> QED BY <2>3, <3>6 DEF x
    <2>9. s.bytes = BytesOf(s.q) => d.bytes = BytesOf(d.q)
        <3>1. BytesOf(r) = BytesOf(s.q)
            BY <1>2, <2>2, BytesSame DEF Like, Size
        <3>2. BytesOf(r) = BytesOf(RemoveAt(r, i)) + Size(r[i])
            BY <1>5, <2>2, BytesSplit
        <3>3. BytesOf(RemoveAt(r, i)) \in Nat
            BY <2>6, BytesType
        <3> DEFINE x == RemoveAt(r, i)
        <3>4. d.q = x /\ BytesOf(s.q) = BytesOf(x) + Size(s.q[i]) /\ BytesOf(x) \in Nat
            BY <2>3, <2>5, <3>1, <3>2, <3>3
        <3> HIDE DEF x, d
        <3> QED BY <1>2, <2>3, <2>5, <3>4
    <2>10. \A lg, g \in Int : Numbered(s.q, lg, s.cur, g) => Numbered(d.q, lg, d.cur, g)
        <3> SUFFICES ASSUME NEW lg \in Int, NEW g \in Int, Numbered(s.q, lg, s.cur, g)
                     PROVE  Numbered(d.q, lg, d.cur, g)
            OBVIOUS
        <3> DEFINE q == s.q
                   c == s.cur
        <3>1. q \in Seq(PacketType) /\ c \in Int /\ Numbered(q, lg, c, g) /\ i \in 1 .. Len(q)
            BY <1>2, <1>5
        <3> HIDE DEF q, c, d
        <3>2. Numbered(RemoveAt(RenumberToRight(q, i), i), lg, IF q[i].re THEN c ELSE q[i].no - 1, g)
            BY <3>1, DropNumbered
        <3> QED BY <2>3, <3>2 DEF q, c, r
    <2> HIDE DEF d
    <2> QED BY <2>1, <2>7, <2>8, <2>9, <2>10
<1> QED BY <1>3, <1>4, <1>5

-----------------------------------------------------------------------------
(***************************************************************************)
(* The packets that DropAllAcked takes off the Scheduled Queue, and the    *)
(* walk of lsquic_send_ctl_got_ack(): on a queue in the order of packet    *)
(* numbers it takes a packet for acknowledged only if its number is in the *)
(* ranges.                                                                 *)
(***************************************************************************)

LEMMA KeptMore ==
    ASSUME NEW r, NEW q, NEW I, NEW J, I \subseteq J, Kept(r, q, I)
    PROVE  Kept(r, q, J)
<1>1. \A k \in 1 .. Len(q) : q[k].id \notin J => \E i \in 1 .. Len(r) : Like(r[i], q[k])
    BY DEF Kept
<1> QED BY <1>1 DEF Kept

(***************************************************************************)
(* DropAllAcked(ids), by its recursion.                                    *)
(***************************************************************************)
DroppedAt(s, ids, g, i) == IF i = 0 THEN s ELSE DropAcked(g[i - 1], ids[i])

LEMMA DroppedExists ==
    ASSUME NEW s, NEW ids, NEW k \in Nat
    PROVE  \E g : g = [i \in 0 .. k |-> DroppedAt(s, ids, g, i)]
<1> DEFINE P(n) == \E g : g = [i \in 0 .. n |-> DroppedAt(s, ids, g, i)]
           T == {n \in Nat : ~P(n)}
<1>1. SUFFICES ASSUME T # {} PROVE FALSE
    OBVIOUS
<1>2. PICK n \in T : \A m \in T : n <= m
    BY <1>1, Least
<1>3. n # 0
    <2> DEFINE g == [i \in 0 .. 0 |-> s]
    <2>1. g = [i \in 0 .. 0 |-> DroppedAt(s, ids, g, i)]
        BY DEF DroppedAt
    <2> QED BY <1>2, <2>1
<1>4. n - 1 \in Nat /\ n - 1 \notin T
    BY <1>2, <1>3
<1>5. PICK g : g = [i \in 0 .. n - 1 |-> DroppedAt(s, ids, g, i)]
    BY <1>4
<1> DEFINE h == [i \in 0 .. n |-> DroppedAt(s, ids, g, i)]
<1>6. \A i \in 0 .. n - 1 : h[i] = g[i]
    BY <1>4, <1>5
<1>7. ASSUME NEW i \in 0 .. n PROVE h[i] = DroppedAt(s, ids, h, i)
    <2>1. h[i] = DroppedAt(s, ids, g, i)
        OBVIOUS
    <2>2. i # 0 => h[i - 1] = g[i - 1]
        <3>1. i # 0 => i - 1 \in 0 .. n - 1
            BY <1>4
        <3> HIDE DEF h
        <3> QED BY <1>6, <3>1
    <2> HIDE DEF h
    <2> QED BY <2>1, <2>2 DEF DroppedAt
<1>8. h = [i \in 0 .. n |-> DroppedAt(s, ids, h, i)]
    BY <1>7, Zenon
<1> QED BY <1>2, <1>8

LEMMA DropAllAckedFacts ==
    ASSUME sched \in [q : Seq(PacketType), bytes : Int], cur \in Int, NEW ids \in Seq(Nat)
    PROVE  /\ DropAllAcked(ids) \in SchedType
           /\ Kept(DropAllAcked(ids).q, sched.q, ToSet(ids))
           /\ sched.bytes = BytesOf(sched.q) =>
                DropAllAcked(ids).bytes = BytesOf(DropAllAcked(ids).q)
           /\ \A lg, g \in Int : Numbered(sched.q, lg, cur, g) =>
                Numbered(DropAllAcked(ids).q, lg, DropAllAcked(ids).cur, g)
<1> DEFINE s == [q |-> sched.q, bytes |-> sched.bytes, cur |-> cur]
           h == CHOOSE h : h = [i \in 0 .. Len(ids) |-> DroppedAt(s, ids, h, i)]
<1>0. Len(ids) \in Nat
    BY LenNat
<1>1. h = [i \in 0 .. Len(ids) |-> DroppedAt(s, ids, h, i)]
    <2> HIDE DEF s
    <2> QED BY <1>0, DroppedExists
<1>2. DropAllAcked(ids) = h[Len(ids)]
    BY DEF DropAllAcked, DroppedAt
<1>3. s \in SchedType
    BY DEF SchedType
<1>4. s.q = sched.q /\ s.bytes = sched.bytes /\ s.cur = cur
    OBVIOUS
<1> HIDE DEF s, h
<1> DEFINE Good(d) ==
             /\ d \in SchedType
             /\ Kept(d.q, sched.q, ToSet(ids))
             /\ sched.bytes = BytesOf(sched.q) => d.bytes = BytesOf(d.q)
             /\ \A lg, g \in Int : Numbered(sched.q, lg, cur, g) => Numbered(d.q, lg, d.cur, g)
           T == {m \in 0 .. Len(ids) : ~Good(h[m])}
<1>5. Good(h[0])
    <2>1. h[0] = s
        BY <1>0, <1>1 DEF DroppedAt
    <2>2. sched.q \in Seq(PacketType)
        OBVIOUS
    <2>3. Kept(sched.q, sched.q, ToSet(ids))
        BY <2>2, SameIsKept DEF Like
    <2> QED BY <1>3, <1>4, <2>1, <2>3
<1>6. ASSUME NEW m \in 1 .. Len(ids), Good(h[m - 1]) PROVE Good(h[m])
    <2> DEFINE a == h[m - 1]
               id == ids[m]
    <2>1. h[m] = DropAcked(a, id)
        <3>1. m \in 0 .. Len(ids) /\ m # 0
            OBVIOUS
        <3> QED BY <1>1, <3>1 DEF DroppedAt
    <2>2. a \in SchedType /\ Kept(a.q, sched.q, ToSet(ids))
        BY <1>6
    <2>3. {id} \subseteq ToSet(ids)
        BY InToSet
    <2> HIDE DEF a, id
    <2>4. /\ DropAcked(a, id) \in SchedType
          /\ Kept(DropAcked(a, id).q, a.q, {id})
          /\ a.bytes = BytesOf(a.q) => DropAcked(a, id).bytes = BytesOf(DropAcked(a, id).q)
          /\ \A lg, g \in Int : Numbered(a.q, lg, a.cur, g) =>
               Numbered(DropAcked(a, id).q, lg, DropAcked(a, id).cur, g)
        BY <2>2, DropAckedFacts
    <2>5. Kept(DropAcked(a, id).q, a.q, ToSet(ids))
        BY <2>3, <2>4, KeptMore
    <2>6. Kept(DropAcked(a, id).q, sched.q, ToSet(ids))
        BY <2>2, <2>5, KeptTransitive
    <2> QED BY <1>6, <2>1, <2>4, <2>6 DEF a
<1> HIDE DEF Good
<1>7. T = {}
    <2> SUFFICES ASSUME T # {} PROVE FALSE
        OBVIOUS
    <2>1. PICK m \in T : \A l \in T : m <= l
        <3>1. T \in SUBSET Nat
            OBVIOUS
        <3> HIDE DEF T
        <3> QED BY <3>1, Least
    <2>2. m # 0
        BY <1>5
    <2>3. m \in 1 .. Len(ids) /\ m - 1 \notin T
        BY <2>1, <2>2
    <2> QED BY <1>6, <2>1, <2>3
<1>8. Good(h[Len(ids)])
    BY <1>0, <1>7
<1> QED BY <1>2, <1>8 DEF Good

(***************************************************************************)
(* Walk(A), by its recursion.                                              *)
(***************************************************************************)
LEMMA MinOf ==
    ASSUME NEW S \in SUBSET Nat, S # {}
    PROVE  Min(S) \in S /\ \A x \in S : Min(S) <= x
BY Least DEF Min

LEMMA MaxOf ==
    ASSUME NEW M \in Nat, NEW A \in SUBSET (0 .. M), A # {}
    PROVE  Max(A) \in A /\ \A x \in A : x <= Max(A)
<1> DEFINE S == {n \in Nat : \E a \in A : n = M - a}
<1>1. S \in SUBSET Nat /\ S # {}
    <2>1. PICK a \in A : TRUE
        OBVIOUS
    <2>2. M - a \in Nat
        OBVIOUS
    <2> QED BY <2>2
<1>2. PICK n \in S : \A m \in S : n <= m
    <2> HIDE DEF S
    <2> QED BY <1>1, Least
<1>3. PICK a \in A : n = M - a
    BY <1>2
<1>4. ASSUME NEW x \in A PROVE a >= x
    <2>1. M - x \in S
        OBVIOUS
    <2>2. n <= M - x
        BY <1>2, <2>1
    <2> QED BY <1>3, <2>2
<1> QED BY <1>3, <1>4 DEF Max

WalkAt(A, acc, u, g, i) == IF i = 0 THEN acc ELSE Visit(A, g[i - 1], u[i])

LEMMA WalkExists ==
    ASSUME NEW A, NEW acc, NEW u, NEW k \in Nat
    PROVE  \E g : g = [i \in 0 .. k |-> WalkAt(A, acc, u, g, i)]
<1> DEFINE P(n) == \E g : g = [i \in 0 .. n |-> WalkAt(A, acc, u, g, i)]
           T == {n \in Nat : ~P(n)}
<1>1. SUFFICES ASSUME T # {} PROVE FALSE
    OBVIOUS
<1>2. PICK n \in T : \A m \in T : n <= m
    BY <1>1, Least
<1>3. n # 0
    <2> DEFINE g == [i \in 0 .. 0 |-> acc]
    <2>1. g = [i \in 0 .. 0 |-> WalkAt(A, acc, u, g, i)]
        BY DEF WalkAt
    <2> QED BY <1>2, <2>1
<1>4. n - 1 \in Nat /\ n - 1 \notin T
    BY <1>2, <1>3
<1>5. PICK g : g = [i \in 0 .. n - 1 |-> WalkAt(A, acc, u, g, i)]
    BY <1>4
<1> DEFINE h == [i \in 0 .. n |-> WalkAt(A, acc, u, g, i)]
<1>6. \A i \in 0 .. n - 1 : h[i] = g[i]
    BY <1>4, <1>5
<1>7. ASSUME NEW i \in 0 .. n PROVE h[i] = WalkAt(A, acc, u, h, i)
    <2>1. h[i] = WalkAt(A, acc, u, g, i)
        OBVIOUS
    <2>2. i # 0 => h[i - 1] = g[i - 1]
        <3>1. i # 0 => i - 1 \in 0 .. n - 1
            BY <1>4
        <3> HIDE DEF h
        <3> QED BY <1>6, <3>1
    <2> HIDE DEF h
    <2> QED BY <2>1, <2>2 DEF WalkAt
<1>8. h = [i \in 0 .. n |-> WalkAt(A, acc, u, h, i)]
    BY <1>7, Zenon
<1> QED BY <1>2, <1>8

AccType == [ids : Seq(Nat), range : Int, skip : BOOLEAN, stop : BOOLEAN,
            bad : BOOLEAN, largest : Int]

(* What the walk takes for acknowledged was reported, if the queue is in   *)
(* the order of packet numbers: the highest range is then not left before  *)
(* the walk stops.                                                         *)
Ascends(u) == \A i, j \in 1 .. Len(u) : i < j => u[i].no < u[j].no
WalkSound(acc, A, u, n) ==
    /\ \A id \in ToSet(acc.ids) :
         \E k \in 1 .. n : u[k].id = id /\ u[k].no \in A /\ u[k].rec # "poison"
    /\ acc.bad => \E k \in 1 .. n : u[k].rec = "poison" /\ u[k].no \in A
    /\ acc.skip => \E k \in 1 .. n : /\ u[k].no <= Max(A)
                                     /\ \A x \in u[k].no .. Max(A) : x \in A

LEMMA VisitFacts ==
    ASSUME NEW M \in Nat, NEW A \in SUBSET (0 .. M), A # {},
           NEW u \in Seq(PacketType), NEW n \in 1 .. Len(u),
           NEW acc \in AccType
    PROVE  /\ Visit(A, acc, u[n]) \in AccType
           /\ Ascends(u) /\ WalkSound(acc, A, u, n - 1) =>
                WalkSound(Visit(A, acc, u[n]), A, u, n)
<1> DEFINE p == u[n]
           top == Max(A)
           H == {r \in Highs(A) : r >= p.no /\ r >= acc.range} \cup {top}
           h == Min(H)
           hit == acc.skip \/ InRange(p.no, h, A)
           v == Visit(A, acc, p)
           done == acc.stop \/ acc.bad \/ p.id \in ToSet(acc.ids)
<1>1. v = IF done THEN acc
          ELSE IF p.no > top THEN [acc EXCEPT !.stop = TRUE]
          ELSE IF ~hit THEN [acc EXCEPT !.range = h]
          ELSE IF p.rec = "poison" THEN [acc EXCEPT !.bad = TRUE]
          ELSE [acc EXCEPT !.range = h, !.skip = acc.skip \/ h = top,
                           !.largest = p.no, !.ids = Append(acc.ids, p.id)]
    BY DEF Visit
<1> HIDE DEF v, H, h, top
<1>2. p \in PacketType /\ p.no \in Int /\ p.id \in Nat
    <2>1. p \in PacketType
        OBVIOUS
    <2> HIDE DEF p
    <2> QED BY <2>1 DEF PacketType
<1>3. top \in A /\ top \in Int /\ \A x \in A : x <= top
    <2>1. top \in A /\ \A x \in A : x <= top
        BY MaxOf DEF top
    <2>2. \A x \in A : x \in Nat
        OBVIOUS
    <2> QED BY <2>1, <2>2
<1> HIDE DEF p
<1>4. h \in H /\ h \in Int /\ h <= top /\ h \in A
    <2>1. H \subseteq A /\ top \in H
        BY <1>3 DEF Highs, H
    <2>2. H \in SUBSET Nat /\ H # {}
        BY <2>1
    <2>3. h \in H
        BY <2>2, MinOf DEF h
    <2>4. h \in A /\ h \in Nat
        BY <2>1, <2>2, <2>3
    <2> QED BY <1>3, <2>3, <2>4
<1>5. acc.ids \in Seq(Nat) /\ acc.skip \in BOOLEAN /\ acc.range \in Int
    BY DEF AccType
<1>6. CASE done
    <2>1. v = acc
        BY <1>1, <1>6
    <2>2. WalkSound(acc, A, u, n - 1) => WalkSound(acc, A, u, n)
        <3>1. \A k \in 1 .. n - 1 : k \in 1 .. n
            OBVIOUS
        <3> QED BY <3>1 DEF WalkSound
    <2> QED BY <2>1, <2>2 DEF v, p
<1>7. CASE ~done /\ p.no > top
    <2>1. v = [acc EXCEPT !.stop = TRUE]
        BY <1>1, <1>7
    <2>2. v \in AccType /\ v.ids = acc.ids /\ v.bad = acc.bad /\ v.skip = acc.skip
        BY <2>1 DEF AccType
    <2>3. WalkSound(acc, A, u, n - 1) => WalkSound(v, A, u, n)
        <3>1. \A k \in 1 .. n - 1 : k \in 1 .. n
            OBVIOUS
        <3> QED BY <2>2, <3>1 DEF WalkSound
    <2> QED BY <2>2, <2>3 DEF v, p
<1>8. CASE ~done /\ p.no <= top /\ ~hit
    <2>1. v = [acc EXCEPT !.range = h]
        BY <1>1, <1>2, <1>3, <1>8
    <2>2. v \in AccType /\ v.ids = acc.ids /\ v.bad = acc.bad /\ v.skip = acc.skip
        BY <1>4, <2>1 DEF AccType
    <2>3. WalkSound(acc, A, u, n - 1) => WalkSound(v, A, u, n)
        <3>1. \A k \in 1 .. n - 1 : k \in 1 .. n
            OBVIOUS
        <3> QED BY <2>2, <3>1 DEF WalkSound
    <2> QED BY <2>2, <2>3 DEF v, p
<1>9. ASSUME ~done, p.no <= top, hit, Ascends(u), WalkSound(acc, A, u, n - 1)
      PROVE  p.no \in A
    <2>1. CASE InRange(p.no, h, A)
        <3>1. p.no <= h /\ p.no \in p.no .. h
            BY <1>2, <1>4, <2>1 DEF InRange
        <3> QED BY <2>1, <3>1 DEF InRange
    <2>2. CASE acc.skip
        <3>1. PICK k \in 1 .. n - 1 : u[k].no <= top /\ \A x \in u[k].no .. top : x \in A
            BY <1>9, <2>2 DEF WalkSound, top
        <3>2. k \in 1 .. Len(u) /\ k < n /\ u[k] \in PacketType
            OBVIOUS
        <3>3. u[k].no < p.no /\ u[k].no \in Int
            BY <1>9, <3>2 DEF Ascends, p, PacketType
        <3>4. p.no \in u[k].no .. top
            BY <1>2, <1>3, <1>9, <3>3
        <3> QED BY <3>1, <3>4
    <2> QED BY <1>9, <2>1, <2>2
<1>10. CASE ~done /\ p.no <= top /\ hit /\ p.rec = "poison"
    <2>1. v = [acc EXCEPT !.bad = TRUE]
        BY <1>1, <1>2, <1>3, <1>10
    <2>2. v \in AccType /\ v.ids = acc.ids /\ v.skip = acc.skip
        BY <2>1 DEF AccType
    <2>3. Ascends(u) /\ WalkSound(acc, A, u, n - 1) => WalkSound(v, A, u, n)
        <3>1. \A k \in 1 .. n - 1 : k \in 1 .. n
            OBVIOUS
        <3>2. n \in 1 .. n
            OBVIOUS
        <3> SUFFICES ASSUME Ascends(u), WalkSound(acc, A, u, n - 1)
                     PROVE  WalkSound(v, A, u, n)
            OBVIOUS
        <3>3. p.no \in A
            BY <1>9, <1>10
        <3>4. u[n].rec = "poison" /\ u[n].no \in A
            BY <1>10, <3>3 DEF p
        <3> QED BY <2>2, <3>1, <3>2, <3>4 DEF WalkSound
    <2> QED BY <2>2, <2>3 DEF v, p
<1>11. CASE ~done /\ p.no <= top /\ hit /\ p.rec # "poison"
    <2>1. v = [acc EXCEPT !.range = h, !.skip = acc.skip \/ h = top,
                          !.largest = p.no, !.ids = Append(acc.ids, p.id)]
        BY <1>1, <1>2, <1>3, <1>11
    <2>2. Append(acc.ids, p.id) \in Seq(Nat)
        BY <1>2, <1>5, AppendFacts
    <2>3. /\ v \in AccType /\ v.ids = Append(acc.ids, p.id) /\ v.bad = acc.bad
          /\ v.skip = (acc.skip \/ h = top)
        BY <1>2, <1>4, <2>1, <2>2 DEF AccType
    <2>4. Ascends(u) /\ WalkSound(acc, A, u, n - 1) => WalkSound(v, A, u, n)
        <3>1. \A k \in 1 .. n - 1 : k \in 1 .. n
            OBVIOUS
        <3>2. n \in 1 .. n
            OBVIOUS
        <3> SUFFICES ASSUME Ascends(u), WalkSound(acc, A, u, n - 1)
                     PROVE  WalkSound(v, A, u, n)
            OBVIOUS
        <3>3. p.no \in A
            BY <1>9, <1>11
        <3>4. u[n].rec # "poison" /\ u[n].no \in A /\ u[n].id = p.id /\ u[n].no = p.no
            BY <1>11, <3>3 DEF p
        <3>5. \A id \in ToSet(v.ids) : id \in ToSet(acc.ids) \/ id = p.id
            <4>1. \A i \in 1 .. Len(v.ids) : (i \in 1 .. Len(acc.ids) /\ v.ids[i] = acc.ids[i]) \/ v.ids[i] = p.id
                <5>1. /\ Len(Append(acc.ids, p.id)) = Len(acc.ids) + 1
                      /\ \A i \in 1 .. Len(acc.ids) : Append(acc.ids, p.id)[i] = acc.ids[i]
                      /\ Append(acc.ids, p.id)[Len(acc.ids) + 1] = p.id
                    BY <1>2, <1>5, AppendFacts
                <5>2. Len(acc.ids) \in Nat
                    BY <1>5, LenNat
                <5>3. \A i \in 1 .. Len(v.ids) : i \in 1 .. Len(acc.ids) \/ i = Len(acc.ids) + 1
                    BY <2>3, <5>1, <5>2
                <5> QED BY <2>3, <5>1, <5>3
            <4>2. \A id \in ToSet(v.ids) : \E i \in 1 .. Len(v.ids) : id = v.ids[i]
                <5>1. v.ids \in Seq(Nat)
                    BY <2>2, <2>3
                <5> DEFINE w == v.ids
                <5>2. w \in Seq(Nat)
                    BY <5>1
                <5> HIDE DEF w
                <5>3. \A x \in ToSet(w) : \E i \in 1 .. Len(w) : x = w[i]
                    BY <5>2, InToSet
                <5> QED BY <5>3 DEF w
            <4>3. \A i \in 1 .. Len(acc.ids) : acc.ids[i] \in ToSet(acc.ids)
                BY <1>5, InToSet
            <4> QED BY <4>1, <4>2, <4>3
        <3>6. \A id \in ToSet(v.ids) :
                \E k \in 1 .. n : u[k].id = id /\ u[k].no \in A /\ u[k].rec # "poison"
            BY <3>1, <3>2, <3>4, <3>5 DEF WalkSound
        <3>7. v.skip => \E k \in 1 .. n : u[k].no <= top /\ \A x \in u[k].no .. top : x \in A
            <4>1. CASE acc.skip
                BY <3>1, <4>1 DEF WalkSound, top
            <4>2. CASE ~acc.skip /\ h = top
                <5>1. \A k \in p.no .. top : k \in A
                    BY <1>11, <4>2 DEF InRange
                <5>2. u[n].no <= top /\ \A x \in u[n].no .. top : x \in A
                    BY <1>11, <3>4, <5>1
                <5> QED BY <3>2, <5>2
            <4> QED BY <2>3, <4>1, <4>2
        <3>8. v.bad => \E k \in 1 .. n : u[k].rec = "poison" /\ u[k].no \in A
            BY <2>3, <3>1 DEF WalkSound
        <3> QED BY <3>6, <3>7, <3>8 DEF WalkSound, top
    <2> QED BY <2>3, <2>4 DEF v, p
<1>12. p.no > top \/ p.no <= top
    BY <1>2, <1>3
<1> QED BY <1>6, <1>7, <1>8, <1>10, <1>11, <1>12

LEMMA WalkFacts ==
    ASSUME NEW M \in Nat, NEW A \in SUBSET (0 .. M), A # {},
           unacked \in Seq(PacketType), largest_acked \in Int
    PROVE  /\ Walk(A) \in AccType
           /\ Ascends(unacked) => WalkSound(Walk(A), A, unacked, Len(unacked))
<1> DEFINE s == [ids |-> << >>, range |-> 0, skip |-> FALSE, stop |-> FALSE,
                 bad |-> FALSE, largest |-> largest_acked]
           h == CHOOSE h : h = [i \in 0 .. Len(unacked) |-> WalkAt(A, s, unacked, h, i)]
<1>0. Len(unacked) \in Nat
    BY LenNat
<1>1. h = [i \in 0 .. Len(unacked) |-> WalkAt(A, s, unacked, h, i)]
    <2> HIDE DEF s
    <2> QED BY <1>0, WalkExists
<1>2. Walk(A) = h[Len(unacked)]
    BY DEF Walk, WalkAt
<1>3. s \in AccType
    BY DEF AccType
<1>4. WalkSound(s, A, unacked, 0)
    <2>1. s.ids = << >> /\ s.bad = FALSE /\ s.skip = FALSE
        OBVIOUS
    <2>2. ToSet(<< >>) = {}
        BY DEF ToSet
    <2> HIDE DEF s
    <2> QED BY <2>1, <2>2 DEF WalkSound
<1> HIDE DEF s, h
<1> DEFINE Good(m) == /\ h[m] \in AccType
                      /\ Ascends(unacked) => WalkSound(h[m], A, unacked, m)
           T == {m \in 0 .. Len(unacked) : ~Good(m)}
<1>5. Good(0)
    <2>1. h[0] = s
        BY <1>0, <1>1 DEF WalkAt
    <2> QED BY <1>3, <1>4, <2>1
<1>6. ASSUME NEW m \in 1 .. Len(unacked), Good(m - 1) PROVE Good(m)
    <2> DEFINE a == h[m - 1]
    <2>1. h[m] = Visit(A, a, unacked[m])
        <3>1. m \in 0 .. Len(unacked) /\ m # 0
            OBVIOUS
        <3> QED BY <1>1, <3>1 DEF WalkAt
    <2>2. a \in AccType /\ (Ascends(unacked) => WalkSound(a, A, unacked, m - 1))
        BY <1>6
    <2> HIDE DEF a
    <2>3. /\ Visit(A, a, unacked[m]) \in AccType
          /\ Ascends(unacked) /\ WalkSound(a, A, unacked, m - 1) =>
               WalkSound(Visit(A, a, unacked[m]), A, unacked, m)
        BY <2>2, VisitFacts
    <2> QED BY <2>1, <2>2, <2>3
<1> HIDE DEF Good
<1>7. T = {}
    <2> SUFFICES ASSUME T # {} PROVE FALSE
        OBVIOUS
    <2>1. PICK m \in T : \A l \in T : m <= l
        <3>1. T \in SUBSET Nat
            OBVIOUS
        <3> HIDE DEF T
        <3> QED BY <3>1, Least
    <2>2. m # 0
        BY <1>5
    <2>3. m \in 1 .. Len(unacked) /\ m - 1 \notin T
        BY <2>1, <2>2
    <2> QED BY <1>6, <2>1, <2>3
<1>8. Good(Len(unacked))
    BY <1>0, <1>7
<1> QED BY <1>2, <1>8 DEF Good

(***************************************************************************)
(* SentPackets(sent), by its recursion: the queue before, and behind it    *)
(* the packets sent, each possibly behind a poisoned one.                  *)
(***************************************************************************)
SentAt(s, sent, g, i) == IF i = 0 THEN s ELSE g[i - 1] \o UnackedAfter(sent[i])

LEMMA SentExists ==
    ASSUME NEW s, NEW sent, NEW k \in Nat
    PROVE  \E g : g = [i \in 0 .. k |-> SentAt(s, sent, g, i)]
<1> DEFINE P(n) == \E g : g = [i \in 0 .. n |-> SentAt(s, sent, g, i)]
           T == {n \in Nat : ~P(n)}
<1>1. SUFFICES ASSUME T # {} PROVE FALSE
    OBVIOUS
<1>2. PICK n \in T : \A m \in T : n <= m
    BY <1>1, Least
<1>3. n # 0
    <2> DEFINE g == [i \in 0 .. 0 |-> s]
    <2>1. g = [i \in 0 .. 0 |-> SentAt(s, sent, g, i)]
        BY DEF SentAt
    <2> QED BY <1>2, <2>1
<1>4. n - 1 \in Nat /\ n - 1 \notin T
    BY <1>2, <1>3
<1>5. PICK g : g = [i \in 0 .. n - 1 |-> SentAt(s, sent, g, i)]
    BY <1>4
<1> DEFINE h == [i \in 0 .. n |-> SentAt(s, sent, g, i)]
<1>6. \A i \in 0 .. n - 1 : h[i] = g[i]
    BY <1>4, <1>5
<1>7. ASSUME NEW i \in 0 .. n PROVE h[i] = SentAt(s, sent, h, i)
    <2>1. h[i] = SentAt(s, sent, g, i)
        OBVIOUS
    <2>2. i # 0 => h[i - 1] = g[i - 1]
        <3>1. i # 0 => i - 1 \in 0 .. n - 1
            BY <1>4
        <3> HIDE DEF h
        <3> QED BY <1>6, <3>1
    <2> HIDE DEF h
    <2> QED BY <2>1, <2>2 DEF SentAt
<1>8. h = [i \in 0 .. n |-> SentAt(s, sent, h, i)]
    BY <1>7, Zenon
<1> QED BY <1>2, <1>8

LEMMA SetAppend ==
    ASSUME NEW P, NEW a \in Seq(P), NEW p \in P
    PROVE  ToSet(Append(a, p)) = ToSet(a) \cup {p}
<1>1. /\ Append(a, p) \in Seq(P) /\ Len(Append(a, p)) = Len(a) + 1
      /\ \A i \in 1 .. Len(a) : Append(a, p)[i] = a[i]
      /\ Append(a, p)[Len(a) + 1] = p
    BY AppendFacts
<1>2. Len(a) \in Nat
    BY LenNat
<1> DEFINE b == Append(a, p)
<1>3. \A i \in 1 .. Len(b) : i \in 1 .. Len(a) \/ i = Len(a) + 1
    BY <1>1, <1>2
<1>4. Len(a) + 1 \in 1 .. Len(b) /\ \A i \in 1 .. Len(a) : i \in 1 .. Len(b)
    BY <1>1, <1>2
<1>5. b \in Seq(P)
    BY <1>1
<1> HIDE DEF b
<1>6. /\ \A i \in 1 .. Len(b) : b[i] \in ToSet(b)
      /\ \A x \in ToSet(b) : \E i \in 1 .. Len(b) : x = b[i]
    BY <1>5, InToSet
<1>7. /\ \A i \in 1 .. Len(a) : a[i] \in ToSet(a)
      /\ \A x \in ToSet(a) : \E i \in 1 .. Len(a) : x = a[i]
    BY InToSet
<1>8. /\ \A i \in 1 .. Len(a) : b[i] = a[i]
      /\ b[Len(a) + 1] = p
    BY <1>1 DEF b
<1>9. ToSet(b) = ToSet(a) \cup {p}
    BY <1>3, <1>4, <1>6, <1>7, <1>8
<1> QED BY <1>9 DEF b

LEMMA SetConcat ==
    ASSUME NEW P, NEW a \in Seq(P), NEW b \in Seq(P)
    PROVE  ToSet(a \o b) = ToSet(a) \cup ToSet(b)
<1> DEFINE c == a \o b
<1>1. /\ c \in Seq(P) /\ Len(c) = Len(a) + Len(b)
      /\ \A i \in 1 .. Len(a) : c[i] = a[i]
      /\ \A i \in 1 .. Len(b) : c[Len(a) + i] = b[i]
      /\ \A i \in Len(a) + 1 .. Len(a) + Len(b) : c[i] = b[i - Len(a)]
    BY ConcatFacts
<1>2. Len(a) \in Nat /\ Len(b) \in Nat
    BY LenNat
<1> HIDE DEF c
<1>3. /\ \A i \in 1 .. Len(c) : c[i] \in ToSet(c)
      /\ \A x \in ToSet(c) : \E i \in 1 .. Len(c) : x = c[i]
    <2>1. c \in Seq(P)
        BY <1>1
    <2> QED BY <2>1, InToSet
<1>4. /\ \A i \in 1 .. Len(a) : a[i] \in ToSet(a)
      /\ \A x \in ToSet(a) : \E i \in 1 .. Len(a) : x = a[i]
    BY InToSet
<1>5. /\ \A i \in 1 .. Len(b) : b[i] \in ToSet(b)
      /\ \A x \in ToSet(b) : \E i \in 1 .. Len(b) : x = b[i]
    BY InToSet
<1>6. \A i \in 1 .. Len(c) : i \in 1 .. Len(a)
        \/ (i \in Len(a) + 1 .. Len(a) + Len(b) /\ i - Len(a) \in 1 .. Len(b))
    BY <1>1, <1>2
<1>7. /\ \A i \in 1 .. Len(a) : i \in 1 .. Len(c)
      /\ \A i \in 1 .. Len(b) : Len(a) + i \in 1 .. Len(c)
    BY <1>1, <1>2
<1>8. \A x \in ToSet(c) : x \in ToSet(a) \cup ToSet(b)
    <2> TAKE x \in ToSet(c)
    <2>1. PICK i \in 1 .. Len(c) : x = c[i]
        BY <1>3
    <2>2. CASE i \in 1 .. Len(a)
        BY <1>1, <1>4, <2>1, <2>2
    <2>3. CASE i \in Len(a) + 1 .. Len(a) + Len(b) /\ i - Len(a) \in 1 .. Len(b)
        BY <1>1, <1>5, <2>1, <2>3
    <2> QED BY <1>6, <2>2, <2>3
<1>9. \A x \in ToSet(a) \cup ToSet(b) : x \in ToSet(c)
    <2>1. \A x \in ToSet(a) : x \in ToSet(c)
        BY <1>1, <1>3, <1>4, <1>7
    <2>2. ASSUME NEW x \in ToSet(b) PROVE x \in ToSet(c)
        <3>1. PICK i \in 1 .. Len(b) : x = b[i]
            BY <1>5
        <3>2. Len(a) + i \in 1 .. Len(c) /\ c[Len(a) + i] = b[i]
            BY <1>1, <1>7
        <3> QED BY <1>3, <3>1, <3>2
    <2> QED BY <2>1, <2>2
<1> QED BY <1>8, <1>9 DEF c

Distinct(q) ==
    \A i, j \in 1 .. Len(q) : IsReal(q[i]) /\ IsReal(q[j]) /\ q[i].id = q[j].id => i = j

LEMMA AppendOrdered ==
    ASSUME NEW a \in Seq(PacketType), NEW p \in PacketType
    PROVE  /\ Ascends(a) /\ (\A i \in 1 .. Len(a) : a[i].no < p.no)
                => Ascends(Append(a, p)) /\ \A i \in 1 .. Len(Append(a, p)) : Append(a, p)[i].no <= p.no
           /\ Distinct(a) /\ (IsReal(p) => \A i \in 1 .. Len(a) : IsReal(a[i]) => a[i].id # p.id)
                => Distinct(Append(a, p))
<1> DEFINE b == Append(a, p)
<1>1. /\ Len(b) = Len(a) + 1 /\ b[Len(a) + 1] = p
      /\ \A i \in 1 .. Len(a) : b[i] = a[i]
    BY AppendFacts
<1>2. Len(a) \in Nat
    BY LenNat
<1> HIDE DEF b
<1>3. \A i \in 1 .. Len(b) : (i \in 1 .. Len(a) /\ b[i] = a[i]) \/ (i = Len(a) + 1 /\ b[i] = p)
    BY <1>1, <1>2
<1>4. p.no \in Int /\ \A i \in 1 .. Len(a) : a[i].no \in Int
    <2>1. \A i \in 1 .. Len(a) : a[i] \in PacketType
        OBVIOUS
    <2> QED BY <2>1 DEF PacketType
<1>5. ASSUME Ascends(a), \A i \in 1 .. Len(a) : a[i].no < p.no
      PROVE  Ascends(b) /\ \A i \in 1 .. Len(b) : b[i].no <= p.no
    <2>1. ASSUME NEW i \in 1 .. Len(b), NEW j \in 1 .. Len(b), i < j PROVE b[i].no < b[j].no
        <3>1. i \in 1 .. Len(a) /\ b[i] = a[i]
            BY <1>1, <1>2, <1>3, <2>1
        <3>2. CASE j \in 1 .. Len(a) /\ b[j] = a[j]
            BY <1>5, <2>1, <3>1, <3>2 DEF Ascends
        <3>3. CASE b[j] = p
            BY <1>5, <3>1, <3>3
        <3> QED BY <1>3, <3>2, <3>3
    <2>2. ASSUME NEW i \in 1 .. Len(b) PROVE b[i].no <= p.no
        BY <1>3, <1>4, <1>5
    <2> QED BY <2>1, <2>2 DEF Ascends
<1>6. ASSUME Distinct(a), IsReal(p) => \A i \in 1 .. Len(a) : IsReal(a[i]) => a[i].id # p.id
      PROVE  Distinct(b)
    <2> SUFFICES ASSUME NEW i \in 1 .. Len(b), NEW j \in 1 .. Len(b), IsReal(b[i]), IsReal(b[j]),
                        b[i].id = b[j].id
                 PROVE  i = j
        BY DEF Distinct
    <2>1. CASE i \in 1 .. Len(a) /\ j \in 1 .. Len(a) /\ b[i] = a[i] /\ b[j] = a[j]
        BY <1>6, <2>1 DEF Distinct
    <2>2. CASE b[i] = p /\ j \in 1 .. Len(a) /\ b[j] = a[j]
        BY <1>6, <2>2
    <2>3. CASE b[j] = p /\ i \in 1 .. Len(a) /\ b[i] = a[i]
        BY <1>6, <2>3
    <2>4. CASE i = Len(a) + 1 /\ j = Len(a) + 1
        BY <2>4
    <2> QED BY <1>3, <2>1, <2>2, <2>3, <2>4
<1> QED BY <1>5, <1>6 DEF b

-----------------------------------------------------------------------------
(***************************************************************************)
(* Packets that are sent join the Unacked Queue.                           *)
(***************************************************************************)

Stripped(p) == [p EXCEPT !.enc = NotEncrypted]

LEMMA StrippedFacts ==
    ASSUME NEW p \in PacketType
    PROVE  /\ Stripped(p) \in PacketType /\ Stripped(p).enc = NotEncrypted
           /\ \A f \in {"no", "id", "frames", "rec", "re", "retx"} : Stripped(p)[f] = p[f]
<1>1. NotEncrypted \in EncType
    BY DEF NotEncrypted, EncType, NoPackno
<1> QED BY <1>1 DEF Stripped, PacketType

LEMMA PoisonFacts ==
    ASSUME gap \in Int
    PROVE  /\ Poison \in PacketType /\ Poison.no = gap /\ Poison.rec = "poison"
           /\ Poison.frames = {} /\ Poison.enc = NotEncrypted /\ Poison.id = 0
<1>1. NotEncrypted \in EncType
    BY DEF NotEncrypted, EncType, NoPackno
<1> QED BY <1>1 DEF Poison, Packet, PacketType

LEMMA UnackedAfterFacts ==
    ASSUME NEW r \in Seq(PacketType), NEW p \in PacketType, gap \in Int
    PROVE  IF p.no = gap + 1
           THEN r \o UnackedAfter(p) = Append(Append(r, Poison), Stripped(p))
           ELSE r \o UnackedAfter(p) = Append(r, Stripped(p))
<1>1. Stripped(p) \in PacketType /\ Poison \in PacketType
    BY StrippedFacts, PoisonFacts
<1>2. UnackedAfter(p) = IF p.no = gap + 1 THEN <<Poison>> \o <<Stripped(p)>>
                        ELSE << >> \o <<Stripped(p)>>
    BY DEF UnackedAfter, Stripped
<1>3. ASSUME NEW x \in PacketType, NEW y \in PacketType
      PROVE  /\ r \o (<<x>> \o <<y>>) = Append(Append(r, x), y)
             /\ r \o (<< >> \o <<y>>) = Append(r, y)
    OBVIOUS
<1> QED BY <1>1, <1>2, <1>3

Sendable(sent, lg) ==
    /\ lg # gap /\ Ascends(sent)
    /\ \A i \in 1 .. Len(sent) : sent[i].no > lg /\ sent[i].no # gap

(* The queue r after k of the packets of sent have joined it.              *)
Joined(r, sent, k) ==
    /\ r \in Seq(PacketType)
    /\ \A x \in ToSet(unacked) : x \in ToSet(r)
    /\ \A j \in 1 .. k : Stripped(sent[j]) \in ToSet(r)
    /\ \A x \in ToSet(r) : \/ x \in ToSet(unacked)
                           \/ x = Poison
                           \/ \E j \in 1 .. k : x = Stripped(sent[j])
    /\ \A lg \in Int :
         /\ Sendable(sent, lg) /\ Ascends(unacked)
         /\ \A x \in ToSet(unacked) : x.no <= lg
         => Ascends(r) /\ \A x \in ToSet(r) : x.no <= Before(sent, k + 1, lg)
    /\ /\ Distinct(unacked) /\ Distinct(sent)
       /\ \A j \in 1 .. Len(sent) :
            IsReal(sent[j]) /\ \A x \in ToSet(unacked) : IsReal(x) => x.id # sent[j].id
       => Distinct(r)

LEMMA JoinedStep ==
    ASSUME NEW sent \in Seq(PacketType), NEW k \in 1 .. Len(sent), NEW r,
           unacked \in Seq(PacketType), gap \in Int, Joined(r, sent, k - 1)
    PROVE  Joined(r \o UnackedAfter(sent[k]), sent, k)
<1> DEFINE p == sent[k]
           y == Stripped(p)
           m == IF p.no = gap + 1 THEN Append(r, Poison) ELSE r
           z == Append(m, y)
<1>1. p \in PacketType
    OBVIOUS
<1>2. r \in Seq(PacketType)
    BY DEF Joined
<1>3. /\ Poison \in PacketType /\ Poison.no = gap /\ Poison.rec = "poison"
    BY PoisonFacts
<1> HIDE DEF p
<1>4. y \in PacketType /\ y.no = p.no /\ y.id = p.id /\ y.rec = p.rec
    BY <1>1, StrippedFacts
<1> HIDE DEF y
<1>5. z = r \o UnackedAfter(p)
    BY <1>1, <1>2, UnackedAfterFacts DEF y
<1>6. m \in Seq(PacketType)
    BY <1>2, <1>3, AppendFacts
<1>7. /\ \A x \in ToSet(r) : x \in ToSet(m)
      /\ \A x \in ToSet(m) : x \in ToSet(r) \/ (x = Poison /\ p.no = gap + 1)
    BY <1>2, <1>3, SetAppend
<1>8. ToSet(z) = ToSet(m) \cup {y} /\ z \in Seq(PacketType)
    <2> HIDE DEF m
    <2> QED BY <1>4, <1>6, SetAppend, AppendFacts
<1>9. p.no \in Int /\ p.id \in Nat
    BY <1>1 DEF PacketType
<1>10. \A j \in 1 .. k : j \in 1 .. k - 1 \/ j = k
    OBVIOUS
<1>10b. k \in 1 .. k /\ \A j \in 1 .. k - 1 : j \in 1 .. k
    OBVIOUS
<1>11. \A j \in 1 .. k : Stripped(sent[j]) \in ToSet(z)
    <2>1. \A j \in 1 .. k - 1 : Stripped(sent[j]) \in ToSet(r)
        BY DEF Joined
    <2> HIDE DEF m, z
    <2> QED BY <1>7, <1>8, <1>10, <2>1 DEF y, p
<1>12. \A x \in ToSet(z) : \/ x \in ToSet(unacked)
                           \/ x = Poison
                           \/ \E j \in 1 .. k : x = Stripped(sent[j])
    <2>1. \A x \in ToSet(r) : \/ x \in ToSet(unacked)
                              \/ x = Poison
                              \/ \E j \in 1 .. k - 1 : x = Stripped(sent[j])
        BY DEF Joined
    <2> HIDE DEF m, z
    <2>2. \A x \in ToSet(z) : x \in ToSet(r) \/ x = Poison \/ x = Stripped(sent[k])
        BY <1>7, <1>8 DEF y, p
    <2> QED BY <1>10b, <2>1, <2>2
<1>13. ASSUME NEW lg \in Int, Sendable(sent, lg), Ascends(unacked),
              \A x \in ToSet(unacked) : x.no <= lg
       PROVE  Ascends(z) /\ \A x \in ToSet(z) : x.no <= Before(sent, k + 1, lg)
    <2> DEFINE b == Before(sent, k, lg)
    <2>1. Ascends(r) /\ \A x \in ToSet(r) : x.no <= b
        <3>1. k - 1 + 1 = k
            OBVIOUS
        <3> QED BY <1>13, <3>1 DEF Joined
    <2>2. b \in Int /\ b # gap /\ b < p.no
        <3>1. CASE k = 1
            BY <1>13, <3>1 DEF Before, Sendable, p
        <3>2. CASE k # 1
            <4>1. k - 1 \in 1 .. Len(sent) /\ sent[k - 1] \in PacketType
                BY <3>2
            <4>2. sent[k - 1].no \in Int
                BY <4>1 DEF PacketType
            <4>3. sent[k - 1].no # gap /\ sent[k - 1].no < sent[k].no
                BY <1>13, <4>1 DEF Sendable, Ascends
            <4> QED BY <3>2, <4>2, <4>3 DEF Before, p
        <3> QED BY <3>1, <3>2
    <2>3. Before(sent, k + 1, lg) = p.no
        BY DEF Before, p
    <2> HIDE DEF b
    <2>4. \A x \in ToSet(r) : x.no \in Int
        <3>1. \A x \in ToSet(r) : x \in PacketType
            BY <1>2, InToSet
        <3> QED BY <3>1 DEF PacketType
    <2>5. \A i \in 1 .. Len(r) : r[i] \in ToSet(r)
        BY <1>2, InToSet
    <2>6. Ascends(m) /\ \A i \in 1 .. Len(m) : m[i].no < p.no
        <3>1. CASE p.no = gap + 1
            <4>1. b < gap
                BY <2>2, <3>1
            <4>2. \A i \in 1 .. Len(r) : r[i].no < Poison.no
                BY <1>3, <2>1, <2>2, <2>4, <2>5, <4>1
            <4> DEFINE w == Append(r, Poison)
            <4>3. Ascends(w) /\ \A i \in 1 .. Len(w) : w[i].no <= Poison.no
                BY <1>2, <1>3, <2>1, <4>2, AppendOrdered
            <4>4. w \in Seq(PacketType)
                BY <1>2, <1>3, AppendFacts
            <4> HIDE DEF w
            <4>5. \A i \in 1 .. Len(w) : w[i] \in PacketType
                BY <4>4
            <4>6. \A i \in 1 .. Len(w) : w[i].no \in Int
                BY <4>5 DEF PacketType
            <4>7. \A i \in 1 .. Len(w) : w[i].no < p.no
                BY <1>3, <1>9, <3>1, <4>3, <4>6
            <4> QED BY <3>1, <4>3, <4>7 DEF w
        <3>2. CASE p.no # gap + 1
            <4>1. m = r
                BY <3>2
            <4>2. \A i \in 1 .. Len(r) : r[i].no < p.no
                BY <1>9, <2>1, <2>2, <2>4, <2>5
            <4> QED BY <2>1, <4>1, <4>2
        <3> QED BY <3>1, <3>2
    <2> HIDE DEF m
    <2>7. Ascends(Append(m, y)) /\ \A i \in 1 .. Len(Append(m, y)) : Append(m, y)[i].no <= y.no
        BY <1>4, <1>6, <2>6, AppendOrdered
    <2> HIDE DEF z
    <2>8. Ascends(z) /\ \A i \in 1 .. Len(z) : z[i].no <= p.no
        BY <1>4, <2>7 DEF z
    <2>9. \A x \in ToSet(z) : \E i \in 1 .. Len(z) : x = z[i]
        BY <1>8, InToSet
    <2> QED BY <2>3, <2>8, <2>9
<1>14. ASSUME Distinct(unacked), Distinct(sent),
              \A j \in 1 .. Len(sent) :
                IsReal(sent[j]) /\ \A x \in ToSet(unacked) : IsReal(x) => x.id # sent[j].id
       PROVE  Distinct(z)
    <2>1. Distinct(r)
        BY <1>14 DEF Joined
    <2>2. ~IsReal(Poison)
        BY <1>3 DEF IsReal
    <2>3. Distinct(m)
        <3>1. Distinct(Append(r, Poison))
            BY <1>2, <1>3, <2>1, <2>2, AppendOrdered
        <3> QED BY <2>1, <3>1
    <2>4. \A x \in ToSet(r) : IsReal(x) => x.id # p.id
        <3> SUFFICES ASSUME NEW x \in ToSet(r), IsReal(x), x.id = p.id PROVE FALSE
            OBVIOUS
        <3>1. x \notin ToSet(unacked)
            BY <1>14 DEF p
        <3>2. PICK j \in 1 .. k - 1 : x = Stripped(sent[j])
            BY <2>2, <3>1 DEF Joined
        <3>3. j \in 1 .. Len(sent) /\ sent[j] \in PacketType /\ j # k
            OBVIOUS
        <3>4. x.id = sent[j].id
            BY <3>2, <3>3, StrippedFacts
        <3>5. IsReal(sent[j]) /\ IsReal(sent[k])
            BY <1>14, <3>3
        <3> QED BY <1>14, <3>3, <3>4, <3>5 DEF Distinct, p
    <2>5. \A x \in ToSet(m) : IsReal(x) => x.id # p.id
        BY <1>7, <2>2, <2>4
    <2> HIDE DEF m
    <2>6. \A i \in 1 .. Len(m) : m[i] \in ToSet(m)
        BY <1>6, InToSet
    <2>7. \A i \in 1 .. Len(m) : IsReal(m[i]) => m[i].id # y.id
        BY <1>4, <2>5, <2>6
    <2> QED BY <1>4, <1>6, <2>3, <2>7, AppendOrdered
<1>15. \A x \in ToSet(unacked) : x \in ToSet(z)
    <2>1. \A x \in ToSet(unacked) : x \in ToSet(r)
        BY DEF Joined
    <2> HIDE DEF m, z
    <2> QED BY <1>7, <1>8, <2>1
<1> HIDE DEF z
<1>16. Joined(z, sent, k)
    BY <1>8, <1>11, <1>12, <1>13, <1>14, <1>15 DEF Joined
<1> QED BY <1>5, <1>16 DEF p

LEMMA SentFacts ==
    ASSUME NEW sent \in Seq(PacketType), unacked \in Seq(PacketType), gap \in Int
    PROVE  Joined(SentPackets(sent), sent, Len(sent))
<1> DEFINE h == CHOOSE h : h = [i \in 0 .. Len(sent) |-> SentAt(unacked, sent, h, i)]
<1>0. Len(sent) \in Nat
    BY LenNat
<1>1. h = [i \in 0 .. Len(sent) |-> SentAt(unacked, sent, h, i)]
    BY <1>0, SentExists
<1>2. SentPackets(sent) = h[Len(sent)]
    BY DEF SentPackets, SentAt
<1> HIDE DEF h
<1> DEFINE Good(k) == Joined(h[k], sent, k)
           T == {k \in 0 .. Len(sent) : ~Good(k)}
<1>5. Good(0)
    <2>1. h[0] = unacked
        BY <1>0, <1>1 DEF SentAt
    <2>2. Before(sent, 0 + 1, 0) = 0 /\ \A lg \in Int : Before(sent, 0 + 1, lg) = lg
        BY DEF Before
    <2>3. Joined(unacked, sent, 0)
        BY <2>2 DEF Joined
    <2> QED BY <2>1, <2>3
<1>6. ASSUME NEW k \in 1 .. Len(sent), Good(k - 1) PROVE Good(k)
    <2>1. h[k] = h[k - 1] \o UnackedAfter(sent[k])
        <3>1. k \in 0 .. Len(sent) /\ k # 0
            OBVIOUS
        <3> QED BY <1>1, <3>1 DEF SentAt
    <2> DEFINE r == h[k - 1]
    <2>2. Joined(r, sent, k - 1)
        BY <1>6
    <2> HIDE DEF r
    <2>3. Joined(r \o UnackedAfter(sent[k]), sent, k)
        BY <2>2, JoinedStep
    <2> QED BY <2>1, <2>3 DEF r
<1> HIDE DEF Good
<1>7. T = {}
    <2> SUFFICES ASSUME T # {} PROVE FALSE
        OBVIOUS
    <2>1. PICK k \in T : \A l \in T : k <= l
        <3>1. T \in SUBSET Nat
            OBVIOUS
        <3> HIDE DEF T
        <3> QED BY <3>1, Least
    <2>2. k # 0
        BY <1>5
    <2>3. k \in 1 .. Len(sent) /\ k - 1 \notin T
        BY <2>1, <2>2
    <2> QED BY <1>6, <2>1, <2>3
<1>8. Good(Len(sent))
    BY <1>0, <1>7
<1> QED BY <1>2, <1>8 DEF Good

(* The largest of finitely many numbers, some of which are below zero.     *)
LEMMA LargestOf ==
    ASSUME NEW q \in Seq(PacketType), NEW lg \in Int
    PROVE  LET S == {lg} \cup {q[i].no : i \in DOMAIN q}
           IN  Max(S) \in S /\ Max(S) \in Int /\ \A x \in S : x <= Max(S)
<1> DEFINE S(n) == {lg} \cup {q[i].no : i \in 1 .. n}
           Good(n) == \E x \in S(n) : \A y \in S(n) : y <= x
           T == {n \in 0 .. Len(q) : ~Good(n)}
<1>0. Len(q) \in Nat /\ DOMAIN q = 1 .. Len(q)
    BY LenNat
<1>1. \A i \in 1 .. Len(q) : q[i].no \in Int
    <2>1. \A i \in 1 .. Len(q) : q[i] \in PacketType
        OBVIOUS
    <2> QED BY <2>1 DEF PacketType
<1>2. Good(0)
    OBVIOUS
<1>3. ASSUME NEW n \in 1 .. Len(q), Good(n - 1) PROVE Good(n)
    <2>1. PICK x \in S(n - 1) : \A y \in S(n - 1) : y <= x
        BY <1>3
    <2>2. S(n) = S(n - 1) \cup {q[n].no}
        <3>1. 1 .. n = (1 .. n - 1) \cup {n}
            OBVIOUS
        <3> QED BY <3>1
    <2>3. q[n].no \in Int /\ x \in Int /\ \A y \in S(n) : y \in Int
        <3>1. \A i \in 1 .. n : i \in 1 .. Len(q)
            OBVIOUS
        <3> QED BY <1>1, <2>2, <3>1
    <2> HIDE DEF S
    <2>4. CASE q[n].no <= x
        BY <2>1, <2>2, <2>4
    <2>5. CASE q[n].no > x
        <3>1. \A y \in S(n - 1) : y <= q[n].no
            <4>1. ASSUME NEW y \in S(n - 1) PROVE y <= q[n].no
                <5>1. y \in Int /\ y <= x
                    BY <2>1, <2>2, <2>3
                <5> QED BY <2>3, <2>5, <5>1
            <4> QED BY <4>1
        <3>2. \A y \in S(n) : y <= q[n].no
            <4>1. q[n].no <= q[n].no
                BY <2>3
            <4> QED BY <2>2, <3>1, <4>1, Zenon
        <3> QED BY <2>2, <3>2
    <2> QED BY <2>3, <2>4, <2>5
<1> HIDE DEF Good
<1>4. T = {}
    <2> SUFFICES ASSUME T # {} PROVE FALSE
        OBVIOUS
    <2>1. PICK k \in T : \A l \in T : k <= l
        <3>1. T \in SUBSET Nat
            OBVIOUS
        <3> HIDE DEF T
        <3> QED BY <3>1, Least
    <2>2. k # 0
        BY <1>2
    <2>3. k \in 1 .. Len(q) /\ k - 1 \notin T
        BY <2>1, <2>2
    <2> QED BY <1>3, <2>1, <2>3
<1>5. Good(Len(q))
    BY <1>0, <1>4
<1>6. \E x \in S(Len(q)) : \A y \in S(Len(q)) : y <= x
    BY <1>5 DEF Good
<1>7. \A x \in S(Len(q)) : x \in Int
    BY <1>1
<1>8. S(Len(q)) = {lg} \cup {q[i].no : i \in DOMAIN q}
    BY <1>0
<1> HIDE DEF S
<1>9. LET s == S(Len(q)) IN Max(s) \in s /\ \A x \in s : x <= Max(s)
    BY <1>6 DEF Max
<1> QED BY <1>7, <1>8, <1>9

-----------------------------------------------------------------------------
(***************************************************************************)
(* Packets and the operations on the Scheduled Queue.                      *)
(***************************************************************************)

(***************************************************************************)
(* Packets as the operations change them.                                  *)
(***************************************************************************)
LEMMA PacketFacts ==
    ASSUME NEW no \in Int, NEW id \in Nat, NEW frames \in SUBSET Frames
    PROVE  /\ Packet(no, id, frames) \in PacketType
           /\ Packet(no, id, frames).no = no /\ Packet(no, id, frames).id = id
           /\ Packet(no, id, frames).frames = frames
           /\ Packet(no, id, frames).enc = NotEncrypted
           /\ Packet(no, id, frames).re = FALSE /\ IsReal(Packet(no, id, frames))
<1>1. NotEncrypted \in EncType
    BY DEF NotEncrypted, EncType, NoPackno
<1> QED BY <1>1 DEF Packet, PacketType, IsReal

LEMMA NextPacknoType ==
    ASSUME cur \in Int, gap \in Int
    PROVE  NextPackno \in Int /\ NextPackno = Succ(cur, gap)
BY DEF NextPackno, Succ

LEMMA ChoppedFacts ==
    ASSUME NEW p \in PacketType, cur \in Int, gap \in Int
    PROVE  /\ Chopped(p) \in PacketType /\ Chopped(p).no = NextPackno
           /\ Chopped(p).frames = p.frames \ {"ack"} /\ Chopped(p).re = FALSE
           /\ \A f \in {"id", "rec", "retx", "enc"} : Chopped(p)[f] = p[f]
<1>1. NextPackno \in Int
    BY NextPacknoType
<1>2. p.frames \ {"ack"} \in SUBSET Frames
    BY DEF PacketType
<1> QED BY <1>1, <1>2 DEF Chopped, PacketType

LEMMA EncryptedFacts ==
    ASSUME NEW p \in PacketType
    PROVE  /\ Encrypted(p) \in PacketType
           /\ p.enc = NotEncrypted => Encrypted(p).enc.no = p.no
           /\ \A f \in {"no", "id", "frames", "rec", "re", "retx"} : Encrypted(p)[f] = p[f]
<1> DEFINE e == [no |-> p.no, frames |-> p.frames]
           o == [p EXCEPT !.enc = e]
<1>1. e \in EncType /\ e.no = p.no
    BY DEF EncType, PacketType
<1> HIDE DEF e
<1>2. /\ o \in PacketType /\ o.enc = e
      /\ \A f \in {"no", "id", "frames", "rec", "re", "retx"} : o[f] = p[f]
    BY <1>1 DEF PacketType
<1>3. Encrypted(p) = IF p.enc # NotEncrypted THEN p ELSE o
    BY DEF Encrypted, e
<1> HIDE DEF o
<1> QED BY <1>1, <1>2, <1>3

(***************************************************************************)
(* The Scheduled Queue with the count of its bytes.                        *)
(***************************************************************************)
QType == [q : Seq(PacketType), bytes : Int]
Counted(s) == s.bytes = BytesOf(s.q)

LEMMA SchedAppendFacts ==
    ASSUME NEW s \in QType, NEW p \in PacketType
    PROVE  /\ SchedAppend(s, p) \in QType /\ SchedAppend(s, p).q = Append(s.q, p)
           /\ Counted(s) => Counted(SchedAppend(s, p))
<1>1. s.q \in Seq(PacketType) /\ s.bytes \in Int
    BY DEF QType
<1>2. Size(p) \in Nat
    BY SizeType
<1>3. Append(s.q, p) \in Seq(PacketType) /\ BytesOf(Append(s.q, p)) = BytesOf(s.q) + Size(p)
    BY <1>1, AppendFacts, BytesAppend
<1> QED BY <1>1, <1>2, <1>3 DEF SchedAppend, QType, Counted

LEMMA SchedPrependFacts ==
    ASSUME NEW s \in QType, NEW p \in PacketType
    PROVE  /\ SchedPrepend(s, p) \in QType /\ SchedPrepend(s, p).q = <<p>> \o s.q
           /\ Counted(s) => Counted(SchedPrepend(s, p))
<1>1. s.q \in Seq(PacketType) /\ s.bytes \in Int
    BY DEF QType
<1>2. Size(p) \in Nat /\ BytesOf(s.q) \in Nat
    BY <1>1, SizeType, BytesType
<1>3. <<p>> \in Seq(PacketType) /\ << >> \in Seq(PacketType) /\ <<p>> = Append(<< >>, p)
    OBVIOUS
<1>4. BytesOf(<<p>>) = Size(p)
    <2>1. BytesOf(Append(<< >>, p)) = BytesOf(<< >>) + Size(p)
        BY <1>3, BytesAppend
    <2> QED BY <1>2, <1>3, <2>1, BytesEmpty
<1>5. <<p>> \o s.q \in Seq(PacketType) /\ BytesOf(<<p>> \o s.q) = Size(p) + BytesOf(s.q)
    BY <1>1, <1>3, <1>4, ConcatFacts, BytesConcat
<1> QED BY <1>1, <1>2, <1>5 DEF SchedPrepend, QType, Counted

LEMMA SchedRemoveFacts ==
    ASSUME NEW s \in QType, NEW i \in 1 .. Len(s.q)
    PROVE  /\ SchedRemove(s, i) \in QType /\ SchedRemove(s, i).q = RemoveAt(s.q, i)
           /\ Counted(s) => Counted(SchedRemove(s, i))
<1>1. s.q \in Seq(PacketType) /\ s.bytes \in Int
    BY DEF QType
<1>2. s.q[i] \in PacketType
    BY <1>1
<1>3. Size(s.q[i]) \in Nat
    BY <1>2, SizeType
<1>4. RemoveAt(s.q, i) \in Seq(PacketType) /\ BytesOf(s.q) = BytesOf(RemoveAt(s.q, i)) + Size(s.q[i])
    BY <1>1, RemoveAtFacts, BytesSplit
<1>5. BytesOf(RemoveAt(s.q, i)) \in Nat
    BY <1>4, BytesType
<1> QED BY <1>1, <1>3, <1>4, <1>5 DEF SchedRemove, QType, Counted

(* A queue that differs from another one only in numbering and ciphertext. *)
Same(p, o) == Like(p, o) /\ p.retx = o.retx
LEMMA ResetFacts ==
    ASSUME NEW s \in QType
    PROVE  /\ ResetPacknos(s) \in QType /\ Len(ResetPacknos(s).q) = Len(s.q)
           /\ \A i \in 1 .. Len(s.q) :
                /\ Same(ResetPacknos(s).q[i], s.q[i])
                /\ ResetPacknos(s).q[i].re = TRUE /\ ResetPacknos(s).q[i].enc = s.q[i].enc
           /\ Counted(s) => Counted(ResetPacknos(s))
<1> DEFINE r == [i \in DOMAIN s.q |-> [s.q[i] EXCEPT !.re = TRUE]]
<1>1. s.q \in Seq(PacketType) /\ s.bytes \in Int
    BY DEF QType
<1>2. ResetPacknos(s) = [q |-> r, bytes |-> s.bytes]
    <2>1. ResetPacknos(s) = [s EXCEPT !.q = r]
        BY DEF ResetPacknos
    <2> HIDE DEF r
    <2> QED BY <2>1 DEF QType
<1>3. Len(s.q) \in Nat /\ DOMAIN s.q = 1 .. Len(s.q)
    BY <1>1, LenNat
<1>4. \A i \in 1 .. Len(s.q) : s.q[i] \in PacketType
    BY <1>1
<1>5. \A p \in PacketType : /\ [p EXCEPT !.re = TRUE] \in PacketType
                            /\ Same([p EXCEPT !.re = TRUE], p) /\ [p EXCEPT !.re = TRUE].re = TRUE
                            /\ [p EXCEPT !.re = TRUE].enc = p.enc
    <2> TAKE p \in PacketType
    <2> DEFINE o == [p EXCEPT !.re = TRUE]
    <2>1. /\ o \in PacketType /\ o.re = TRUE /\ o.enc = p.enc /\ o.id = p.id /\ o.no = p.no
          /\ o.frames = p.frames /\ o.rec = p.rec /\ o.retx = p.retx
        BY DEF PacketType
    <2> HIDE DEF o
    <2>2. Same(o, p)
        BY <2>1 DEF Same, Like
    <2> QED BY <2>1, <2>2 DEF o
<1>6. r \in Seq(PacketType) /\ Len(r) = Len(s.q)
    <2>1. r \in [1 .. Len(s.q) -> PacketType]
        BY <1>3, <1>4, <1>5
    <2> QED BY <1>3, <2>1
<1>7. \A i \in 1 .. Len(s.q) : r[i] \in PacketType /\ Same(r[i], s.q[i]) /\ r[i].re = TRUE /\ r[i].enc = s.q[i].enc
    BY <1>3, <1>4, <1>5
<1> HIDE DEF r
<1>8. BytesOf(r) = BytesOf(s.q)
    <2>1. \A i \in 1 .. Len(r) : Size(r[i]) = Size(s.q[i])
        BY <1>6, <1>7 DEF Same, Like, Size
    <2> QED BY <1>1, <1>6, <2>1, BytesSame
<1> QED BY <1>1, <1>2, <1>6, <1>7, <1>8 DEF QType, Counted

(* What is left after a walk that drops packets.                           *)
LEMMA RestFacts ==
    ASSUME NEW s \in [q : Seq(PacketType), bytes : Int, ids : SUBSET Nat]
    PROVE  /\ RestAfter(s) \in QType /\ Len(RestAfter(s).q) = Len(s.q)
           /\ \A i \in 1 .. Len(s.q) :
                /\ Same(RestAfter(s).q[i], s.q[i]) /\ RestAfter(s).q[i].enc = s.q[i].enc
                /\ s.ids # {} => RestAfter(s).q[i].re = TRUE
           /\ s.ids = {} => RestAfter(s).q = s.q
           /\ Counted(s) => Counted(RestAfter(s))
<1> DEFINE rest == [q |-> s.q, bytes |-> s.bytes]
<1>1. RestAfter(s) = IF s.ids = {} THEN rest ELSE ResetPacknos(rest)
    BY DEF RestAfter
<1>2. rest \in QType /\ rest.q = s.q /\ rest.bytes = s.bytes
    BY DEF QType
<1>3. Counted(rest) <=> Counted(s)
    BY <1>2 DEF Counted
<1> HIDE DEF rest
<1>4. CASE s.ids = {}
    BY <1>1, <1>2, <1>3, <1>4 DEF Same, Like
<1>5. CASE s.ids # {}
    BY <1>1, <1>2, <1>3, <1>5, ResetFacts
<1> QED BY <1>4, <1>5

LEMMA PlainFacts ==
    ASSUME NEW q \in Seq(PacketType)
    PROVE  /\ Plain(q) \in Seq(PacketType) /\ Len(Plain(q)) = Len(q)
           /\ \A i \in 1 .. Len(q) : Plain(q)[i] = Stripped(q[i])
           /\ BytesOf(Plain(q)) = BytesOf(q)
<1> DEFINE r == Plain(q)
<1>1. Len(q) \in Nat /\ DOMAIN q = 1 .. Len(q)
    BY LenNat
<1>2. \A i \in 1 .. Len(q) : q[i] \in PacketType
    OBVIOUS
<1>3. r = [i \in 1 .. Len(q) |-> Stripped(q[i])]
    BY <1>1 DEF Plain, Stripped
<1>4. \A i \in 1 .. Len(q) : Stripped(q[i]) \in PacketType /\ Stripped(q[i]).frames = q[i].frames
    BY <1>2, StrippedFacts
<1>5. r \in Seq(PacketType) /\ Len(r) = Len(q)
    <2>1. r \in [1 .. Len(q) -> PacketType]
        BY <1>3, <1>4
    <2> HIDE DEF r
    <2> QED BY <1>1, <2>1
<1>6. \A i \in 1 .. Len(q) : r[i] = Stripped(q[i])
    BY <1>3
<1> HIDE DEF r
<1>7. \A i \in 1 .. Len(r) : Size(r[i]) = Size(q[i])
    BY <1>4, <1>5, <1>6 DEF Size
<1>8. BytesOf(r) = BytesOf(q)
    BY <1>5, <1>7, BytesSame
<1> QED BY <1>5, <1>6, <1>8 DEF r

DropType == [q : Seq(PacketType), bytes : Int, ids : SUBSET Nat]

(* lsquic_send_ctl_squeeze_sched()                                         *)
LEMMA SqueezedFacts ==
    ASSUME sched \in QType
    PROVE  \E r \in Seq(PacketType) :
             /\ Squeezed \in DropType /\ Squeezed.q = Plain(r)
             /\ LeftOf(r, sched.q, Squeezed.ids)
             /\ \A i \in 1 .. Len(r) : HasData(r[i])
             /\ \A k \in 1 .. Len(sched.q) :
                  HasData(sched.q[k]) => \E i \in 1 .. Len(r) : r[i] = sched.q[k]
             /\ \A id : id \in Squeezed.ids <=>
                  \E k \in 1 .. Len(sched.q) : ~HasData(sched.q[k]) /\ sched.q[k].id = id
             /\ Squeezed.ids = {} => r = sched.q
             /\ Counted(sched) => Counted(Squeezed)
<1> DEFINE D == {p \in ToSet(sched.q) : ~HasData(p)}
           s == DropPackets(sched.q, sched.bytes, D)
<1>1. sched.q \in Seq(PacketType) /\ sched.bytes \in Int
    BY DEF QType
<1>2. \A i \in 1 .. Len(sched.q) : sched.q[i] \in ToSet(sched.q)
    BY <1>1, InToSet
<1>3. \A i \in 1 .. Len(sched.q) : sched.q[i] \in D <=> ~HasData(sched.q[i])
    BY <1>2
<1>4. Squeezed = [s EXCEPT !.q = Plain(s.q)]
    BY DEF Squeezed
<1>5. s = DropPackets(sched.q, sched.bytes, D)
    OBVIOUS
<1> HIDE DEF D, s
<1>6. /\ s \in DropType
      /\ LeftOf(s.q, sched.q, s.ids)
      /\ \A i \in 1 .. Len(s.q) : s.q[i] \notin D
      /\ \A k \in 1 .. Len(sched.q) :
           sched.q[k] \notin D => \E i \in 1 .. Len(s.q) : s.q[i] = sched.q[k]
      /\ \A id : id \in s.ids <=> \E k \in 1 .. Len(sched.q) : sched.q[k] \in D /\ sched.q[k].id = id
      /\ s.ids = {} => s.q = sched.q
      /\ BytesOf(s.q) - s.bytes = BytesOf(sched.q) - sched.bytes
    <2>1. IsDrop(s, sched.q, sched.bytes, D)
        BY <1>1, <1>5, DropPacketsFacts
    <2> QED BY <2>1 DEF IsDrop, DropType
<1>7. s.q \in Seq(PacketType) /\ s.bytes \in Int
    BY <1>6 DEF DropType
<1>8. Plain(s.q) \in Seq(PacketType) /\ BytesOf(Plain(s.q)) = BytesOf(s.q)
    BY <1>7, PlainFacts
<1>9. Squeezed \in DropType /\ Squeezed.q = Plain(s.q) /\ Squeezed.ids = s.ids /\ Squeezed.bytes = s.bytes
    BY <1>4, <1>6, <1>8 DEF DropType
<1>10. \A i \in 1 .. Len(s.q) : HasData(s.q[i])
    <2> TAKE i \in 1 .. Len(s.q)
    <2>1. PICK k \in 1 .. Len(sched.q) : s.q[i] = sched.q[k]
        BY <1>6 DEF LeftOf
    <2> QED BY <1>3, <1>6, <2>1
<1>11. Counted(sched) => Counted(Squeezed)
    <2>1. BytesOf(s.q) \in Nat /\ BytesOf(sched.q) \in Nat
        BY <1>1, <1>7, BytesType
    <2> QED BY <1>1, <1>6, <1>7, <1>8, <1>9, <2>1 DEF Counted
<1>12. \A k \in 1 .. Len(sched.q) :
          HasData(sched.q[k]) => \E i \in 1 .. Len(s.q) : s.q[i] = sched.q[k]
    BY <1>3, <1>6
<1>13. \A id : id \in Squeezed.ids <=>
          \E k \in 1 .. Len(sched.q) : ~HasData(sched.q[k]) /\ sched.q[k].id = id
    BY <1>3, <1>6, <1>9
<1> QED BY <1>6, <1>7, <1>9, <1>10, <1>11, <1>12, <1>13

(* lsquic_send_ctl_elide_stream_frames() on the Scheduled Queue            *)
LEMMA ElidedSchedFacts ==
    ASSUME sched \in QType
    PROVE  /\ ElidedSched \in DropType
           /\ LeftOf(ElidedSched.q, ElidedAll(sched.q), ElidedSched.ids)
           /\ \A i \in 1 .. Len(ElidedSched.q) : ElidedSched.q[i].frames # {}
           /\ \A k \in 1 .. Len(sched.q) : Elided(sched.q[k]).frames # {} =>
                \E i \in 1 .. Len(ElidedSched.q) : ElidedSched.q[i] = Elided(sched.q[k])
           /\ \A id : id \in ElidedSched.ids <=>
                \E k \in 1 .. Len(sched.q) : Elided(sched.q[k]).frames = {} /\ sched.q[k].id = id
           /\ ElidedSched.ids = {} => ElidedSched.q = ElidedAll(sched.q)
           /\ Counted(sched) => Counted(ElidedSched)
<1> DEFINE q == ElidedAll(sched.q)
           n == Cardinality({i \in DOMAIN q : "stream" \in sched.q[i].frames})
           D == {p \in ToSet(q) : p.frames = {}}
           b == sched.bytes - n
<1>1. sched.q \in Seq(PacketType) /\ sched.bytes \in Int
    BY DEF QType
<1>2. /\ q \in Seq(PacketType) /\ Len(q) = Len(sched.q)
      /\ \A i \in 1 .. Len(sched.q) : q[i] = Elided(sched.q[i])
      /\ BytesOf(q) = BytesOf(sched.q) - Cardinality({i \in DOMAIN sched.q : "stream" \in sched.q[i].frames})
    BY <1>1, BytesElided
<1>3. DOMAIN q = DOMAIN sched.q
    BY DEF ElidedAll
<1>4. BytesOf(q) = BytesOf(sched.q) - n
    BY <1>2, <1>3
<1>5. n \in Int
    <2>1. IsFiniteSet(1 .. Len(sched.q))
        BY <1>1, LenNat, FS_Interval
    <2>2. {i \in DOMAIN q : "stream" \in sched.q[i].frames} \subseteq 1 .. Len(sched.q)
        BY <1>1, <1>3, LenNat
    <2>3. IsFiniteSet({i \in DOMAIN q : "stream" \in sched.q[i].frames})
        BY <2>1, <2>2, FS_Subset
    <2> QED BY <2>3, FS_CardinalityType
<1>6. ElidedSched = DropPackets(q, b, D)
    BY DEF ElidedSched
<1>7. \A i \in 1 .. Len(q) : q[i] \in ToSet(q)
    BY <1>2, InToSet
<1>8. \A i \in 1 .. Len(q) : q[i] \in D <=> q[i].frames = {}
    BY <1>7
<1>9. b \in Int
    BY <1>1, <1>5
<1>10. q = ElidedAll(sched.q) /\ b = sched.bytes - n
    OBVIOUS
<1> HIDE DEF q, n, D, b
<1> DEFINE s == ElidedSched
<1>11. s = DropPackets(q, b, D)
    BY <1>6
<1> HIDE DEF s
<1>12. /\ s \in DropType
       /\ LeftOf(s.q, q, s.ids)
       /\ \A i \in 1 .. Len(s.q) : s.q[i] \notin D
       /\ \A k \in 1 .. Len(q) : q[k] \notin D => \E i \in 1 .. Len(s.q) : s.q[i] = q[k]
       /\ \A id : id \in s.ids <=> \E k \in 1 .. Len(q) : q[k] \in D /\ q[k].id = id
       /\ s.ids = {} => s.q = q
       /\ BytesOf(s.q) - s.bytes = BytesOf(q) - b
    <2>1. IsDrop(s, q, b, D)
        BY <1>2, <1>9, <1>11, DropPacketsFacts
    <2> QED BY <2>1 DEF IsDrop, DropType
<1>13. \A i \in 1 .. Len(s.q) : s.q[i].frames # {}
    <2> TAKE i \in 1 .. Len(s.q)
    <2>1. PICK k \in 1 .. Len(q) : s.q[i] = q[k]
        BY <1>12 DEF LeftOf
    <2> QED BY <1>8, <1>12, <2>1
<1>14. \A k \in 1 .. Len(sched.q) : Elided(sched.q[k]).frames # {} =>
                \E i \in 1 .. Len(s.q) : s.q[i] = Elided(sched.q[k])
    <2> TAKE k \in 1 .. Len(sched.q)
    <2>1. k \in 1 .. Len(q) /\ q[k] = Elided(sched.q[k])
        BY <1>2
    <2>2. q[k].frames # {} => \E i \in 1 .. Len(s.q) : s.q[i] = q[k]
        BY <1>8, <1>12, <2>1
    <2> QED BY <2>1, <2>2
<1>15. \A i \in 1 .. Len(sched.q) : q[i].id = sched.q[i].id
    <2>1. \A i \in 1 .. Len(sched.q) : sched.q[i] \in PacketType
        BY <1>1
    <2> QED BY <1>2, <2>1, ElidedFacts
<1>16. \A id : id \in s.ids <=>
                \E k \in 1 .. Len(sched.q) : Elided(sched.q[k]).frames = {} /\ sched.q[k].id = id
    BY <1>2, <1>8, <1>12, <1>15
<1>17. Counted(sched) => Counted(s)
    <2>1. s.q \in Seq(PacketType) /\ s.bytes \in Int
        BY <1>12 DEF DropType
    <2>2. BytesOf(s.q) \in Nat /\ BytesOf(sched.q) \in Nat
        BY <1>1, <2>1, BytesType
    <2> QED BY <1>1, <1>4, <1>5, <1>10, <1>12, <2>1, <2>2 DEF Counted
<1> QED BY <1>10, <1>12, <1>13, <1>14, <1>16, <1>17 DEF s

-----------------------------------------------------------------------------
(***************************************************************************)
(* Types, the retransmission alarm and the count of scheduled bytes: Basic *)
(* is inductive, whatever Events are. First the queues as sets of packets. *)
(***************************************************************************)

(***************************************************************************)
(* Queues as sets.                                                         *)
(***************************************************************************)
LEMMA LeftSet ==
    ASSUME NEW q \in Seq(PacketType), NEW r, NEW I, LeftOf(r, q, I)
    PROVE  /\ r \in Seq(PacketType) /\ \A x \in ToSet(r) : x \in ToSet(q)
           /\ \A x \in ToSet(q) : x.id \notin I => x \in ToSet(r)
<1>1. r \in Seq(PacketType)
    BY DEF LeftOf
<1>2. /\ \A i \in 1 .. Len(q) : q[i] \in ToSet(q)
      /\ \A x \in ToSet(q) : \E i \in 1 .. Len(q) : x = q[i]
    BY InToSet
<1>3. /\ \A i \in 1 .. Len(r) : r[i] \in ToSet(r)
      /\ \A x \in ToSet(r) : \E i \in 1 .. Len(r) : x = r[i]
    BY <1>1, InToSet
<1>4. \A i \in 1 .. Len(r) : \E k \in 1 .. Len(q) : r[i] = q[k]
    BY DEF LeftOf
<1>5. \A k \in 1 .. Len(q) : q[k].id \notin I => \E i \in 1 .. Len(r) : r[i] = q[k]
    BY DEF LeftOf
<1>6. \A x \in ToSet(r) : x \in ToSet(q)
    BY <1>2, <1>3, <1>4
<1>7. \A x \in ToSet(q) : x.id \notin I => x \in ToSet(r)
    BY <1>2, <1>3, <1>5
<1> QED BY <1>1, <1>6, <1>7

LEMMA WithoutSet ==
    ASSUME NEW q \in Seq(PacketType), NEW I
    PROVE  /\ Without(q, I) \in Seq(PacketType)
           /\ \A x : x \in ToSet(Without(q, I)) <=> x \in ToSet(q) /\ x.id \notin I
<1> DEFINE r == Without(q, I)
<1>1. LeftOf(r, q, I) /\ \A i \in 1 .. Len(r) : r[i].id \notin I
    BY WithoutFacts
<1> HIDE DEF r
<1>2. /\ r \in Seq(PacketType) /\ \A x \in ToSet(r) : x \in ToSet(q)
      /\ \A x \in ToSet(q) : x.id \notin I => x \in ToSet(r)
    BY <1>1, LeftSet
<1>3. \A x \in ToSet(r) : \E i \in 1 .. Len(r) : x = r[i]
    BY <1>2, InToSet
<1>4. \A x \in ToSet(r) : x.id \notin I
    BY <1>1, <1>3
<1> QED BY <1>2, <1>4 DEF r

LEMMA RecordedSet ==
    ASSUME NEW u \in Seq(PacketType), NEW L, NEW r, IsRecorded(r, u, L)
    PROVE  /\ r \in Seq(PacketType)
           /\ \A x \in ToSet(r) : /\ \E y \in ToSet(u) : x = Marked(y, L)
                                  /\ \A p \in L : ~HasData(p) => x.id # p.id
           /\ \A x \in ToSet(r) : IsReal(x) => x \in ToSet(u) /\ x \notin L
           /\ \A y \in ToSet(u) :
                y \notin L /\ IsReal(y) /\ (\A p \in L : ~HasData(p) => y.id # p.id)
                => y \in ToSet(r)
<1>1. r \in Seq(PacketType)
    BY DEF IsRecorded
<1>2. /\ \A i \in 1 .. Len(u) : u[i] \in ToSet(u)
      /\ \A x \in ToSet(u) : x \in PacketType /\ \E i \in 1 .. Len(u) : x = u[i]
    BY InToSet
<1>3. /\ \A i \in 1 .. Len(r) : r[i] \in ToSet(r)
      /\ \A x \in ToSet(r) : \E i \in 1 .. Len(r) : x = r[i]
    BY <1>1, InToSet
<1>4. \A x \in ToSet(r) : /\ \E y \in ToSet(u) : x = Marked(y, L)
                          /\ \A p \in L : ~HasData(p) => x.id # p.id
    <2> TAKE x \in ToSet(r)
    <2>1. PICK i \in 1 .. Len(r) : x = r[i]
        BY <1>3
    <2>2. PICK k \in 1 .. Len(u) : r[i] = Marked(u[k], L)
        BY DEF IsRecorded
    <2>3. \A p \in L : ~HasData(p) => r[i].id # p.id
        BY DEF IsRecorded
    <2> QED BY <1>2, <2>1, <2>2, <2>3
<1>5. \A x \in ToSet(r) : IsReal(x) => x \in ToSet(u) /\ x \notin L
    <2> SUFFICES ASSUME NEW x \in ToSet(r), IsReal(x) PROVE x \in ToSet(u) /\ x \notin L
        OBVIOUS
    <2>1. PICK y \in ToSet(u) : x = Marked(y, L)
        BY <1>4
    <2>2. y \in PacketType
        BY <1>2
    <2>3. Marked(y, L).rec = IF y \in L THEN "record" ELSE y.rec
        BY <2>2, MarkedFacts
    <2>4. y \notin L
        BY <2>1, <2>3 DEF IsReal
    <2> QED BY <2>1, <2>4 DEF Marked
<1>6. ASSUME NEW y \in ToSet(u), y \notin L, IsReal(y), \A p \in L : ~HasData(p) => y.id # p.id
      PROVE  y \in ToSet(r)
    <2>1. PICK k \in 1 .. Len(u) : y = u[k]
        BY <1>2
    <2>2. \E i \in 1 .. Len(r) : r[i] = u[k]
        BY <1>6, <2>1 DEF IsRecorded
    <2> QED BY <1>3, <2>1, <2>2
<1> QED BY <1>1, <1>4, <1>5, <1>6

LEMMA LostSet ==
    ASSUME NEW u \in Seq(PacketType), NEW L, NEW r, IsLost(r, u, L)
    PROVE  /\ r \in Seq(PacketType)
           /\ \A x : x \in ToSet(r) <=> x \in ToSet(u) /\ x \in L /\ HasData(x)
<1>1. r \in Seq(PacketType)
    BY DEF IsLost
<1>2. /\ \A i \in 1 .. Len(u) : u[i] \in ToSet(u)
      /\ \A x \in ToSet(u) : x \in PacketType /\ \E i \in 1 .. Len(u) : x = u[i]
    BY InToSet
<1>3. /\ \A i \in 1 .. Len(r) : r[i] \in ToSet(r)
      /\ \A x \in ToSet(r) : \E i \in 1 .. Len(r) : x = r[i]
    BY <1>1, InToSet
<1>4. \A x \in ToSet(r) : x \in ToSet(u) /\ x \in L /\ HasData(x)
    <2>1. \A i \in 1 .. Len(r) : r[i] \in L /\ HasData(r[i]) /\ \E k \in 1 .. Len(u) : r[i] = u[k]
        BY DEF IsLost
    <2> QED BY <1>2, <1>3, <2>1
<1>5. ASSUME NEW x \in ToSet(u), x \in L, HasData(x) PROVE x \in ToSet(r)
    <2>1. PICK k \in 1 .. Len(u) : x = u[k]
        BY <1>2
    <2>2. \E i \in 1 .. Len(r) : r[i] = u[k]
        BY <1>5, <2>1 DEF IsLost
    <2> QED BY <1>3, <2>1, <2>2
<1> QED BY <1>1, <1>4, <1>5

LEMMA OnlySet ==
    ASSUME NEW u \in Seq(PacketType), NEW S
    PROVE  /\ Only(u, S) \in Seq(PacketType)
           /\ \A x : x \in ToSet(Only(u, S)) <=> x \in ToSet(u) /\ x \in S
<1> DEFINE r == Only(u, S)
<1>0. IsOnly(r, PacketType, u, S)
    BY OnlyFacts
<1> HIDE DEF r
<1>1. r \in Seq(PacketType)
    BY <1>0 DEF IsOnly
<1>2. /\ \A i \in 1 .. Len(u) : u[i] \in ToSet(u)
      /\ \A x \in ToSet(u) : x \in PacketType /\ \E i \in 1 .. Len(u) : x = u[i]
    BY InToSet
<1>3. /\ \A i \in 1 .. Len(r) : r[i] \in ToSet(r)
      /\ \A x \in ToSet(r) : \E i \in 1 .. Len(r) : x = r[i]
    BY <1>1, InToSet
<1>4. \A x \in ToSet(r) : x \in ToSet(u) /\ x \in S
    <2>1. \A i \in 1 .. Len(r) : r[i] \in S /\ \E k \in 1 .. Len(u) : r[i] = u[k]
        BY <1>0 DEF IsOnly
    <2> QED BY <1>2, <1>3, <2>1
<1>5. \A x \in ToSet(u) : x \in S => x \in ToSet(r)
    <2>1. \A k \in 1 .. Len(u) : u[k] \in S => \E i \in 1 .. Len(r) : r[i] = u[k]
        BY <1>0 DEF IsOnly
    <2> QED BY <1>2, <1>3, <2>1
<1> QED BY <1>1, <1>4, <1>5 DEF r

LEMMA RetxSet ==
    ASSUME NEW u \in Seq(PacketType)
    PROVE  (RetxUnacked(u) # {}) <=> \E x \in ToSet(u) : IsReal(x) /\ HasData(x)
<1>1. /\ \A i \in 1 .. Len(u) : u[i] \in ToSet(u)
      /\ \A x \in ToSet(u) : \E i \in 1 .. Len(u) : x = u[i]
    BY InToSet
<1>2. DOMAIN u = 1 .. Len(u)
    BY LenNat
<1> QED BY <1>1, <1>2 DEF RetxUnacked

LEMMA RetxLess ==
    ASSUME NEW u \in Seq(PacketType), NEW v \in Seq(PacketType),
           \A x \in ToSet(v) : IsReal(x) /\ HasData(x) => x \in ToSet(u)
    PROVE  RetxUnacked(u) = {} => RetxUnacked(v) = {}
BY RetxSet

(***************************************************************************)
(* What detection of losses is told of, and what it does to the queues.    *)
(***************************************************************************)
LEMMA LosableFacts ==
    ASSUME NEW u \in Seq(PacketType), NEW la, NEW L \in SUBSET Losable(u, la)
    PROVE  \A x \in L : x \in ToSet(u) /\ IsReal(x)
<1>1. DOMAIN u = 1 .. Len(u) /\ \A i \in 1 .. Len(u) : u[i] \in ToSet(u)
    BY LenNat, InToSet
<1> QED BY <1>1 DEF Losable

LEMMA RingFacts ==
    ASSUME NEW u \in Seq(PacketType), NEW la,
           NEW L \in (SUBSET Losable(u, la))
                 \cup {{u[i] : i \in {j \in DOMAIN u : IsReal(u[j])}}}
                 \cup {{u[Max(RetxUnacked(u))]} : i \in RetxUnacked(u)}
    PROVE  \A x \in L : x \in ToSet(u) /\ IsReal(x)
<1>1. Len(u) \in Nat /\ DOMAIN u = 1 .. Len(u) /\ \A i \in 1 .. Len(u) : u[i] \in ToSet(u)
    BY LenNat, InToSet
<1>2. CASE L \in SUBSET Losable(u, la)
    BY <1>2, LosableFacts
<1>3. CASE L = {u[i] : i \in {j \in DOMAIN u : IsReal(u[j])}}
    BY <1>1, <1>3
<1>4. CASE RetxUnacked(u) # {} /\ L = {u[Max(RetxUnacked(u))]}
    <2> DEFINE R == RetxUnacked(u)
    <2>1. \A i \in R : i \in 1 .. Len(u) /\ IsReal(u[i])
        BY <1>1 DEF RetxUnacked
    <2>2. R \in SUBSET (0 .. Len(u)) /\ R # {}
        <3>1. \A i \in 1 .. Len(u) : i \in 0 .. Len(u)
            BY <1>1
        <3>2. R # {}
            BY <1>4
        <3> HIDE DEF R
        <3>3. R \subseteq 0 .. Len(u)
            BY <2>1, <3>1
        <3> QED BY <3>2, <3>3
    <2> HIDE DEF R
    <2>3. Max(R) \in R
        BY <1>1, <2>2, MaxOf
    <2>4. \A x \in L : x = u[Max(R)]
        BY <1>4 DEF R
    <2> QED BY <1>1, <2>1, <2>3, <2>4
<1> DEFINE X == {u[i] : i \in {j \in DOMAIN u : IsReal(u[j])}}
           Y == {u[Max(RetxUnacked(u))]}
           R == RetxUnacked(u)
           Z == SUBSET Losable(u, la)
<1>5. L \in Z \cup {X} \cup {Y : i \in R}
    OBVIOUS
<1>6. L \in Z \/ L = X \/ (R # {} /\ L = Y)
    <2> HIDE DEF X, Y, Z, R
    <2> QED BY <1>5
<1> QED BY <1>2, <1>3, <1>4, <1>6

(***************************************************************************)
(* Everything has its type, the Scheduled Queue's bytes are counted right  *)
(* and the alarm is set while there is anything to retransmit.             *)
(***************************************************************************)
Numbers == /\ cur \in Int /\ largest \in Int /\ gap \in Int
           /\ largest_acked \in Int /\ n_packets \in Nat
QueuesOK == /\ sched \in QType
            /\ batch \in Seq(PacketType) /\ unacked \in Seq(PacketType)
            /\ lost \in Seq(PacketType) /\ buffered \in Seq(PacketType)
Flags == /\ alarm \in BOOLEAN /\ reset \in BOOLEAN /\ aborted \in BOOLEAN
         /\ phase \in {"idle", "control", "streams", "send"}
WireType == [no : Int, id : Nat, frames : SUBSET Frames, enc : EncType]
History == /\ wire \in Seq(WireType) /\ misacked \subseteq Nat
           /\ owed \subseteq Nat \X Frames /\ skipped \subseteq Int

LEMMA TypeParts == TypeOK <=> Numbers /\ QueuesOK /\ Flags /\ History
BY DEF TypeOK, Numbers, QueuesOK, QType, Flags, WireType, History

Basic == TypeOK /\ AlarmArmed /\ BytesScheduled

LEMMA BasicInit == Init => Basic
<1> SUFFICES ASSUME Init PROVE Basic
    OBVIOUS
<1>1. RetxUnacked(<< >>) = {}
    BY DEF RetxUnacked
<1>2. AlarmArmed
    BY <1>1 DEF Init, AlarmArmed
<1>3. BytesScheduled
    <2>1. sched.q = << >> /\ sched.bytes = 0
        BY DEF Init
    <2> QED BY <2>1, BytesEmpty DEF BytesScheduled
<1>4. TypeOK
    <2>1. Numbers
        <3>1. gap \in Nat
            BY SendCtlAssumption DEF Init
        <3> QED BY <3>1 DEF Init, Numbers, NoPackno
    <2>2. QueuesOK
        <3>1. << >> \in Seq(PacketType) /\ 0 \in Int
            OBVIOUS
        <3> QED BY <3>1 DEF Init, QueuesOK, QType
    <2>3. Flags
        BY DEF Init, Flags
    <2>4. History
        BY DEF Init, History
    <2> QED BY <2>1, <2>2, <2>3, <2>4, TypeParts
<1> QED BY <1>2, <1>3, <1>4 DEF Basic

LEMMA BasicSame ==
    ASSUME Basic, UNCHANGED vars
    PROVE  Basic'
BY DEF Basic, TypeOK, AlarmArmed, BytesScheduled, RetxUnacked, BytesOf, vars, numbers, ghost

LEMMA BasicParts ==
    ASSUME Basic
    PROVE  /\ Numbers /\ QueuesOK /\ Flags /\ History
           /\ AlarmArmed /\ Counted(sched)
BY TypeParts DEF Basic, BytesScheduled, Counted

LEMMA BasicNext ==
    ASSUME Numbers', QueuesOK', Flags', History', AlarmArmed', Counted(sched')
    PROVE  Basic'
<1>1. TypeOK'
    BY DEF TypeOK, Numbers, QueuesOK, QType, Flags, WireType, History
<1>2. BytesScheduled'
    BY DEF BytesScheduled, Counted
<1> QED BY <1>1, <1>2 DEF Basic

(* A step that leaves the Unacked Queue no more packets than it had.       *)
LEMMA AlarmKept ==
    ASSUME AlarmArmed, unacked \in Seq(PacketType), unacked' \in Seq(PacketType),
           \A x \in ToSet(unacked') : IsReal(x) /\ HasData(x) => x \in ToSet(unacked),
           alarm' = alarm
    PROVE  AlarmArmed'
<1>1. RetxUnacked(unacked) = {} => RetxUnacked(unacked') = {}
    BY RetxLess
<1> QED BY <1>1 DEF AlarmArmed

LEMMA BasicQuiet ==
    ASSUME Basic, phase' \in {"idle", "control", "streams", "send"},
           UNCHANGED <<numbers, sched, batch, unacked, lost, buffered, largest_acked,
                       alarm, reset, aborted, n_packets, ghost>>
    PROVE  Basic'
<1>1. /\ Numbers /\ QueuesOK /\ Flags /\ History
      /\ AlarmArmed /\ Counted(sched)
    BY BasicParts
<1>2. Numbers' /\ QueuesOK' /\ Flags' /\ History'
    BY <1>1 DEF Numbers, QueuesOK, Flags, History, numbers, ghost
<1>3. AlarmArmed' /\ Counted(sched')
    BY <1>1 DEF AlarmArmed
<1> QED BY <1>2, <1>3, BasicNext

LEMMA BasicReset ==
    ASSUME Basic, ResetStream
    PROVE  Basic'
<1>1. /\ Numbers /\ QueuesOK /\ Flags /\ History
      /\ AlarmArmed /\ Counted(sched)
    BY BasicParts
<1> DEFINE s == ElidedSched
<1>2. s \in DropType /\ Counted(s)
    BY <1>1, ElidedSchedFacts DEF QueuesOK
<1> HIDE DEF s
<1>3. /\ sched' = RestAfter(s) /\ cur' = CurAfter(s) /\ unacked' = Without(unacked, s.ids)
      /\ buffered' = WithFrames(ElidedAll(buffered))
    BY DEF ResetStream, ElideStreamFrames, s
<1>4. sched' \in QType /\ Counted(sched')
    BY <1>2, <1>3, RestFacts DEF DropType
<1>5. cur' \in Int
    BY <1>1, <1>3 DEF CurAfter, Numbers
<1>6. unacked' \in Seq(PacketType) /\ \A x \in ToSet(unacked') : x \in ToSet(unacked)
    BY <1>1, <1>3, WithoutSet DEF QueuesOK
<1>7. buffered' \in Seq(PacketType)
    <2>1. ElidedAll(buffered) \in Seq(PacketType)
        BY <1>1, BytesElided DEF QueuesOK
    <2> QED BY <1>3, <2>1, OnlySet DEF WithFrames
<1>8. Numbers'
    BY <1>1, <1>5 DEF Numbers, ResetStream
<1>9. QueuesOK'
    BY <1>1, <1>4, <1>6, <1>7 DEF QueuesOK, ResetStream
<1>10. Flags' /\ History'
    BY <1>1 DEF Flags, History, ResetStream, ghost
<1>11. AlarmArmed'
    BY <1>1, <1>6, AlarmKept DEF QueuesOK, ResetStream
<1> QED BY <1>4, <1>8, <1>9, <1>10, <1>11, BasicNext

LEMMA ScheduleNewFacts ==
    ASSUME Numbers, NEW s \in QType, NEW frames \in SUBSET Frames, ScheduleNew(s, frames)
    PROVE  /\ cur' = NextPackno /\ NextPackno \in Int /\ n_packets' = n_packets + 1
           /\ Packet(NextPackno, n_packets', frames) \in PacketType
           /\ sched' \in QType /\ (Counted(s) => Counted(sched'))
           /\ sched'.q = Append(s.q, Packet(NextPackno, n_packets', frames))
<1>1. NextPackno \in Int
    BY NextPacknoType DEF Numbers
<1>2. n_packets' = n_packets + 1 /\ n_packets' \in Nat
    BY DEF ScheduleNew, Numbers
<1> DEFINE p == Packet(NextPackno, n_packets', frames)
<1>3. p \in PacketType
    BY <1>1, <1>2, PacketFacts
<1>4. sched' = SchedAppend(s, p) /\ cur' = NextPackno
    BY DEF ScheduleNew
<1> HIDE DEF p
<1>5. sched' \in QType /\ sched'.q = Append(s.q, p) /\ (Counted(s) => Counted(sched'))
    BY <1>3, <1>4, SchedAppendFacts
<1> QED BY <1>1, <1>2, <1>3, <1>4, <1>5 DEF p

LEMMA IncrFacts ==
    ASSUME NEW s \in QType, NEW i \in 1 .. Len(s.q), NEW f \in Frames, f \notin s.q[i].frames
    PROVE  /\ IncrPackSz(s, i, f) \in QType /\ Len(IncrPackSz(s, i, f).q) = Len(s.q)
           /\ \A j \in 1 .. Len(s.q) : j # i => IncrPackSz(s, i, f).q[j] = s.q[j]
           /\ IncrPackSz(s, i, f).q[i] = [s.q[i] EXCEPT !.frames = s.q[i].frames \cup {f}]
           /\ Counted(s) => Counted(IncrPackSz(s, i, f))
<1> DEFINE p == s.q[i]
           o == [p EXCEPT !.frames = p.frames \cup {f}]
           r == [s.q EXCEPT ![i] = o]
<1>1. s.q \in Seq(PacketType) /\ s.bytes \in Int
    BY DEF QType
<1>2. p \in PacketType
    BY <1>1
<1>3. IncrPackSz(s, i, f) = [q |-> r, bytes |-> s.bytes + 1]
    <2>1. IncrPackSz(s, i, f) = [s EXCEPT !.q = r, !.bytes = s.bytes + 1]
        BY DEF IncrPackSz, QType
    <2> HIDE DEF r
    <2> QED BY <2>1 DEF QType
<1> HIDE DEF p
<1>4. o \in PacketType /\ o.frames = p.frames \cup {f}
    <2>1. p.frames \cup {f} \in SUBSET Frames
        BY <1>2 DEF PacketType
    <2> QED BY <1>2, <2>1 DEF PacketType
<1>5. Size(o) = Size(p) + 1 /\ Size(p) \in Nat
    <2>1. IsFiniteSet(p.frames) /\ Cardinality(p.frames) \in Nat /\ Size(p) \in Nat
        BY <1>2, SizeType
    <2>2. Cardinality(p.frames \cup {f}) = Cardinality(p.frames) + 1
        BY <2>1, FS_AddElement DEF p
    <2> HIDE DEF o
    <2> QED BY <1>4, <2>1, <2>2 DEF Size
<1> HIDE DEF o
<1>6. r \in Seq(PacketType) /\ Len(r) = Len(s.q) /\ r[i] = o
      /\ \A j \in 1 .. Len(s.q) : j # i => r[j] = s.q[j]
    BY <1>1, <1>4
<1> HIDE DEF r
<1>7. BytesOf(r) = BytesOf(s.q) + 1
    <2>1. BytesOf(r) = BytesOf(s.q) - Size(p) + Size(o)
        BY <1>1, <1>6, BytesUpdate DEF p
    <2>2. BytesOf(s.q) \in Nat
        BY <1>1, BytesType
    <2> QED BY <1>5, <2>1, <2>2
<1>8. BytesOf(s.q) \in Nat
    BY <1>1, BytesType
<1> QED BY <1>1, <1>3, <1>6, <1>7, <1>8 DEF QType, Counted, p, o

LEMMA OweFacts ==
    ASSUME History, NEW id \in Nat, NEW frames \in SUBSET Frames, Owe(id, frames)
    PROVE  owed' \subseteq Nat \X Frames
BY DEF History, Owe

LEMMA KindsAreFrames == \A f \in Kinds : f \in Frames /\ f # "ack"
BY SendCtlAssumption DEF Frames

LEMMA BasicWrite ==
    ASSUME Basic, NEW f \in Kinds, WriteFrame(f)
    PROVE  Basic'
<1>1. /\ Numbers /\ QueuesOK /\ Flags /\ History
      /\ AlarmArmed /\ Counted(sched)
    BY BasicParts
<1>2. f \in Frames /\ {f} \in SUBSET Frames
    BY KindsAreFrames
<1>3. cur' \in Int /\ n_packets' \in Nat /\ sched' \in QType /\ Counted(sched') /\ owed' \subseteq Nat \X Frames
    <2>1. CASE ScheduleNew(sched, {f})
        <3>1. /\ cur' \in Int /\ n_packets' = n_packets + 1
              /\ sched' \in QType /\ Counted(sched')
            BY <1>1, <1>2, <2>1, ScheduleNewFacts DEF QueuesOK
        <3>2. n_packets' \in Nat
            BY <1>1, <3>1 DEF Numbers
        <3>3. owed' \subseteq Nat \X Frames
            BY <1>1, <1>2, <2>1, <3>2, OweFacts DEF ScheduleNew
        <3> QED BY <3>1, <3>2, <3>3
    <2>2. CASE /\ sched.q # << >>
               /\ LET i == Len(sched.q) IN
                    /\ ~sched.q[i].retx
                    /\ f \notin sched.q[i].frames
                    /\ sched' = IncrPackSz(sched, i, f)
                    /\ Owe(sched.q[i].id, {f})
               /\ UNCHANGED <<cur, n_packets>>
        <3>1. sched.q \in Seq(PacketType) /\ sched \in QType
            BY <1>1 DEF QueuesOK, QType
        <3>2. Len(sched.q) \in 1 .. Len(sched.q) /\ sched.q[Len(sched.q)] \in PacketType
            BY <2>2, <3>1
        <3>3. sched' \in QType /\ Counted(sched')
            BY <1>1, <1>2, <2>2, <3>1, <3>2, IncrFacts
        <3>4. sched.q[Len(sched.q)].id \in Nat
            BY <3>2 DEF PacketType
        <3>5. owed' \subseteq Nat \X Frames
            BY <1>1, <1>2, <2>2, <3>4, OweFacts
        <3> QED BY <1>1, <2>2, <3>3, <3>5 DEF Numbers
    <2> QED BY <2>1, <2>2 DEF WriteFrame, GetWriteablePacket
<1>4. Numbers' /\ QueuesOK' /\ Flags' /\ History'
    BY <1>1, <1>3 DEF Numbers, QueuesOK, Flags, History, WriteFrame
<1>5. AlarmArmed'
    BY <1>1 DEF AlarmArmed, WriteFrame
<1> QED BY <1>3, <1>4, <1>5, BasicNext

LEMMA BasicWriteBuffered ==
    ASSUME Basic, NEW f \in Kinds, NEW with_ack \in BOOLEAN, WriteBuffered(f, with_ack)
    PROVE  Basic'
<1>1. /\ Numbers /\ QueuesOK /\ Flags /\ History
      /\ AlarmArmed /\ Counted(sched)
    BY BasicParts
<1> DEFINE fr == IF with_ack THEN {"ack", f} ELSE {f}
           p == Packet(NoPackno, n_packets', fr)
<1>2. fr \in SUBSET Frames
    BY KindsAreFrames DEF Frames
<1>3. n_packets' \in Nat
    BY <1>1 DEF Numbers, WriteBuffered
<1>4. buffered' = Append(buffered, p) /\ Owe(n_packets', fr)
    BY DEF WriteBuffered
<1> HIDE DEF fr
<1>5. p \in PacketType
    <2>1. NoPackno \in Int
        BY DEF NoPackno
    <2> QED BY <1>2, <1>3, <2>1, PacketFacts
<1>6. owed' \subseteq Nat \X Frames
    BY <1>1, <1>2, <1>3, <1>4, OweFacts
<1> HIDE DEF p
<1>7. buffered' \in Seq(PacketType)
    BY <1>1, <1>4, <1>5, AppendFacts DEF QueuesOK
<1>8. Numbers' /\ QueuesOK' /\ Flags' /\ History'
    BY <1>1, <1>3, <1>6, <1>7 DEF Numbers, QueuesOK, Flags, History, WriteBuffered, numbers
<1>9. AlarmArmed' /\ Counted(sched')
    BY <1>1 DEF AlarmArmed, WriteBuffered
<1> QED BY <1>8, <1>9, BasicNext

LEMMA BasicTick ==
    ASSUME Basic, NEW with_ack \in BOOLEAN, Tick(with_ack)
    PROVE  Basic'
<1>1. /\ Numbers /\ QueuesOK /\ Flags /\ History
      /\ AlarmArmed /\ Counted(sched)
    BY BasicParts
<1> DEFINE s == Squeezed
           rest == RestAfter(s)
           delayed == s.q # << >>
           c == IF delayed /\ with_ack THEN largest ELSE CurAfter(s)
           no == IF c + 1 = gap THEN c + 2 ELSE c + 1
           p == Packet(no, n_packets', {"ack"})
<1>2. s \in DropType /\ Counted(s)
    BY <1>1, SqueezedFacts DEF QueuesOK
<1>3. /\ unacked' = Without(unacked, s.ids)
      /\ IF with_ack
         THEN /\ n_packets' = n_packets + 1
              /\ cur' = no
              /\ sched' = IF delayed THEN AckToFront(rest, no, n_packets')
                          ELSE SchedAppend(rest, p)
         ELSE /\ cur' = c
              /\ sched' = rest
              /\ UNCHANGED n_packets
      /\ phase' = IF delayed THEN "send" ELSE "control"
    BY DEF Tick
<1> HIDE DEF s
<1>4. rest \in QType /\ Counted(rest)
    BY <1>2, RestFacts DEF DropType
<1> HIDE DEF rest
<1>5. c \in Int /\ no \in Int
    BY <1>1 DEF Numbers, CurAfter
<1> HIDE DEF c
<1>6. n_packets' \in Nat
    BY <1>1, <1>3 DEF Numbers
<1>7. {"ack"} \in SUBSET Frames
    BY DEF Frames
<1> HIDE DEF no
<1>8. p \in PacketType
    BY <1>5, <1>6, <1>7, PacketFacts
<1>9. AckToFront(rest, no, n_packets') = SchedPrepend(ResetPacknos(rest), p)
    BY DEF AckToFront
<1> HIDE DEF p
<1>10. ResetPacknos(rest) \in QType /\ Counted(ResetPacknos(rest))
    BY <1>4, ResetFacts
<1>11. /\ SchedPrepend(ResetPacknos(rest), p) \in QType
       /\ Counted(SchedPrepend(ResetPacknos(rest), p))
    BY <1>8, <1>10, SchedPrependFacts
<1>12. SchedAppend(rest, p) \in QType /\ Counted(SchedAppend(rest, p))
    BY <1>4, <1>8, SchedAppendFacts
<1>13. sched' \in QType /\ Counted(sched')
    BY <1>3, <1>4, <1>9, <1>11, <1>12
<1>14. unacked' \in Seq(PacketType) /\ \A x \in ToSet(unacked') : x \in ToSet(unacked)
    BY <1>1, <1>3, WithoutSet DEF QueuesOK
<1>15. Numbers'
    BY <1>1, <1>3, <1>5, <1>6 DEF Numbers, Tick
<1>16. QueuesOK'
    BY <1>1, <1>13, <1>14 DEF QueuesOK, Tick
<1>17. Flags' /\ History'
    BY <1>1, <1>3 DEF Flags, History, Tick, ghost
<1>18. AlarmArmed'
    BY <1>1, <1>14, AlarmKept DEF QueuesOK, Tick
<1> QED BY <1>13, <1>15, <1>16, <1>17, <1>18, BasicNext

LEMMA HeadFacts ==
    ASSUME NEW q \in Seq(PacketType), q # << >>
    PROVE  /\ Head(q) \in PacketType /\ Head(q) = q[1] /\ 1 \in 1 .. Len(q)
           /\ Tail(q) \in Seq(PacketType) /\ Len(Tail(q)) = Len(q) - 1
           /\ \A i \in 1 .. Len(q) - 1 : Tail(q)[i] = q[i + 1]
<1>1. Len(q) \in Nat /\ Len(q) # 0
    OBVIOUS
<1> QED BY <1>1

LEMMA NextLostFacts ==
    ASSUME lost \in Seq(PacketType), lost # << >>
    PROVE  /\ NextLost \in PacketType
           /\ \A f \in {"no", "id", "rec", "re", "retx", "enc"} : NextLost[f] = lost[1][f]
           /\ NextLost.frames = lost[1].frames \ (IF reset THEN {"stream"} ELSE {})
<1>1. Head(lost) \in PacketType /\ Head(lost) = lost[1]
    BY HeadFacts
<1>2. NextLost = IF reset THEN Elided(Head(lost)) ELSE Head(lost)
    BY DEF NextLost
<1> QED BY <1>1, <1>2, ElidedFacts

Resent(p) == [Chopped(p) EXCEPT !.retx = TRUE]
LEMMA ResentFacts ==
    ASSUME NEW p \in PacketType, cur \in Int, gap \in Int
    PROVE  /\ Resent(p) \in PacketType /\ Resent(p).no = NextPackno
           /\ Resent(p).frames = p.frames \ {"ack"} /\ Resent(p).re = FALSE
           /\ \A f \in {"id", "rec", "enc"} : Resent(p)[f] = p[f]
<1> DEFINE o == Chopped(p)
<1>1. /\ o \in PacketType /\ o.no = NextPackno
      /\ o.frames = p.frames \ {"ack"} /\ o.re = FALSE
      /\ \A f \in {"id", "rec", "retx", "enc"} : o[f] = p[f]
    BY ChoppedFacts
<1> HIDE DEF o
<1>2. LET t == [o EXCEPT !.retx = TRUE] IN
        t \in PacketType /\ \A f \in {"no", "id", "frames", "rec", "re", "enc"} : t[f] = o[f]
    BY <1>1 DEF PacketType
<1>3. Resent(p) = [o EXCEPT !.retx = TRUE]
    BY DEF Resent, o
<1> QED BY <1>1, <1>2, <1>3

LEMMA BasicReschedule ==
    ASSUME Basic, RescheduleLost
    PROVE  Basic'
<1>1. /\ Numbers /\ QueuesOK /\ Flags /\ History
      /\ AlarmArmed /\ Counted(sched)
    BY BasicParts
<1>2. lost \in Seq(PacketType) /\ lost # << >> /\ lost' = Tail(lost)
    BY <1>1 DEF RescheduleLost, QueuesOK
<1>3. NextLost \in PacketType /\ lost' \in Seq(PacketType)
    BY <1>2, NextLostFacts, HeadFacts
<1>4. cur' \in Int /\ sched' \in QType /\ Counted(sched')
      /\ unacked' \in Seq(PacketType) /\ \A x \in ToSet(unacked') : x \in ToSet(unacked)
    <2>1. CASE HasData(NextLost)
        <3>1. cur' = NextPackno /\ sched' = SchedAppend(sched, Resent(NextLost)) /\ unacked' = unacked
            BY <2>1 DEF RescheduleLost, Resent
        <3>2. Resent(NextLost) \in PacketType
            BY <1>1, <1>3, ResentFacts DEF Numbers
        <3>3. sched' \in QType /\ Counted(sched')
            BY <1>1, <3>1, <3>2, SchedAppendFacts DEF QueuesOK
        <3>4. cur' \in Int
            BY <1>1, <3>1, NextPacknoType DEF Numbers
        <3> QED BY <1>1, <3>1, <3>3, <3>4 DEF QueuesOK
    <2>2. CASE ~HasData(NextLost)
        <3>1. cur' = cur /\ sched' = sched /\ unacked' = Without(unacked, {NextLost.id})
            BY <2>2 DEF RescheduleLost
        <3>2. unacked' \in Seq(PacketType) /\ \A x \in ToSet(unacked') : x \in ToSet(unacked)
            BY <1>1, <3>1, WithoutSet DEF QueuesOK
        <3> QED BY <1>1, <3>1, <3>2 DEF QueuesOK, Numbers
    <2> QED BY <2>1, <2>2
<1>5. Numbers' /\ QueuesOK' /\ Flags' /\ History'
    BY <1>1, <1>3, <1>4 DEF Numbers, QueuesOK, Flags, History, RescheduleLost, ghost
<1>6. AlarmArmed'
    BY <1>1, <1>4, AlarmKept DEF QueuesOK, RescheduleLost
<1> QED BY <1>4, <1>5, <1>6, BasicNext

(* The first buffered packet as it is scheduled.                           *)
FirstBuffered(out_of_order) ==
    IF out_of_order THEN [Head(buffered) EXCEPT !.frames = @ \ {"ack"}] ELSE Head(buffered)
LEMMA FirstBufferedFacts ==
    ASSUME buffered \in Seq(PacketType), buffered # << >>, NEW o \in BOOLEAN
    PROVE  /\ FirstBuffered(o) \in PacketType
           /\ \A f \in {"no", "id", "rec", "re", "retx", "enc"} : FirstBuffered(o)[f] = buffered[1][f]
           /\ FirstBuffered(o).frames = buffered[1].frames \ (IF o THEN {"ack"} ELSE {})
           /\ \A no \in Int : LET t == [FirstBuffered(o) EXCEPT !.no = no] IN
                /\ t \in PacketType /\ t.no = no
                /\ \A f \in {"id", "frames", "rec", "re", "retx", "enc"} : t[f] = FirstBuffered(o)[f]
<1> DEFINE h == Head(buffered)
           g == [h EXCEPT !.frames = h.frames \ {"ack"}]
<1>1. h \in PacketType /\ h = buffered[1]
    BY HeadFacts
<1>2. FirstBuffered(o) = IF o THEN g ELSE h
    BY DEF FirstBuffered
<1> HIDE DEF h
<1>3. g \in PacketType /\ g.frames = h.frames \ {"ack"}
      /\ \A f \in {"no", "id", "rec", "re", "retx", "enc"} : g[f] = h[f]
    <2>1. h.frames \ {"ack"} \in SUBSET Frames
        BY <1>1 DEF PacketType
    <2> QED BY <1>1, <2>1 DEF PacketType
<1> HIDE DEF g
<1> DEFINE b == FirstBuffered(o)
<1>4. b \in PacketType
    BY <1>1, <1>2, <1>3
<1> HIDE DEF b
<1>5. \A no \in Int : LET t == [b EXCEPT !.no = no] IN
                /\ t \in PacketType /\ t.no = no
                /\ \A f \in {"id", "frames", "rec", "re", "retx", "enc"} : t[f] = b[f]
    BY <1>4 DEF PacketType
<1> QED BY <1>1, <1>2, <1>3, <1>4, <1>5 DEF b

LEMMA BasicScheduleBuffered ==
    ASSUME Basic, NEW o \in BOOLEAN, ScheduleBuffered(o)
    PROVE  Basic'
<1>1. /\ Numbers /\ QueuesOK /\ Flags /\ History
      /\ AlarmArmed /\ Counted(sched)
    BY BasicParts
<1> DEFINE p == FirstBuffered(o)
           t == [p EXCEPT !.no = NextPackno]
<1>2. /\ buffered # << >> /\ buffered' = Tail(buffered) /\ buffered \in Seq(PacketType)
      /\ IF p.frames = {} THEN UNCHANGED <<cur, sched>>
         ELSE cur' = NextPackno /\ sched' = SchedAppend(sched, t)
    BY <1>1 DEF ScheduleBuffered, FirstBuffered, QueuesOK
<1>3. NextPackno \in Int
    BY <1>1, NextPacknoType DEF Numbers
<1>4. t \in PacketType
    BY <1>2, <1>3, FirstBufferedFacts
<1>5. buffered' \in Seq(PacketType)
    BY <1>2, HeadFacts
<1> HIDE DEF p, t
<1>6. SchedAppend(sched, t) \in QType /\ Counted(SchedAppend(sched, t))
    BY <1>1, <1>4, SchedAppendFacts DEF QueuesOK
<1>7. cur' \in Int /\ sched' \in QType /\ Counted(sched')
    BY <1>1, <1>2, <1>3, <1>6 DEF QueuesOK, Numbers
<1>8. Numbers' /\ QueuesOK' /\ Flags' /\ History'
    BY <1>1, <1>5, <1>7 DEF Numbers, QueuesOK, Flags, History, ScheduleBuffered, ghost
<1>9. AlarmArmed'
    BY <1>1 DEF AlarmArmed, ScheduleBuffered
<1> QED BY <1>7, <1>8, <1>9, BasicNext

LEMMA UpdateFacts ==
    ASSUME NEW s \in QType, s.q # << >>, NEW o \in PacketType,
           o.frames = s.q[1].frames \ {"ack"}
    PROVE  /\ UpdateForResending(s, o) \in QType
           /\ UpdateForResending(s, o).q = [s.q EXCEPT ![1] = o]
           /\ Counted(s) => Counted(UpdateForResending(s, o))
<1> DEFINE p == s.q[1]
           n == Cardinality(p.frames \cap {"ack"})
           r == [s.q EXCEPT ![1] = o]
<1>1. s.q \in Seq(PacketType) /\ s.bytes \in Int
    BY DEF QType
<1>2. p \in PacketType /\ 1 \in 1 .. Len(s.q)
    BY <1>1
<1>3. UpdateForResending(s, o) = [q |-> r, bytes |-> s.bytes - n]
    <2>1. UpdateForResending(s, o) = [s EXCEPT !.q = r, !.bytes = s.bytes - n]
        BY DEF UpdateForResending, QType
    <2> HIDE DEF r, n
    <2> QED BY <2>1 DEF QType
<1> HIDE DEF p
<1>4. Size(p) = Size(o) + n /\ n \in Nat
    <2>1. IsFiniteSet(p.frames) /\ Cardinality(p.frames) \in Nat
        BY <1>2, SizeType
    <2>2. CASE "ack" \in p.frames
        <3>1. p.frames \cap {"ack"} = {"ack"}
            BY <2>2
        <3>2. n = 1
            BY <3>1, FS_Singleton
        <3>3. Cardinality(p.frames \ {"ack"}) = Cardinality(p.frames) - 1
            BY <2>1, <2>2, FS_RemoveElement
        <3> QED BY <2>1, <3>2, <3>3 DEF Size, p
    <2>3. CASE "ack" \notin p.frames
        <3>1. p.frames \cap {"ack"} = {} /\ p.frames \ {"ack"} = p.frames
            BY <2>3
        <3>2. n = 0
            BY <3>1, FS_EmptySet
        <3>3. o.frames = p.frames
            BY <3>1 DEF p
        <3>4. Size(o) = 1 + Cardinality(p.frames) /\ Size(p) = 1 + Cardinality(p.frames)
            BY <3>3 DEF Size
        <3> HIDE DEF n
        <3> QED BY <2>1, <3>2, <3>4
    <2> QED BY <2>2, <2>3
<1> HIDE DEF n
<1>5. r \in Seq(PacketType) /\ Len(r) = Len(s.q) /\ r[1] = o
      /\ \A j \in 1 .. Len(s.q) : j # 1 => r[j] = s.q[j]
    BY <1>1, <1>2
<1>6. r = [s.q EXCEPT ![1] = o]
    OBVIOUS
<1> HIDE DEF r
<1>7. BytesOf(r) = BytesOf(s.q) - n
    <2>1. BytesOf(r) = BytesOf(s.q) - Size(p) + Size(o)
        BY <1>1, <1>2, <1>5, BytesUpdate DEF p
    <2>2. BytesOf(s.q) \in Nat /\ Size(p) \in Nat /\ Size(o) \in Nat
        BY <1>1, <1>2, BytesType, SizeType
    <2> QED BY <1>4, <2>1, <2>2
<1>8. BytesOf(s.q) \in Nat
    BY <1>1, BytesType
<1> QED BY <1>1, <1>3, <1>4, <1>5, <1>6, <1>7, <1>8 DEF QType, Counted

(* q without its first packet.                                             *)
Popped(r, q) ==
    /\ r \in Seq(PacketType) /\ Len(r) = Len(q) - 1
    /\ \A j \in 1 .. Len(q) - 1 : r[j] = q[j + 1]

LEMMA PoppedFacts ==
    ASSUME NEW s \in QType, s.q # << >>, NEW o \in PacketType,
           o.frames = s.q[1].frames \ {"ack"}
    PROVE  /\ SchedRemove(s, 1) \in QType /\ Popped(SchedRemove(s, 1).q, s.q)
           /\ Counted(s) => Counted(SchedRemove(s, 1))
           /\ LET t == SchedRemove(UpdateForResending(s, o), 1)
              IN  t \in QType /\ Popped(t.q, s.q) /\ (Counted(s) => Counted(t))
<1>1. s.q \in Seq(PacketType) /\ Len(s.q) \in Nat /\ 1 \in 1 .. Len(s.q)
    BY LenNat, HeadFacts DEF QType
<1>2. /\ SchedRemove(s, 1) \in QType /\ SchedRemove(s, 1).q = RemoveAt(s.q, 1)
      /\ Counted(s) => Counted(SchedRemove(s, 1))
    BY <1>1, SchedRemoveFacts
<1>3. /\ RemoveAt(s.q, 1) \in Seq(PacketType) /\ Len(RemoveAt(s.q, 1)) = Len(s.q) - 1
      /\ \A j \in 1 .. Len(s.q) - 1 : RemoveAt(s.q, 1)[j] = s.q[j + 1]
    BY <1>1, RemoveAtFacts
<1> DEFINE v == UpdateForResending(s, o)
<1>4. v \in QType /\ v.q = [s.q EXCEPT ![1] = o] /\ (Counted(s) => Counted(v))
    BY UpdateFacts
<1> HIDE DEF v
<1>5. /\ v.q \in Seq(PacketType) /\ Len(v.q) = Len(s.q)
      /\ \A j \in 1 .. Len(s.q) : j # 1 => v.q[j] = s.q[j]
    BY <1>1, <1>4
<1>6. /\ SchedRemove(v, 1) \in QType /\ SchedRemove(v, 1).q = RemoveAt(v.q, 1)
      /\ Counted(v) => Counted(SchedRemove(v, 1))
    <2>1. 1 \in 1 .. Len(v.q)
        BY <1>1, <1>5
    <2> QED BY <1>4, <2>1, SchedRemoveFacts
<1>7. /\ RemoveAt(v.q, 1) \in Seq(PacketType) /\ Len(RemoveAt(v.q, 1)) = Len(s.q) - 1
      /\ \A j \in 1 .. Len(s.q) - 1 : RemoveAt(v.q, 1)[j] = v.q[j + 1]
    <2>1. 1 \in 1 .. Len(v.q)
        BY <1>1, <1>5
    <2>2. /\ RemoveAt(v.q, 1) \in Seq(PacketType) /\ Len(RemoveAt(v.q, 1)) = Len(v.q) - 1
          /\ \A j \in 1 .. Len(v.q) - 1 : RemoveAt(v.q, 1)[j] = v.q[j + 1]
        <3> DEFINE w == v.q
        <3>1. w \in Seq(PacketType) /\ 1 \in 1 .. Len(w)
            BY <1>5, <2>1
        <3> HIDE DEF w
        <3>2. /\ RemoveAt(w, 1) \in Seq(PacketType) /\ Len(RemoveAt(w, 1)) = Len(w) - 1
              /\ \A j \in 1 .. Len(w) - 1 : RemoveAt(w, 1)[j] = w[j + 1]
            BY <3>1, RemoveAtFacts
        <3> QED BY <3>2 DEF w
    <2> QED BY <1>5, <2>2
<1>8. \A j \in 1 .. Len(s.q) - 1 : v.q[j + 1] = s.q[j + 1]
    <2>1. \A j \in 1 .. Len(s.q) - 1 : j + 1 \in 1 .. Len(s.q) /\ j + 1 # 1
        BY <1>1
    <2> QED BY <1>5, <2>1
<1>9. Popped(SchedRemove(s, 1).q, s.q)
    BY <1>2, <1>3 DEF Popped
<1>10. Popped(SchedRemove(v, 1).q, s.q)
    BY <1>6, <1>7, <1>8 DEF Popped
<1> QED BY <1>2, <1>4, <1>6, <1>9, <1>10 DEF v

(* lsquic_send_ctl_next_packet_to_send(): what happens to the first        *)
(* scheduled packet.                                                       *)
LEMMA NextPacketFacts ==
    ASSUME Numbers, QueuesOK, NextPacketToSend
    PROVE  /\ phase = "send" /\ sched.q # << >> /\ sched.q[1] \in PacketType
           /\ sched' \in QType /\ Popped(sched'.q, sched.q)
           /\ Counted(sched) => Counted(sched')
           /\ \/ /\ ~sched.q[1].re /\ batch' = Append(batch, Encrypted(sched.q[1]))
                 /\ UNCHANGED <<cur, unacked>>
              \/ /\ sched.q[1].re /\ HasData(sched.q[1]) /\ cur' = NextPackno
                 /\ batch' = Append(batch, Encrypted(Chopped(sched.q[1])))
                 /\ UNCHANGED unacked
              \/ /\ sched.q[1].re /\ ~HasData(sched.q[1])
                 /\ unacked' = Without(unacked, {sched.q[1].id})
                 /\ UNCHANGED <<cur, batch>>
<1> DEFINE p == sched.q[1]
<1>1. sched \in QType /\ sched.q \in Seq(PacketType) /\ sched.q # << >> /\ phase = "send"
    BY DEF QueuesOK, QType, NextPacketToSend
<1>2. p \in PacketType /\ Head(sched.q) = p
    BY <1>1, HeadFacts
<1>3. \/ /\ ~p.re
         /\ batch' = Append(batch, Encrypted(p))
         /\ sched' = SchedRemove(sched, 1)
         /\ UNCHANGED <<cur, unacked>>
      \/ /\ p.re /\ HasData(p)
         /\ cur' = NextPackno
         /\ batch' = Append(batch, Encrypted(Chopped(p)))
         /\ sched' = SchedRemove(UpdateForResending(sched, Chopped(p)), 1)
         /\ UNCHANGED unacked
      \/ /\ p.re /\ ~HasData(p)
         /\ sched' = SchedRemove(sched, 1)
         /\ unacked' = Without(unacked, {p.id})
         /\ UNCHANGED <<cur, batch>>
    <2> HIDE DEF p
    <2> QED BY <1>2 DEF NextPacketToSend
<1>4. Chopped(p) \in PacketType /\ Chopped(p).frames = p.frames \ {"ack"}
    BY <1>2, ChoppedFacts DEF Numbers
<1>5. /\ SchedRemove(sched, 1) \in QType /\ Popped(SchedRemove(sched, 1).q, sched.q)
      /\ Counted(sched) => Counted(SchedRemove(sched, 1))
      /\ LET t == SchedRemove(UpdateForResending(sched, Chopped(p)), 1)
         IN  t \in QType /\ Popped(t.q, sched.q) /\ (Counted(sched) => Counted(t))
    BY <1>1, <1>4, PoppedFacts
<1>6. sched' \in QType /\ Popped(sched'.q, sched.q) /\ (Counted(sched) => Counted(sched'))
    <2> HIDE DEF p
    <2> QED BY <1>3, <1>5
<1> QED BY <1>1, <1>2, <1>3, <1>6

LEMMA BasicNextPacket ==
    ASSUME Basic, NextPacketToSend
    PROVE  Basic'
<1>1. /\ Numbers /\ QueuesOK /\ Flags /\ History
      /\ AlarmArmed /\ Counted(sched)
    BY BasicParts
<1> DEFINE p == sched.q[1]
<1>2. /\ p \in PacketType /\ sched' \in QType /\ Counted(sched')
      /\ \/ /\ ~p.re /\ batch' = Append(batch, Encrypted(p))
            /\ UNCHANGED <<cur, unacked>>
         \/ /\ p.re /\ HasData(p) /\ cur' = NextPackno
            /\ batch' = Append(batch, Encrypted(Chopped(p)))
            /\ UNCHANGED unacked
         \/ /\ p.re /\ ~HasData(p)
            /\ unacked' = Without(unacked, {p.id})
            /\ UNCHANGED <<cur, batch>>
    BY <1>1, NextPacketFacts
<1> HIDE DEF p
<1>3. Chopped(p) \in PacketType
    BY <1>1, <1>2, ChoppedFacts DEF Numbers
<1>4. Encrypted(p) \in PacketType /\ Encrypted(Chopped(p)) \in PacketType
    BY <1>2, <1>3, EncryptedFacts
<1>5. Append(batch, Encrypted(p)) \in Seq(PacketType) /\ Append(batch, Encrypted(Chopped(p))) \in Seq(PacketType)
    BY <1>1, <1>4, AppendFacts DEF QueuesOK
<1>6. batch' \in Seq(PacketType)
    BY <1>1, <1>2, <1>5 DEF QueuesOK
<1>7. cur' \in Int
    BY <1>1, <1>2, NextPacknoType DEF Numbers
<1>8. unacked' \in Seq(PacketType) /\ \A x \in ToSet(unacked') : x \in ToSet(unacked)
    <2>1. /\ Without(unacked, {p.id}) \in Seq(PacketType)
          /\ \A x \in ToSet(Without(unacked, {p.id})) : x \in ToSet(unacked)
        BY <1>1, WithoutSet DEF QueuesOK
    <2> QED BY <1>1, <1>2, <2>1 DEF QueuesOK
<1>9. Numbers' /\ QueuesOK' /\ Flags' /\ History'
    BY <1>1, <1>2, <1>6, <1>7, <1>8 DEF Numbers, QueuesOK, Flags, History, NextPacketToSend, ghost
<1>10. AlarmArmed'
    BY <1>1, <1>8, AlarmKept DEF QueuesOK, NextPacketToSend
<1> QED BY <1>2, <1>9, <1>10, BasicNext

OnWire(p) == [no |-> p.no, id |-> p.id, frames |-> p.frames, enc |-> p.enc]

(* The batch goes out: k packets are sent, the others return.              *)
LEMMA SendBatchFacts ==
    ASSUME Numbers, QueuesOK, History, NEW k \in 0 .. MaxPackets, SendBatch(k)
    PROVE  \E sent, unsent \in Seq(PacketType) :
             /\ phase = "send" /\ k \in 0 .. Len(batch)
             /\ Len(sent) = k /\ Len(unsent) = Len(batch) - k
             /\ \A i \in 1 .. k : sent[i] = batch[i]
             /\ \A i \in 1 .. Len(batch) - k : unsent[i] = batch[k + i]
             /\ Joined(unacked', sent, k)
             /\ sched' \in QType /\ sched'.q = unsent \o sched.q
             /\ Counted(sched) => Counted(sched')
             /\ largest' = Max({largest} \cup {sent[i].no : i \in DOMAIN sent})
             /\ largest' \in {largest} \cup {sent[i].no : i \in 1 .. k} /\ largest' \in Int
             /\ largest <= largest' /\ \A i \in 1 .. k : sent[i].no <= largest'
             /\ skipped' = skipped \cup ({gap} \cap {n - 1 : n \in {sent[i].no : i \in 1 .. k}})
             /\ alarm' = (alarm \/ \E i \in 1 .. k : HasData(sent[i]))
             /\ wire' \in Seq(WireType) /\ Len(wire') = Len(wire) + k
             /\ \A i \in 1 .. Len(wire) : wire'[i] = wire[i]
             /\ \A i \in 1 .. k : wire'[Len(wire) + i] = OnWire(sent[i])
             /\ phase' \in {"idle", "send"} /\ batch' = << >>
             /\ phase' # "send" \/ sched'.q = sched.q
             /\ UNCHANGED <<cur, gap, lost, buffered, largest_acked, reset, aborted,
                            n_packets, misacked, owed>>
<1> DEFINE sent == SubSeq(batch, 1, k)
           unsent == SubSeq(batch, k + 1, Len(batch))
           nos == {sent[i].no : i \in DOMAIN sent}
           w == [i \in DOMAIN sent |-> OnWire(sent[i])]
<1>1. /\ batch \in Seq(PacketType) /\ Len(batch) \in Nat /\ sched \in QType /\ unacked \in Seq(PacketType)
      /\ k \in 0 .. Len(batch) /\ gap \in Int /\ largest \in Int /\ wire \in Seq(WireType)
    BY LenNat DEF QueuesOK, SendBatch, Numbers, History
<1>2. /\ sent \in Seq(PacketType) /\ Len(sent) = k
      /\ \A i \in 1 .. k : sent[i] = batch[i]
    <2>1. 1 \in 1 .. Len(batch) + 1 /\ 1 <= k + 1
        BY <1>1
    <2>2. /\ SubSeq(batch, 1, k) \in Seq(PacketType) /\ Len(SubSeq(batch, 1, k)) = k - 1 + 1
          /\ \A i \in 1 .. k - 1 + 1 : SubSeq(batch, 1, k)[i] = batch[1 + i - 1]
        BY <1>1, <2>1, SubSeqFacts
    <2> QED BY <1>1, <2>2
<1>3. /\ unsent \in Seq(PacketType) /\ Len(unsent) = Len(batch) - k
      /\ \A i \in 1 .. Len(batch) - k : unsent[i] = batch[k + i]
    <2>1. k + 1 \in 1 .. Len(batch) + 1 /\ Len(batch) \in 0 .. Len(batch) /\ k + 1 <= Len(batch) + 1
        BY <1>1
    <2>2. /\ SubSeq(batch, k + 1, Len(batch)) \in Seq(PacketType)
          /\ Len(SubSeq(batch, k + 1, Len(batch))) = Len(batch) - (k + 1) + 1
          /\ \A i \in 1 .. Len(batch) - (k + 1) + 1 : SubSeq(batch, k + 1, Len(batch))[i] = batch[(k + 1) + i - 1]
        BY <1>1, <2>1, SubSeqFacts
    <2>3. Len(batch) - (k + 1) + 1 = Len(batch) - k /\ \A i \in Nat : (k + 1) + i - 1 = k + i
        BY <1>1
    <2>4. \A i \in 1 .. Len(batch) - k : i \in Nat
        BY <1>1
    <2> HIDE DEF unsent
    <2> QED BY <2>2, <2>3, <2>4 DEF unsent
<1>4. /\ unacked' = SentPackets(sent)
      /\ sched' = Delayed(sched, unsent)
      /\ largest' = Max({largest} \cup nos)
      /\ skipped' = skipped \cup ({gap} \cap {n - 1 : n \in nos})
      /\ alarm' = (alarm \/ \E i \in DOMAIN sent : HasData(sent[i]))
      /\ wire' = wire \o w
      /\ phase' \in IF unsent = << >> /\ sched.q # << >> THEN {"send", "idle"} ELSE {"idle"}
      /\ batch' = << >> /\ phase = "send"
      /\ UNCHANGED <<cur, gap, lost, buffered, largest_acked, reset, aborted,
                     n_packets, misacked, owed>>
    BY DEF SendBatch, OnWire
<1>5. nos = {sent[i].no : i \in DOMAIN sent} /\ w = [i \in DOMAIN sent |-> OnWire(sent[i])]
    OBVIOUS
<1> HIDE DEF sent, unsent, nos, w
<1>6. DOMAIN sent = 1 .. k
    BY <1>1, <1>2, LenNat
<1>7. Joined(unacked', sent, k)
    BY <1>1, <1>2, <1>4, SentFacts
<1>8. sched' \in QType /\ sched'.q = unsent \o sched.q /\ (Counted(sched) => Counted(sched'))
    <2>1. sched.q \in Seq(PacketType) /\ sched.bytes \in Int
        BY <1>1 DEF QType
    <2>2. unsent \o sched.q \in Seq(PacketType)
        BY <1>3, <2>1, ConcatFacts
    <2>3. BytesOf(unsent \o sched.q) = BytesOf(unsent) + BytesOf(sched.q)
        BY <1>3, <2>1, BytesConcat
    <2>4. BytesOf(unsent) \in Nat /\ BytesOf(sched.q) \in Nat
        BY <1>3, <2>1, BytesType
    <2> DEFINE q == unsent \o sched.q
               b == sched.bytes + BytesOf(unsent)
    <2>5. sched' = [q |-> q, bytes |-> b]
        BY <1>4 DEF Delayed
    <2>6. b \in Int /\ (sched.bytes = BytesOf(sched.q) => b = BytesOf(q))
        BY <2>1, <2>3, <2>4
    <2>7. q \in Seq(PacketType)
        BY <2>2
    <2> HIDE DEF q, b
    <2>8. sched' \in QType /\ sched'.q = q /\ sched'.bytes = b
        BY <2>5, <2>6, <2>7 DEF QType
    <2> QED BY <2>6, <2>8 DEF q, Counted
<1>9. Max({largest} \cup nos) \in {largest} \cup nos /\ Max({largest} \cup nos) \in Int
      /\ \A x \in {largest} \cup nos : x <= Max({largest} \cup nos)
    BY <1>1, <1>2, <1>5, LargestOf
<1>10. nos = {sent[i].no : i \in 1 .. k}
    BY <1>5, <1>6
<1>11. /\ largest' \in {largest} \cup {sent[i].no : i \in 1 .. k} /\ largest' \in Int
       /\ largest <= largest' /\ \A i \in 1 .. k : sent[i].no <= largest'
    BY <1>4, <1>9, <1>10
<1>12. w \in Seq(WireType) /\ Len(w) = k /\ \A i \in 1 .. k : w[i] = OnWire(sent[i])
    <2>1. \A i \in 1 .. k : sent[i] \in PacketType
        BY <1>2
    <2>2. \A i \in 1 .. k : OnWire(sent[i]) \in WireType
        BY <2>1 DEF PacketType, OnWire, WireType
    <2>3. w \in [1 .. k -> WireType]
        BY <1>5, <1>6, <2>2
    <2> QED BY <1>1, <1>5, <1>6, <2>3
<1>13. /\ wire' \in Seq(WireType) /\ Len(wire') = Len(wire) + k
       /\ \A i \in 1 .. Len(wire) : wire'[i] = wire[i]
       /\ \A i \in 1 .. k : wire'[Len(wire) + i] = OnWire(sent[i])
    <2>1. /\ wire \o w \in Seq(WireType) /\ Len(wire \o w) = Len(wire) + Len(w)
          /\ \A i \in 1 .. Len(wire) : (wire \o w)[i] = wire[i]
          /\ \A i \in 1 .. Len(w) : (wire \o w)[Len(wire) + i] = w[i]
        <3>1. wire \in Seq(WireType) /\ w \in Seq(WireType)
            BY <1>1, <1>12
        <3> QED BY <3>1, ConcatFacts
    <2> QED BY <1>4, <1>12, <2>1
<1>14. phase' \in {"idle", "send"} /\ (phase' # "send" \/ sched'.q = sched.q)
    <2>1. phase' = "send" => unsent = << >>
        BY <1>4
    <2>2. << >> \o sched.q = sched.q
        BY <1>1 DEF QType
    <2> QED BY <1>4, <1>8, <2>1, <2>2
<1>15. /\ alarm' = (alarm \/ \E i \in 1 .. k : HasData(sent[i]))
       /\ largest' = Max({largest} \cup {sent[i].no : i \in DOMAIN sent})
       /\ skipped' = skipped \cup ({gap} \cap {n - 1 : n \in {sent[i].no : i \in 1 .. k}})
    BY <1>4, <1>5, <1>6, <1>10
<1> QED BY <1>1, <1>2, <1>3, <1>4, <1>7, <1>8, <1>11, <1>13, <1>14, <1>15

LEMMA BasicSend ==
    ASSUME Basic, NEW k \in 0 .. MaxPackets, SendBatch(k)
    PROVE  Basic'
<1>1. /\ Numbers /\ QueuesOK /\ Flags /\ History
      /\ AlarmArmed /\ Counted(sched)
    BY BasicParts
<1>2. PICK sent, unsent \in Seq(PacketType) :
             /\ k \in 0 .. Len(batch) /\ Len(sent) = k
             /\ Joined(unacked', sent, k)
             /\ sched' \in QType /\ (Counted(sched) => Counted(sched'))
             /\ largest' \in Int
             /\ skipped' = skipped \cup ({gap} \cap {n - 1 : n \in {sent[i].no : i \in 1 .. k}})
             /\ alarm' = (alarm \/ \E i \in 1 .. k : HasData(sent[i]))
             /\ wire' \in Seq(WireType)
             /\ phase' \in {"idle", "send"} /\ batch' = << >>
             /\ UNCHANGED <<cur, gap, lost, buffered, largest_acked, reset, aborted,
                            n_packets, misacked, owed>>
    BY <1>1, SendBatchFacts
<1>3. Numbers'
    BY <1>1, <1>2 DEF Numbers
<1>4. unacked' \in Seq(PacketType)
    BY <1>2 DEF Joined
<1>5. << >> \in Seq(PacketType)
    OBVIOUS
<1>6. QueuesOK'
    BY <1>1, <1>2, <1>4, <1>5 DEF QueuesOK
<1>7. Flags'
    BY <1>1, <1>2 DEF Flags
<1>8. History'
    BY <1>1, <1>2 DEF History, Numbers
<1>9. AlarmArmed'
    <2> SUFFICES ASSUME RetxUnacked(unacked') # {} PROVE alarm'
        BY DEF AlarmArmed
    <2>1. PICK x \in ToSet(unacked') : IsReal(x) /\ HasData(x)
        BY <1>4, RetxSet
    <2>2. CASE x \in ToSet(unacked)
        <3>1. RetxUnacked(unacked) # {}
            BY <1>1, <2>1, <2>2, RetxSet DEF QueuesOK
        <3> QED BY <1>1, <1>2, <3>1 DEF AlarmArmed
    <2>3. CASE x = Poison
        <3>1. Poison.rec = "poison"
            BY <1>1, PoisonFacts DEF Numbers
        <3> QED BY <2>1, <2>3, <3>1 DEF IsReal
    <2>4. CASE \E j \in 1 .. k : x = Stripped(sent[j])
        <3>1. PICK j \in 1 .. k : x = Stripped(sent[j])
            BY <2>4
        <3>2. sent[j] \in PacketType
            BY <1>2
        <3>3. x.frames = sent[j].frames
            BY <3>1, <3>2, StrippedFacts
        <3>4. HasData(sent[j])
            BY <2>1, <3>3 DEF HasData
        <3> QED BY <1>2, <3>4
    <2> QED BY <1>2, <2>2, <2>3, <2>4 DEF Joined
<1> QED BY <1>1, <1>2, <1>3, <1>6, <1>7, <1>8, <1>9, BasicNext

(***************************************************************************)
(* lsquic_send_ctl_got_ack() when the ACK frame is accepted.               *)
(***************************************************************************)
AckTaken(A, L, ids, left, u, w, s) ==
    /\ ids = Walk(A).ids /\ ids \in Seq(Nat)
    /\ left = Without(unacked, ToSet(ids)) /\ left \in Seq(PacketType)
    /\ \A x \in L : x \in ToSet(left) /\ IsReal(x)
    /\ u \in Seq(PacketType) /\ IsRecorded(u, left, L)
    /\ w \in Seq(PacketType) /\ IsLost(w, left, L)
    /\ s = DropAllAcked(ids) /\ s \in SchedType
    /\ largest_acked' = Walk(A).largest
    /\ cur' = s.cur
    /\ sched' = [q |-> s.q, bytes |-> s.bytes]
    /\ lost' = Without(lost, ToSet(ids)) \o w
    /\ \/ unacked' = u /\ gap' = gap
       \/ /\ gap < Min(A) /\ \E i \in 1 .. Len(u) : u[i].rec = "poison"
          /\ unacked' = Only(u, {p \in ToSet(u) : p.rec # "poison"})
          /\ gap' \in s.cur + 1 .. s.cur + 2
    /\ alarm' \in IF unacked = << >> THEN {alarm}
                  ELSE IF RetxUnacked(u) = {} THEN {FALSE}
                  ELSE {alarm, TRUE}
    /\ owed' = {o \in owed : o[1] \notin ToSet(ids)}
    /\ misacked' = misacked \cup (ToSet(ids) \ ReportedIn(A))
    /\ UNCHANGED <<largest, aborted>>

LEMMA GotAckFacts ==
    ASSUME Numbers, QueuesOK, NEW A \in SUBSET (0 .. MaxPackno), GotAck(A)
    PROVE  /\ phase = "idle" /\ ~aborted /\ A # {}
           /\ A \subseteq {wire[i].enc.no : i \in DOMAIN wire}
           /\ Walk(A) \in AccType
           /\ UNCHANGED <<batch, buffered, phase, reset, n_packets, wire, skipped>>
           /\ \/ /\ Max(A) > largest \/ Walk(A).bad
                 /\ aborted' = TRUE
                 /\ UNCHANGED <<numbers, sched, unacked, lost, largest_acked, alarm, owed, misacked>>
              \/ /\ ~(Max(A) > largest \/ Walk(A).bad)
                 /\ \E L, ids, left, u, w, s : AckTaken(A, L, ids, left, u, w, s)
<1>1. /\ phase = "idle" /\ ~aborted /\ A # {}
      /\ A \subseteq {wire[i].enc.no : i \in DOMAIN wire}
      /\ UNCHANGED <<batch, buffered, phase, reset, n_packets, wire, skipped>>
    BY DEF GotAck
<1>2. Walk(A) \in AccType
    BY <1>1, SendCtlAssumption, WalkFacts DEF Numbers, QueuesOK
<1>3. CASE Max(A) > largest \/ Walk(A).bad
    BY <1>1, <1>2, <1>3 DEF GotAck
<1>4. CASE ~(Max(A) > largest \/ Walk(A).bad)
    <2> DEFINE ids == Walk(A).ids
               left == Without(unacked, ToSet(ids))
               s == DropAllAcked(ids)
    <2>1. PICK L \in SUBSET Losable(left, Walk(A).largest), recorded \in BOOLEAN :
             /\ largest_acked' = Walk(A).largest
             /\ cur' = s.cur
             /\ sched' = [q |-> s.q, bytes |-> s.bytes]
             /\ lost' = Without(lost, ToSet(ids)) \o LostFrom(left, L)
             /\ LET u == RecordLoss(left, L, recorded) IN
                  /\ ReschedulePoison(u, A, s.cur)
                  /\ alarm' \in IF unacked = << >> THEN {alarm}
                                ELSE IF RetxUnacked(u) = {} THEN {FALSE}
                                ELSE {alarm, TRUE}
             /\ owed' = {o \in owed : o[1] \notin ToSet(ids)}
             /\ misacked' = misacked \cup (ToSet(ids) \ ReportedIn(A))
             /\ UNCHANGED <<largest, aborted>>
        BY <1>4 DEF GotAck
    <2> DEFINE u == RecordLoss(left, L, recorded)
               w == LostFrom(left, L)
    <2>2. ids \in Seq(Nat) /\ ids = Walk(A).ids
        BY <1>2 DEF AccType
    <2> HIDE DEF ids
    <2>3. left \in Seq(PacketType) /\ left = Without(unacked, ToSet(ids))
        BY WithoutSet DEF QueuesOK
    <2>4. s \in SchedType /\ s = DropAllAcked(ids)
        BY <2>2, DropAllAckedFacts DEF QueuesOK, QType, Numbers
    <2> HIDE DEF left, s
    <2>5. \A x \in L : x \in ToSet(left) /\ IsReal(x)
        BY <2>3, LosableFacts
    <2>6. IsRecorded(u, left, L) /\ IsLost(w, left, L)
        BY <2>3, RecordLossFacts, LostFromFacts
    <2>7. u = RecordLoss(left, L, recorded) /\ w = LostFrom(left, L)
        OBVIOUS
    <2> HIDE DEF u, w
    <2>8. u \in Seq(PacketType) /\ w \in Seq(PacketType)
        BY <2>6 DEF IsRecorded, IsLost
    <2>9. \/ unacked' = u /\ gap' = gap
          \/ /\ gap < Min(A) /\ \E i \in 1 .. Len(u) : u[i].rec = "poison"
             /\ unacked' = Only(u, {p \in ToSet(u) : p.rec # "poison"})
             /\ gap' \in s.cur + 1 .. s.cur + 2
        <3>1. ReschedulePoison(u, A, s.cur)
            BY <2>1, <2>7
        <3>2. DOMAIN u = 1 .. Len(u)
            BY <2>8, LenNat
        <3> QED BY <3>1, <3>2 DEF ReschedulePoison
    <2>10. alarm' \in IF unacked = << >> THEN {alarm}
                      ELSE IF RetxUnacked(u) = {} THEN {FALSE}
                      ELSE {alarm, TRUE}
        BY <2>1, <2>7
    <2>11. AckTaken(A, L, ids, left, u, w, s)
        BY <2>1, <2>2, <2>3, <2>4, <2>5, <2>6, <2>7, <2>8, <2>9, <2>10 DEF AckTaken
    <2> QED BY <1>1, <1>2, <1>4, <2>11
<1> QED BY <1>3, <1>4

(* What an accepted ACK frame does to the Unacked Queue, as a set.         *)
LEMMA AckTakenSet ==
    ASSUME Numbers, QueuesOK, NEW A, NEW L, NEW ids, NEW left, NEW u, NEW w, NEW s,
           AckTaken(A, L, ids, left, u, w, s)
    PROVE  /\ \A x : x \in ToSet(left) <=> x \in ToSet(unacked) /\ x.id \notin ToSet(ids)
           /\ unacked' \in Seq(PacketType)
           /\ \A x \in ToSet(unacked') :
                 /\ x \in ToSet(u) /\ \E y \in ToSet(left) : x = Marked(y, L)
                 /\ x.rec = "poison" => unacked' = u
                 /\ IsReal(x) => x \in ToSet(left) /\ x \notin L
           /\ \A x \in ToSet(u) : x.rec # "poison" => x \in ToSet(unacked')
           /\ \A x \in ToSet(left) : x \notin L /\ IsReal(x)
                /\ (\A p \in L : ~HasData(p) => x.id # p.id) => x \in ToSet(unacked')
<1>1. left = Without(unacked, ToSet(ids)) /\ left \in Seq(PacketType) /\ IsRecorded(u, left, L)
      /\ u \in Seq(PacketType)
      /\ \/ unacked' = u
         \/ unacked' = Only(u, {p \in ToSet(u) : p.rec # "poison"})
    BY DEF AckTaken
<1>2. \A x : x \in ToSet(left) <=> x \in ToSet(unacked) /\ x.id \notin ToSet(ids)
    BY <1>1, WithoutSet DEF QueuesOK
<1>3. /\ \A x \in ToSet(u) : /\ \E y \in ToSet(left) : x = Marked(y, L)
      /\ \A x \in ToSet(u) : IsReal(x) => x \in ToSet(left) /\ x \notin L
      /\ \A y \in ToSet(left) :
                y \notin L /\ IsReal(y) /\ (\A p \in L : ~HasData(p) => y.id # p.id)
                => y \in ToSet(u)
    BY <1>1, RecordedSet
<1> DEFINE v == Only(u, {p \in ToSet(u) : p.rec # "poison"})
<1>4. v \in Seq(PacketType) /\ \A x : x \in ToSet(v) <=> x \in ToSet(u) /\ x.rec # "poison"
    <2> DEFINE S == {p \in ToSet(u) : p.rec # "poison"}
    <2>1. \A x : x \in S <=> x \in ToSet(u) /\ x.rec # "poison"
        OBVIOUS
    <2> HIDE DEF S
    <2>2. Only(u, S) \in Seq(PacketType) /\ \A x : x \in ToSet(Only(u, S)) <=> x \in ToSet(u) /\ x \in S
        BY <1>1, OnlySet
    <2> QED BY <2>1, <2>2 DEF S
<1>5. unacked' = u \/ unacked' = v
    BY <1>1
<1> HIDE DEF v
<1>6. /\ unacked' \in Seq(PacketType) /\ \A x \in ToSet(unacked') : x \in ToSet(u) /\ (x.rec = "poison" => unacked' = u)
      /\ \A x \in ToSet(u) : x.rec # "poison" => x \in ToSet(unacked')
    BY <1>1, <1>4, <1>5
<1>7. \A x \in ToSet(left) : x \notin L /\ IsReal(x)
                /\ (\A p \in L : ~HasData(p) => x.id # p.id) => x \in ToSet(unacked')
    BY <1>3, <1>6 DEF IsReal
<1> QED BY <1>2, <1>3, <1>6, <1>7

LEMMA BasicAck ==
    ASSUME Basic, NEW A \in SUBSET (0 .. MaxPackno), GotAck(A)
    PROVE  Basic'
<1>1. /\ Numbers /\ QueuesOK /\ Flags /\ History
      /\ AlarmArmed /\ Counted(sched)
    BY BasicParts
<1>2. /\ Walk(A) \in AccType
      /\ UNCHANGED <<batch, buffered, phase, reset, n_packets, wire, skipped>>
      /\ \/ /\ aborted' = TRUE
            /\ UNCHANGED <<numbers, sched, unacked, lost, largest_acked, alarm, owed, misacked>>
         \/ \E L, ids, left, u, w, s : AckTaken(A, L, ids, left, u, w, s)
    BY <1>1, GotAckFacts
<1>3. CASE aborted' = TRUE
            /\ UNCHANGED <<numbers, sched, unacked, lost, largest_acked, alarm, owed, misacked>>
    <2>1. Numbers' /\ QueuesOK' /\ Flags' /\ History'
        BY <1>1, <1>2, <1>3 DEF Numbers, QueuesOK, Flags, History, numbers
    <2>2. AlarmArmed' /\ Counted(sched')
        BY <1>1, <1>3 DEF AlarmArmed
    <2> QED BY <2>1, <2>2, BasicNext
<1>4. CASE \E L, ids, left, u, w, s : AckTaken(A, L, ids, left, u, w, s)
    <2>1. PICK L, ids, left, u, w, s : AckTaken(A, L, ids, left, u, w, s)
        BY <1>4
    <2>2. s \in SchedType /\ s = DropAllAcked(ids) /\ ids \in Seq(Nat) /\ cur' = s.cur
          /\ sched' = [q |-> s.q, bytes |-> s.bytes] /\ largest_acked' = Walk(A).largest
          /\ w \in Seq(PacketType) /\ u \in Seq(PacketType)
        BY <2>1 DEF AckTaken
    <2>3. sched' \in QType /\ sched'.q = s.q /\ sched'.bytes = s.bytes
        BY <2>2 DEF SchedType, QType
    <2>4. Counted(sched')
        <3>1. sched.bytes = BytesOf(sched.q) => s.bytes = BytesOf(s.q)
            BY <1>1, <2>2, DropAllAckedFacts DEF QueuesOK, QType, Numbers
        <3> QED BY <1>1, <2>3, <3>1 DEF Counted
    <2>5. cur' \in Int /\ largest_acked' \in Int /\ gap' \in Int
        <3>1. s.cur \in Int /\ Walk(A).largest \in Int
            BY <1>2, <2>2 DEF SchedType, AccType
        <3>2. gap' = gap \/ gap' \in s.cur + 1 .. s.cur + 2
            BY <2>1 DEF AckTaken
        <3> QED BY <1>1, <2>2, <3>1, <3>2 DEF Numbers
    <2>6. /\ unacked' \in Seq(PacketType)
          /\ \A x \in ToSet(unacked') : x \in ToSet(u)
          /\ \A x \in ToSet(unacked') : IsReal(x) => x \in ToSet(unacked)
        BY <1>1, <2>1, AckTakenSet
    <2>7. lost' \in Seq(PacketType)
        <3>1. lost' = Without(lost, ToSet(ids)) \o w
            BY <2>1 DEF AckTaken
        <3>2. Without(lost, ToSet(ids)) \in Seq(PacketType)
            BY <1>1, WithoutSet DEF QueuesOK
        <3> QED BY <2>2, <3>1, <3>2, ConcatFacts
    <2>8. alarm' \in BOOLEAN /\ aborted' = aborted
        BY <1>1, <2>1 DEF AckTaken, Flags
    <2>9. owed' \subseteq owed /\ misacked' \subseteq Nat
        <3>1. \A x \in ToSet(ids) : x \in Nat
            BY <2>2, InToSet
        <3> QED BY <1>1, <2>1, <3>1 DEF AckTaken, History
    <2>10. Numbers'
        BY <1>1, <1>2, <2>1, <2>5 DEF Numbers, AckTaken
    <2>11. QueuesOK'
        BY <1>1, <1>2, <2>3, <2>6, <2>7 DEF QueuesOK
    <2>12. Flags'
        BY <1>1, <1>2, <2>8 DEF Flags
    <2>13. History'
        BY <1>1, <1>2, <2>9 DEF History
    <2>14. AlarmArmed'
        <3> SUFFICES ASSUME RetxUnacked(unacked') # {} PROVE alarm'
            BY DEF AlarmArmed
        <3>1. RetxUnacked(unacked) # {}
            BY <1>1, <2>6, RetxLess DEF QueuesOK
        <3>2. RetxUnacked(u) # {}
            BY <2>2, <2>6, RetxLess
        <3>3. unacked # << >>
            BY <3>1 DEF RetxUnacked
        <3>4. alarm
            BY <1>1, <3>1 DEF AlarmArmed
        <3>5. alarm' \in {alarm, TRUE}
            BY <2>1, <3>2, <3>3 DEF AckTaken
        <3> QED BY <3>4, <3>5
    <2> QED BY <2>4, <2>10, <2>11, <2>12, <2>13, <2>14, BasicNext
<1> QED BY <1>2, <1>3, <1>4

LEMMA RingsFacts ==
    ASSUME QueuesOK, RetxAlarmRings
    PROVE  \E L, w :
             /\ phase = "idle" /\ ~aborted
             /\ \A x \in L : x \in ToSet(unacked) /\ IsReal(x)
             /\ IsRecorded(unacked', unacked, L) /\ unacked' \in Seq(PacketType)
             /\ IsLost(w, unacked, L) /\ w \in Seq(PacketType) /\ lost' = lost \o w
             /\ alarm' = (RetxUnacked(unacked') # {})
<1>1. unacked \in Seq(PacketType)
    BY DEF QueuesOK
<1>2. PICK L \in (SUBSET Losable(unacked, largest_acked))
                \cup {{unacked[i] : i \in {j \in DOMAIN unacked : IsReal(unacked[j])}}}
                \cup {{unacked[Max(RetxUnacked(unacked))]} : i \in RetxUnacked(unacked)},
          recorded \in BOOLEAN :
         /\ unacked' = RecordLoss(unacked, L, recorded)
         /\ lost' = lost \o LostFrom(unacked, L)
         /\ alarm' = RearmedAfter(unacked')
    BY DEF RetxAlarmRings
<1>3. \A x \in L : x \in ToSet(unacked) /\ IsReal(x)
    BY <1>1, <1>2, RingFacts
<1>4. IsRecorded(unacked', unacked, L)
    BY <1>1, <1>2, RecordLossFacts
<1>5. IsLost(LostFrom(unacked, L), unacked, L)
    BY <1>1, LostFromFacts
<1>6. unacked' \in Seq(PacketType) /\ LostFrom(unacked, L) \in Seq(PacketType)
    BY <1>4, <1>5 DEF IsRecorded, IsLost
<1>7. alarm' = (RetxUnacked(unacked') # {}) /\ phase = "idle" /\ ~aborted
    BY <1>2 DEF RearmedAfter, RetxAlarmRings
<1> QED BY <1>2, <1>3, <1>4, <1>5, <1>6, <1>7

LEMMA BasicRing ==
    ASSUME Basic, RetxAlarmRings
    PROVE  Basic'
<1>1. /\ Numbers /\ QueuesOK /\ Flags /\ History
      /\ AlarmArmed /\ Counted(sched)
    BY BasicParts
<1>2. PICK L, w :
             /\ unacked' \in Seq(PacketType)
             /\ w \in Seq(PacketType) /\ lost' = lost \o w
             /\ alarm' = (RetxUnacked(unacked') # {})
    BY <1>1, RingsFacts
<1>3. lost' \in Seq(PacketType)
    BY <1>1, <1>2, ConcatFacts DEF QueuesOK
<1>4. Numbers' /\ History'
    BY <1>1 DEF Numbers, History, RetxAlarmRings, numbers, ghost
<1>5. QueuesOK'
    BY <1>1, <1>2, <1>3 DEF QueuesOK, RetxAlarmRings
<1>6. Flags'
    BY <1>1, <1>2 DEF Flags, RetxAlarmRings
<1>7. AlarmArmed'
    BY <1>2 DEF AlarmArmed
<1>8. Counted(sched')
    BY <1>1 DEF RetxAlarmRings
<1> QED BY <1>4, <1>5, <1>6, <1>7, <1>8, BasicNext

LEMMA BasicStep ==
    ASSUME Basic, [Next]_vars
    PROVE  Basic'
<1>1. CASE UNCHANGED vars
    BY <1>1, BasicSame
<1>2. ASSUME NEW A \in SUBSET (0 .. MaxPackno), GotAck(A) PROVE Basic'
    BY <1>2, BasicAck
<1>3. CASE RetxAlarmRings
    BY <1>3, BasicRing
<1>4. CASE ResetStream
    BY <1>4, BasicReset
<1>5. ASSUME NEW f \in Kinds, WriteFrame(f) PROVE Basic'
    BY <1>5, BasicWrite
<1>6. ASSUME NEW f \in Kinds, NEW with_ack \in BOOLEAN, WriteBuffered(f, with_ack) PROVE Basic'
    BY <1>6, BasicWriteBuffered
<1>7. ASSUME NEW with_ack \in BOOLEAN, Tick(with_ack) PROVE Basic'
    BY <1>7, BasicTick
<1>8. CASE PacerBlocked
    BY <1>8, BasicQuiet DEF PacerBlocked
<1>9. CASE SendUnsent
    BY <1>9, BasicQuiet DEF SendUnsent
<1>10. CASE RescheduleLost
    BY <1>10, BasicReschedule
<1>11. CASE WriteStreams
    BY <1>11, BasicQuiet DEF WriteStreams
<1>12. ASSUME NEW out_of_order \in BOOLEAN, ScheduleBuffered(out_of_order) PROVE Basic'
    BY <1>12, BasicScheduleBuffered
<1>13. CASE EndWrite
    BY <1>13, BasicQuiet DEF EndWrite
<1>14. CASE NextPacketToSend
    BY <1>14, BasicNextPacket
<1>15. ASSUME NEW k \in 0 .. MaxPackets, SendBatch(k) PROVE Basic'
    BY <1>15, BasicSend
<1> QED BY <1>1, <1>2, <1>3, <1>4, <1>5, <1>6, <1>7, <1>8, <1>9, <1>10, <1>11, <1>12,
           <1>13, <1>14, <1>15 DEF Next

(***************************************************************************)
(* Types, AlarmArmed and BytesScheduled, whichever of the rarer events     *)
(* happen.                                                                 *)
(***************************************************************************)
THEOREM SendCtlBasic == Spec => []Basic
<1>1. Init => Basic
    BY BasicInit
<1>2. Basic /\ [Next]_vars => Basic'
    BY BasicStep
<1> QED BY <1>1, <1>2, PTL DEF Spec
=============================================================================

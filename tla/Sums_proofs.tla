----------------------------- MODULE Sums_proofs -----------------------------
(***************************************************************************)
(* What SumFunction of the Functions module computes: the sum of a         *)
(* function with values in Nat over a finite domain.  The definition is    *)
(* recursive over subsets and picks elements with CHOOSE; the lemmas say   *)
(* that the order does not matter.                                         *)
(*                                                                         *)
(* Induction is replaced by the argument of the least counterexample,      *)
(* which the provers can follow: a non-empty set of natural numbers has a  *)
(* smallest element.                                                       *)
(***************************************************************************)
EXTENDS Integers, FiniteSets, Functions, FiniteSetTheorems,
        WellFoundedInduction, TLAPS

(* A non-empty set of natural numbers has a least element. *)
LEMMA LeastNat ==
    ASSUME NEW T \in SUBSET Nat, T # {}
    PROVE  \E n \in T : \A m \in T : n <= m
<1> DEFINE R == OpToRel(<, Nat)
<1>1. \E x \in T : \A y \in T : ~(<<y, x>> \in R)
    BY NatLessThanWellFounded, WFMin
<1>2. \A x, y \in Nat : <<y, x>> \in R <=> y < x
    BY DEF OpToRel
<1> HIDE DEF R
<1>3. PICK n \in T : \A m \in T : ~(<<m, n>> \in R)
    BY <1>1
<1>4. ASSUME NEW m \in T PROVE n <= m
    <2>1. ~(<<m, n>> \in R)
        BY <1>3
    <2>2. m \in Nat /\ n \in Nat
        OBVIOUS
    <2>3. ~(m < n)
        BY <1>2, <2>1, <2>2
    <2> QED BY <2>2, <2>3
<1> QED BY <1>4

(* Cardinality of a set without one of its elements. *)
LEMMA OneLess ==
    ASSUME NEW S, IsFiniteSet(S), NEW s \in SUBSET S, NEW x \in s
    PROVE  /\ IsFiniteSet(s)
           /\ Cardinality(s) \in Nat
           /\ Cardinality(s \ {x}) \in Nat
           /\ Cardinality(s \ {x}) = Cardinality(s) - 1
<1>1. IsFiniteSet(s)
    BY FS_Subset
<1> QED BY <1>1, FS_RemoveElement, FS_CardinalityType, FS_Subset

(* g satisfies the recursion in the definition of SumFunction, for the     *)
(* members of D.                                                           *)
AnyOf(s) == CHOOSE x \in s : TRUE

Step(f, g, s) == IF s = {} THEN 0 ELSE f[AnyOf(s)] + g[s \ {AnyOf(s)}]

Sums(g, f, D) == g = [s \in D |-> Step(f, g, s)]

UpTo(S, n) == {s \in SUBSET S : Cardinality(s) <= n}

(* The recursion has a solution on the subsets of any bounded size ... *)
LEMMA SolutionUpTo ==
    ASSUME NEW S, IsFiniteSet(S), NEW f, NEW k \in Nat
    PROVE  \E g : Sums(g, f, UpTo(S, k))
<1> DEFINE T == {n \in Nat : ~ \E g : Sums(g, f, UpTo(S, n))}
<1>1. SUFFICES ASSUME T # {} PROVE FALSE
    OBVIOUS
<1>2. PICK n \in T : \A m \in T : n <= m
    BY <1>1, LeastNat
<1>3. CASE n = 0
    <2> DEFINE g == [s \in UpTo(S, 0) |-> 0]
    <2>1. \A s \in UpTo(S, 0) : s = {}
        BY FS_EmptySet, FS_Subset, FS_CardinalityType DEF UpTo
    <2>2. g = [s \in UpTo(S, 0) |-> Step(f, g, s)]
        BY <2>1 DEF Step
    <2>3. Sums(g, f, UpTo(S, 0))
        BY <2>2 DEF Sums
    <2> QED BY <1>3, <2>3
<1>4. CASE n # 0
    <2>1. n - 1 \in Nat /\ n - 1 \notin T
        BY <1>2, <1>4
    <2>2. PICK g : Sums(g, f, UpTo(S, n - 1))
        BY <2>1
    <2> DEFINE h == [s \in UpTo(S, n) |-> Step(f, g, s)]
    <2>3. ASSUME NEW s \in UpTo(S, n), s # {}
          PROVE  /\ AnyOf(s) \in s
                 /\ s \ {AnyOf(s)} \in UpTo(S, n - 1)
                 /\ s \ {AnyOf(s)} \in UpTo(S, n)
        <3>1. AnyOf(s) \in s
            BY <2>3 DEF AnyOf
        <3> QED BY <2>3, <3>1, OneLess DEF UpTo
    <2>4. ASSUME NEW t \in UpTo(S, n - 1), t \in UpTo(S, n)
          PROVE  h[t] = g[t]
        BY <2>2, <2>4 DEF Sums
    <2>5. ASSUME NEW s \in UpTo(S, n)
          PROVE  h[s] = Step(f, h, s)
        <3> HIDE DEF h
        <3>1. h[s] = Step(f, g, s)
            BY DEF h
        <3>2. s # {} => h[s \ {AnyOf(s)}] = g[s \ {AnyOf(s)}]
            BY <2>3, <2>4
        <3> QED BY <3>1, <3>2 DEF Step
    <2>6. h = [s \in UpTo(S, n) |-> Step(f, h, s)]
        BY <2>5, Zenon
    <2>7. Sums(h, f, UpTo(S, n))
        BY <2>6 DEF Sums
    <2> QED BY <2>7
<1> QED BY <1>3, <1>4

(* ... so it has one on all of them. *)
LEMMA Solution ==
    ASSUME NEW S, IsFiniteSet(S), NEW f
    PROVE  \E g : Sums(g, f, SUBSET S)
<1>1. Cardinality(S) \in Nat
    BY FS_CardinalityType
<1>2. UpTo(S, Cardinality(S)) = SUBSET S
    BY FS_Subset DEF UpTo
<1>3. \E g : Sums(g, f, UpTo(S, Cardinality(S)))
    BY <1>1, SolutionUpTo
<1> QED BY <1>2, <1>3, Zenon

(* SumFunction(f) is the value of a solution at the domain of f. *)
LEMMA SumIsSolution ==
    ASSUME NEW f, IsFiniteSet(DOMAIN f)
    PROVE  \E g : Sums(g, f, SUBSET DOMAIN f) /\ SumFunction(f) = g[DOMAIN f]
<1> DEFINE S == DOMAIN f
           I == CHOOSE g : g = [s \in SUBSET S |-> Step(f, g, s)]
<1>1. I = [s \in SUBSET S |-> Step(f, I, s)]
    BY Solution DEF Sums
<1>2. SumFunction(f) = I[S]
    BY DEF SumFunction, SumFunctionOnSet, FoldFunctionOnSet, MapThenFoldSet, Step, AnyOf
<1> QED BY <1>1, <1>2 DEF Sums

(* A solution at a set is the value of f at any of the elements plus the   *)
(* solution at the others.                                                 *)
LEMMA AnyFirst ==
    ASSUME NEW S, IsFiniteSet(S), NEW f \in [S -> Nat], NEW g,
           Sums(g, f, SUBSET S)
    PROVE  /\ g[{}] = 0
           /\ \A s \in SUBSET S :
                /\ g[s] \in Nat
                /\ \A x \in s : g[s] = f[x] + g[s \ {x}]
<1> DEFINE Good(s) == /\ g[s] \in Nat
                      /\ \A x \in s : g[s] = f[x] + g[s \ {x}]
           T == {n \in Nat : \E s \in SUBSET S : Cardinality(s) = n /\ ~Good(s)}
<1>1. \A s \in SUBSET S : g[s] = Step(f, g, s)
    BY DEF Sums
<1>2. g[{}] = 0
    BY <1>1 DEF Step
<1>3. \A s \in SUBSET S : Cardinality(s) \in Nat
    BY FS_Subset, FS_CardinalityType
<1>4. SUFFICES ASSUME T # {} PROVE FALSE
    BY <1>2, <1>3
<1>5. PICK n \in T : \A m \in T : n <= m
    BY <1>4, LeastNat
<1>6. PICK s \in SUBSET S : Cardinality(s) = n /\ ~Good(s)
    BY <1>5
<1>7. \A t \in SUBSET S : Cardinality(t) = n - 1 => Good(t)
    <2> SUFFICES ASSUME NEW t \in SUBSET S, Cardinality(t) = n - 1, ~Good(t)
                 PROVE  FALSE
        OBVIOUS
    <2>1. n - 1 \in Nat
        BY <1>3
    <2>2. n - 1 \in T
        BY <2>1
    <2> QED BY <1>5, <2>1, <2>2
<1>8. \A x \in s : Good(s \ {x})
    BY <1>6, <1>7, OneLess
<1>9. s # {}
    <2>1. Good({})
        BY <1>2
    <2> HIDE DEF Good, T
    <2> QED BY <2>1, <1>6
<1> DEFINE c == AnyOf(s)
<1>10. c \in s /\ c \in S
    BY <1>9 DEF AnyOf
<1>11. g[s] = f[c] + g[s \ {c}]
    BY <1>1, <1>9 DEF Step
<1> HIDE DEF c
<1>12. g[s] \in Nat
    BY <1>8, <1>10, <1>11
<1>13. ASSUME NEW x \in s, x # c
       PROVE  g[s] = f[x] + g[s \ {x}]
    <2>1. g[s \ {c}] = f[x] + g[(s \ {c}) \ {x}]
        BY <1>8, <1>10, <1>13
    <2>2. g[s \ {x}] = f[c] + g[(s \ {x}) \ {c}]
        BY <1>8, <1>10, <1>13
    <2>3. (s \ {c}) \ {x} = (s \ {x}) \ {c}
        OBVIOUS
    <2>4. g[(s \ {x}) \ {c}] \in Nat
        <3>1. s \ {x} \in SUBSET S /\ c \in s \ {x}
            BY <1>10, <1>13
        <3> DEFINE t == s \ {x}
        <3>a. Cardinality(t) = n - 1 /\ n \in Nat
            BY <1>6, OneLess
        <3>b. Cardinality(t \ {c}) = Cardinality(t) - 1 /\ Cardinality(t \ {c}) \in Nat
            BY <3>1, OneLess
        <3>2. Cardinality((s \ {x}) \ {c}) = n - 2 /\ n \in Nat /\ n - 2 \in Nat
            BY <3>a, <3>b
        <3>3. (s \ {x}) \ {c} \in SUBSET S
            OBVIOUS
        <3>4. n - 2 \notin T
            BY <1>5, <3>2
        <3> QED BY <3>2, <3>3, <3>4
    <2>5. f[x] \in Nat /\ f[c] \in Nat
        BY <1>10
    <2> DEFINE d == g[(s \ {x}) \ {c}]
    <2>6. d \in Nat /\ g[s] = f[c] + (f[x] + d) /\ g[s \ {x}] = f[c] + d
        BY <1>11, <2>1, <2>2, <2>3, <2>4
    <2> HIDE DEF d
    <2> QED BY <2>5, <2>6
<1>14. Good(s)
    BY <1>11, <1>12, <1>13
<1> QED BY <1>6, <1>14

LEMMA AnyElement ==
    ASSUME NEW S, IsFiniteSet(S), NEW f \in [S -> Nat], NEW g,
           Sums(g, f, SUBSET S), NEW s \in SUBSET S, NEW x \in s
    PROVE  g[s] = f[x] + g[s \ {x}]
BY AnyFirst

LEMMA AnyOfAll ==
    ASSUME NEW S, IsFiniteSet(S), NEW f \in [S -> Nat], NEW g,
           Sums(g, f, SUBSET S), NEW x \in S
    PROVE  g[S] = f[x] + g[S \ {x}]
<1>1. ASSUME NEW s \in SUBSET S, NEW y \in s
      PROVE  g[s] = f[y] + g[s \ {y}]
    BY AnyElement
<1> QED BY <1>1

(* Two functions that agree on the members of s have the same sum there,   *)
(* and the larger function the larger sum.                                 *)
LEMMA SolutionMonotone ==
    ASSUME NEW S, IsFiniteSet(S), NEW f \in [S -> Nat], NEW h \in [S -> Nat],
           NEW g, Sums(g, f, SUBSET S), NEW k, Sums(k, h, SUBSET S),
           NEW r \in SUBSET S, \A x \in r : f[x] <= h[x]
    PROVE  g[r] <= k[r]
<1> DEFINE T == {n \in Nat : \E s \in SUBSET r : Cardinality(s) = n /\ ~(g[s] <= k[s])}
<1>1. \A s \in SUBSET r : Cardinality(s) \in Nat
    BY FS_Subset, FS_CardinalityType
<1>2. SUFFICES ASSUME T # {} PROVE FALSE
    <2>1. r \in SUBSET r
        OBVIOUS
    <2> QED BY <1>1, <2>1
<1>3. PICK n \in T : \A m \in T : n <= m
    BY <1>2, LeastNat
<1>4. PICK s \in SUBSET r : Cardinality(s) = n /\ ~(g[s] <= k[s])
    BY <1>3
<1>5. s # {}
    <2>1. g[{}] = 0 /\ k[{}] = 0
        BY AnyFirst
    <2>2. g[{}] <= k[{}]
        BY <2>1
    <2> QED BY <1>4, <2>2
<1>6. PICK x : x \in s
    BY <1>5
<1>7. g[s] = f[x] + g[s \ {x}] /\ k[s] = h[x] + k[s \ {x}]
    <2>1. s \in SUBSET S /\ x \in s
        BY <1>6
    <2>2. g[s] = f[x] + g[s \ {x}]
        BY <2>1, AnyFirst
    <2>3. k[s] = h[x] + k[s \ {x}]
        BY <2>1, AnyFirst
    <2> QED BY <2>2, <2>3
<1>8. g[s \ {x}] \in Nat /\ k[s \ {x}] \in Nat
    BY AnyFirst
<1>9. Cardinality(s \ {x}) = n - 1 /\ n - 1 \in Nat
    BY <1>4, <1>6, OneLess
<1>10. n - 1 \notin T
    BY <1>3, <1>9
<1>11. g[s \ {x}] <= k[s \ {x}]
    BY <1>9, <1>10
<1> QED BY <1>4, <1>6, <1>7, <1>8, <1>11

-----------------------------------------------------------------------------
(* The facts that are cited elsewhere. *)

(* The sum is a natural number. *)
LEMMA SumType ==
    ASSUME NEW S, IsFiniteSet(S), NEW f \in [S -> Nat]
    PROVE  SumFunction(f) \in Nat
<1>1. DOMAIN f = S
    OBVIOUS
<1>2. PICK g : Sums(g, f, SUBSET S) /\ SumFunction(f) = g[S]
    BY <1>1, SumIsSolution
<1>3. S \in SUBSET S
    OBVIOUS
<1> QED BY <1>2, <1>3, AnyFirst

(* The sum is monotone in the function. *)
LEMMA SumMonotone ==
    ASSUME NEW S, IsFiniteSet(S), NEW f \in [S -> Nat], NEW h \in [S -> Nat],
           \A x \in S : f[x] <= h[x]
    PROVE  SumFunction(f) <= SumFunction(h)
<1>1. PICK g : Sums(g, f, SUBSET S) /\ SumFunction(f) = g[S]
    BY SumIsSolution
<1>2. PICK k : Sums(k, h, SUBSET S) /\ SumFunction(h) = k[S]
    BY SumIsSolution
<1> QED BY <1>1, <1>2, SolutionMonotone

(* The sum of zeros is zero. *)
LEMMA SumZero ==
    ASSUME NEW S, IsFiniteSet(S)
    PROVE  SumFunction([x \in S |-> 0]) = 0
<1> DEFINE f == [x \in S |-> 0]
<1>d. DOMAIN f = S
    OBVIOUS
<1> HIDE DEF f
<1>1. PICK g : Sums(g, f, SUBSET S) /\ SumFunction(f) = g[S]
    BY <1>d, SumIsSolution
<1> USE DEF f
<1> DEFINE k == [s \in SUBSET S |-> 0]
<1>2. ASSUME NEW s \in SUBSET S
      PROVE  k[s] = Step(f, k, s)
    <2>1. s # {} => AnyOf(s) \in S
        BY DEF AnyOf
    <2> QED BY <2>1 DEF Step
<1>3. Sums(k, f, SUBSET S)
    BY <1>2 DEF Sums
<1>4. f \in [S -> Nat] /\ \A x \in S : f[x] <= f[x]
    OBVIOUS
<1> HIDE DEF f, k
<1>5. g[S] <= k[S]
    BY <1>1, <1>3, <1>4, SolutionMonotone
<1>6. g[S] \in Nat
    BY <1>1, <1>4, AnyFirst
<1>7. k[S] = 0
    BY DEF k
<1> QED BY <1>1, <1>5, <1>6, <1>7 DEF f

(* When a function changes at one argument, the sum changes by as much. *)
LEMMA SumChange ==
    ASSUME NEW S, IsFiniteSet(S), NEW f \in [S -> Nat], NEW h \in [S -> Nat],
           NEW x \in S, \A y \in S : y # x => f[y] = h[y]
    PROVE  SumFunction(h) + f[x] = SumFunction(f) + h[x]
<1>1. PICK g : Sums(g, f, SUBSET S) /\ SumFunction(f) = g[S]
    BY SumIsSolution
<1>2. PICK k : Sums(k, h, SUBSET S) /\ SumFunction(h) = k[S]
    BY SumIsSolution
<1> DEFINE r == S \ {x}
<1>3. r \in SUBSET S /\ \A y \in r : f[y] <= h[y] /\ h[y] <= f[y]
    OBVIOUS
<1>4. g[r] <= k[r] /\ k[r] <= g[r]
    BY <1>1, <1>2, <1>3, SolutionMonotone
<1>5. g[r] \in Nat /\ k[r] \in Nat
    BY <1>1, <1>2, AnyFirst
<1>6. g[S] = f[x] + g[r] /\ k[S] = h[x] + k[r]
    <2>1. g[S] = f[x] + g[S \ {x}]
        BY <1>1, AnyOfAll
    <2>2. k[S] = h[x] + k[S \ {x}]
        BY <1>2, AnyOfAll
    <2> QED BY <2>1, <2>2
<1> HIDE DEF r
<1> QED BY <1>1, <1>2, <1>4, <1>5, <1>6
=============================================================================

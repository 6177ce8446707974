--------------------------- MODULE SendCtl_proofs ---------------------------
(***************************************************************************)
(* The send controller, for any number of packets and packet numbers.      *)
(*                                                                         *)
(* The invariant has four layers. Basic (SendCtlQueues_proofs) and         *)
(* FramesInv (where the frames and the loss chains are) hold whatever      *)
(* Events are. NumberInv (packet numbers) needs Basic and FramesInv and    *)
(* that nothing is written on the Scheduled Queue out of turn (Tame);      *)
(* EncInv (ciphertext, and what the peer may report) needs NumberInv and   *)
(* that delayed packets are squeezed before they are sent (Calm).          *)
(***************************************************************************)
EXTENDS SendCtlQueues_proofs

-----------------------------------------------------------------------------
(***************************************************************************)
(* Numbered queues, and what happens to them.                              *)
(***************************************************************************)

(***************************************************************************)
(* The line of packets to be sent and its numbers.                         *)
(***************************************************************************)
LEMMA SuccFacts ==
    ASSUME NEW n \in Int, NEW g \in Int
    PROVE  /\ Succ(n, g) \in Int /\ Succ(n, g) > n /\ Succ(n, g) # g
           /\ Succ(n, g) = n + 1 \/ (n + 1 = g /\ Succ(n, g) = n + 2)
BY DEF Succ

LEMMA NoType ==
    ASSUME NEW q \in Seq(PacketType)
    PROVE  \A i \in 1 .. Len(q) : q[i] \in PacketType /\ q[i].no \in Int /\ q[i].re \in BOOLEAN
<1>1. \A i \in 1 .. Len(q) : q[i] \in PacketType
    OBVIOUS
<1> QED BY <1>1 DEF PacketType

LEMMA BeforeType ==
    ASSUME NEW q \in Seq(PacketType), NEW lg \in Int
    PROVE  \A i \in 1 .. Len(q) + 1 :
             /\ Before(q, i, lg) \in Int
             /\ i = 1 => Before(q, i, lg) = lg
             /\ i # 1 => i - 1 \in 1 .. Len(q) /\ Before(q, i, lg) = q[i - 1].no
<1>1. Len(q) \in Nat
    BY LenNat
<1>2. \A i \in 1 .. Len(q) + 1 : i # 1 => i - 1 \in 1 .. Len(q)
    BY <1>1
<1> QED BY <1>2, NoType DEF Before

(* Only the numbers and the flag count.                                    *)
LEMMA NumberedSame ==
    ASSUME NEW q \in Seq(PacketType), NEW r \in Seq(PacketType), Len(r) = Len(q),
           \A i \in 1 .. Len(q) : r[i].no = q[i].no /\ r[i].re = q[i].re,
           NEW lg \in Int, NEW c \in Int, NEW g \in Int, Numbered(q, lg, c, g)
    PROVE  Numbered(r, lg, c, g)
<1>1. PICK m \in 0 .. Len(q) : NumberedUpTo(m, q, lg, c, g)
    BY DEF Numbered
<1>2. Len(q) \in Nat
    BY LenNat
<1>3. \A i \in 1 .. Len(q) + 1 : Before(r, i, lg) = Before(q, i, lg)
    <2>1. \A i \in 1 .. Len(q) + 1 : i # 1 => i - 1 \in 1 .. Len(q)
        BY <1>2
    <2> QED BY <2>1 DEF Before
<1>4. m + 1 \in 1 .. Len(q) + 1 /\ \A i \in 1 .. m : i \in 1 .. Len(q) /\ i \in 1 .. Len(q) + 1
    BY <1>2
<1>5. \A i \in m + 1 .. Len(q) : i \in 1 .. Len(q)
    BY <1>2
<1>6. NumberedUpTo(m, r, lg, c, g)
    BY <1>1, <1>3, <1>4, <1>5 DEF NumberedUpTo
<1> QED BY <1>6 DEF Numbered

LEMMA NumberedReset ==
    ASSUME NEW q \in Seq(PacketType), \A i \in 1 .. Len(q) : q[i].re = TRUE,
           NEW lg \in Int, NEW g \in Int
    PROVE  Numbered(q, lg, lg, g)
<1>1. Len(q) \in Nat /\ 0 \in 0 .. Len(q)
    BY LenNat
<1>2. Before(q, 0 + 1, lg) = lg
    BY DEF Before
<1>3. NumberedUpTo(0, q, lg, lg, g)
    BY <1>1, <1>2 DEF NumberedUpTo
<1> QED BY <1>1, <1>3 DEF Numbered

LEMMA NumberedCons ==
    ASSUME NEW q \in Seq(PacketType), \A i \in 1 .. Len(q) : q[i].re = TRUE,
           NEW lg \in Int, NEW g \in Int,
           NEW p \in PacketType, p.re = FALSE, p.no = Succ(lg, g)
    PROVE  Numbered(<<p>> \o q, lg, p.no, g)
<1> DEFINE r == <<p>> \o q
<1>1. /\ r \in Seq(PacketType) /\ Len(r) = Len(q) + 1 /\ r[1] = p
      /\ \A i \in 2 .. Len(q) + 1 : r[i] = q[i - 1] /\ i - 1 \in 1 .. Len(q)
    OBVIOUS
<1>2. Len(q) \in Nat
    BY LenNat
<1> HIDE DEF r
<1>3. Before(r, 1, lg) = lg /\ Before(r, 1 + 1, lg) = p.no
    <2>1. 1 + 1 # 1 /\ (1 + 1) - 1 = 1
        OBVIOUS
    <2> QED BY <1>1, <2>1, Zenon DEF Before
<1>4. p.no \in Int /\ p.no > lg /\ p.no # g
    <2>1. Succ(lg, g) \in Int /\ Succ(lg, g) > lg /\ Succ(lg, g) # g
        BY SuccFacts
    <2> QED BY <2>1
<1>5. \A i \in 1 + 1 .. Len(r) : r[i].re
    BY <1>1, <1>2
<1>6. \A i \in 1 .. 1 : i = 1
    OBVIOUS
<1>7. NumberedUpTo(1, r, lg, p.no, g)
    BY <1>1, <1>3, <1>4, <1>5, <1>6 DEF NumberedUpTo
<1>8. 1 \in 0 .. Len(r)
    BY <1>1, <1>2
<1> QED BY <1>7, <1>8 DEF Numbered, r

LEMMA NumberedEmpty ==
    ASSUME NEW lg \in Int, NEW c \in Int, NEW g \in Int
    PROVE  Numbered(<< >>, lg, c, g) <=> c >= lg /\ Succ(c, g) = Succ(lg, g)
<1>1. Len(<< >>) = 0 /\ \A m \in 0 .. 0 : m = 0
    OBVIOUS
<1>2. Before(<< >>, 0 + 1, lg) = lg
    BY DEF Before
<1>3. NumberedUpTo(0, << >>, lg, c, g) <=> c >= lg /\ Succ(c, g) = Succ(lg, g)
    BY <1>1, <1>2 DEF NumberedUpTo
<1> QED BY <1>1, <1>3 DEF Numbered

(* The packet at n is the first one without a number, or the line ends     *)
(* before it; it is given the next number.                                 *)
LEMMA NumberedNext ==
    ASSUME NEW q \in Seq(PacketType), NEW r \in Seq(PacketType), NEW n \in 1 .. Len(r),
           \A i \in 1 .. n - 1 : i \in 1 .. Len(q) /\ ~q[i].re /\ r[i].no = q[i].no /\ r[i].re = q[i].re,
           n <= Len(q) => q[n].re,
           ~r[n].re, \A i \in n + 1 .. Len(r) : r[i].re,
           NEW lg \in Int, NEW c \in Int, NEW g \in Int, Numbered(q, lg, c, g),
           r[n].no = Succ(c, g)
    PROVE  Numbered(r, lg, r[n].no, g)
<1>1. PICK m \in 0 .. Len(q) : NumberedUpTo(m, q, lg, c, g)
    BY DEF Numbered
<1>2. Len(q) \in Nat /\ Len(r) \in Nat
    BY LenNat
<1>3. m = n - 1
    <2>1. m >= n - 1
        <3> SUFFICES ASSUME m < n - 1 PROVE FALSE
            BY <1>2
        <3>1. m + 1 \in 1 .. n - 1 /\ m + 1 \in m + 1 .. Len(q)
            BY <1>2
        <3> QED BY <1>1, <3>1 DEF NumberedUpTo
    <2>2. m <= n - 1
        <3> SUFFICES ASSUME m >= n PROVE FALSE
            BY <1>2
        <3>1. n \in 1 .. m /\ n <= Len(q)
            BY <1>2
        <3> QED BY <1>1, <3>1 DEF NumberedUpTo
    <2> QED BY <2>1, <2>2
<1>4. m + 1 = n /\ n \in 1 .. Len(q) + 1
    BY <1>2, <1>3
<1> DEFINE b == Before(q, n, lg)
<1>5. b \in Int /\ (n = 1 => b = lg) /\ (n # 1 => n - 1 \in 1 .. Len(q) /\ b = q[n - 1].no)
    BY <1>4, BeforeType
<1>6. Succ(c, g) = Succ(b, g)
    BY <1>1, <1>4 DEF NumberedUpTo
<1>7. b >= lg
    <2>1. n # 1 => n - 1 \in 1 .. m
        BY <1>3
    <2>2. n # 1 => q[n - 1].no > lg
        BY <1>1, <2>1 DEF NumberedUpTo
    <2> QED BY <1>5, <2>2
<1> HIDE DEF b
<1>8. r[n].no \in Int /\ r[n].no > b /\ r[n].no # g /\ r[n].no > lg
    <2>1. r[n].no = Succ(b, g)
        BY <1>6
    <2>2. Succ(b, g) \in Int /\ Succ(b, g) > b /\ Succ(b, g) # g
        BY <1>5, SuccFacts
    <2> QED BY <1>5, <1>7, <2>1, <2>2
<1>9. \A i \in 1 .. n : Before(r, i, lg) = Before(q, i, lg)
    <2>1. \A i \in 1 .. n : i # 1 => i - 1 \in 1 .. n - 1
        OBVIOUS
    <2> QED BY <2>1 DEF Before
<1>10. \A i \in 1 .. n : i \in 1 .. n - 1 \/ i = n
    OBVIOUS
<1>11. \A i \in 1 .. m : i \in 1 .. n - 1 /\ i \in 1 .. n
    BY <1>3
<1>12. \A i \in 1 .. n :
         /\ ~r[i].re
         /\ r[i].no = Succ(Before(r, i, lg), g)
         /\ r[i].no > lg /\ r[i].no # g
    <2>1. ASSUME NEW i \in 1 .. n - 1
          PROVE  ~r[i].re /\ r[i].no = Succ(Before(r, i, lg), g) /\ r[i].no > lg /\ r[i].no # g
        <3>1. i \in 1 .. m /\ i \in 1 .. n
            BY <1>3
        <3> QED BY <1>1, <1>9, <3>1 DEF NumberedUpTo
    <2>2. ~r[n].re /\ r[n].no = Succ(Before(r, n, lg), g) /\ r[n].no > lg /\ r[n].no # g
        BY <1>6, <1>8, <1>9 DEF b
    <2> QED BY <1>10, <2>1, <2>2
<1>13. \A i, j \in 1 .. n : i < j => r[i].no < r[j].no
    <2> SUFFICES ASSUME NEW i \in 1 .. n, NEW j \in 1 .. n, i < j PROVE r[i].no < r[j].no
        OBVIOUS
    <2>1. i \in 1 .. n - 1 /\ i \in 1 .. m /\ i \in 1 .. Len(q) /\ q[i].no \in Int
        BY <1>2, <1>3, NoType
    <2>2. CASE j \in 1 .. n - 1
        BY <1>1, <1>3, <2>1, <2>2 DEF NumberedUpTo
    <2>3. CASE j = n
        <3>1. q[i].no <= b
            <4>1. n # 1 /\ n - 1 \in 1 .. m /\ i <= n - 1
                BY <1>3, <2>1
            <4>2. i = n - 1 \/ i < n - 1
                BY <2>1
            <4>3. CASE i = n - 1
                <5>1. q[i].no = b
                    BY <1>5, <4>1, <4>3
                <5> QED BY <1>5, <5>1
            <4>4. CASE i < n - 1
                <5>1. q[i].no < q[n - 1].no
                    BY <1>1, <2>1, <4>1, <4>4 DEF NumberedUpTo
                <5> QED BY <1>5, <2>1, <4>1, <5>1
            <4> QED BY <4>2, <4>3, <4>4
        <3>2. r[i].no = q[i].no /\ r[j].no = r[n].no
            BY <2>1, <2>3
        <3> QED BY <1>5, <1>8, <2>1, <3>1, <3>2
    <2> QED BY <1>10, <2>2, <2>3
<1>14. Before(r, n + 1, lg) = r[n].no
    BY DEF Before
<1>15. r[n].no >= Before(r, n + 1, lg) /\ Succ(r[n].no, g) = Succ(Before(r, n + 1, lg), g)
    BY <1>8, <1>14
<1>16. NumberedUpTo(n, r, lg, r[n].no, g)
    BY <1>12, <1>13, <1>15 DEF NumberedUpTo
<1>17. n \in 0 .. Len(r)
    BY <1>2
<1> QED BY <1>16, <1>17 DEF Numbered

(* A packet that waits for a number leaves.                                *)
LEMMA NumberedLeave ==
    ASSUME NEW q \in Seq(PacketType), NEW r \in Seq(PacketType), NEW n \in 1 .. Len(q),
           Len(r) = Len(q) - 1, q[n].re,
           \A i \in 1 .. n - 1 : r[i] = q[i], \A i \in n .. Len(q) - 1 : r[i] = q[i + 1],
           NEW lg \in Int, NEW c \in Int, NEW g \in Int, Numbered(q, lg, c, g)
    PROVE  Numbered(r, lg, c, g)
<1>1. PICK m \in 0 .. Len(q) : NumberedUpTo(m, q, lg, c, g)
    BY DEF Numbered
<1>2. Len(q) \in Nat /\ Len(r) \in Nat
    BY LenNat
<1>3. m <= n - 1
    <2> SUFFICES ASSUME m >= n PROVE FALSE
        BY <1>2
    <2>1. n \in 1 .. m
        BY <1>2
    <2> QED BY <1>1, <2>1 DEF NumberedUpTo
<1>4. m \in 0 .. Len(r) /\ \A i \in 1 .. m : i \in 1 .. n - 1
    BY <1>2, <1>3
<1>5. \A i \in 1 .. m + 1 : Before(r, i, lg) = Before(q, i, lg)
    <2>1. \A i \in 1 .. m + 1 : i # 1 => i - 1 \in 1 .. n - 1
        BY <1>3
    <2> QED BY <2>1 DEF Before
<1>6. \A i \in 1 .. m : i \in 1 .. m + 1
    OBVIOUS
<1>7. ASSUME NEW i \in m + 1 .. Len(r) PROVE r[i].re
    <2>1. CASE i <= n - 1
        <3>1. i \in 1 .. n - 1 /\ i \in m + 1 .. Len(q)
            BY <1>2, <2>1
        <3> QED BY <1>1, <3>1 DEF NumberedUpTo
    <2>2. CASE i >= n
        <3>1. i \in n .. Len(q) - 1 /\ i + 1 \in m + 1 .. Len(q)
            BY <1>2, <1>3, <2>2
        <3> QED BY <1>1, <3>1 DEF NumberedUpTo
    <2>3. i <= n - 1 \/ i >= n
        OBVIOUS
    <2> QED BY <2>1, <2>2, <2>3
<1>8. m + 1 \in 1 .. m + 1
    OBVIOUS
<1>9. NumberedUpTo(m, r, lg, c, g)
    <2>1. \A i \in 1 .. m :
         /\ ~r[i].re
         /\ r[i].no = Succ(Before(r, i, lg), g)
         /\ r[i].no > lg /\ r[i].no # g
        BY <1>1, <1>4, <1>5, <1>6 DEF NumberedUpTo
    <2>2. \A i, j \in 1 .. m : i < j => r[i].no < r[j].no
        BY <1>1, <1>4 DEF NumberedUpTo
    <2>3. c >= Before(r, m + 1, lg) /\ Succ(c, g) = Succ(Before(r, m + 1, lg), g)
        BY <1>1, <1>5, <1>8 DEF NumberedUpTo
    <2> QED BY <1>7, <2>1, <2>2, <2>3 DEF NumberedUpTo
<1> QED BY <1>4, <1>9 DEF Numbered

(* The first k packets of the line are sent.                               *)
LEMMA NumberedSent ==
    ASSUME NEW q \in Seq(PacketType), NEW r \in Seq(PacketType), NEW k \in 0 .. Len(q),
           \A i \in 1 .. k : ~q[i].re,
           Len(r) = Len(q) - k, \A i \in 1 .. Len(q) - k : r[i] = q[k + i],
           NEW lg \in Int, NEW c \in Int, NEW g \in Int, Numbered(q, lg, c, g)
    PROVE  /\ Numbered(r, Before(q, k + 1, lg), c, g)
           /\ Before(q, k + 1, lg) \in Int /\ Before(q, k + 1, lg) >= lg
           /\ \A i \in 1 .. k : /\ q[i].no = Succ(Before(q, i, lg), g)
                                /\ q[i].no > lg /\ q[i].no # g /\ q[i].no <= Before(q, k + 1, lg)
           /\ \A i, j \in 1 .. k : i < j => q[i].no < q[j].no
<1>1. PICK m \in 0 .. Len(q) : NumberedUpTo(m, q, lg, c, g)
    BY DEF Numbered
<1>2. Len(q) \in Nat /\ Len(r) \in Nat
    BY LenNat
<1>3. m >= k
    <2> SUFFICES ASSUME m < k PROVE FALSE
        BY <1>2
    <2>1. m + 1 \in 1 .. k /\ m + 1 \in m + 1 .. Len(q)
        BY <1>2
    <2> QED BY <1>1, <2>1 DEF NumberedUpTo
<1> DEFINE lh == Before(q, k + 1, lg)
           l == m - k
<1>4. k + 1 \in 1 .. Len(q) + 1
    BY <1>2
<1>5. lh \in Int /\ (k = 0 => lh = lg) /\ (k # 0 => k \in 1 .. Len(q) /\ lh = q[k].no)
    <2>1. (k + 1) - 1 = k /\ (k + 1 = 1 <=> k = 0)
        OBVIOUS
    <2>2. /\ lh \in Int /\ (k + 1 = 1 => lh = lg)
          /\ (k + 1 # 1 => (k + 1) - 1 \in 1 .. Len(q) /\ lh = q[(k + 1) - 1].no)
        BY <1>4, BeforeType
    <2> HIDE DEF lh
    <2> QED BY <2>1, <2>2
<1>6. \A i \in 1 .. k : i \in 1 .. m /\ i \in 1 .. Len(q)
    BY <1>2, <1>3
<1>7. \A i \in 1 .. k : q[i].no = Succ(Before(q, i, lg), g) /\ q[i].no > lg /\ q[i].no # g
    BY <1>1, <1>6 DEF NumberedUpTo
<1>8. \A i, j \in 1 .. k : i < j => q[i].no < q[j].no
    BY <1>1, <1>6 DEF NumberedUpTo
<1>9. \A i \in 1 .. Len(q) : q[i].no \in Int
    BY NoType
<1> HIDE DEF lh
<1>10. lh >= lg
    <2>1. k # 0 => k \in 1 .. k
        OBVIOUS
    <2>2. k # 0 => q[k].no > lg /\ q[k].no \in Int
        BY <1>6, <1>7, <1>9, <2>1
    <2> QED BY <1>5, <2>2
<1>11. \A i \in 1 .. k : q[i].no <= lh
    <2> TAKE i \in 1 .. k
    <2>1. k \in 1 .. k /\ (i = k \/ i < k) /\ k # 0
        OBVIOUS
    <2>2. q[i].no \in Int /\ q[k].no \in Int /\ lh = q[k].no
        BY <1>5, <1>6, <1>9, <2>1
    <2>3. CASE i = k
        <3>1. q[i].no = lh
            BY <2>2, <2>3
        <3> QED BY <2>2, <3>1
    <2>4. CASE i < k
        <3>1. q[i].no < q[k].no
            BY <1>8, <2>1, <2>4
        <3> QED BY <2>2, <3>1
    <2> QED BY <2>1, <2>3, <2>4
<1>12. \A i \in 1 .. Len(r) + 1 : Before(r, i, lh) = Before(q, k + i, lg)
    <2> TAKE i \in 1 .. Len(r) + 1
    <2>1. CASE i = 1
        BY <2>1 DEF Before, lh
    <2>2. CASE i # 1
        <3>1. i - 1 \in 1 .. Len(q) - k /\ k + (i - 1) = (k + i) - 1 /\ k + i # 1
            BY <1>2, <2>2
        <3>2. r[i - 1] = q[k + (i - 1)]
            BY <3>1
        <3> QED BY <2>2, <3>1, <3>2 DEF Before
    <2> QED BY <2>1, <2>2
<1>13. l \in 0 .. Len(r) /\ k + (l + 1) = m + 1 /\ l + 1 \in 1 .. Len(r) + 1
    BY <1>2, <1>3
<1>14. \A i \in 1 .. l : /\ i \in 1 .. Len(q) - k /\ k + i \in 1 .. m /\ k + i > k
                         /\ i \in 1 .. Len(r) + 1
    BY <1>2, <1>3
<1>15. ASSUME NEW i \in 1 .. l
       PROVE  /\ ~r[i].re /\ r[i].no = Succ(Before(r, i, lh), g)
              /\ r[i].no > lh /\ r[i].no # g
    <2>1. r[i] = q[k + i]
        BY <1>14
    <2>2. ~q[k + i].re /\ q[k + i].no = Succ(Before(q, k + i, lg), g) /\ q[k + i].no # g /\ q[k + i].no > lg
        BY <1>1, <1>14 DEF NumberedUpTo
    <2>3. k # 0 => q[k].no < q[k + i].no
        <3>1. k # 0 => k \in 1 .. m
            BY <1>3
        <3> QED BY <1>1, <1>14, <3>1 DEF NumberedUpTo
    <2>4. q[k + i].no > lh
        BY <1>5, <2>2, <2>3
    <2> QED BY <1>12, <1>14, <2>1, <2>2, <2>4
<1>16. \A i, j \in 1 .. l : i < j => r[i].no < r[j].no
    <2> SUFFICES ASSUME NEW i \in 1 .. l, NEW j \in 1 .. l, i < j PROVE r[i].no < r[j].no
        OBVIOUS
    <2>1. k + i < k + j
        OBVIOUS
    <2>2. q[k + i].no < q[k + j].no
        BY <1>1, <1>14, <2>1 DEF NumberedUpTo
    <2> QED BY <1>14, <2>2
<1>17. \A i \in l + 1 .. Len(r) : r[i].re
    <2> TAKE i \in l + 1 .. Len(r)
    <2>1. i \in 1 .. Len(q) - k /\ k + i \in m + 1 .. Len(q)
        BY <1>2, <1>3
    <2>2. q[k + i].re
        BY <1>1, <2>1 DEF NumberedUpTo
    <2> QED BY <2>1, <2>2
<1>18. c >= Before(r, l + 1, lh) /\ Succ(c, g) = Succ(Before(r, l + 1, lh), g)
    <2>1. Before(r, l + 1, lh) = Before(q, m + 1, lg)
        <3>1. Before(r, l + 1, lh) = Before(q, k + (l + 1), lg)
            BY <1>12, <1>13
        <3> HIDE DEF l
        <3> QED BY <1>13, <3>1
    <2> QED BY <1>1, <2>1 DEF NumberedUpTo
<1> HIDE DEF l
<1>19. NumberedUpTo(l, r, lh, c, g)
    BY <1>15, <1>16, <1>17, <1>18 DEF NumberedUpTo
<1>20. Numbered(r, lh, c, g)
    BY <1>13, <1>19 DEF Numbered
<1> QED BY <1>5, <1>7, <1>8, <1>10, <1>11, <1>20 DEF lh

(* Among the packets sent, no number is left out but the skipped one.      *)
InSuccession(q, k, lg, g) == \A i \in 1 .. k : q[i].no = Succ(Before(q, i, lg), g)
LEMMA NumberedDense ==
    ASSUME NEW q \in Seq(PacketType), NEW k \in 0 .. Len(q), NEW lg \in Int, NEW g \in Int,
           InSuccession(q, k, lg, g),
           NEW n \in Int, n > lg, n <= Before(q, k + 1, lg)
    PROVE  \E i \in 1 .. k : n = q[i].no \/ (n = g /\ q[i].no = g + 1)
<1> DEFINE T == {i \in 1 .. k : q[i].no >= n}
<1>1. Len(q) \in Nat
    BY LenNat
<1>2. k # 0 /\ k \in 1 .. k /\ q[k].no >= n
    <2>1. (k + 1) - 1 = k
        OBVIOUS
    <2>2. k # 0
        BY DEF Before
    <2>3. Before(q, k + 1, lg) = q[k].no
        BY <2>1, <2>2 DEF Before
    <2> QED BY <2>2, <2>3, NoType
<1>3. T \in SUBSET Nat /\ T # {}
    BY <1>2
<1>4. PICK i \in T : \A j \in T : i <= j
    <2> HIDE DEF T
    <2> QED BY <1>3, Least
<1>5. i \in 1 .. k /\ q[i].no >= n /\ q[i].no \in Int /\ i \in 1 .. Len(q)
    BY <1>1, <1>4, NoType
<1> DEFINE b == Before(q, i, lg)
<1>6. b < n /\ b \in Int
    <2>1. CASE i = 1
        BY <2>1 DEF Before
    <2>2. CASE i # 1
        <3>1. i - 1 \in 1 .. k /\ i - 1 \in 1 .. Len(q) /\ i - 1 \notin T
            BY <1>1, <1>4, <1>5, <2>2
        <3>2. q[i - 1].no < n /\ q[i - 1].no \in Int
            BY <3>1, NoType
        <3> QED BY <2>2, <3>2 DEF Before
    <2> QED BY <2>1, <2>2
<1>7. q[i].no = Succ(b, g)
    BY <1>5 DEF InSuccession
<1> HIDE DEF b, T
<1>8. n = q[i].no \/ (n = g /\ q[i].no = g + 1)
    BY <1>5, <1>6, <1>7 DEF Succ
<1> QED BY <1>5, <1>8

(* The skipped number has been passed and a later one is chosen.           *)
LEMMA NumberedGap ==
    ASSUME NEW q \in Seq(PacketType), NEW lg \in Int, NEW c \in Int, NEW g \in Int, NEW h \in Int,
           g < lg, h > c, Numbered(q, lg, c, g)
    PROVE  Numbered(q, lg, c, h) /\ lg < h
<1>1. PICK m \in 0 .. Len(q) : NumberedUpTo(m, q, lg, c, g)
    BY DEF Numbered
<1>2. Len(q) \in Nat
    BY LenNat
<1> DEFINE last == Before(q, m + 1, lg)
<1>3. last \in Int /\ (m = 0 => last = lg) /\ (m # 0 => m \in 1 .. Len(q) /\ last = q[m].no)
    <2>1. (m + 1) - 1 = m /\ (m + 1 = 1 <=> m = 0) /\ m + 1 \in 1 .. Len(q) + 1
        BY <1>2
    <2>2. /\ last \in Int /\ (m + 1 = 1 => last = lg)
          /\ (m + 1 # 1 => (m + 1) - 1 \in 1 .. Len(q) /\ last = q[(m + 1) - 1].no)
        BY <2>1, BeforeType
    <2> HIDE DEF last
    <2> QED BY <2>1, <2>2
<1>4. \A i \in 1 .. m : i \in 1 .. Len(q) /\ q[i].no \in Int /\ q[i].no > lg /\ q[i].no <= last
    <2> TAKE i \in 1 .. m
    <2>1. i \in 1 .. Len(q) /\ m \in 1 .. m /\ m # 0 /\ m \in 1 .. Len(q) /\ (i = m \/ i < m)
        BY <1>2
    <2>2. q[i].no \in Int /\ q[m].no \in Int /\ q[i].no > lg
        BY <1>1, <2>1, NoType DEF NumberedUpTo
    <2>3. CASE i = m
        <3>1. q[i].no = last
            BY <1>3, <2>1, <2>3
        <3> HIDE DEF last
        <3> QED BY <2>1, <2>2, <3>1
    <2>4. CASE i < m
        <3>1. q[i].no < q[m].no
            BY <1>1, <2>1, <2>4 DEF NumberedUpTo
        <3> QED BY <1>3, <2>1, <2>2, <3>1
    <2> QED BY <2>1, <2>3, <2>4
<1>5. last >= lg
    <2>1. m # 0 => m \in 1 .. m
        OBVIOUS
    <2> QED BY <1>3, <1>4, <2>1
<1>6. c >= last /\ Succ(c, g) = Succ(last, g)
    BY <1>1 DEF NumberedUpTo
<1> HIDE DEF last
<1>7. c = last /\ lg < h
    BY <1>3, <1>5, <1>6 DEF Succ
<1>8. ASSUME NEW i \in 1 .. m
      PROVE  q[i].no = Succ(Before(q, i, lg), h) /\ q[i].no # h
    <2>1. i \in 1 .. Len(q) + 1
        BY <1>2
    <2>2. Before(q, i, lg) \in Int /\ (i = 1 => Before(q, i, lg) = lg)
          /\ (i # 1 => Before(q, i, lg) = q[i - 1].no)
        BY <2>1, BeforeType
    <2>3. i # 1 => i - 1 \in 1 .. m
        OBVIOUS
    <2>4. i # 1 => q[i - 1].no > lg
        BY <1>4, <2>3
    <2>5. Before(q, i, lg) >= lg
        BY <2>2, <2>4
    <2>6. q[i].no = Succ(Before(q, i, lg), g)
        BY <1>1 DEF NumberedUpTo
    <2>7. q[i].no = Before(q, i, lg) + 1
        BY <2>2, <2>5, <2>6 DEF Succ
    <2>8. q[i].no \in Int /\ q[i].no < h
        BY <1>3, <1>4, <1>7
    <2> QED BY <2>2, <2>7, <2>8 DEF Succ
<1>9. NumberedUpTo(m, q, lg, c, h)
    <2>1. \A i \in 1 .. m : ~q[i].re /\ q[i].no > lg
        BY <1>1 DEF NumberedUpTo
    <2>2. \A i, j \in 1 .. m : i < j => q[i].no < q[j].no
        BY <1>1 DEF NumberedUpTo
    <2>3. \A i \in m + 1 .. Len(q) : q[i].re
        BY <1>1 DEF NumberedUpTo
    <2>4. c >= Before(q, m + 1, lg) /\ Succ(c, h) = Succ(Before(q, m + 1, lg), h)
        BY <1>6, <1>7 DEF last
    <2> QED BY <1>8, <2>1, <2>2, <2>3, <2>4 DEF NumberedUpTo
<1> QED BY <1>7, <1>9 DEF Numbered

-----------------------------------------------------------------------------
(***************************************************************************)
(* The invariant of packet numbers, and each action: the packets of the    *)
(* batch and of the Scheduled Queue are Numbered, the Unacked Queue ascends*)
(* up to the largest number sent, and the wire holds every number but those*)
(* skipped.                                                                *)
(***************************************************************************)

WireInv ==
    /\ largest >= -1 /\ largest # gap
    /\ \A i \in 1 .. Len(wire) : wire[i].no >= 0 /\ wire[i].no <= largest /\ wire[i].no # gap
    /\ SentInOrder /\ NoGaps
UnackedInv ==
    /\ Ascends(unacked)
    /\ \A x \in ToSet(unacked) : x.no <= largest /\ (x.rec = "poison" => x.no = gap)
NoneRe(q) == \A i \in 1 .. Len(q) : q[i].re = FALSE
LineInv ==
    /\ Numbered(batch \o sched.q, largest, cur, gap)
    /\ phase \in {"control", "streams"} => NoneRe(sched.q)
    /\ NoneRe(batch) /\ NoneRe(buffered)
    /\ phase # "send" => batch = << >>
NumberInv == WireInv /\ UnackedInv /\ LineInv

(***************************************************************************)
(* No stream is reset while packets are being written, and no frame is     *)
(* put onto the Scheduled Queue outside of a tick.                         *)
(***************************************************************************)
Tame == "reset_while_writing" \notin Events /\ "blocked_frame" \notin Events

LEMMA NumberInit ==
    ASSUME Init
    PROVE  NumberInv
<1>1. << >> \o << >> = << >> /\ Len(<< >>) = 0 /\ DOMAIN << >> = {}
    OBVIOUS
<1>2. largest = -1 /\ cur = -1 /\ gap \in Nat /\ gap \in Int /\ -1 \in Int
    BY SendCtlAssumption DEF Init, NoPackno
<1>3. WireInv
    <2>1. 0 .. -1 = {}
        OBVIOUS
    <2>2. wire = << >>
        BY DEF Init
    <2> QED BY <1>1, <1>2, <2>1, <2>2 DEF WireInv, SentInOrder, NoGaps
<1>4. UnackedInv
    <2>1. ToSet(<< >>) = {}
        BY DEF ToSet
    <2>2. unacked = << >>
        BY DEF Init
    <2> QED BY <1>1, <2>1, <2>2 DEF UnackedInv, Ascends
<1>5. LineInv
    <2>1. batch = << >> /\ sched.q = << >> /\ buffered = << >> /\ phase = "idle"
        BY DEF Init
    <2>2. Numbered(<< >>, -1, -1, gap)
        BY <1>2, NumberedEmpty
    <2> QED BY <1>1, <1>2, <2>1, <2>2 DEF LineInv, NoneRe
<1> QED BY <1>3, <1>4, <1>5 DEF NumberInv

LEMMA WireSame ==
    ASSUME WireInv, UNCHANGED <<largest, gap, wire, skipped>>
    PROVE  WireInv'
BY DEF WireInv, SentInOrder, NoGaps

LEMMA UnackedSame ==
    ASSUME UnackedInv, UNCHANGED <<largest, gap, unacked>>
    PROVE  UnackedInv'
BY DEF UnackedInv, Ascends

(* r has the order of u.                                                   *)
InOrderOf(r, u) ==
    \A i, j \in 1 .. Len(r) : i < j =>
       \E k, l \in 1 .. Len(u) : k < l /\ r[i].no = u[k].no /\ r[j].no = u[l].no

LEMMA AscendsLess ==
    ASSUME NEW r, NEW u, InOrderOf(r, u), Ascends(u)
    PROVE  Ascends(r)
<1> SUFFICES ASSUME NEW i \in 1 .. Len(r), NEW j \in 1 .. Len(r), i < j PROVE r[i].no < r[j].no
    BY DEF Ascends
<1>1. PICK k, l \in 1 .. Len(u) : k < l /\ r[i].no = u[k].no /\ r[j].no = u[l].no
    BY DEF InOrderOf
<1>2. u[k].no < u[l].no
    BY <1>1 DEF Ascends
<1> QED BY <1>1, <1>2

LEMMA LeftInOrder ==
    ASSUME NEW r, NEW u, NEW I, LeftOf(r, u, I)
    PROVE  InOrderOf(r, u)
<1> SUFFICES ASSUME NEW i \in 1 .. Len(r), NEW j \in 1 .. Len(r), i < j
             PROVE  \E k, l \in 1 .. Len(u) : k < l /\ r[i].no = u[k].no /\ r[j].no = u[l].no
    BY DEF InOrderOf
<1>1. PICK k, l \in 1 .. Len(u) : k < l /\ r[i] = u[k] /\ r[j] = u[l]
    BY DEF LeftOf
<1> QED BY <1>1

LEMMA RecordedInOrder ==
    ASSUME NEW u \in Seq(PacketType), NEW r, NEW L, IsRecorded(r, u, L)
    PROVE  InOrderOf(r, u)
<1> SUFFICES ASSUME NEW i \in 1 .. Len(r), NEW j \in 1 .. Len(r), i < j
             PROVE  \E k, l \in 1 .. Len(u) : k < l /\ r[i].no = u[k].no /\ r[j].no = u[l].no
    BY DEF InOrderOf
<1>1. PICK k, l \in 1 .. Len(u) : k < l /\ r[i] = Marked(u[k], L) /\ r[j] = Marked(u[l], L)
    BY DEF IsRecorded
<1>2. u[k] \in PacketType /\ u[l] \in PacketType
    OBVIOUS
<1>3. Marked(u[k], L).no = u[k].no /\ Marked(u[l], L).no = u[l].no
    BY <1>2, MarkedFacts
<1> QED BY <1>1, <1>3

LEMMA OnlyInOrder ==
    ASSUME NEW u \in Seq(PacketType), NEW S
    PROVE  InOrderOf(Only(u, S), u)
<1> DEFINE r == Only(u, S)
<1>1. IsOnly(r, PacketType, u, S)
    BY OnlyFacts
<1> HIDE DEF r
<1>2. ASSUME NEW i \in 1 .. Len(r), NEW j \in 1 .. Len(r), i < j
      PROVE  \E k, l \in 1 .. Len(u) : k < l /\ r[i].no = u[k].no /\ r[j].no = u[l].no
    <2>1. PICK k, l \in 1 .. Len(u) : k < l /\ r[i] = u[k] /\ r[j] = u[l]
        BY <1>1, <1>2 DEF IsOnly
    <2> QED BY <2>1
<1>3. InOrderOf(r, u)
    BY <1>2 DEF InOrderOf
<1> QED BY <1>3 DEF r

LEMMA UnackedLess ==
    ASSUME UnackedInv, UNCHANGED <<largest, gap>>, InOrderOf(unacked', unacked),
           \A x \in ToSet(unacked') : \E y \in ToSet(unacked) :
              x.no = y.no /\ (x.rec = "poison" => y.rec = "poison")
    PROVE  UnackedInv'
<1>1. Ascends(unacked')
    BY AscendsLess DEF UnackedInv
<1>2. \A x \in ToSet(unacked') : x.no <= largest /\ (x.rec = "poison" => x.no = gap)
    BY DEF UnackedInv
<1> QED BY <1>1, <1>2 DEF UnackedInv

LEMMA UnackedWithout ==
    ASSUME UnackedInv, UNCHANGED <<largest, gap>>, unacked \in Seq(PacketType),
           NEW I, unacked' = Without(unacked, I)
    PROVE  UnackedInv'
<1>1. LeftOf(unacked', unacked, I)
    BY WithoutFacts
<1>2. InOrderOf(unacked', unacked)
    BY <1>1, LeftInOrder
<1>3. \A x \in ToSet(unacked') : x \in ToSet(unacked)
    BY WithoutSet
<1> QED BY <1>2, <1>3, UnackedLess

LEMMA NumberQuiet ==
    ASSUME Basic, NumberInv, WriteStreams \/ EndWrite \/ PacerBlocked \/ SendUnsent \/ UNCHANGED vars
    PROVE  NumberInv'
<1>1. /\ UNCHANGED <<cur, largest, gap, sched, batch, unacked, buffered, wire, skipped>>
      /\ phase' \in {"control", "streams"} => phase \in {"control", "streams"}
      /\ phase' # "send" => phase # "send"
    BY DEF WriteStreams, EndWrite, PacerBlocked, SendUnsent, vars, numbers, ghost
<1>2. WireInv' /\ UnackedInv'
    BY <1>1, WireSame, UnackedSame DEF NumberInv
<1>3. LineInv'
    BY <1>1 DEF NumberInv, LineInv
<1> QED BY <1>2, <1>3 DEF NumberInv

(* The line outside of the sending phase is the Scheduled Queue.           *)
LEMMA LineIsSched ==
    ASSUME QueuesOK, LineInv, phase # "send"
    PROVE  /\ batch = << >> /\ batch \o sched.q = sched.q /\ sched.q \in Seq(PacketType)
           /\ Numbered(sched.q, largest, cur, gap)
<1>1. batch = << >> /\ sched.q \in Seq(PacketType)
    BY DEF LineInv, QueuesOK, QType
<1>2. << >> \o sched.q = sched.q
    BY <1>1
<1> QED BY <1>1, <1>2 DEF LineInv

LEMMA LineNext ==
    ASSUME QueuesOK', batch' = << >>, Numbered(sched'.q, largest', cur', gap'),
           phase' \in {"control", "streams"} => NoneRe(sched'.q), NoneRe(buffered')
    PROVE  LineInv'
<1>1. sched'.q \in Seq(PacketType)
    BY DEF QueuesOK, QType
<1>2. << >> \o sched'.q = sched'.q
    BY <1>1
<1>3. Numbered(batch' \o sched'.q, largest', cur', gap')
    BY <1>2
<1>4. NoneRe(<< >>)
    BY DEF NoneRe
<1> QED BY <1>3, <1>4 DEF LineInv

(* A packet with the next number joins a line without packets that wait    *)
(* for one.                                                                *)
LEMMA NumberedAppend ==
    ASSUME NEW q \in Seq(PacketType), NoneRe(q), NEW p \in PacketType, p.re = FALSE,
           NEW lg \in Int, NEW c \in Int, NEW g \in Int, Numbered(q, lg, c, g), p.no = Succ(c, g)
    PROVE  Numbered(Append(q, p), lg, p.no, g) /\ NoneRe(Append(q, p))
<1> DEFINE r == Append(q, p)
           n == Len(q) + 1
<1>1. /\ r \in Seq(PacketType) /\ Len(r) = n /\ r[n] = p
      /\ \A i \in 1 .. Len(q) : r[i] = q[i]
    BY AppendFacts
<1>2. Len(q) \in Nat
    BY LenNat
<1> HIDE DEF r
<1>3. n \in 1 .. Len(r) /\ n - 1 = Len(q) /\ ~(n <= Len(q)) /\ n + 1 .. Len(r) = {}
    BY <1>1, <1>2
<1>4. \A i \in 1 .. Len(r) : i \in 1 .. Len(q) \/ i = n
    BY <1>1, <1>2
<1> HIDE DEF n
<1>5. \A i \in 1 .. n - 1 : i \in 1 .. Len(q) /\ ~q[i].re /\ r[i].no = q[i].no /\ r[i].re = q[i].re
    BY <1>1, <1>3 DEF NoneRe
<1>6. Numbered(r, lg, r[n].no, g)
    BY <1>1, <1>3, <1>5, NumberedNext
<1>7. NoneRe(r)
    BY <1>1, <1>4 DEF NoneRe
<1> QED BY <1>1, <1>6, <1>7 DEF r

LEMMA NextParts ==
    ASSUME Basic'
    PROVE  Numbers' /\ QueuesOK' /\ History'
BY DEF Basic, TypeOK, Numbers, QueuesOK, QType, History, WireType

LEMMA NumberReset ==
    ASSUME Basic, Basic', NumberInv, Tame, ResetStream
    PROVE  NumberInv'
<1>1. Numbers /\ QueuesOK /\ QueuesOK'
    <2>1. Numbers /\ QueuesOK
        BY BasicParts
    <2>2. QueuesOK'
        BY NextParts
    <2> QED BY <2>1, <2>2
<1>2. /\ phase = "idle" /\ phase' = phase /\ batch' = batch
      /\ UNCHANGED <<largest, gap, wire, skipped>>
      /\ sched' = RestAfter(ElidedSched) /\ cur' = CurAfter(ElidedSched)
      /\ unacked' = Without(unacked, ElidedSched.ids)
      /\ buffered' = WithFrames(ElidedAll(buffered))
    BY DEF ResetStream, ElideStreamFrames, Tame, ghost
<1>3. WireInv'
    BY <1>2, WireSame DEF NumberInv
<1>4. UnackedInv'
    BY <1>1, <1>2, UnackedWithout DEF NumberInv, QueuesOK
<1>5. /\ batch = << >> /\ sched.q \in Seq(PacketType)
      /\ Numbered(sched.q, largest, cur, gap)
    BY <1>1, <1>2, LineIsSched DEF NumberInv
<1>6. NoneRe(buffered')
    <2> DEFINE e == ElidedAll(buffered)
    <2>1. buffered \in Seq(PacketType)
        BY <1>1 DEF QueuesOK
    <2>2. /\ e \in Seq(PacketType) /\ Len(e) = Len(buffered)
          /\ \A i \in 1 .. Len(e) : e[i] = Elided(buffered[i]) /\ buffered[i] \in PacketType
        <3>1. \A i \in 1 .. Len(buffered) : buffered[i] \in PacketType
            BY <2>1
        <3> QED BY <2>1, <3>1, BytesElided
    <2>3. \A i \in 1 .. Len(e) : e[i].re = FALSE
        <3> SUFFICES ASSUME NEW i \in 1 .. Len(e) PROVE e[i].re = FALSE
            OBVIOUS
        <3>1. e[i] = Elided(buffered[i]) /\ buffered[i] \in PacketType /\ i \in 1 .. Len(buffered)
            BY <2>2
        <3>2. Elided(buffered[i]).re = buffered[i].re
            BY <3>1 DEF Elided, PacketType
        <3>3. buffered[i].re = FALSE
            BY <3>1 DEF NumberInv, LineInv, NoneRe
        <3> QED BY <3>1, <3>2, <3>3
    <2> HIDE DEF e
    <2> DEFINE T == {p \in ToSet(e) : p.frames # {}}
    <2>4. buffered' = Only(e, T)
        BY <1>2 DEF WithFrames, e
    <2>5. IsOnly(buffered', PacketType, e, T)
        BY <2>2, <2>4, OnlyFacts
    <2>6. \A i \in 1 .. Len(buffered') : \E k \in 1 .. Len(e) : buffered'[i] = e[k]
        BY <2>5 DEF IsOnly
    <2> QED BY <2>3, <2>6 DEF NoneRe
<1>7. Numbered(sched'.q, largest, cur', gap)
    <2> DEFINE s == ElidedSched
    <2>1. s \in DropType /\ (s.ids = {} => s.q = ElidedAll(sched.q))
        BY <1>1, ElidedSchedFacts DEF QueuesOK
    <2>2. sched' = RestAfter(s) /\ cur' = CurAfter(s)
        BY <1>2
    <2> HIDE DEF s
    <2>3. /\ Len(RestAfter(s).q) = Len(s.q) /\ RestAfter(s) \in QType
          /\ \A i \in 1 .. Len(s.q) : s.ids # {} => RestAfter(s).q[i].re = TRUE
          /\ s.ids = {} => RestAfter(s).q = s.q
        BY <2>1, RestFacts DEF DropType
    <2>4. largest \in Int /\ gap \in Int /\ cur \in Int /\ RestAfter(s).q \in Seq(PacketType)
        BY <1>1, <2>3 DEF Numbers, QType
    <2>5. CASE s.ids = {}
        <3> DEFINE r == ElidedAll(sched.q)
        <3>1. /\ r \in Seq(PacketType) /\ Len(r) = Len(sched.q)
              /\ \A i \in 1 .. Len(sched.q) : r[i] = Elided(sched.q[i]) /\ sched.q[i] \in PacketType
            <4>1. \A i \in 1 .. Len(sched.q) : sched.q[i] \in PacketType
                BY <1>5
            <4> QED BY <1>5, <4>1, BytesElided
        <3>2. sched'.q = r /\ cur' = cur
            BY <2>1, <2>2, <2>3, <2>5 DEF CurAfter
        <3> HIDE DEF r
        <3>3. \A i \in 1 .. Len(sched.q) : r[i].no = sched.q[i].no /\ r[i].re = sched.q[i].re
            BY <3>1 DEF Elided, PacketType
        <3>4. Numbered(r, largest, cur, gap)
            BY <1>5, <2>4, <3>1, <3>3, NumberedSame
        <3> QED BY <3>2, <3>4
    <2>6. CASE s.ids # {}
        <3>1. sched'.q = RestAfter(s).q /\ cur' = largest
            BY <2>2, <2>6 DEF CurAfter
        <3>2. \A i \in 1 .. Len(RestAfter(s).q) : RestAfter(s).q[i].re = TRUE
            BY <2>3, <2>6
        <3>3. Numbered(RestAfter(s).q, largest, largest, gap)
            BY <2>4, <3>2, NumberedReset
        <3> QED BY <3>1, <3>3
    <2> QED BY <2>5, <2>6
<1>8. LineInv'
    <2>1. batch' = << >> /\ Numbered(sched'.q, largest', cur', gap')
        BY <1>2, <1>5, <1>7
    <2> QED BY <1>1, <1>2, <1>6, <2>1, LineNext
<1> QED BY <1>3, <1>4, <1>8 DEF NumberInv

LEMMA NumberWrite ==
    ASSUME Basic, Basic', NumberInv, Tame, NEW f \in Kinds, WriteFrame(f)
    PROVE  NumberInv'
<1>1. Numbers /\ QueuesOK /\ QueuesOK'
    <2>1. Numbers /\ QueuesOK
        BY BasicParts
    <2>2. QueuesOK'
        BY NextParts
    <2> QED BY <2>1, <2>2
<1>2. /\ phase \in {"control", "streams"} /\ phase' = phase /\ batch' = batch
      /\ UNCHANGED <<largest, gap, wire, skipped, unacked, buffered>>
    BY DEF WriteFrame, CanWrite, Tame
<1>3. WireInv' /\ UnackedInv'
    BY <1>2, WireSame, UnackedSame DEF NumberInv
<1>4. /\ batch = << >> /\ sched.q \in Seq(PacketType)
      /\ Numbered(sched.q, largest, cur, gap)
    BY <1>1, <1>2, LineIsSched DEF NumberInv
<1>5. NoneRe(buffered) /\ NoneRe(sched.q)
    BY <1>2 DEF NumberInv, LineInv
<1>6. largest \in Int /\ gap \in Int /\ cur \in Int
    BY <1>1 DEF Numbers
<1>7. Numbered(sched'.q, largest, cur', gap) /\ NoneRe(sched'.q)
    <2>1. CASE ScheduleNew(sched, {f})
        <3>1. {f} \in SUBSET Frames
            BY KindsAreFrames
        <3> DEFINE p == Packet(NextPackno, n_packets', {f})
        <3>2. /\ cur' = NextPackno /\ NextPackno \in Int /\ n_packets' = n_packets + 1
              /\ p \in PacketType /\ sched'.q = Append(sched.q, p)
            BY <1>1, <2>1, <3>1, ScheduleNewFacts DEF QueuesOK
        <3>3. p.no = NextPackno /\ p.re = FALSE
            BY <3>2 DEF Packet
        <3> HIDE DEF p
        <3>4. NextPackno = Succ(cur, gap)
            BY <1>6, NextPacknoType
        <3>5. Numbered(Append(sched.q, p), largest, p.no, gap) /\ NoneRe(Append(sched.q, p))
            BY <1>4, <1>5, <1>6, <3>2, <3>3, <3>4, NumberedAppend
        <3> QED BY <3>2, <3>3, <3>5
    <2>2. CASE ~ScheduleNew(sched, {f})
        <3> DEFINE n == Len(sched.q)
        <3>1. /\ sched.q # << >> /\ f \notin sched.q[n].frames
              /\ sched' = IncrPackSz(sched, n, f) /\ cur' = cur
            BY <2>2 DEF WriteFrame, GetWriteablePacket
        <3>2. n \in 1 .. Len(sched.q)
            BY <1>4, <3>1, HeadFacts
        <3> HIDE DEF n
        <3>3. f \in Frames
            BY KindsAreFrames
        <3>4. /\ sched' \in QType /\ Len(sched'.q) = Len(sched.q)
              /\ \A j \in 1 .. Len(sched.q) : j # n => sched'.q[j] = sched.q[j]
              /\ sched'.q[n] = [sched.q[n] EXCEPT !.frames = sched.q[n].frames \cup {f}]
            <4>1. sched \in QType /\ f \notin sched.q[n].frames
                BY <1>1, <3>1 DEF QueuesOK
            <4> QED BY <4>1, <3>1, <3>2, <3>3, IncrFacts
        <3>5. sched.q[n] \in PacketType
            BY <1>4, <3>2
        <3>6. sched'.q[n].no = sched.q[n].no /\ sched'.q[n].re = sched.q[n].re
            BY <3>4, <3>5 DEF PacketType
        <3>7. \A j \in 1 .. Len(sched.q) : sched'.q[j].no = sched.q[j].no /\ sched'.q[j].re = sched.q[j].re
            BY <3>4, <3>6
        <3>8. sched'.q \in Seq(PacketType)
            BY <3>4 DEF QType
        <3>9. Numbered(sched'.q, largest, cur, gap)
            BY <1>4, <1>6, <3>4, <3>7, <3>8, NumberedSame
        <3>10. NoneRe(sched'.q)
            BY <1>5, <3>4, <3>7 DEF NoneRe
        <3> QED BY <3>1, <3>9, <3>10
    <2> QED BY <2>1, <2>2
<1>8. LineInv'
    <2>1. batch' = << >> /\ Numbered(sched'.q, largest', cur', gap') /\ NoneRe(buffered')
        BY <1>2, <1>4, <1>5, <1>7
    <2> QED BY <1>1, <1>7, <2>1, LineNext
<1> QED BY <1>3, <1>8 DEF NumberInv

LEMMA NumberWriteBuffered ==
    ASSUME Basic, Basic', NumberInv, NEW f \in Kinds, NEW with_ack \in BOOLEAN, WriteBuffered(f, with_ack)
    PROVE  NumberInv'
<1>1. Numbers /\ QueuesOK
    BY BasicParts
<1>2. UNCHANGED <<cur, largest, gap, wire, skipped, unacked, phase, batch, sched>>
    BY DEF WriteBuffered, numbers
<1>3. WireInv' /\ UnackedInv'
    BY <1>2, WireSame, UnackedSame DEF NumberInv
<1>4. NoneRe(buffered')
    <2> DEFINE frames == IF with_ack THEN {"ack", f} ELSE {f}
               p == Packet(NoPackno, n_packets', frames)
    <2>1. buffered' = Append(buffered, p)
        BY DEF WriteBuffered
    <2>2. frames \in SUBSET Frames
        BY KindsAreFrames DEF Frames
    <2>3. NoPackno \in Int /\ n_packets' \in Nat
        BY <1>1 DEF NoPackno, WriteBuffered, Numbers
    <2> HIDE DEF frames
    <2>4. p \in PacketType /\ p.re = FALSE
        <3>1. p \in PacketType
            BY <2>2, <2>3, PacketFacts
        <3>2. p.re = FALSE
            BY DEF Packet
        <3> QED BY <3>1, <3>2
    <2> HIDE DEF p
    <2>5. buffered \in Seq(PacketType)
        BY <1>1 DEF QueuesOK
    <2>6. /\ Len(buffered') = Len(buffered) + 1 /\ buffered'[Len(buffered) + 1] = p
          /\ \A i \in 1 .. Len(buffered) : buffered'[i] = buffered[i]
        BY <2>1, <2>4, <2>5, AppendFacts
    <2>7. Len(buffered) \in Nat
        BY <2>5, LenNat
    <2>8. \A i \in 1 .. Len(buffered') : i \in 1 .. Len(buffered) \/ i = Len(buffered) + 1
        BY <2>6, <2>7
    <2>9. NoneRe(buffered)
        BY DEF NumberInv, LineInv
    <2> QED BY <2>4, <2>6, <2>8, <2>9 DEF NoneRe
<1>5. LineInv'
    BY <1>2, <1>4 DEF NumberInv, LineInv
<1> QED BY <1>3, <1>5 DEF NumberInv

LEMMA NumberReschedule ==
    ASSUME Basic, Basic', NumberInv, RescheduleLost
    PROVE  NumberInv'
<1>1. Numbers /\ QueuesOK /\ QueuesOK'
    <2>1. Numbers /\ QueuesOK
        BY BasicParts
    <2>2. QueuesOK'
        BY NextParts
    <2> QED BY <2>1, <2>2
<1>2. /\ phase = "control" /\ phase' = phase /\ batch' = batch /\ lost # << >>
      /\ UNCHANGED <<largest, gap, wire, skipped, buffered>>
      /\ \/ unacked' = unacked /\ cur' = NextPackno /\ sched' = SchedAppend(sched, Resent(NextLost))
         \/ unacked' = Without(unacked, {NextLost.id}) /\ UNCHANGED <<cur, sched>>
    BY DEF RescheduleLost, Resent, ghost
<1>3. WireInv'
    BY <1>2, WireSame DEF NumberInv
<1>4. UnackedInv'
    BY <1>1, <1>2, UnackedSame, UnackedWithout DEF NumberInv, QueuesOK
<1>5. /\ batch = << >> /\ sched.q \in Seq(PacketType)
      /\ Numbered(sched.q, largest, cur, gap)
    BY <1>1, <1>2, LineIsSched DEF NumberInv
<1>6. NoneRe(buffered) /\ NoneRe(sched.q)
    BY <1>2 DEF NumberInv, LineInv
<1>7. largest \in Int /\ gap \in Int /\ cur \in Int
    BY <1>1 DEF Numbers
<1>8. Numbered(sched'.q, largest, cur', gap) /\ NoneRe(sched'.q)
    <2>1. CASE cur' = NextPackno /\ sched' = SchedAppend(sched, Resent(NextLost))
        <3>1. NextLost \in PacketType
            BY <1>1, <1>2, NextLostFacts DEF QueuesOK
        <3>2. /\ Resent(NextLost) \in PacketType /\ Resent(NextLost).no = NextPackno
              /\ Resent(NextLost).re = FALSE
            BY <1>7, <3>1, ResentFacts
        <3> DEFINE p == Resent(NextLost)
        <3>3. sched'.q = Append(sched.q, p)
            BY <2>1 DEF SchedAppend
        <3>4. NextPackno = Succ(cur, gap)
            BY <1>7, NextPacknoType
        <3>5. p \in PacketType /\ p.no = NextPackno /\ p.re = FALSE
            BY <3>2
        <3> HIDE DEF p
        <3>6. Numbered(Append(sched.q, p), largest, p.no, gap) /\ NoneRe(Append(sched.q, p))
            BY <1>5, <1>6, <1>7, <3>4, <3>5, NumberedAppend
        <3> QED BY <2>1, <3>3, <3>5, <3>6
    <2>2. CASE UNCHANGED <<cur, sched>>
        BY <1>5, <1>6, <2>2
    <2> QED BY <1>2, <2>1, <2>2
<1>9. LineInv'
    <2>1. batch' = << >> /\ Numbered(sched'.q, largest', cur', gap') /\ NoneRe(buffered')
        BY <1>2, <1>5, <1>6, <1>8
    <2> QED BY <1>1, <1>8, <2>1, LineNext
<1> QED BY <1>3, <1>4, <1>9 DEF NumberInv

LEMMA NumberScheduleBuffered ==
    ASSUME Basic, Basic', NumberInv, NEW o \in BOOLEAN, ScheduleBuffered(o)
    PROVE  NumberInv'
<1>1. Numbers /\ QueuesOK /\ QueuesOK'
    <2>1. Numbers /\ QueuesOK
        BY BasicParts
    <2>2. QueuesOK'
        BY NextParts
    <2> QED BY <2>1, <2>2
<1> DEFINE p == [FirstBuffered(o) EXCEPT !.no = NextPackno]
<1>2. /\ phase = "streams" /\ phase' = phase /\ batch' = batch /\ buffered # << >>
      /\ UNCHANGED <<largest, gap, wire, skipped, unacked>>
      /\ buffered' = Tail(buffered)
      /\ \/ cur' = NextPackno /\ sched' = SchedAppend(sched, p)
         \/ UNCHANGED <<cur, sched>>
    BY DEF ScheduleBuffered, FirstBuffered, ghost
<1>3. WireInv' /\ UnackedInv'
    BY <1>2, WireSame, UnackedSame DEF NumberInv
<1>4. /\ batch = << >> /\ sched.q \in Seq(PacketType) /\ buffered \in Seq(PacketType)
      /\ Numbered(sched.q, largest, cur, gap)
    BY <1>1, <1>2, LineIsSched DEF NumberInv, QueuesOK
<1>5. NoneRe(buffered) /\ NoneRe(sched.q)
    BY <1>2 DEF NumberInv, LineInv
<1>6. largest \in Int /\ gap \in Int /\ cur \in Int
    BY <1>1 DEF Numbers
<1>7. NextPackno = Succ(cur, gap) /\ NextPackno \in Int
    BY <1>6, NextPacknoType
<1>8. p \in PacketType /\ p.no = NextPackno /\ p.re = FALSE
    <2>1. FirstBuffered(o).re = buffered[1].re
        BY <1>2, <1>4, FirstBufferedFacts
    <2>2. p \in PacketType /\ p.no = NextPackno /\ p.re = FirstBuffered(o).re
        BY <1>2, <1>4, <1>7, FirstBufferedFacts
    <2>3. 1 \in 1 .. Len(buffered)
        BY <1>2, <1>4, HeadFacts
    <2> QED BY <1>5, <2>1, <2>2, <2>3 DEF NoneRe
<1> HIDE DEF p
<1>9. Numbered(sched'.q, largest, cur', gap) /\ NoneRe(sched'.q)
    <2>1. CASE cur' = NextPackno /\ sched' = SchedAppend(sched, p)
        <3>1. sched'.q = Append(sched.q, p)
            BY <2>1 DEF SchedAppend
        <3>2. Numbered(Append(sched.q, p), largest, p.no, gap) /\ NoneRe(Append(sched.q, p))
            BY <1>4, <1>5, <1>6, <1>7, <1>8, NumberedAppend
        <3> QED BY <1>8, <2>1, <3>1, <3>2
    <2>2. CASE UNCHANGED <<cur, sched>>
        BY <1>4, <1>5, <2>2
    <2> QED BY <1>2, <2>1, <2>2
<1>10. NoneRe(buffered')
    <2>1. /\ Len(buffered') = Len(buffered) - 1
          /\ \A i \in 1 .. Len(buffered) - 1 : buffered'[i] = buffered[i + 1]
        BY <1>2, <1>4, HeadFacts
    <2>2. Len(buffered) \in Nat
        BY <1>4, LenNat
    <2>3. \A i \in 1 .. Len(buffered) - 1 : i + 1 \in 1 .. Len(buffered)
        BY <2>2
    <2> QED BY <1>5, <2>1, <2>3 DEF NoneRe
<1>11. LineInv'
    <2>1. batch' = << >> /\ Numbered(sched'.q, largest', cur', gap')
        BY <1>2, <1>4, <1>9
    <2> QED BY <1>1, <1>9, <1>10, <2>1, LineNext
<1> QED BY <1>3, <1>11 DEF NumberInv

LEMMA NumberRing ==
    ASSUME Basic, NumberInv, RetxAlarmRings
    PROVE  NumberInv'
<1>1. QueuesOK /\ unacked \in Seq(PacketType)
    BY BasicParts DEF QueuesOK
<1>2. UNCHANGED <<cur, largest, gap, wire, skipped, phase, batch, sched, buffered>>
    BY DEF RetxAlarmRings, numbers, ghost
<1>3. WireInv' /\ LineInv'
    BY <1>2, WireSame DEF NumberInv, LineInv
<1>4. PICK L : IsRecorded(unacked', unacked, L)
    BY <1>1, RingsFacts
<1>5. InOrderOf(unacked', unacked)
    BY <1>1, <1>4, RecordedInOrder
<1>6. ASSUME NEW x \in ToSet(unacked')
      PROVE  \E y \in ToSet(unacked) : x.no = y.no /\ (x.rec = "poison" => y.rec = "poison")
    <2>1. PICK y \in ToSet(unacked) : x = Marked(y, L)
        BY <1>1, <1>4, RecordedSet
    <2>2. y \in PacketType
        BY <1>1, InToSet
    <2>3. Marked(y, L).no = y.no /\ Marked(y, L).rec = IF y \in L THEN "record" ELSE y.rec
        BY <2>2, MarkedFacts
    <2> QED BY <2>1, <2>3
<1>7. UnackedInv'
    BY <1>2, <1>5, <1>6, UnackedLess DEF NumberInv
<1> QED BY <1>3, <1>7 DEF NumberInv

LEMMA NumberTick ==
    ASSUME Basic, Basic', NumberInv, NEW with_ack \in BOOLEAN, Tick(with_ack)
    PROVE  NumberInv'
<1>1. Numbers /\ QueuesOK /\ QueuesOK'
    <2>1. Numbers /\ QueuesOK
        BY BasicParts
    <2>2. QueuesOK'
        BY NextParts
    <2> QED BY <2>1, <2>2
<1> DEFINE s == Squeezed
           rest == RestAfter(s)
           delayed == s.q # << >>
           c == IF delayed /\ with_ack THEN largest ELSE CurAfter(s)
           no == IF c + 1 = gap THEN c + 2 ELSE c + 1
           p == Packet(no, n_packets', {"ack"})
<1>2. /\ unacked' = Without(unacked, s.ids)
      /\ IF with_ack
         THEN /\ n_packets' = n_packets + 1
              /\ cur' = no
              /\ sched' = IF delayed THEN AckToFront(rest, no, n_packets')
                          ELSE SchedAppend(rest, p)
         ELSE /\ cur' = c
              /\ sched' = rest
      /\ phase' = IF delayed THEN "send" ELSE "control"
      /\ phase = "idle"
      /\ UNCHANGED <<largest, gap, wire, skipped, batch, buffered>>
    BY DEF Tick, ghost
<1>3. WireInv'
    BY <1>2, WireSame DEF NumberInv
<1>4. UnackedInv'
    BY <1>1, <1>2, UnackedWithout DEF NumberInv, QueuesOK
<1>5. /\ batch = << >> /\ sched.q \in Seq(PacketType)
      /\ Numbered(sched.q, largest, cur, gap) /\ NoneRe(buffered)
    BY <1>1, <1>2, LineIsSched DEF NumberInv, LineInv
<1>6. largest \in Int /\ gap \in Int /\ cur \in Int /\ n_packets \in Nat
    BY <1>1 DEF Numbers
<1>7. PICK r \in Seq(PacketType) :
        s \in DropType /\ s.q = Plain(r) /\ (s.ids = {} => r = sched.q)
    BY <1>1, SqueezedFacts DEF QueuesOK
<1> HIDE DEF s
<1>8. /\ rest \in QType /\ Len(rest.q) = Len(s.q)
      /\ \A i \in 1 .. Len(s.q) : s.ids # {} => rest.q[i].re = TRUE
      /\ s.ids = {} => rest.q = s.q
    BY <1>7, RestFacts DEF DropType
<1> HIDE DEF rest
<1>9. rest.q \in Seq(PacketType) /\ s.q \in Seq(PacketType)
    BY <1>7, <1>8 DEF QType, DropType
<1>10. Numbered(rest.q, largest, CurAfter(s), gap) /\ CurAfter(s) \in Int
    <2>1. CASE s.ids = {}
        <3>1. rest.q = Plain(sched.q) /\ CurAfter(s) = cur
            BY <1>7, <1>8, <2>1 DEF CurAfter
        <3>2. /\ Len(Plain(sched.q)) = Len(sched.q)
              /\ \A i \in 1 .. Len(sched.q) : Plain(sched.q)[i] = Stripped(sched.q[i])
            BY <1>5, PlainFacts
        <3>3. ASSUME NEW i \in 1 .. Len(sched.q)
              PROVE  rest.q[i].no = sched.q[i].no /\ rest.q[i].re = sched.q[i].re
            <4>1. sched.q[i] \in PacketType
                BY <1>5
            <4>2. Stripped(sched.q[i]).no = sched.q[i].no /\ Stripped(sched.q[i]).re = sched.q[i].re
                BY <4>1, StrippedFacts
            <4> QED BY <3>1, <3>2, <4>2
        <3>4. Numbered(rest.q, largest, cur, gap)
            BY <1>5, <1>6, <1>9, <3>1, <3>2, <3>3, NumberedSame
        <3> QED BY <1>6, <3>1, <3>4
    <2>2. CASE s.ids # {}
        <3>1. CurAfter(s) = largest
            BY <2>2 DEF CurAfter
        <3>2. \A i \in 1 .. Len(rest.q) : rest.q[i].re = TRUE
            BY <1>8, <2>2
        <3>3. Numbered(rest.q, largest, largest, gap)
            BY <1>6, <1>9, <3>2, NumberedReset
        <3> QED BY <1>6, <3>1, <3>3
    <2> QED BY <2>1, <2>2
<1>11. c \in Int /\ no \in Int /\ no = Succ(c, gap)
    BY <1>6, <1>10 DEF Succ
<1>12. with_ack => p \in PacketType /\ p.no = no /\ p.re = FALSE
    <2>1. {"ack"} \in SUBSET Frames
        BY DEF Frames
    <2>2. with_ack => n_packets' \in Nat
        BY <1>2, <1>6
    <2>3. p.no = no /\ p.re = FALSE
        BY DEF Packet
    <2> HIDE DEF no
    <2>4. with_ack => p \in PacketType
        BY <1>11, <2>1, <2>2, PacketFacts
    <2> QED BY <2>3, <2>4
<1>13. AckToFront(rest, no, n_packets') = SchedPrepend(ResetPacknos(rest), p)
    BY DEF AckToFront
<1> HIDE DEF no, p
<1>14. /\ Numbered(sched'.q, largest, cur', gap)
       /\ phase' \in {"control", "streams"} => NoneRe(sched'.q)
    <2>1. CASE ~delayed
        <3>1. rest.q = << >>
            <4>1. Len(rest.q) = 0
                BY <1>8, <2>1
            <4> QED BY <1>9, <4>1
        <3>2. c = CurAfter(s) /\ NoneRe(<< >>)
            BY <2>1 DEF NoneRe
        <3>3. Numbered(<< >>, largest, c, gap)
            BY <1>10, <3>1, <3>2
        <3> HIDE DEF c, delayed
        <3>4. CASE with_ack
            <4>1. sched'.q = Append(<< >>, p) /\ cur' = p.no
                BY <1>2, <1>12, <2>1, <3>1, <3>4 DEF SchedAppend
            <4>2. << >> \in Seq(PacketType)
                OBVIOUS
            <4>3. Numbered(Append(<< >>, p), largest, p.no, gap) /\ NoneRe(Append(<< >>, p))
                BY <1>6, <1>11, <1>12, <3>2, <3>3, <3>4, <4>2, NumberedAppend
            <4> QED BY <4>1, <4>3
        <3>5. CASE ~with_ack
            BY <1>2, <3>1, <3>2, <3>3, <3>5
        <3> QED BY <3>4, <3>5
    <2>2. CASE delayed
        <3>1. phase' = "send"
            BY <1>2, <2>2
        <3>2. CASE with_ack
            <4> DEFINE t == ResetPacknos(rest)
            <4>1. t \in QType /\ Len(t.q) = Len(rest.q) /\ \A i \in 1 .. Len(rest.q) : t.q[i].re = TRUE
                BY <1>8, ResetFacts
            <4>2. sched' = SchedPrepend(t, p) /\ c = largest
                BY <1>2, <1>13, <2>2, <3>2
            <4>3. cur' = p.no
                BY <1>2, <1>12, <3>2
            <4> HIDE DEF t, c, delayed
            <4>4. sched'.q = <<p>> \o t.q
                BY <4>2 DEF SchedPrepend
            <4>5. t.q \in Seq(PacketType) /\ \A i \in 1 .. Len(t.q) : t.q[i].re = TRUE
                BY <4>1 DEF QType
            <4>6. Numbered(<<p>> \o t.q, largest, p.no, gap)
                BY <1>6, <1>11, <1>12, <3>2, <4>2, <4>5, NumberedCons
            <4> QED BY <3>1, <4>3, <4>4, <4>6
        <3>3. CASE ~with_ack
            <4>1. sched' = rest /\ cur' = CurAfter(s)
                BY <1>2, <3>3
            <4> QED BY <1>10, <3>1, <4>1
        <3> QED BY <3>2, <3>3
    <2> HIDE DEF delayed
    <2> QED BY <2>1, <2>2
<1>15. LineInv'
    <2> HIDE DEF c, delayed
    <2>1. batch' = << >> /\ Numbered(sched'.q, largest', cur', gap') /\ NoneRe(buffered')
        BY <1>2, <1>5, <1>14
    <2> QED BY <1>1, <1>14, <2>1, LineNext
<1> QED BY <1>3, <1>4, <1>15 DEF NumberInv

(* The first packet of queue b moves, as x, to the end of queue a; or it   *)
(* is dropped.                                                             *)
Moved(r, q, a, b, x) ==
    LET n == Len(a) + 1
    IN  /\ r \in Seq(PacketType) /\ Len(r) = Len(q) /\ n \in 1 .. Len(q)
        /\ q \in Seq(PacketType) /\ q[n] = b[1] /\ r[n] = x
        /\ \A i \in 1 .. n - 1 : i \in 1 .. Len(q) /\ r[i] = a[i] /\ q[i] = a[i]
        /\ \A i \in n + 1 .. Len(q) : r[i] = q[i]
LEMMA LineMoves ==
    ASSUME NEW a \in Seq(PacketType), NEW b \in Seq(PacketType), b # << >>,
           NEW d, Popped(d, b), NEW x \in PacketType
    PROVE  Moved(Append(a, x) \o d, a \o b, a, b, x)
<1> DEFINE q == a \o b
           e == Append(a, x)
           r == e \o d
           n == Len(a) + 1
<1>1. Len(a) \in Nat /\ Len(b) \in Nat /\ Len(d) \in Nat /\ d \in Seq(PacketType) /\ Len(d) = Len(b) - 1
    BY LenNat DEF Popped
<1>2. /\ q \in Seq(PacketType) /\ Len(q) = Len(a) + Len(b)
      /\ \A i \in 1 .. Len(a) : q[i] = a[i]
      /\ \A i \in Len(a) + 1 .. Len(a) + Len(b) : q[i] = b[i - Len(a)]
    BY ConcatFacts
<1>3. /\ e \in Seq(PacketType) /\ Len(e) = n
      /\ \A i \in 1 .. Len(a) : e[i] = a[i]
      /\ e[n] = x
    BY AppendFacts
<1> HIDE DEF e
<1>4. /\ r \in Seq(PacketType) /\ Len(r) = Len(e) + Len(d)
      /\ \A i \in 1 .. Len(e) : r[i] = e[i]
      /\ \A i \in Len(e) + 1 .. Len(e) + Len(d) : r[i] = d[i - Len(e)]
    <2>1. e \in Seq(PacketType) /\ d \in Seq(PacketType)
        BY <1>1, <1>3
    <2> QED BY <2>1, ConcatFacts
<1> HIDE DEF r, q
<1>5. Len(r) = Len(q) /\ n \in 1 .. Len(q) /\ n - Len(a) = 1
    BY <1>1, <1>2, <1>3, <1>4
<1>6. q[n] = b[1] /\ r[n] = x
    <2>1. q[n] = b[n - Len(a)]
        <3>1. n \in Len(a) + 1 .. Len(a) + Len(b)
            BY <1>1
        <3> QED BY <1>2, <3>1
    <2>2. r[n] = e[n]
        <3>1. n \in 1 .. Len(e)
            BY <1>1, <1>3
        <3> QED BY <1>4, <3>1
    <2> QED BY <1>3, <1>5, <2>1, <2>2
<1>7. ASSUME NEW i \in 1 .. n - 1 PROVE i \in 1 .. Len(q) /\ r[i] = a[i] /\ q[i] = a[i]
    <2>1. i \in 1 .. Len(a) /\ i \in 1 .. Len(e) /\ i \in 1 .. Len(q)
        BY <1>1, <1>2, <1>3
    <2> QED BY <1>2, <1>3, <1>4, <2>1
<1>8. ASSUME NEW i \in n + 1 .. Len(q) PROVE r[i] = q[i]
    <2>1. i - n \in 1 .. Len(b) - 1 /\ (i - n) + 1 = i - Len(a)
        BY <1>1, <1>2
    <2>2. r[i] = d[i - n]
        <3>1. i \in Len(e) + 1 .. Len(e) + Len(d)
            BY <1>1, <1>2, <1>3
        <3>2. r[i] = d[i - Len(e)]
            BY <1>4, <3>1
        <3> QED BY <1>3, <3>2
    <2>3. d[i - n] = b[(i - n) + 1]
        BY <2>1 DEF Popped
    <2>4. q[i] = b[i - Len(a)]
        BY <1>1, <1>2
    <2> QED BY <2>1, <2>2, <2>3, <2>4
<1>9. Moved(r, q, a, b, x)
    BY <1>2, <1>4, <1>5, <1>6, <1>7, <1>8 DEF Moved
<1> QED BY <1>9 DEF r, q, e

GoneFrom(r, q, a, b) ==
    LET n == Len(a) + 1
    IN  /\ r \in Seq(PacketType) /\ Len(r) = Len(q) - 1 /\ n \in 1 .. Len(q)
        /\ q \in Seq(PacketType) /\ q[n] = b[1]
        /\ \A i \in 1 .. n - 1 : r[i] = q[i]
        /\ \A i \in n .. Len(q) - 1 : r[i] = q[i + 1]
LEMMA LineLeaves ==
    ASSUME NEW a \in Seq(PacketType), NEW b \in Seq(PacketType), b # << >>,
           NEW d, Popped(d, b)
    PROVE  GoneFrom(a \o d, a \o b, a, b)
<1> DEFINE q == a \o b
           r == a \o d
           n == Len(a) + 1
<1>1. Len(a) \in Nat /\ Len(b) \in Nat /\ Len(d) \in Nat /\ d \in Seq(PacketType) /\ Len(d) = Len(b) - 1
    BY LenNat DEF Popped
<1>2. /\ q \in Seq(PacketType) /\ Len(q) = Len(a) + Len(b)
      /\ \A i \in 1 .. Len(a) : q[i] = a[i]
      /\ \A i \in Len(a) + 1 .. Len(a) + Len(b) : q[i] = b[i - Len(a)]
    BY ConcatFacts
<1>3. /\ r \in Seq(PacketType) /\ Len(r) = Len(a) + Len(d)
      /\ \A i \in 1 .. Len(a) : r[i] = a[i]
      /\ \A i \in Len(a) + 1 .. Len(a) + Len(d) : r[i] = d[i - Len(a)]
    BY <1>1, ConcatFacts
<1> HIDE DEF r, q
<1>4. Len(r) = Len(q) - 1 /\ n \in 1 .. Len(q) /\ n - Len(a) = 1
    BY <1>1, <1>2, <1>3
<1>5. q[n] = b[1]
    <2>1. n \in Len(a) + 1 .. Len(a) + Len(b)
        BY <1>1
    <2>2. q[n] = b[n - Len(a)]
        BY <1>2, <2>1
    <2> QED BY <1>4, <2>2
<1>6. \A i \in 1 .. n - 1 : r[i] = q[i]
    BY <1>1, <1>2, <1>3
<1>7. ASSUME NEW i \in n .. Len(q) - 1 PROVE r[i] = q[i + 1]
    <2>1. i - Len(a) \in 1 .. Len(b) - 1 /\ (i - Len(a)) + 1 = (i + 1) - Len(a)
        BY <1>1, <1>2
    <2>2. r[i] = d[i - Len(a)]
        BY <1>1, <1>2, <1>3
    <2>3. d[i - Len(a)] = b[(i - Len(a)) + 1]
        BY <2>1 DEF Popped
    <2>4. q[i + 1] = b[(i + 1) - Len(a)]
        BY <1>1, <1>2
    <2> QED BY <2>1, <2>2, <2>3, <2>4
<1>8. GoneFrom(r, q, a, b)
    BY <1>2, <1>3, <1>4, <1>5, <1>6, <1>7 DEF GoneFrom
<1> QED BY <1>8 DEF r, q

LEMMA NumberedRight ==
    ASSUME NEW q \in Seq(PacketType), NEW lg, NEW c, NEW g, Numbered(q, lg, c, g),
           NEW i \in 1 .. Len(q), NEW j \in 1 .. Len(q), i < j, q[i].re
    PROVE  q[j].re
<1>1. PICK m \in 0 .. Len(q) : NumberedUpTo(m, q, lg, c, g)
    BY DEF Numbered
<1>2. (i \in 1 .. m) \/ (j \in m + 1 .. Len(q))
    BY LenNat
<1> QED BY <1>1, <1>2 DEF NumberedUpTo

LEMMA NumberNextPacket ==
    ASSUME Basic, Basic', NumberInv, NextPacketToSend
    PROVE  NumberInv'
<1>1. Numbers /\ QueuesOK /\ QueuesOK'
    <2>1. Numbers /\ QueuesOK
        BY BasicParts
    <2>2. QueuesOK'
        BY NextParts
    <2> QED BY <2>1, <2>2
<1> DEFINE h == sched.q[1]
           q == batch \o sched.q
<1>2. /\ phase = "send" /\ sched.q # << >> /\ h \in PacketType
      /\ sched' \in QType /\ Popped(sched'.q, sched.q)
      /\ \/ ~h.re /\ batch' = Append(batch, Encrypted(h)) /\ UNCHANGED <<cur, unacked>>
         \/ /\ h.re /\ cur' = NextPackno
            /\ batch' = Append(batch, Encrypted(Chopped(h)))
            /\ UNCHANGED unacked
         \/ /\ h.re /\ unacked' = Without(unacked, {h.id})
            /\ UNCHANGED <<cur, batch>>
    BY <1>1, NextPacketFacts
<1>3. phase' = phase /\ UNCHANGED <<largest, gap, wire, skipped, buffered>>
    BY DEF NextPacketToSend, ghost
<1>4. WireInv'
    BY <1>3, WireSame DEF NumberInv
<1>5. UnackedInv'
    <2>1. unacked' = unacked \/ unacked' = Without(unacked, {h.id})
        BY <1>2
    <2> QED BY <1>1, <1>3, <2>1, UnackedSame, UnackedWithout DEF NumberInv, QueuesOK
<1>6. /\ Numbered(q, largest, cur, gap) /\ NoneRe(batch) /\ NoneRe(buffered)
      /\ batch \in Seq(PacketType) /\ sched.q \in Seq(PacketType)
    BY <1>1 DEF NumberInv, LineInv, QueuesOK, QType
<1>7. largest \in Int /\ gap \in Int /\ cur \in Int
    BY <1>1 DEF Numbers
<1> DEFINE n == Len(batch) + 1
<1>8. ASSUME NEW x \in PacketType
      PROVE  Moved(Append(batch, x) \o sched'.q, q, batch, sched.q, x)
    BY <1>2, <1>6, LineMoves
<1>9. ASSUME NEW x \in PacketType, x.re = FALSE
      PROVE  NoneRe(Append(batch, x))
    <2>1. /\ Len(Append(batch, x)) = Len(batch) + 1 /\ Append(batch, x)[n] = x
          /\ \A i \in 1 .. Len(batch) : Append(batch, x)[i] = batch[i]
        BY <1>6, AppendFacts
    <2>2. Len(batch) \in Nat
        BY <1>6, LenNat
    <2>3. \A i \in 1 .. Len(Append(batch, x)) : i \in 1 .. Len(batch) \/ i = n
        BY <2>1, <2>2
    <2> QED BY <1>6, <1>9, <2>1, <2>3 DEF NoneRe
<1>10. Len(batch) \in Nat
    BY <1>6, LenNat
<1>11. Numbered(batch' \o sched'.q, largest, cur', gap) /\ NoneRe(batch')
    <2>1. CASE ~h.re /\ batch' = Append(batch, Encrypted(h)) /\ cur' = cur
        <3> DEFINE x == Encrypted(h)
                   r == Append(batch, x) \o sched'.q
        <3>1. x \in PacketType /\ x.no = h.no /\ x.re = h.re
            BY <1>2, EncryptedFacts
        <3>2. x.re = FALSE
            BY <1>2, <2>1, <3>1 DEF PacketType
        <3> HIDE DEF x
        <3>3. /\ r \in Seq(PacketType) /\ Len(r) = Len(q) /\ n \in 1 .. Len(q)
              /\ q \in Seq(PacketType) /\ q[n] = h /\ r[n] = x
              /\ \A i \in 1 .. n - 1 : r[i] = q[i]
              /\ \A i \in n + 1 .. Len(q) : r[i] = q[i]
            <4>1. Moved(r, q, batch, sched.q, x)
                BY <1>8, <3>1
            <4> HIDE DEF r, q
            <4> QED BY <4>1 DEF Moved
        <3>4. batch' \o sched'.q = r
            BY <2>1 DEF x
        <3> HIDE DEF r, q, n, h
        <3>5. Len(q) \in Nat /\ n \in Nat
            BY <3>3, LenNat
        <3>6. \A i \in 1 .. Len(q) : i \in 1 .. n - 1 \/ i = n \/ i \in n + 1 .. Len(q)
            BY <3>5
        <3>7. \A i \in 1 .. Len(q) : r[i].no = q[i].no /\ r[i].re = q[i].re
            BY <3>1, <3>3, <3>6
        <3>8. Numbered(r, largest, cur, gap)
            BY <1>6, <1>7, <3>3, <3>7, NumberedSame
        <3>9. NoneRe(Append(batch, x))
            BY <1>9, <3>1, <3>2
        <3> QED BY <2>1, <3>4, <3>8, <3>9 DEF x
    <2>2. CASE h.re /\ batch' = Append(batch, Encrypted(Chopped(h))) /\ cur' = NextPackno
        <3> DEFINE y == Chopped(h)
                   x == Encrypted(y)
                   r == Append(batch, x) \o sched'.q
        <3>1. y \in PacketType /\ y.no = NextPackno /\ y.re = FALSE
            BY <1>2, <1>7, ChoppedFacts
        <3> HIDE DEF y
        <3>2. x \in PacketType /\ x.no = NextPackno /\ x.re = FALSE
            BY <3>1, EncryptedFacts
        <3> HIDE DEF x
        <3>3. /\ r \in Seq(PacketType) /\ Len(r) = Len(q) /\ n \in 1 .. Len(q)
              /\ q \in Seq(PacketType) /\ q[n] = h /\ r[n] = x
              /\ \A i \in 1 .. n - 1 : i \in 1 .. Len(q) /\ r[i] = batch[i] /\ q[i] = batch[i]
              /\ \A i \in n + 1 .. Len(q) : r[i] = q[i]
            <4>1. Moved(r, q, batch, sched.q, x)
                BY <1>8, <3>2
            <4> HIDE DEF r, q
            <4> QED BY <4>1 DEF Moved
        <3>4. batch' \o sched'.q = r
            BY <2>2 DEF x, y
        <3>5. \A i \in 1 .. n - 1 : batch[i].re = FALSE
            BY <1>6, <1>10 DEF NoneRe
        <3>6. NextPackno = Succ(cur, gap)
            BY <1>7, NextPacknoType
        <3>12. h.re
            BY <2>2
        <3> HIDE DEF r, q, n, h
        <3>7. ASSUME NEW i \in n + 1 .. Len(r) PROVE r[i].re
            <4>1. i \in 1 .. Len(q) /\ n < i /\ i \in n + 1 .. Len(q)
                BY <3>3, LenNat
            <4>2. q[i].re
                BY <1>6, <3>3, <3>12, <4>1, NumberedRight
            <4> QED BY <3>3, <4>1, <4>2
        <3>8. \A i \in 1 .. n - 1 : i \in 1 .. Len(q) /\ ~q[i].re /\ r[i].no = q[i].no /\ r[i].re = q[i].re
            BY <3>3, <3>5
        <3>9. ~r[n].re /\ q[n].re /\ r[n].no = Succ(cur, gap) /\ n \in 1 .. Len(r)
            BY <3>2, <3>3, <3>6, <3>12
        <3>10. Numbered(r, largest, r[n].no, gap)
            BY <1>6, <1>7, <3>3, <3>7, <3>8, <3>9, NumberedNext
        <3>11. NoneRe(Append(batch, x))
            BY <1>9, <3>2
        <3> QED BY <2>2, <3>2, <3>3, <3>4, <3>10, <3>11 DEF x, y
    <2>3. CASE h.re /\ UNCHANGED <<cur, batch>>
        <3> DEFINE r == batch \o sched'.q
        <3>1. /\ r \in Seq(PacketType) /\ Len(r) = Len(q) - 1 /\ n \in 1 .. Len(q)
              /\ q \in Seq(PacketType) /\ q[n] = h
              /\ \A i \in 1 .. n - 1 : r[i] = q[i]
              /\ \A i \in n .. Len(q) - 1 : r[i] = q[i + 1]
            <4>1. GoneFrom(r, q, batch, sched.q)
                BY <1>2, <1>6, LineLeaves
            <4> QED BY <4>1 DEF GoneFrom
        <3>2. q[n].re
            BY <2>3, <3>1
        <3> HIDE DEF r, q, n, h
        <3>3. Numbered(r, largest, cur, gap)
            BY <1>6, <1>7, <3>1, <3>2, NumberedLeave
        <3> QED BY <1>6, <2>3, <3>3 DEF r
    <2> HIDE DEF q, n
    <2> QED BY <1>2, <2>1, <2>2, <2>3
<1>12. LineInv'
    BY <1>2, <1>3, <1>6, <1>11 DEF LineInv
<1> QED BY <1>4, <1>5, <1>12 DEF NumberInv

LEMMA NumberAck ==
    ASSUME Basic, Basic', NumberInv, NEW A \in SUBSET (0 .. MaxPackno), GotAck(A)
    PROVE  NumberInv'
<1>1. Numbers /\ QueuesOK /\ QueuesOK' /\ gap' \in Int
    <2>1. Numbers /\ QueuesOK
        BY BasicParts
    <2>2. QueuesOK' /\ Numbers'
        BY NextParts
    <2> QED BY <2>1, <2>2 DEF Numbers
<1>2. /\ phase = "idle" /\ A # {}
      /\ UNCHANGED <<batch, buffered, phase, wire, skipped>>
      /\ \/ UNCHANGED <<numbers, sched, unacked>>
         \/ /\ ~(Max(A) > largest)
            /\ \E L, ids, left, u, w, s : AckTaken(A, L, ids, left, u, w, s)
    BY <1>1, GotAckFacts
<1>3. CASE UNCHANGED <<numbers, sched, unacked>>
    <2>1. WireInv' /\ UnackedInv'
        BY <1>2, <1>3, WireSame, UnackedSame DEF NumberInv, numbers
    <2>2. LineInv'
        BY <1>2, <1>3 DEF NumberInv, LineInv, numbers
    <2> QED BY <2>1, <2>2 DEF NumberInv
<1>4. CASE /\ ~(Max(A) > largest)
           /\ \E L, ids, left, u, w, s : AckTaken(A, L, ids, left, u, w, s)
    <2>1. PICK L, ids, left, u, w, s : AckTaken(A, L, ids, left, u, w, s)
        BY <1>4
    <2>2. /\ s \in SchedType /\ s = DropAllAcked(ids) /\ ids \in Seq(Nat) /\ cur' = s.cur
          /\ sched'.q = s.q /\ largest' = largest
          /\ left = Without(unacked, ToSet(ids)) /\ left \in Seq(PacketType)
          /\ IsRecorded(u, left, L) /\ u \in Seq(PacketType)
        BY <2>1 DEF AckTaken
    <2>3. /\ batch = << >> /\ sched.q \in Seq(PacketType) /\ NoneRe(buffered)
          /\ Numbered(sched.q, largest, cur, gap)
        BY <1>1, <1>2, LineIsSched DEF NumberInv, LineInv
    <2>4. largest \in Int /\ gap \in Int /\ cur \in Int /\ s.cur \in Int /\ s.q \in Seq(PacketType)
        BY <1>1, <2>2 DEF Numbers, SchedType
    <2>5. Numbered(s.q, largest, s.cur, gap)
        <3>1. sched \in [q : Seq(PacketType), bytes : Int]
            BY <1>1 DEF QueuesOK, QType
        <3>2. \A lg, g \in Int : Numbered(sched.q, lg, cur, g) => Numbered(s.q, lg, s.cur, g)
            BY <2>2, <2>4, <3>1, DropAllAckedFacts
        <3> QED BY <2>3, <2>4, <3>2
    <2>6. Ascends(u)
        <3>1. LeftOf(left, unacked, ToSet(ids))
            BY <1>1, <2>2, WithoutFacts DEF QueuesOK
        <3>2. Ascends(left)
            BY <3>1, LeftInOrder, AscendsLess DEF NumberInv, UnackedInv
        <3> QED BY <2>2, <3>2, RecordedInOrder, AscendsLess
    <2>7. \A x \in ToSet(u) : x.no <= largest /\ (x.rec = "poison" => x.no = gap)
        <3> SUFFICES ASSUME NEW x \in ToSet(u)
                     PROVE  x.no <= largest /\ (x.rec = "poison" => x.no = gap)
            OBVIOUS
        <3>1. PICK y \in ToSet(left) : x = Marked(y, L)
            BY <2>2, RecordedSet
        <3>2. y \in PacketType
            BY <2>2, InToSet
        <3>3. x.no = y.no /\ (x.rec = "poison" => y.rec = "poison")
            BY <3>1, <3>2, MarkedFacts
        <3>4. y \in ToSet(unacked)
            BY <1>1, <2>2, WithoutSet DEF QueuesOK
        <3> QED BY <3>3, <3>4 DEF NumberInv, UnackedInv
    <2>8. CASE unacked' = u /\ gap' = gap
        <3>1. WireInv'
            BY <1>2, <2>2, <2>8, WireSame DEF NumberInv
        <3>2. UnackedInv'
            BY <2>2, <2>6, <2>7, <2>8 DEF UnackedInv
        <3>3. LineInv'
            <4>1. batch' = << >> /\ Numbered(sched'.q, largest', cur', gap') /\ NoneRe(buffered')
                  /\ phase' = "idle"
                BY <1>2, <2>2, <2>3, <2>5, <2>8
            <4> QED BY <1>1, <4>1, LineNext
        <3> QED BY <3>1, <3>2, <3>3 DEF NumberInv
    <2>9. CASE /\ gap < Min(A)
               /\ unacked' = Only(u, {p \in ToSet(u) : p.rec # "poison"})
               /\ gap' \in s.cur + 1 .. s.cur + 2
        <3>1. gap < largest
            <4>1. Max(A) \in A /\ \A x \in A : x <= Max(A)
                <5>1. MaxPackno \in Nat
                    BY SendCtlAssumption
                <5> QED BY <1>2, <5>1, MaxOf
            <4>2. A \in SUBSET Nat
                BY SendCtlAssumption
            <4>3. Min(A) \in A
                BY <1>2, <4>2, MinOf
            <4>4. Min(A) <= Max(A) /\ Min(A) \in Int /\ Max(A) \in Int
                <5>1. Min(A) <= Max(A)
                    BY <4>1, <4>3
                <5>2. Min(A) \in Nat /\ Max(A) \in Nat
                    BY <4>1, <4>2, <4>3
                <5> QED BY <5>1, <5>2
            <4> HIDE DEF Min, Max
            <4> QED BY <1>4, <2>4, <2>9, <4>4
        <3>2. gap' > s.cur
            BY <2>4, <2>9
        <3>3. Numbered(s.q, largest, s.cur, gap') /\ largest < gap'
            BY <1>1, <2>4, <2>5, <3>1, <3>2, NumberedGap
        <3>4. WireInv'
            <4>1. /\ largest >= -1 /\ SentInOrder /\ NoGaps
                  /\ \A i \in 1 .. Len(wire) : wire[i].no >= 0 /\ wire[i].no <= largest
                BY DEF NumberInv, WireInv
            <4>2. largest' # gap'
                BY <1>1, <2>2, <2>4, <3>3
            <4>3. SentInOrder' /\ NoGaps'
                BY <1>2, <2>2, <4>1 DEF SentInOrder, NoGaps
            <4>4. \A i \in 1 .. Len(wire) : wire[i].no # gap'
                <5> SUFFICES ASSUME NEW i \in 1 .. Len(wire) PROVE wire[i].no # gap'
                    OBVIOUS
                <5>1. wire[i].no <= largest /\ wire[i].no >= 0
                    BY <4>1
                <5>2. wire[i].no \in Int
                    <6>1. wire \in Seq(WireType)
                        BY BasicParts DEF History
                    <6>2. wire[i] \in WireType
                        BY <6>1
                    <6> QED BY <6>2 DEF WireType
                <5> QED BY <1>1, <2>4, <3>3, <5>1, <5>2
            <4> QED BY <1>2, <2>2, <4>1, <4>2, <4>3, <4>4 DEF WireInv
        <3>5. UnackedInv'
            <4> DEFINE T == {p \in ToSet(u) : p.rec # "poison"}
            <4>1. Ascends(unacked')
                BY <2>2, <2>6, <2>9, OnlyInOrder, AscendsLess
            <4>2. \A x \in ToSet(unacked') : x \in ToSet(u) /\ x \in T
                BY <2>2, <2>9, OnlySet
            <4>3. \A x \in ToSet(unacked') : x.no <= largest /\ x.rec # "poison"
                BY <2>7, <4>2
            <4> QED BY <2>2, <4>1, <4>3 DEF UnackedInv
        <3>6. LineInv'
            <4>1. batch' = << >> /\ Numbered(sched'.q, largest', cur', gap') /\ NoneRe(buffered')
                  /\ phase' = "idle"
                BY <1>2, <2>2, <2>3, <3>3
            <4> QED BY <1>1, <4>1, LineNext
        <3> QED BY <3>4, <3>5, <3>6 DEF NumberInv
    <2>10. \/ unacked' = u /\ gap' = gap
           \/ /\ gap < Min(A)
              /\ unacked' = Only(u, {p \in ToSet(u) : p.rec # "poison"})
              /\ gap' \in s.cur + 1 .. s.cur + 2
        BY <2>1 DEF AckTaken
    <2> QED BY <2>8, <2>9, <2>10
<1> QED BY <1>2, <1>3, <1>4

LEMMA NumberSend ==
    ASSUME Basic, Basic', NumberInv, \A i \in 1 .. Len(batch) : IsReal(batch[i]),
           NEW k \in 0 .. MaxPackets, SendBatch(k)
    PROVE  NumberInv'
<1>1. /\ Numbers /\ QueuesOK /\ History /\ QueuesOK'
      /\ largest \in Int /\ gap \in Int /\ cur \in Int
      /\ batch \in Seq(PacketType) /\ sched.q \in Seq(PacketType) /\ wire \in Seq(WireType)
      /\ unacked \in Seq(PacketType)
    <2>1. Numbers /\ QueuesOK /\ History
        BY BasicParts
    <2>2. QueuesOK'
        BY NextParts
    <2> QED BY <2>1, <2>2 DEF Numbers, QueuesOK, QType, History
<1>2. PICK sent \in Seq(PacketType), unsent \in Seq(PacketType) :
             /\ phase = "send" /\ k \in 0 .. Len(batch)
             /\ Len(sent) = k /\ Len(unsent) = Len(batch) - k
             /\ \A i \in 1 .. k : sent[i] = batch[i]
             /\ \A i \in 1 .. Len(batch) - k : unsent[i] = batch[k + i]
             /\ Joined(unacked', sent, k)
             /\ sched'.q = unsent \o sched.q
             /\ largest' \in {largest} \cup {sent[i].no : i \in 1 .. k} /\ largest' \in Int
             /\ largest <= largest' /\ \A i \in 1 .. k : sent[i].no <= largest'
             /\ skipped' = skipped \cup ({gap} \cap {n - 1 : n \in {sent[i].no : i \in 1 .. k}})
             /\ wire' \in Seq(WireType) /\ Len(wire') = Len(wire) + k
             /\ \A i \in 1 .. Len(wire) : wire'[i] = wire[i]
             /\ \A i \in 1 .. k : wire'[Len(wire) + i] = OnWire(sent[i])
             /\ phase' \in {"idle", "send"} /\ batch' = << >>
             /\ UNCHANGED <<cur, gap, buffered>>
    BY <1>1, SendBatchFacts
<1> DEFINE q == batch \o sched.q
           r == unsent \o sched.q
<1>3. /\ q \in Seq(PacketType) /\ Len(q) = Len(batch) + Len(sched.q)
      /\ \A i \in 1 .. Len(batch) : q[i] = batch[i]
      /\ \A i \in Len(batch) + 1 .. Len(batch) + Len(sched.q) : q[i] = sched.q[i - Len(batch)]
    BY <1>1, ConcatFacts
<1>4. /\ r \in Seq(PacketType) /\ Len(r) = Len(unsent) + Len(sched.q)
      /\ \A i \in 1 .. Len(unsent) : r[i] = unsent[i]
      /\ \A i \in Len(unsent) + 1 .. Len(unsent) + Len(sched.q) : r[i] = sched.q[i - Len(unsent)]
    BY <1>1, ConcatFacts
<1>17. Len(unsent) = Len(batch) - k /\ k \in 0 .. Len(batch)
    BY <1>2
<1>5. Len(batch) \in Nat /\ Len(sched.q) \in Nat /\ k \in Nat /\ Len(wire) \in Nat /\ k <= Len(batch)
    BY <1>1, <1>2, LenNat
<1>6. Numbered(q, largest, cur, gap) /\ NoneRe(batch) /\ NoneRe(buffered)
    BY DEF NumberInv, LineInv
<1>16. sched'.q = r
    BY <1>2
<1> HIDE DEF q, r
<1>7. Len(r) = Len(q) - k /\ k \in 0 .. Len(q)
    BY <1>3, <1>4, <1>5, <1>17
<1>8. \A i \in 1 .. k : i \in 1 .. Len(batch) /\ sent[i] = q[i] /\ ~q[i].re /\ IsReal(sent[i])
    <2> SUFFICES ASSUME NEW i \in 1 .. k
                 PROVE  i \in 1 .. Len(batch) /\ sent[i] = q[i] /\ ~q[i].re /\ IsReal(sent[i])
        OBVIOUS
    <2>1. i \in 1 .. Len(batch)
        BY <1>5
    <2> QED BY <1>2, <1>3, <1>6, <2>1 DEF NoneRe
<1>9. ASSUME NEW i \in 1 .. Len(q) - k PROVE r[i] = q[k + i]
    <2>1. CASE i <= Len(unsent)
        <3>1. i \in 1 .. Len(unsent) /\ k + i \in 1 .. Len(batch) /\ i \in 1 .. Len(batch) - k
            BY <1>2, <1>5, <2>1
        <3>2. r[i] = unsent[i]
            BY <1>4, <3>1
        <3>3. unsent[i] = batch[k + i]
            BY <1>2, <3>1
        <3>4. q[k + i] = batch[k + i]
            BY <1>3, <3>1
        <3> QED BY <3>2, <3>3, <3>4
    <2>2. CASE i > Len(unsent)
        <3>1. /\ i \in Len(unsent) + 1 .. Len(unsent) + Len(sched.q)
              /\ k + i \in Len(batch) + 1 .. Len(batch) + Len(sched.q)
              /\ i - Len(unsent) = (k + i) - Len(batch)
            <4>1. Len(q) = Len(batch) + Len(sched.q) /\ Len(unsent) = Len(batch) - k
                BY <1>3, <1>17
            <4>2. Len(unsent) \in Nat /\ i \in Nat /\ i <= Len(q) - k
                BY <1>5, <4>1
            <4> QED BY <1>5, <2>2, <4>1, <4>2
        <3>2. r[i] = sched.q[i - Len(unsent)]
            BY <1>4, <3>1
        <3>3. q[k + i] = sched.q[(k + i) - Len(batch)]
            BY <1>3, <3>1
        <3> QED BY <3>1, <3>2, <3>3
    <2>3. i <= Len(unsent) \/ i > Len(unsent)
        BY <1>2, <1>5
    <2> QED BY <2>1, <2>2, <2>3, Zenon
<1> DEFINE lg == Before(q, k + 1, largest)
<1>10. /\ Numbered(r, lg, cur, gap) /\ lg \in Int /\ lg >= largest
       /\ \A i \in 1 .. k : /\ q[i].no = Succ(Before(q, i, largest), gap)
                            /\ q[i].no > largest /\ q[i].no # gap /\ q[i].no <= lg
       /\ \A i, j \in 1 .. k : i < j => q[i].no < q[j].no
    <2>1. \A i \in 1 .. k : ~q[i].re
        BY <1>8
    <2>2. \A i \in 1 .. Len(q) - k : r[i] = q[k + i]
        BY <1>9
    <2>3. /\ q \in Seq(PacketType) /\ r \in Seq(PacketType) /\ largest \in Int
          /\ Numbered(q, largest, cur, gap)
        BY <1>1, <1>3, <1>4, <1>6
    <2> QED BY <1>1, <1>7, <2>1, <2>2, <2>3, NumberedSent
<1>11. largest' = lg /\ Before(sent, k + 1, largest) = lg
    <2>1. CASE k = 0
        <3>1. k + 1 = 1 /\ {sent[i].no : i \in 1 .. k} = {}
            BY <2>1
        <3> QED BY <1>2, <3>1 DEF Before
    <2>2. CASE k > 0
        <3>1. k \in 1 .. k /\ k + 1 # 1 /\ k + 1 - 1 = k
            BY <1>5, <2>2
        <3>2. lg = q[k].no /\ Before(sent, k + 1, largest) = sent[k].no /\ sent[k] = q[k]
            <4>1. sent[k] = q[k]
                BY <1>8, <3>1
            <4>2. lg = q[k].no
                BY <3>1 DEF Before
            <4>3. Before(sent, k + 1, largest) = sent[k].no
                BY <3>1 DEF Before
            <4> QED BY <4>1, <4>2, <4>3
        <3>3. \A i \in 1 .. k : sent[i].no <= lg
            BY <1>8, <1>10
        <3>4. largest' <= lg
            <4> HIDE DEF lg
            <4>1. largest' = largest \/ \E i \in 1 .. k : largest' = sent[i].no
                BY <1>2
            <4> QED BY <1>10, <3>3, <4>1
        <3>5. lg <= largest'
            BY <1>2, <3>1, <3>2
        <3> HIDE DEF lg
        <3> QED BY <1>2, <1>10, <3>2, <3>4, <3>5
    <2>3. k = 0 \/ k > 0
        BY <1>5
    <2> QED BY <2>1, <2>2, <2>3, Zenon
<1> HIDE DEF lg
<1>12. WireInv'
    <2>1. /\ largest >= -1 /\ largest # gap /\ SentInOrder /\ NoGaps
          /\ \A i \in 1 .. Len(wire) : wire[i].no >= 0 /\ wire[i].no <= largest /\ wire[i].no # gap
        BY DEF NumberInv, WireInv
    <2>2. \A i \in 1 .. Len(wire) : wire[i].no \in Int
        <3>1. \A i \in 1 .. Len(wire) : wire[i] \in WireType
            BY <1>1
        <3> QED BY <3>1 DEF WireType
    <2>3. \A i \in 1 .. k : q[i].no \in Int
        BY <1>3, <1>7, NoType
    <2>4. \A i \in 1 .. k : wire'[Len(wire) + i].no = q[i].no
        <3> SUFFICES ASSUME NEW i \in 1 .. k PROVE wire'[Len(wire) + i].no = q[i].no
            OBVIOUS
        <3>1. wire'[Len(wire) + i] = OnWire(sent[i]) /\ sent[i] = q[i]
            BY <1>2, <1>8
        <3> QED BY <3>1 DEF OnWire
    <2>5. \A i \in 1 .. Len(wire') : \/ i \in 1 .. Len(wire)
                                     \/ i - Len(wire) \in 1 .. k /\ i = Len(wire) + (i - Len(wire))
        BY <1>2, <1>5
    <2>6. largest' # gap'
        <3>1. largest' = largest \/ \E i \in 1 .. k : largest' = q[i].no
            BY <1>2, <1>8
        <3> QED BY <1>2, <1>10, <2>1, <3>1
    <2>7. largest' >= -1
        BY <1>1, <1>2, <2>1
    <2>8. ASSUME NEW i \in 1 .. Len(wire')
          PROVE  wire'[i].no >= 0 /\ wire'[i].no <= largest' /\ wire'[i].no # gap'
        <3>1. CASE i \in 1 .. Len(wire)
            <4>1. wire'[i] = wire[i] /\ wire[i].no \in Int /\ wire[i].no >= 0 /\ wire[i].no <= largest /\ wire[i].no # gap
                BY <1>2, <2>1, <2>2, <3>1
            <4>2. largest \in Int /\ largest' \in Int /\ largest <= largest' /\ gap' = gap
                BY <1>1, <1>2
            <4> QED BY <4>1, <4>2
        <3>2. CASE i - Len(wire) \in 1 .. k /\ i = Len(wire) + (i - Len(wire))
            <4> DEFINE j == i - Len(wire)
            <4>1. j \in 1 .. k /\ i = Len(wire) + j
                BY <3>2
            <4> HIDE DEF j
            <4>2. wire'[i].no = q[j].no /\ q[j].no \in Int
                BY <2>3, <2>4, <4>1
            <4>3. q[j].no > largest /\ q[j].no # gap /\ q[j].no <= lg
                BY <1>10, <4>1
            <4>4. largest \in Int /\ largest >= -1 /\ lg \in Int /\ lg = largest' /\ gap' = gap
                BY <1>1, <1>2, <1>10, <1>11, <2>1
            <4> HIDE DEF lg
            <4> QED BY <4>2, <4>3, <4>4
        <3> QED BY <2>5, <3>1, <3>2
    <2>9. SentInOrder'
        <3>1. DOMAIN wire' = 1 .. Len(wire') /\ DOMAIN wire = 1 .. Len(wire)
            BY <1>1, <1>2, LenNat
        <3> SUFFICES ASSUME NEW i \in 1 .. Len(wire'), NEW j \in 1 .. Len(wire'), i < j
                     PROVE  wire'[i].no < wire'[j].no
            BY <3>1 DEF SentInOrder
        <3>2. CASE j \in 1 .. Len(wire)
            <4>1. i \in 1 .. Len(wire)
                BY <1>5, <3>2
            <4> QED BY <1>2, <2>1, <3>1, <3>2, <4>1 DEF SentInOrder
        <3>3. CASE j - Len(wire) \in 1 .. k /\ j = Len(wire) + (j - Len(wire))
            <4> DEFINE l == j - Len(wire)
            <4>1. l \in 1 .. k /\ j = Len(wire) + l
                BY <3>3
            <4> HIDE DEF l
            <4>2. wire'[j].no = q[l].no /\ q[l].no \in Int /\ q[l].no > largest
                BY <1>10, <2>3, <2>4, <4>1
            <4>3. CASE i \in 1 .. Len(wire)
                <5>1. wire'[i] = wire[i] /\ wire[i].no \in Int /\ wire[i].no <= largest
                    BY <1>2, <2>1, <2>2, <4>3
                <5> QED BY <1>1, <4>2, <5>1
            <4>4. CASE i - Len(wire) \in 1 .. k /\ i = Len(wire) + (i - Len(wire))
                <5> DEFINE m == i - Len(wire)
                <5>1. m \in 1 .. k /\ i = Len(wire) + m
                    BY <4>4
                <5> HIDE DEF m
                <5>2. m < l
                    BY <1>5, <4>1, <5>1
                <5>3. wire'[i].no = q[m].no /\ q[m].no < q[l].no
                    BY <1>10, <2>4, <4>1, <5>1, <5>2
                <5> QED BY <4>2, <5>3
            <4> QED BY <2>5, <4>3, <4>4
        <3> QED BY <2>5, <3>2, <3>3
    <2>10. NoGaps'
        <3>1. DOMAIN wire' = 1 .. Len(wire') /\ DOMAIN wire = 1 .. Len(wire)
            BY <1>1, <1>2, LenNat
        <3> SUFFICES ASSUME NEW n \in 0 .. largest'
                     PROVE  n \in skipped' \/ \E i \in 1 .. Len(wire') : wire'[i].no = n
            BY <3>1 DEF NoGaps
        <3>6. \A i \in 1 .. Len(wire) : i \in 1 .. Len(wire')
            BY <1>2, <1>5
        <3>7. \A i \in 1 .. k : Len(wire) + i \in 1 .. Len(wire')
            BY <1>2, <1>5
        <3>2. CASE n <= largest
            <4>1. n \in 0 .. largest
                BY <1>1, <1>2, <3>2
            <4>2. n \in skipped \/ \E i \in 1 .. Len(wire) : wire[i].no = n
                BY <2>1, <3>1, <4>1 DEF NoGaps
            <4>3. \A i \in 1 .. Len(wire) : wire'[i] = wire[i]
                BY <1>2
            <4>4. \A x \in skipped : x \in skipped'
                BY <1>2
            <4> QED BY <3>6, <4>2, <4>3, <4>4
        <3>3. CASE n > largest
            <4>1. n \in Int /\ n <= lg
                BY <1>2, <1>11
            <4>2. InSuccession(q, k, largest, gap)
                BY <1>10 DEF InSuccession
            <4>3. PICK i \in 1 .. k : n = q[i].no \/ (n = gap /\ q[i].no = gap + 1)
                <5>1. n <= Before(q, k + 1, largest) /\ n \in Int /\ n > largest
                    BY <3>3, <4>1 DEF lg
                <5>2. largest \in Int /\ gap \in Int /\ q \in Seq(PacketType) /\ k \in 0 .. Len(q)
                    BY <1>1, <1>3, <1>7
                <5> QED BY <4>2, <5>1, <5>2, NumberedDense, SMTT(30)
            <4>4. CASE n = q[i].no
                BY <2>4, <3>7, <4>4
            <4>5. CASE n = gap /\ q[i].no = gap + 1
                <5>1. sent[i].no = gap + 1 /\ (gap + 1) - 1 = gap
                    <6>1. sent[i] = q[i]
                        BY <1>8
                    <6>2. gap \in Int
                        BY <1>1
                    <6> QED BY <4>5, <6>1, <6>2
                <5>2. gap \in {m - 1 : m \in {sent[j].no : j \in 1 .. k}}
                    BY <5>1
                <5> QED BY <1>2, <4>5, <5>2
            <4> QED BY <4>3, <4>4, <4>5
        <3>4. n <= largest \/ n > largest
            BY <1>1
        <3> QED BY <3>2, <3>3, <3>4, Zenon
    <2> QED BY <2>6, <2>7, <2>8, <2>9, <2>10 DEF WireInv
<1>13. UnackedInv'
    <2>1. Ascends(unacked) /\ \A x \in ToSet(unacked) : x.no <= largest /\ (x.rec = "poison" => x.no = gap)
        BY DEF NumberInv, UnackedInv
    <2>2. Sendable(sent, largest)
        <3>1. largest # gap
            BY DEF NumberInv, WireInv
        <3>2. \A i, j \in 1 .. k : i < j => sent[i].no < sent[j].no
            BY <1>8, <1>10
        <3>3. \A i \in 1 .. k : sent[i].no > largest /\ sent[i].no # gap
            BY <1>8, <1>10
        <3> QED BY <1>2, <3>1, <3>2, <3>3 DEF Sendable, Ascends
    <2>3. Ascends(unacked') /\ \A x \in ToSet(unacked') : x.no <= Before(sent, k + 1, largest)
        BY <1>1, <1>2, <2>1, <2>2 DEF Joined
    <2>4. ASSUME NEW x \in ToSet(unacked'), x.rec = "poison" PROVE x.no = gap'
        <3>1. \/ x \in ToSet(unacked) \/ x = Poison \/ \E j \in 1 .. k : x = Stripped(sent[j])
            BY <1>2 DEF Joined
        <3>2. Poison.no = gap
            BY <1>1, PoisonFacts
        <3>3. ASSUME NEW j \in 1 .. k, x = Stripped(sent[j]) PROVE FALSE
            <4>1. sent[j] \in PacketType
                BY <1>2
            <4>2. x.rec = sent[j].rec
                BY <3>3, <4>1, StrippedFacts
            <4> QED BY <1>8, <2>4, <4>2 DEF IsReal
        <3> QED BY <1>2, <2>1, <2>4, <3>1, <3>2, <3>3
    <2> QED BY <1>11, <2>3, <2>4 DEF UnackedInv
<1>14. LineInv'
    <2>1. Numbered(sched'.q, largest', cur', gap') /\ NoneRe(buffered')
          /\ batch' = << >> /\ ~(phase' \in {"control", "streams"})
        BY <1>2, <1>6, <1>10, <1>11, <1>16
    <2> QED BY <1>1, <2>1, LineNext
<1> QED BY <1>12, <1>13, <1>14 DEF NumberInv

-----------------------------------------------------------------------------
(***************************************************************************)
(* Frames and loss chains. FramesInv says that a loss chain has one real   *)
(* packet at most, on one queue; that a frame that is owed is in it; and   *)
(* that a loss record has one. It is inductive whatever Events are.        *)
(***************************************************************************)

(* Queue q has the real packet of loss chain id, or one with frame o[2].   *)
Holds(q, id) == \E x \in ToSet(q) : IsReal(x) /\ x.id = id
Carries(q, o) == \E x \in ToSet(q) : IsReal(x) /\ x.id = o[1] /\ o[2] \in x.frames
Held(id) == \/ Holds(sched.q, id) \/ Holds(batch, id) \/ Holds(lost, id)
            \/ Holds(buffered, id) \/ Holds(unacked, id)
Carried(o) == \/ Carries(sched.q, o) \/ Carries(batch, o) \/ Carries(lost, o)
              \/ Carries(buffered, o) \/ Carries(unacked, o)

Known(q, n) == \A x \in ToSet(q) : IsReal(x) /\ x.id \in 1 .. n
AllKnown ==
    /\ Known(sched.q, n_packets) /\ Known(batch, n_packets)
    /\ Known(lost, n_packets) /\ Known(buffered, n_packets)
    /\ \A x \in ToSet(unacked) : x.rec # "poison" => x.id \in 1 .. n_packets
AllDistinct ==
    /\ Distinct(sched.q) /\ Distinct(batch) /\ Distinct(lost)
    /\ Distinct(buffered) /\ Distinct(unacked)
Apart(q, r) == \A id : ~(Holds(q, id) /\ Holds(r, id))
AllApart ==
    /\ Apart(sched.q, batch) /\ Apart(sched.q, lost) /\ Apart(sched.q, buffered)
    /\ Apart(sched.q, unacked) /\ Apart(batch, lost) /\ Apart(batch, buffered)
    /\ Apart(batch, unacked) /\ Apart(lost, buffered) /\ Apart(lost, unacked)
    /\ Apart(buffered, unacked)
Chains ==
    \A x \in ToSet(unacked) :
       x.rec = "record" => ~Holds(buffered, x.id) /\ Held(x.id)
Owed == \A o \in owed : o[2] # "ack" /\ ((o[2] = "stream" /\ reset) \/ Carried(o))
FramesInv == AllKnown /\ AllDistinct /\ AllApart /\ Chains /\ Owed

LEMMA FramesInit ==
    ASSUME Init
    PROVE  FramesInv
<1>1. ToSet(<< >>) = {} /\ Len(<< >>) = 0
    BY DEF ToSet
<1>2. /\ sched.q = << >> /\ batch = << >> /\ lost = << >> /\ buffered = << >>
      /\ unacked = << >> /\ owed = {}
    BY DEF Init
<1>3. AllKnown /\ AllDistinct
    BY <1>1, <1>2 DEF AllKnown, AllDistinct, Known, Distinct
<1>4. AllApart
    BY <1>1, <1>2 DEF AllApart, Apart, Holds
<1>5. Chains /\ Owed
    BY <1>1, <1>2 DEF Chains, Owed
<1> QED BY <1>3, <1>4, <1>5 DEF FramesInv

LEMMA FramesSame ==
    ASSUME FramesInv,
           UNCHANGED <<sched, batch, lost, buffered, unacked, owed, reset, n_packets>>
    PROVE  FramesInv'
<1>1. AllKnown' /\ AllDistinct' /\ AllApart'
    BY DEF FramesInv, AllKnown, AllDistinct, AllApart, Known, Distinct, Apart
<1>2. Chains' /\ Owed'
    BY DEF FramesInv, Chains, Owed, Held, Carried
<1> QED BY <1>1, <1>2 DEF FramesInv

(* Each packet of r is one of q, in the order of q.                        *)
Embeds(r, q) ==
    \A i, j \in 1 .. Len(r) : i < j =>
       \E k, l \in 1 .. Len(q) : /\ k < l /\ r[i].id = q[k].id /\ r[j].id = q[l].id
                                 /\ IsReal(r[i]) => IsReal(q[k])
                                 /\ IsReal(r[j]) => IsReal(q[l])
LEMMA DistinctEmbeds ==
    ASSUME NEW r \in Seq(PacketType), NEW q \in Seq(PacketType), Embeds(r, q), Distinct(q)
    PROVE  Distinct(r)
<1> SUFFICES ASSUME NEW i \in 1 .. Len(r), NEW j \in 1 .. Len(r),
                    IsReal(r[i]), IsReal(r[j]), r[i].id = r[j].id
             PROVE  i = j
    BY DEF Distinct
<1>1. ASSUME NEW a \in 1 .. Len(r), NEW b \in 1 .. Len(r), a < b,
             IsReal(r[a]), IsReal(r[b]), r[a].id = r[b].id
      PROVE  FALSE
    <2>1. PICK k, l \in 1 .. Len(q) : /\ k < l /\ r[a].id = q[k].id /\ r[b].id = q[l].id
                                      /\ IsReal(r[a]) => IsReal(q[k])
                                      /\ IsReal(r[b]) => IsReal(q[l])
        BY <1>1 DEF Embeds
    <2>2. k = l
        BY <1>1, <2>1 DEF Distinct
    <2>3. k \in Int /\ l \in Int
        OBVIOUS
    <2> QED BY <2>1, <2>2, <2>3
<1>2. ~(i < j) /\ ~(j < i)
    BY <1>1
<1>3. i \in Int /\ j \in Int
    OBVIOUS
<1> QED BY <1>2, <1>3

LEMMA DistinctLike ==
    ASSUME NEW r \in Seq(PacketType), NEW q \in Seq(PacketType), Len(r) = Len(q),
           \A i \in 1 .. Len(q) : r[i].id = q[i].id /\ r[i].rec = q[i].rec, Distinct(q)
    PROVE  Distinct(r)
BY DEF Distinct, IsReal

LEMMA LeftEmbeds ==
    ASSUME NEW r \in Seq(PacketType), NEW q \in Seq(PacketType), NEW I, LeftOf(r, q, I)
    PROVE  Embeds(r, q)
<1> SUFFICES ASSUME NEW i \in 1 .. Len(r), NEW j \in 1 .. Len(r), i < j
             PROVE  \E k, l \in 1 .. Len(q) : /\ k < l /\ r[i].id = q[k].id /\ r[j].id = q[l].id
                                              /\ IsReal(r[i]) => IsReal(q[k])
                                              /\ IsReal(r[j]) => IsReal(q[l])
    BY DEF Embeds
<1>1. PICK k, l \in 1 .. Len(q) : k < l /\ r[i] = q[k] /\ r[j] = q[l]
    BY DEF LeftOf
<1> QED BY <1>1

LEMMA KeptEmbeds ==
    ASSUME NEW r \in Seq(PacketType), NEW q \in Seq(PacketType), NEW I, Kept(r, q, I)
    PROVE  Embeds(r, q)
<1> SUFFICES ASSUME NEW i \in 1 .. Len(r), NEW j \in 1 .. Len(r), i < j
             PROVE  \E k, l \in 1 .. Len(q) : /\ k < l /\ r[i].id = q[k].id /\ r[j].id = q[l].id
                                              /\ IsReal(r[i]) => IsReal(q[k])
                                              /\ IsReal(r[j]) => IsReal(q[l])
    BY DEF Embeds
<1>1. PICK k, l \in 1 .. Len(q) : k < l /\ Like(r[i], q[k]) /\ Like(r[j], q[l])
    BY DEF Kept
<1> QED BY <1>1 DEF Like, IsReal

LEMMA OnlyEmbeds ==
    ASSUME NEW q \in Seq(PacketType), NEW S
    PROVE  Embeds(Only(q, S), q)
<1> DEFINE r == Only(q, S)
<1>1. IsOnly(r, PacketType, q, S)
    BY OnlyFacts
<1> HIDE DEF r
<1>2. ASSUME NEW i \in 1 .. Len(r), NEW j \in 1 .. Len(r), i < j
      PROVE  \E k, l \in 1 .. Len(q) : /\ k < l /\ r[i].id = q[k].id /\ r[j].id = q[l].id
                                       /\ IsReal(r[i]) => IsReal(q[k])
                                       /\ IsReal(r[j]) => IsReal(q[l])
    <2>1. PICK k, l \in 1 .. Len(q) : k < l /\ r[i] = q[k] /\ r[j] = q[l]
        BY <1>1, <1>2 DEF IsOnly
    <2> QED BY <2>1
<1>3. Embeds(r, q)
    BY <1>2 DEF Embeds
<1> QED BY <1>3 DEF r

LEMMA DistinctSame ==
    ASSUME NEW q \in Seq(PacketType), Distinct(q), NEW x \in ToSet(q), NEW y \in ToSet(q),
           IsReal(x), IsReal(y), x.id = y.id
    PROVE  x = y
<1>1. PICK i \in 1 .. Len(q) : x = q[i]
    BY InToSet
<1>2. PICK j \in 1 .. Len(q) : y = q[j]
    BY InToSet
<1> QED BY <1>1, <1>2 DEF Distinct

(* What a declaration of losses does to the Unacked Queue u: v is left of  *)
(* it and w joins the Lost Queue.                                          *)
LEMMA LossKeeps ==
    ASSUME NEW u \in Seq(PacketType), Distinct(u), NEW L, NEW v, NEW w,
           \A x \in L : x \in ToSet(u) /\ IsReal(x), IsRecorded(v, u, L), IsLost(w, u, L)
    PROVE  /\ Distinct(v) /\ Distinct(w)
           /\ \A id : Holds(v, id) => Holds(u, id) /\ ~Holds(w, id)
           /\ \A id : Holds(w, id) => Holds(u, id)
           /\ \A x \in ToSet(w) : IsReal(x) /\ x \in ToSet(u)
           /\ \A x \in ToSet(v) : \E y \in ToSet(u) :
                x.id = y.id /\ (x.rec = "poison" <=> y.rec = "poison")
           /\ \A x \in ToSet(v) : x.rec = "record" =>
                \/ Holds(u, x.id) /\ Holds(w, x.id)
                \/ /\ \E y \in ToSet(u) : y.id = x.id /\ y.rec = "record"
                   /\ Holds(u, x.id) => Holds(v, x.id) \/ Holds(w, x.id)
           /\ \A o : Carries(u, o) /\ o[2] # "ack" => Carries(v, o) \/ Carries(w, o)
<1>1. /\ v \in Seq(PacketType)
      /\ \A x \in ToSet(v) : /\ \E y \in ToSet(u) : x = Marked(y, L)
                             /\ \A p \in L : ~HasData(p) => x.id # p.id
      /\ \A x \in ToSet(v) : IsReal(x) => x \in ToSet(u) /\ x \notin L
      /\ \A y \in ToSet(u) :
           y \notin L /\ IsReal(y) /\ (\A p \in L : ~HasData(p) => y.id # p.id)
           => y \in ToSet(v)
    BY RecordedSet
<1>2. /\ w \in Seq(PacketType)
      /\ \A x : x \in ToSet(w) <=> x \in ToSet(u) /\ x \in L /\ HasData(x)
    BY LostSet
<1>3. Distinct(v)
    <2>1. ASSUME NEW i \in 1 .. Len(v), NEW j \in 1 .. Len(v), i < j
          PROVE  \E k, l \in 1 .. Len(u) : /\ k < l /\ v[i].id = u[k].id /\ v[j].id = u[l].id
                                           /\ IsReal(v[i]) => IsReal(u[k])
                                           /\ IsReal(v[j]) => IsReal(u[l])
        <3>1. PICK k, l \in 1 .. Len(u) : k < l /\ v[i] = Marked(u[k], L) /\ v[j] = Marked(u[l], L)
            BY <2>1 DEF IsRecorded
        <3>2. u[k] \in PacketType /\ u[l] \in PacketType
            OBVIOUS
        <3>3. /\ Marked(u[k], L).id = u[k].id /\ Marked(u[l], L).id = u[l].id
              /\ Marked(u[k], L).rec = IF u[k] \in L THEN "record" ELSE u[k].rec
              /\ Marked(u[l], L).rec = IF u[l] \in L THEN "record" ELSE u[l].rec
            BY <3>2, MarkedFacts
        <3>4. (IsReal(v[i]) => IsReal(u[k])) /\ (IsReal(v[j]) => IsReal(u[l]))
            BY <3>1, <3>3 DEF IsReal
        <3> QED BY <3>1, <3>3, <3>4
    <2>2. Embeds(v, u)
        BY <2>1 DEF Embeds
    <2> QED BY <1>1, <2>2, DistinctEmbeds
<1>4. Distinct(w)
    <2>1. ASSUME NEW i \in 1 .. Len(w), NEW j \in 1 .. Len(w), i < j
          PROVE  \E k, l \in 1 .. Len(u) : /\ k < l /\ w[i].id = u[k].id /\ w[j].id = u[l].id
                                           /\ IsReal(w[i]) => IsReal(u[k])
                                           /\ IsReal(w[j]) => IsReal(u[l])
        <3>1. PICK k, l \in 1 .. Len(u) : k < l /\ w[i] = u[k] /\ w[j] = u[l]
            BY <2>1 DEF IsLost
        <3> QED BY <3>1
    <2>2. Embeds(w, u)
        BY <2>1 DEF Embeds
    <2> QED BY <1>2, <2>2, DistinctEmbeds
<1>5. ASSUME NEW id, Holds(v, id) PROVE Holds(u, id) /\ ~Holds(w, id)
    <2>1. PICK x \in ToSet(v) : IsReal(x) /\ x.id = id
        BY <1>5 DEF Holds
    <2>2. x \in ToSet(u) /\ x \notin L
        BY <1>1, <2>1
    <2>3. ASSUME NEW y \in ToSet(w), y.id = id PROVE FALSE
        <3>1. y \in ToSet(u) /\ y \in L /\ IsReal(y)
            BY <1>2, <2>3
        <3>2. x = y
            BY <2>1, <2>2, <2>3, <3>1, DistinctSame
        <3> QED BY <2>2, <3>1, <3>2
    <2> QED BY <2>1, <2>2, <2>3 DEF Holds
<1>6. \A id : Holds(w, id) => Holds(u, id)
    BY <1>2 DEF Holds
<1>7. \A x \in ToSet(w) : IsReal(x) /\ x \in ToSet(u)
    BY <1>2
<1>8. ASSUME NEW x \in ToSet(v)
      PROVE  \E y \in ToSet(u) : x.id = y.id /\ (x.rec = "poison" <=> y.rec = "poison")
    <2>1. PICK y \in ToSet(u) : x = Marked(y, L)
        BY <1>1
    <2>2. y \in PacketType
        BY InToSet
    <2>3. x.id = y.id /\ x.rec = IF y \in L THEN "record" ELSE y.rec
        BY <2>1, <2>2, MarkedFacts
    <2>4. y \in L => y.rec = "packet"
        BY DEF IsReal
    <2> QED BY <2>3, <2>4
<1>9. ASSUME NEW z \in ToSet(u), IsReal(z), \A p \in L : ~HasData(p) => z.id # p.id
      PROVE  z \in ToSet(v) \/ z \in ToSet(w)
    <2>1. CASE z \in L
        BY <1>2, <1>9, <2>1
    <2>2. CASE z \notin L
        BY <1>1, <1>9, <2>2
    <2> QED BY <2>1, <2>2
<1>10. ASSUME NEW x \in ToSet(v), x.rec = "record"
       PROVE  \/ Holds(u, x.id) /\ Holds(w, x.id)
              \/ /\ \E y \in ToSet(u) : y.id = x.id /\ y.rec = "record"
                 /\ Holds(u, x.id) => Holds(v, x.id) \/ Holds(w, x.id)
    <2>1. PICK y \in ToSet(u) : x = Marked(y, L)
        BY <1>1
    <2>2. y \in PacketType
        BY InToSet
    <2>3. x.id = y.id /\ x.rec = IF y \in L THEN "record" ELSE y.rec
        BY <2>1, <2>2, MarkedFacts
    <2>4. \A p \in L : ~HasData(p) => x.id # p.id
        BY <1>1
    <2>5. CASE y \in L
        <3>1. IsReal(y) /\ y \in ToSet(w)
            BY <1>2, <2>3, <2>4, <2>5
        <3> QED BY <2>3, <3>1 DEF Holds
    <2>6. CASE y \notin L
        <3>1. y.rec = "record"
            BY <1>10, <2>3, <2>6
        <3>2. ASSUME Holds(u, x.id) PROVE Holds(v, x.id) \/ Holds(w, x.id)
            <4>1. PICK z \in ToSet(u) : IsReal(z) /\ z.id = x.id
                BY <3>2 DEF Holds
            <4>2. z \in ToSet(v) \/ z \in ToSet(w)
                BY <1>9, <2>4, <4>1
            <4> QED BY <4>1, <4>2 DEF Holds
        <3> QED BY <2>3, <3>1, <3>2
    <2> QED BY <2>5, <2>6
<1>11. ASSUME NEW o, Carries(u, o), o[2] # "ack" PROVE Carries(v, o) \/ Carries(w, o)
    <2>1. PICK z \in ToSet(u) : IsReal(z) /\ z.id = o[1] /\ o[2] \in z.frames
        BY <1>11 DEF Carries
    <2>2. HasData(z)
        BY <1>11, <2>1 DEF HasData
    <2>3. ASSUME NEW p \in L, ~HasData(p), z.id = p.id PROVE FALSE
        <3>1. p \in ToSet(u) /\ IsReal(p)
            BY <2>3
        <3>2. z = p
            BY <2>1, <2>3, <3>1, DistinctSame
        <3> QED BY <2>2, <2>3, <3>2
    <2>4. z \in ToSet(v) \/ z \in ToSet(w)
        BY <1>9, <2>1, <2>3
    <2> QED BY <2>1, <2>4 DEF Carries
<1> QED BY <1>3, <1>4, <1>5, <1>6, <1>7, <1>8, <1>10, <1>11

-----------------------------------------------------------------------------
(***************************************************************************)
(* What the operations on queues do to the packets and frames held.        *)
(***************************************************************************)

LEMMA ConcatHolds ==
    ASSUME NEW a \in Seq(PacketType), NEW b \in Seq(PacketType)
    PROVE  /\ \A id : Holds(a \o b, id) <=> Holds(a, id) \/ Holds(b, id)
           /\ \A o : Carries(a \o b, o) <=> Carries(a, o) \/ Carries(b, o)
           /\ \A n : Known(a \o b, n) <=> Known(a, n) /\ Known(b, n)
           /\ Distinct(a) /\ Distinct(b) /\ Apart(a, b) => Distinct(a \o b)
<1>1. ToSet(a \o b) = ToSet(a) \cup ToSet(b)
    BY SetConcat
<1>2. \A id : Holds(a \o b, id) <=> Holds(a, id) \/ Holds(b, id)
    BY <1>1 DEF Holds
<1>3. \A o : Carries(a \o b, o) <=> Carries(a, o) \/ Carries(b, o)
    BY <1>1 DEF Carries
<1>4. \A n : Known(a \o b, n) <=> Known(a, n) /\ Known(b, n)
    BY <1>1 DEF Known
<1>5. ASSUME Distinct(a), Distinct(b), Apart(a, b) PROVE Distinct(a \o b)
    <2> DEFINE r == a \o b
    <2>1. /\ r \in Seq(PacketType) /\ Len(r) = Len(a) + Len(b)
          /\ \A i \in 1 .. Len(a) : r[i] = a[i]
          /\ \A i \in Len(a) + 1 .. Len(a) + Len(b) : r[i] = b[i - Len(a)]
        BY ConcatFacts
    <2>2. Len(a) \in Nat /\ Len(b) \in Nat
        BY LenNat
    <2> HIDE DEF r
    <2>3. ASSUME NEW i \in 1 .. Len(r)
          PROVE  \/ i \in 1 .. Len(a) /\ r[i] = a[i]
                 \/ i - Len(a) \in 1 .. Len(b) /\ r[i] = b[i - Len(a)] /\ i = Len(a) + (i - Len(a))
        <3>1. \/ i \in 1 .. Len(a)
              \/ i - Len(a) \in 1 .. Len(b) /\ i \in Len(a) + 1 .. Len(a) + Len(b) /\ i = Len(a) + (i - Len(a))
            BY <2>1, <2>2
        <3> QED BY <2>1, <3>1
    <2>4. ASSUME NEW i \in 1 .. Len(a), NEW j \in 1 .. Len(b),
                 IsReal(a[i]), IsReal(b[j]), a[i].id = b[j].id
          PROVE  FALSE
        <3>1. a[i] \in ToSet(a) /\ b[j] \in ToSet(b)
            BY InToSet
        <3>2. Holds(a, a[i].id) /\ Holds(b, a[i].id)
            BY <2>4, <3>1 DEF Holds
        <3> QED BY <1>5, <3>2 DEF Apart
    <2>5. ASSUME NEW i \in 1 .. Len(r), NEW j \in 1 .. Len(r),
                 IsReal(r[i]), IsReal(r[j]), r[i].id = r[j].id
          PROVE  i = j
        <3> DEFINE k == i - Len(a)
                   l == j - Len(a)
        <3>1. \/ i \in 1 .. Len(a) /\ r[i] = a[i]
              \/ k \in 1 .. Len(b) /\ r[i] = b[k] /\ i = Len(a) + k
            BY <2>3
        <3>2. \/ j \in 1 .. Len(a) /\ r[j] = a[j]
              \/ l \in 1 .. Len(b) /\ r[j] = b[l] /\ j = Len(a) + l
            BY <2>3
        <3> HIDE DEF k, l
        <3>3. CASE i \in 1 .. Len(a) /\ r[i] = a[i] /\ j \in 1 .. Len(a) /\ r[j] = a[j]
            BY <1>5, <2>5, <3>3 DEF Distinct
        <3>4. CASE k \in 1 .. Len(b) /\ r[i] = b[k] /\ i = Len(a) + k
                   /\ l \in 1 .. Len(b) /\ r[j] = b[l] /\ j = Len(a) + l
            BY <1>5, <2>5, <3>4 DEF Distinct
        <3> QED BY <2>4, <2>5, <3>1, <3>2, <3>3, <3>4
    <2>6. Distinct(r)
        BY <2>5 DEF Distinct
    <2> QED BY <2>6 DEF r
<1> QED BY <1>2, <1>3, <1>4, <1>5

LEMMA OneHolds ==
    ASSUME NEW p \in PacketType, IsReal(p)
    PROVE  /\ <<p>> \in Seq(PacketType) /\ Distinct(<<p>>)
           /\ \A id : Holds(<<p>>, id) <=> id = p.id
           /\ \A o : Carries(<<p>>, o) <=> o[1] = p.id /\ o[2] \in p.frames
           /\ \A n : Known(<<p>>, n) <=> p.id \in 1 .. n
<1>1. ToSet(<<p>>) = {p}
    <2>1. DOMAIN <<p>> = {1} /\ <<p>>[1] = p
        OBVIOUS
    <2> QED BY <2>1 DEF ToSet
<1>2. Len(<<p>>) = 1 /\ 1 .. 1 = {1}
    OBVIOUS
<1>3. Distinct(<<p>>)
    BY <1>2 DEF Distinct
<1>4. <<p>> \in Seq(PacketType)
    OBVIOUS
<1>5. \A id : Holds(<<p>>, id) <=> id = p.id
    BY <1>1 DEF Holds
<1>6. \A o : Carries(<<p>>, o) <=> o[1] = p.id /\ o[2] \in p.frames
    BY <1>1 DEF Carries
<1>7. \A n : Known(<<p>>, n) <=> p.id \in 1 .. n
    BY <1>1 DEF Known
<1> QED BY <1>3, <1>4, <1>5, <1>6, <1>7

LEMMA AppendHolds ==
    ASSUME NEW a \in Seq(PacketType), NEW p \in PacketType, IsReal(p)
    PROVE  /\ \A id : Holds(Append(a, p), id) <=> Holds(a, id) \/ id = p.id
           /\ \A o : Carries(Append(a, p), o) <=> Carries(a, o) \/ (o[1] = p.id /\ o[2] \in p.frames)
           /\ \A n : Known(Append(a, p), n) <=> Known(a, n) /\ p.id \in 1 .. n
           /\ Distinct(a) /\ ~Holds(a, p.id) => Distinct(Append(a, p))
<1>1. Append(a, p) = a \o <<p>>
    <2>1. /\ Append(a, p) \in Seq(PacketType) /\ Len(Append(a, p)) = Len(a) + 1
          /\ \A i \in 1 .. Len(a) : Append(a, p)[i] = a[i]
          /\ Append(a, p)[Len(a) + 1] = p
        BY AppendFacts
    <2>2. <<p>> \in Seq(PacketType) /\ Len(<<p>>) = 1 /\ <<p>>[1] = p /\ 1 \in 1 .. Len(<<p>>)
        OBVIOUS
    <2>3. /\ a \o <<p>> \in Seq(PacketType) /\ Len(a \o <<p>>) = Len(a) + 1
          /\ \A i \in 1 .. Len(a) : (a \o <<p>>)[i] = a[i]
          /\ (a \o <<p>>)[Len(a) + 1] = p
        BY <2>2, ConcatFacts
    <2>4. Len(a) \in Nat
        BY LenNat
    <2>5. \A i \in 1 .. Len(a) + 1 : i \in 1 .. Len(a) \/ i = Len(a) + 1
        BY <2>4
    <2>6. \A i \in 1 .. Len(Append(a, p)) : Append(a, p)[i] = (a \o <<p>>)[i]
        BY <2>1, <2>3, <2>5
    <2> QED BY <2>1, <2>3, <2>6, SeqEq
<1>2. /\ <<p>> \in Seq(PacketType) /\ Distinct(<<p>>)
      /\ \A id : Holds(<<p>>, id) <=> id = p.id
      /\ \A o : Carries(<<p>>, o) <=> o[1] = p.id /\ o[2] \in p.frames
      /\ \A n : Known(<<p>>, n) <=> p.id \in 1 .. n
    BY OneHolds
<1>3. ~Holds(a, p.id) => Apart(a, <<p>>)
    BY <1>2 DEF Apart
<1> DEFINE b == <<p>>
<1>4. b \in Seq(PacketType)
    BY <1>2
<1>5. /\ \A id : Holds(a \o b, id) <=> Holds(a, id) \/ Holds(b, id)
      /\ \A o : Carries(a \o b, o) <=> Carries(a, o) \/ Carries(b, o)
      /\ \A n : Known(a \o b, n) <=> Known(a, n) /\ Known(b, n)
      /\ Distinct(a) /\ Distinct(b) /\ Apart(a, b) => Distinct(a \o b)
    <2> HIDE DEF b
    <2> QED BY <1>4, ConcatHolds
<1> QED BY <1>1, <1>2, <1>3, <1>5

LEMMA PoppedHolds ==
    ASSUME NEW q \in Seq(PacketType), q # << >>, NEW r, Popped(r, q)
    PROVE  /\ r \in Seq(PacketType) /\ q[1] \in PacketType /\ q[1] \in ToSet(q)
           /\ \A x \in ToSet(r) : x \in ToSet(q)
           /\ \A id : Holds(q, id) => Holds(r, id) \/ (IsReal(q[1]) /\ id = q[1].id)
           /\ \A id : Holds(r, id) => Holds(q, id)
           /\ \A o : Carries(q, o) => Carries(r, o) \/ (o[1] = q[1].id /\ o[2] \in q[1].frames)
           /\ \A n : Known(q, n) => Known(r, n) /\ IsReal(q[1]) /\ q[1].id \in 1 .. n
           /\ Distinct(q) => Distinct(r) /\ (IsReal(q[1]) => ~Holds(r, q[1].id))
           /\ IsReal(q[1]) => Holds(q, q[1].id)
<1>1. r \in Seq(PacketType) /\ Len(r) = Len(q) - 1 /\ \A j \in 1 .. Len(q) - 1 : r[j] = q[j + 1]
    BY DEF Popped
<1>2. 1 \in 1 .. Len(q) /\ q[1] \in PacketType
    BY HeadFacts
<1>3. q[1] \in ToSet(q)
    BY <1>2, InToSet
<1>4. Len(q) \in Nat
    BY LenNat
<1>5. ASSUME NEW x \in ToSet(r) PROVE \E i \in 1 .. Len(q) : i # 1 /\ x = q[i]
    <2>1. PICK j \in 1 .. Len(r) : x = r[j]
        BY <1>1, InToSet
    <2>2. j + 1 \in 1 .. Len(q) /\ j + 1 # 1 /\ j \in 1 .. Len(q) - 1
        BY <1>1, <1>4
    <2> QED BY <1>1, <2>1, <2>2
<1>6. \A x \in ToSet(r) : x \in ToSet(q)
    BY <1>5, InToSet
<1>7. ASSUME NEW x \in ToSet(q) PROVE x = q[1] \/ x \in ToSet(r)
    <2>1. PICK i \in 1 .. Len(q) : x = q[i]
        BY InToSet
    <2>2. CASE i = 1
        BY <2>1, <2>2
    <2>3. CASE i # 1
        <3>1. i - 1 \in 1 .. Len(q) - 1 /\ (i - 1) + 1 = i /\ i - 1 \in 1 .. Len(r)
            BY <1>1, <1>4, <2>3
        <3>2. x = r[i - 1]
            BY <1>1, <2>1, <3>1
        <3> QED BY <1>1, <3>1, <3>2, InToSet
    <2> QED BY <2>2, <2>3
<1>8. \A id : Holds(q, id) => Holds(r, id) \/ (IsReal(q[1]) /\ id = q[1].id)
    BY <1>7 DEF Holds
<1>9. \A id : Holds(r, id) => Holds(q, id)
    BY <1>6 DEF Holds
<1>10. \A o : Carries(q, o) => Carries(r, o) \/ (o[1] = q[1].id /\ o[2] \in q[1].frames)
    BY <1>7 DEF Carries
<1>11. \A n : Known(q, n) => Known(r, n) /\ IsReal(q[1]) /\ q[1].id \in 1 .. n
    BY <1>3, <1>6 DEF Known
<1>12. ASSUME Distinct(q) PROVE Distinct(r) /\ (IsReal(q[1]) => ~Holds(r, q[1].id))
    <2>1. ASSUME NEW i \in 1 .. Len(r), NEW j \in 1 .. Len(r), IsReal(r[i]), IsReal(r[j]), r[i].id = r[j].id
          PROVE  i = j
        <3>1. i + 1 \in 1 .. Len(q) /\ j + 1 \in 1 .. Len(q) /\ i \in 1 .. Len(q) - 1 /\ j \in 1 .. Len(q) - 1
            BY <1>1, <1>4
        <3>2. r[i] = q[i + 1] /\ r[j] = q[j + 1]
            BY <1>1, <3>1
        <3>3. i + 1 = j + 1
            BY <1>12, <2>1, <3>1, <3>2 DEF Distinct
        <3> QED BY <3>1, <3>3
    <2>2. ASSUME IsReal(q[1]), Holds(r, q[1].id) PROVE FALSE
        <3>1. PICK x \in ToSet(r) : IsReal(x) /\ x.id = q[1].id
            BY <2>2 DEF Holds
        <3>2. PICK i \in 1 .. Len(q) : i # 1 /\ x = q[i]
            BY <1>5
        <3> QED BY <1>2, <1>12, <2>2, <3>1, <3>2 DEF Distinct
    <2> QED BY <2>1, <2>2 DEF Distinct
<1>13. IsReal(q[1]) => Holds(q, q[1].id)
    BY <1>3 DEF Holds
<1> QED BY <1>1, <1>2, <1>3, <1>6, <1>8, <1>9, <1>10, <1>11, <1>12, <1>13

(* Queue r is queue q with its packets changed but for their identity.     *)
LEMMA LikeHolds ==
    ASSUME NEW r \in Seq(PacketType), NEW q \in Seq(PacketType), Len(r) = Len(q),
           \A i \in 1 .. Len(q) : r[i].id = q[i].id /\ r[i].rec = q[i].rec,
           NEW G, \A i \in 1 .. Len(q) : \A f \in q[i].frames : f \in G \/ f \in r[i].frames
    PROVE  /\ \A id : Holds(r, id) <=> Holds(q, id)
           /\ \A o : Carries(q, o) /\ o[2] \notin G => Carries(r, o)
           /\ \A n : Known(q, n) => Known(r, n)
           /\ Distinct(q) => Distinct(r)
<1>1. Distinct(q) => Distinct(r)
    BY DistinctLike
<1>2. ASSUME NEW x \in ToSet(r) PROVE \E y \in ToSet(q) : x.id = y.id /\ x.rec = y.rec
    <2>1. PICK i \in 1 .. Len(r) : x = r[i]
        BY InToSet
    <2>2. q[i] \in ToSet(q)
        BY InToSet
    <2> QED BY <2>1, <2>2
<1>3. ASSUME NEW y \in ToSet(q)
      PROVE  \E x \in ToSet(r) : x.id = y.id /\ x.rec = y.rec /\ \A f \in y.frames : f \in G \/ f \in x.frames
    <2>1. PICK i \in 1 .. Len(q) : y = q[i]
        BY InToSet
    <2>2. r[i] \in ToSet(r)
        BY InToSet
    <2> QED BY <2>1, <2>2
<1>4. ASSUME NEW id PROVE Holds(r, id) <=> Holds(q, id)
    BY <1>2, <1>3 DEF Holds, IsReal
<1>5. ASSUME NEW o, Carries(q, o), o[2] \notin G PROVE Carries(r, o)
    <2>1. PICK y \in ToSet(q) : IsReal(y) /\ y.id = o[1] /\ o[2] \in y.frames
        BY <1>5 DEF Carries
    <2>2. PICK x \in ToSet(r) : x.id = y.id /\ x.rec = y.rec /\ \A f \in y.frames : f \in G \/ f \in x.frames
        BY <1>3
    <2> QED BY <1>5, <2>1, <2>2 DEF Carries, IsReal
<1>6. ASSUME NEW n, Known(q, n) PROVE Known(r, n)
    BY <1>2, <1>6 DEF Known, IsReal
<1> QED BY <1>1, <1>4, <1>5, <1>6

LEMMA WithoutHolds ==
    ASSUME NEW q \in Seq(PacketType), NEW I
    PROVE  /\ Without(q, I) \in Seq(PacketType)
           /\ \A x : x \in ToSet(Without(q, I)) <=> x \in ToSet(q) /\ x.id \notin I
           /\ \A id : Holds(Without(q, I), id) <=> Holds(q, id) /\ id \notin I
           /\ \A o : Carries(Without(q, I), o) <=> Carries(q, o) /\ o[1] \notin I
           /\ \A n : Known(q, n) => Known(Without(q, I), n)
           /\ Distinct(q) => Distinct(Without(q, I))
<1>1. /\ Without(q, I) \in Seq(PacketType)
      /\ \A x : x \in ToSet(Without(q, I)) <=> x \in ToSet(q) /\ x.id \notin I
    BY WithoutSet
<1>2. Distinct(q) => Distinct(Without(q, I))
    <2>1. LeftOf(Without(q, I), q, I)
        BY WithoutFacts
    <2> QED BY <1>1, <2>1, LeftEmbeds, DistinctEmbeds
<1>3. \A id : Holds(Without(q, I), id) <=> Holds(q, id) /\ id \notin I
    BY <1>1 DEF Holds
<1>4. \A o : Carries(Without(q, I), o) <=> Carries(q, o) /\ o[1] \notin I
    BY <1>1 DEF Carries
<1>5. \A n : Known(q, n) => Known(Without(q, I), n)
    BY <1>1 DEF Known
<1> QED BY <1>1, <1>2, <1>3, <1>4, <1>5

-----------------------------------------------------------------------------
(***************************************************************************)
(* The actions and FramesInv.                                              *)
(***************************************************************************)

LEMMA FramesParts ==
    ASSUME FramesInv
    PROVE  /\ Known(sched.q, n_packets) /\ Known(batch, n_packets)
           /\ Known(lost, n_packets) /\ Known(buffered, n_packets)
           /\ \A x \in ToSet(unacked) : x.rec # "poison" => x.id \in 1 .. n_packets
           /\ Distinct(sched.q) /\ Distinct(batch) /\ Distinct(lost)
           /\ Distinct(buffered) /\ Distinct(unacked)
           /\ AllApart /\ Chains /\ Owed
BY DEF FramesInv, AllKnown, AllDistinct

(* A new packet's id is new.                                               *)
LEMMA Fresh ==
    ASSUME FramesInv, n_packets \in Nat
    PROVE  /\ \A q : Known(q, n_packets) => Known(q, n_packets + 1) /\ ~Holds(q, n_packets + 1)
           /\ ~Held(n_packets + 1)
           /\ \A x \in ToSet(unacked) : x.rec # "poison" =>
                x.id \in 1 .. n_packets + 1 /\ x.id # n_packets + 1
           /\ n_packets + 1 \in 1 .. n_packets + 1
<1>1. \A i \in 1 .. n_packets : i \in 1 .. n_packets + 1 /\ i # n_packets + 1
    OBVIOUS
<1>2. \A q : Known(q, n_packets) => Known(q, n_packets + 1) /\ ~Holds(q, n_packets + 1)
    BY <1>1 DEF Known, Holds
<1>3. \A x \in ToSet(unacked) : x.rec # "poison" =>
                x.id \in 1 .. n_packets + 1 /\ x.id # n_packets + 1
    BY <1>1, FramesParts
<1>4. ~Holds(unacked, n_packets + 1)
    <2>1. \A x \in ToSet(unacked) : IsReal(x) => x.rec # "poison"
        BY DEF IsReal
    <2> QED BY <1>3, <2>1 DEF Holds
<1>5. ~Held(n_packets + 1)
    BY <1>2, <1>4, FramesParts DEF Held
<1> QED BY <1>2, <1>3, <1>5

LEMMA FramesWriteBuffered ==
    ASSUME Basic, FramesInv, NEW f \in Kinds, NEW with_ack \in BOOLEAN, WriteBuffered(f, with_ack)
    PROVE  FramesInv'
<1>1. Numbers /\ QueuesOK /\ n_packets \in Nat /\ buffered \in Seq(PacketType)
    BY BasicParts DEF Numbers, QueuesOK
<1> DEFINE frames == IF with_ack THEN {"ack", f} ELSE {f}
           p == Packet(NoPackno, n_packets', frames)
<1>2. /\ n_packets' = n_packets + 1 /\ buffered' = Append(buffered, p)
      /\ owed' = owed \cup {<<n_packets', g>> : g \in frames \ {"ack"}}
      /\ UNCHANGED <<sched, batch, unacked, lost, reset>>
    BY DEF WriteBuffered, Owe
<1>3. p \in PacketType /\ IsReal(p) /\ p.id = n_packets + 1 /\ p.frames = frames
    <2>1. frames \in SUBSET Frames
        BY KindsAreFrames DEF Frames
    <2>2. NoPackno \in Int /\ n_packets' \in Nat
        BY <1>1, <1>2 DEF NoPackno
    <2> HIDE DEF frames
    <2>3. p \in PacketType
        BY <2>1, <2>2, PacketFacts
    <2>4. IsReal(p) /\ p.id = n_packets' /\ p.frames = frames
        BY DEF Packet, IsReal
    <2> QED BY <1>2, <2>3, <2>4
<1> HIDE DEF p, frames
<1>4. /\ \A id : Holds(buffered', id) <=> Holds(buffered, id) \/ id = p.id
      /\ \A o : Carries(buffered', o) <=> Carries(buffered, o) \/ (o[1] = p.id /\ o[2] \in p.frames)
      /\ \A n : Known(buffered', n) <=> Known(buffered, n) /\ p.id \in 1 .. n
      /\ Distinct(buffered) /\ ~Holds(buffered, p.id) => Distinct(buffered')
    BY <1>1, <1>2, <1>3, AppendHolds
<1>5. /\ \A q : Known(q, n_packets) => Known(q, n_packets') /\ ~Holds(q, p.id)
      /\ ~Held(p.id)
      /\ \A x \in ToSet(unacked) : x.rec # "poison" => x.id \in 1 .. n_packets' /\ x.id # p.id
      /\ p.id \in 1 .. n_packets'
    BY <1>1, <1>2, <1>3, Fresh
<1>6. AllKnown'
    BY <1>2, <1>4, <1>5, FramesParts DEF AllKnown
<1>7. AllDistinct'
    BY <1>2, <1>4, <1>5, FramesParts DEF AllDistinct
<1>8. AllApart'
    <2>1. ~Holds(sched.q, p.id) /\ ~Holds(batch, p.id) /\ ~Holds(lost, p.id) /\ ~Holds(unacked, p.id)
        BY <1>5 DEF Held
    <2> QED BY <1>2, <1>4, <2>1, FramesParts DEF AllApart, Apart
<1>9. Chains'
    <2>1. ASSUME NEW x \in ToSet(unacked), x.rec = "record"
          PROVE  ~Holds(buffered', x.id) /\ Held(x.id)'
        <3>1. ~Holds(buffered, x.id) /\ Held(x.id)
            BY <2>1, FramesParts DEF Chains
        <3>2. x.id # p.id
            BY <1>5, <2>1
        <3> QED BY <1>2, <1>4, <3>1, <3>2 DEF Held
    <2> QED BY <1>2, <2>1 DEF Chains
<1>10. Owed'
    <2>1. ASSUME NEW o \in owed PROVE o[2] # "ack" /\ ((o[2] = "stream" /\ reset') \/ Carried(o)')
        BY <1>2, <1>4, FramesParts DEF Owed, Carried
    <2>2. ASSUME NEW g \in frames \ {"ack"} PROVE g # "ack" /\ Carries(buffered', <<n_packets', g>>)
        BY <1>2, <1>3, <1>4
    <2>3. ASSUME NEW o \in owed' PROVE o[2] # "ack" /\ ((o[2] = "stream" /\ reset') \/ Carried(o)')
        <3>1. CASE o \in owed
            BY <2>1, <3>1
        <3>2. CASE o \notin owed
            <4>1. PICK g \in frames \ {"ack"} : o = <<n_packets', g>>
                BY <1>2, <3>2
            <4>2. o[2] = g /\ g # "ack" /\ Carries(buffered', o)
                BY <2>2, <4>1
            <4> QED BY <4>2 DEF Carried
        <3> QED BY <3>1, <3>2
    <2> QED BY <2>3 DEF Owed
<1> QED BY <1>6, <1>7, <1>8, <1>9, <1>10 DEF FramesInv

LEMMA FramesWrite ==
    ASSUME Basic, FramesInv, NEW f \in Kinds, WriteFrame(f)
    PROVE  FramesInv'
<1>1. Numbers /\ QueuesOK /\ n_packets \in Nat /\ sched \in QType /\ sched.q \in Seq(PacketType)
    BY BasicParts DEF Numbers, QueuesOK, QType
<1>2. UNCHANGED <<batch, unacked, lost, buffered, reset>>
    BY DEF WriteFrame
<1>3. f \in Frames /\ f # "ack"
    BY KindsAreFrames
<1>4. CASE ScheduleNew(sched, {f})
    <2> DEFINE p == Packet(NextPackno, n_packets', {f})
    <2>1. {f} \in SUBSET Frames
        BY <1>3
    <2>2. /\ n_packets' = n_packets + 1 /\ p \in PacketType /\ sched'.q = Append(sched.q, p)
        BY <1>1, <1>4, <2>1, ScheduleNewFacts
    <2>3. owed' = owed \cup {<<n_packets', g>> : g \in {f} \ {"ack"}}
        BY <1>4 DEF ScheduleNew, Owe
    <2>4. IsReal(p) /\ p.id = n_packets + 1 /\ p.frames = {f}
        BY <2>2 DEF Packet, IsReal
    <2> HIDE DEF p
    <2>5. /\ \A id : Holds(sched'.q, id) <=> Holds(sched.q, id) \/ id = p.id
          /\ \A o : Carries(sched'.q, o) <=> Carries(sched.q, o) \/ (o[1] = p.id /\ o[2] \in p.frames)
          /\ \A n : Known(sched'.q, n) <=> Known(sched.q, n) /\ p.id \in 1 .. n
          /\ Distinct(sched.q) /\ ~Holds(sched.q, p.id) => Distinct(sched'.q)
        BY <1>1, <2>2, <2>4, AppendHolds
    <2>6. /\ \A q : Known(q, n_packets) => Known(q, n_packets') /\ ~Holds(q, p.id)
          /\ ~Held(p.id)
          /\ \A x \in ToSet(unacked) : x.rec # "poison" => x.id \in 1 .. n_packets' /\ x.id # p.id
          /\ p.id \in 1 .. n_packets'
        BY <1>1, <2>2, <2>4, Fresh
    <2>7. AllKnown' /\ AllDistinct'
        BY <1>2, <2>5, <2>6, FramesParts DEF AllKnown, AllDistinct
    <2>8. AllApart'
        <3>1. ~Holds(batch, p.id) /\ ~Holds(lost, p.id) /\ ~Holds(unacked, p.id) /\ ~Holds(buffered, p.id)
            BY <2>6 DEF Held
        <3> QED BY <1>2, <2>5, <3>1, FramesParts DEF AllApart, Apart
    <2>9. Chains'
        BY <1>2, <2>5, FramesParts DEF Chains, Held
    <2>10. Owed'
        <3>1. ASSUME NEW o \in owed PROVE o[2] # "ack" /\ ((o[2] = "stream" /\ reset') \/ Carried(o)')
            BY <1>2, <2>5, FramesParts DEF Owed, Carried
        <3>2. \A o \in owed' : o \in owed \/ o = <<n_packets', f>>
            BY <2>3
        <3>3. Carries(sched'.q, <<n_packets', f>>)
            BY <2>2, <2>4, <2>5
        <3>4. ASSUME NEW o, o = <<n_packets', f>> PROVE o[2] # "ack" /\ Carried(o)'
            BY <1>3, <3>3, <3>4 DEF Carried
        <3> QED BY <3>1, <3>2, <3>4 DEF Owed
    <2> QED BY <2>7, <2>8, <2>9, <2>10 DEF FramesInv
<1>5. CASE ~ScheduleNew(sched, {f})
    <2> DEFINE n == Len(sched.q)
    <2>1. /\ sched.q # << >> /\ f \notin sched.q[n].frames
          /\ sched' = IncrPackSz(sched, n, f) /\ Owe(sched.q[n].id, {f}) /\ n_packets' = n_packets
        BY <1>5 DEF WriteFrame, GetWriteablePacket
    <2>2. n \in 1 .. Len(sched.q)
        BY <1>1, <2>1, HeadFacts
    <2> HIDE DEF n
    <2>3. /\ sched' \in QType /\ Len(sched'.q) = Len(sched.q)
          /\ \A j \in 1 .. Len(sched.q) : j # n => sched'.q[j] = sched.q[j]
          /\ sched'.q[n] = [sched.q[n] EXCEPT !.frames = sched.q[n].frames \cup {f}]
        BY <1>1, <1>3, <2>1, <2>2, IncrFacts
    <2>4. sched.q[n] \in PacketType /\ sched'.q \in Seq(PacketType)
        BY <1>1, <2>2, <2>3 DEF QType
    <2>5. /\ sched'.q[n].id = sched.q[n].id /\ sched'.q[n].rec = sched.q[n].rec
          /\ sched'.q[n].frames = sched.q[n].frames \cup {f}
        BY <2>3, <2>4 DEF PacketType
    <2>6. \A i \in 1 .. Len(sched.q) : /\ sched'.q[i].id = sched.q[i].id /\ sched'.q[i].rec = sched.q[i].rec
                                       /\ \A g \in sched.q[i].frames : g \in {} \/ g \in sched'.q[i].frames
        BY <2>3, <2>5
    <2>7. /\ \A id : Holds(sched'.q, id) <=> Holds(sched.q, id)
          /\ \A o : Carries(sched.q, o) /\ o[2] \notin {} => Carries(sched'.q, o)
          /\ \A m : Known(sched.q, m) => Known(sched'.q, m)
          /\ Distinct(sched.q) => Distinct(sched'.q)
        <3> DEFINE r == sched'.q
                   q == sched.q
                   G == {}
        <3>1. /\ r \in Seq(PacketType) /\ q \in Seq(PacketType) /\ Len(r) = Len(q)
              /\ \A i \in 1 .. Len(q) : r[i].id = q[i].id /\ r[i].rec = q[i].rec
              /\ \A i \in 1 .. Len(q) : \A g \in q[i].frames : g \in G \/ g \in r[i].frames
            BY <1>1, <2>3, <2>4, <2>6
        <3>2. /\ \A id : Holds(r, id) <=> Holds(q, id)
              /\ \A o : Carries(q, o) /\ o[2] \notin G => Carries(r, o)
              /\ \A m : Known(q, m) => Known(r, m)
              /\ Distinct(q) => Distinct(r)
            <4> HIDE DEF r, q, G
            <4> QED BY <3>1, LikeHolds
        <3> QED BY <3>2
    <2>8. AllKnown' /\ AllDistinct'
        BY <1>2, <2>1, <2>7, FramesParts DEF AllKnown, AllDistinct
    <2>9. AllApart'
        BY <1>2, <2>7, FramesParts DEF AllApart, Apart
    <2>10. Chains'
        BY <1>2, <2>7, FramesParts DEF Chains, Held
    <2>11. Owed'
        <3>1. ASSUME NEW o \in owed PROVE o[2] # "ack" /\ ((o[2] = "stream" /\ reset') \/ Carried(o)')
            BY <1>2, <2>7, FramesParts DEF Owed, Carried
        <3>2. \A o \in owed' : o \in owed \/ o = <<sched.q[n].id, f>>
            BY <2>1 DEF Owe
        <3>3. sched'.q[n] \in ToSet(sched'.q)
            BY <2>2, <2>3, <2>4, InToSet
        <3>4. IsReal(sched.q[n])
            <4>1. sched.q[n] \in ToSet(sched.q)
                BY <1>1, <2>2, InToSet
            <4> QED BY <4>1, FramesParts DEF Known
        <3>5. Carries(sched'.q, <<sched.q[n].id, f>>)
            BY <2>5, <3>3, <3>4 DEF Carries, IsReal
        <3>6. ASSUME NEW o, o = <<sched.q[n].id, f>> PROVE o[2] # "ack" /\ Carried(o)'
            BY <1>3, <3>5, <3>6 DEF Carried
        <3> QED BY <3>1, <3>2, <3>6 DEF Owed
    <2> QED BY <2>8, <2>9, <2>10, <2>11 DEF FramesInv
<1> QED BY <1>4, <1>5

LEMMA FramesReschedule ==
    ASSUME Basic, FramesInv, RescheduleLost
    PROVE  FramesInv'
<1>1. /\ Numbers /\ QueuesOK /\ cur \in Int /\ gap \in Int
      /\ sched.q \in Seq(PacketType) /\ lost \in Seq(PacketType) /\ unacked \in Seq(PacketType)
    BY BasicParts DEF Numbers, QueuesOK, QType
<1> DEFINE t == NextLost
           p == Resent(t)
<1>2. /\ lost # << >> /\ lost' = Tail(lost)
      /\ UNCHANGED <<batch, buffered, reset, n_packets, owed>>
      /\ \/ HasData(t) /\ sched'.q = Append(sched.q, p) /\ unacked' = unacked
         \/ ~HasData(t) /\ unacked' = Without(unacked, {t.id}) /\ sched' = sched
    BY DEF RescheduleLost, Resent, SchedAppend, ghost
<1>3. t \in PacketType /\ t.id = lost[1].id /\ t.rec = lost[1].rec
      /\ t.frames = lost[1].frames \ (IF reset THEN {"stream"} ELSE {})
    BY <1>1, <1>2, NextLostFacts
<1> HIDE DEF t
<1>4. p \in PacketType /\ p.id = lost[1].id /\ p.rec = lost[1].rec /\ p.frames = t.frames \ {"ack"}
    BY <1>1, <1>3, ResentFacts
<1> HIDE DEF p
<1>5. Popped(lost', lost)
    BY <1>1, <1>2, HeadFacts DEF Popped
<1>6. /\ lost' \in Seq(PacketType)
      /\ \A id : Holds(lost, id) => Holds(lost', id) \/ (IsReal(lost[1]) /\ id = lost[1].id)
      /\ \A id : Holds(lost', id) => Holds(lost, id)
      /\ \A o : Carries(lost, o) => Carries(lost', o) \/ (o[1] = lost[1].id /\ o[2] \in lost[1].frames)
      /\ \A n : Known(lost, n) => Known(lost', n) /\ IsReal(lost[1]) /\ lost[1].id \in 1 .. n
      /\ Distinct(lost) => Distinct(lost') /\ (IsReal(lost[1]) => ~Holds(lost', lost[1].id))
      /\ IsReal(lost[1]) => Holds(lost, lost[1].id)
    BY <1>1, <1>2, <1>5, PoppedHolds
<1> DEFINE b == lost[1].id
<1>7. /\ Known(lost', n_packets) /\ Distinct(lost') /\ b \in 1 .. n_packets
      /\ IsReal(lost[1]) /\ ~Holds(lost', b) /\ Holds(lost, b)
    BY <1>6, FramesParts
<1>8. IsReal(p)
    BY <1>4, <1>7 DEF IsReal
<1>9. /\ ~Holds(sched.q, b) /\ ~Holds(batch, b) /\ ~Holds(buffered, b) /\ ~Holds(unacked, b)
    BY <1>7, FramesParts DEF AllApart, Apart
<1>10. CASE HasData(t) /\ sched'.q = Append(sched.q, p) /\ unacked' = unacked
    <2>1. /\ \A id : Holds(sched'.q, id) <=> Holds(sched.q, id) \/ id = p.id
          /\ \A o : Carries(sched'.q, o) <=> Carries(sched.q, o) \/ (o[1] = p.id /\ o[2] \in p.frames)
          /\ \A n : Known(sched'.q, n) <=> Known(sched.q, n) /\ p.id \in 1 .. n
          /\ Distinct(sched.q) /\ ~Holds(sched.q, p.id) => Distinct(sched'.q)
        BY <1>1, <1>4, <1>8, <1>10, AppendHolds
    <2>2. AllKnown' /\ AllDistinct'
        BY <1>2, <1>4, <1>7, <1>9, <1>10, <2>1, FramesParts DEF AllKnown, AllDistinct
    <2>3. AllApart'
        BY <1>2, <1>4, <1>6, <1>7, <1>9, <1>10, <2>1, FramesParts DEF AllApart, Apart
    <2>4. \A id : Held(id) => Held(id)'
        BY <1>2, <1>4, <1>6, <1>10, <2>1 DEF Held
    <2>5. Chains'
        BY <1>2, <1>10, <2>4, FramesParts DEF Chains
    <2>6. ASSUME NEW o \in owed PROVE o[2] # "ack" /\ ((o[2] = "stream" /\ reset') \/ Carried(o)')
        <3>1. o[2] # "ack" /\ ((o[2] = "stream" /\ reset) \/ Carried(o))
            BY FramesParts DEF Owed
        <3>2. CASE ~(o[2] = "stream" /\ reset) /\ o[1] = b /\ o[2] \in lost[1].frames
            <4>1. o[2] \in p.frames
                BY <1>3, <1>4, <3>1, <3>2
            <4> QED BY <1>4, <2>1, <3>1, <3>2, <4>1 DEF Carried
        <3> QED BY <1>2, <1>6, <1>10, <2>1, <3>1, <3>2 DEF Carried
    <2>7. Owed'
        BY <1>2, <2>6 DEF Owed
    <2> QED BY <2>2, <2>3, <2>5, <2>7 DEF FramesInv
<1>11. CASE ~HasData(t) /\ unacked' = Without(unacked, {t.id}) /\ sched' = sched
    <2>1. /\ \A x : x \in ToSet(unacked') <=> x \in ToSet(unacked) /\ x.id \notin {t.id}
          /\ \A id : Holds(unacked', id) <=> Holds(unacked, id) /\ id \notin {t.id}
          /\ \A o : Carries(unacked', o) <=> Carries(unacked, o) /\ o[1] \notin {t.id}
          /\ Distinct(unacked) => Distinct(unacked')
        BY <1>1, <1>11, WithoutHolds
    <2>2. AllKnown' /\ AllDistinct'
        BY <1>2, <1>7, <1>11, <2>1, FramesParts DEF AllKnown, AllDistinct
    <2>3. AllApart'
        BY <1>2, <1>6, <1>11, <2>1, FramesParts DEF AllApart, Apart
    <2>4. ASSUME NEW x \in ToSet(unacked'), x.rec = "record"
          PROVE  ~Holds(buffered', x.id) /\ Held(x.id)'
        <3>1. x \in ToSet(unacked) /\ x.id # b
            BY <1>3, <2>1
        <3>2. ~Holds(buffered, x.id) /\ Held(x.id)
            BY <2>4, <3>1, FramesParts DEF Chains
        <3> QED BY <1>2, <1>3, <1>6, <1>11, <2>1, <3>1, <3>2 DEF Held
    <2>5. Chains'
        BY <2>4 DEF Chains
    <2>6. ASSUME NEW o \in owed PROVE o[2] # "ack" /\ ((o[2] = "stream" /\ reset') \/ Carried(o)')
        <3>1. o[2] # "ack" /\ ((o[2] = "stream" /\ reset) \/ Carried(o))
            BY FramesParts DEF Owed
        <3>2. ~(o[2] = "stream" /\ reset) /\ o[2] \in lost[1].frames => FALSE
            BY <1>3, <1>11, <3>1 DEF HasData
        <3>3. Carries(unacked, o) => o[1] # b
            BY <1>9 DEF Carries, Holds
        <3> QED BY <1>2, <1>3, <1>6, <1>11, <2>1, <3>1, <3>2, <3>3 DEF Carried
    <2>7. Owed'
        BY <1>2, <2>6 DEF Owed
    <2> QED BY <2>2, <2>3, <2>5, <2>7 DEF FramesInv
<1> QED BY <1>2, <1>10, <1>11

LEMMA FramesScheduleBuffered ==
    ASSUME Basic, FramesInv, NEW ooo \in BOOLEAN, ScheduleBuffered(ooo)
    PROVE  FramesInv'
<1>1. /\ Numbers /\ QueuesOK /\ cur \in Int /\ gap \in Int
      /\ sched.q \in Seq(PacketType) /\ buffered \in Seq(PacketType)
    BY BasicParts DEF Numbers, QueuesOK, QType
<1> DEFINE t == FirstBuffered(ooo)
           p == [t EXCEPT !.no = NextPackno]
<1>2. /\ buffered # << >> /\ buffered' = Tail(buffered)
      /\ UNCHANGED <<batch, lost, unacked, reset, n_packets, owed>>
      /\ \/ t.frames = {} /\ sched' = sched
         \/ sched'.q = Append(sched.q, p)
    BY DEF ScheduleBuffered, FirstBuffered, SchedAppend, ghost
<1>3. /\ t \in PacketType /\ t.id = buffered[1].id /\ t.rec = buffered[1].rec
      /\ t.frames = buffered[1].frames \ (IF ooo THEN {"ack"} ELSE {})
    BY <1>1, <1>2, FirstBufferedFacts
<1>4. p \in PacketType /\ p.id = buffered[1].id /\ p.rec = buffered[1].rec /\ p.frames = t.frames
    <2>1. NextPackno \in Int
        BY <1>1, NextPacknoType
    <2>2. p \in PacketType /\ p.id = t.id /\ p.rec = t.rec /\ p.frames = t.frames
        BY <1>1, <1>2, <2>1, FirstBufferedFacts
    <2> QED BY <1>3, <2>2
<1> HIDE DEF p, t
<1>5. Popped(buffered', buffered)
    BY <1>1, <1>2, HeadFacts DEF Popped
<1>6. /\ buffered' \in Seq(PacketType)
      /\ \A id : Holds(buffered, id) => Holds(buffered', id) \/ (IsReal(buffered[1]) /\ id = buffered[1].id)
      /\ \A id : Holds(buffered', id) => Holds(buffered, id)
      /\ \A o : Carries(buffered, o) => Carries(buffered', o) \/ (o[1] = buffered[1].id /\ o[2] \in buffered[1].frames)
      /\ \A n : Known(buffered, n) => Known(buffered', n) /\ IsReal(buffered[1]) /\ buffered[1].id \in 1 .. n
      /\ Distinct(buffered) => Distinct(buffered') /\ (IsReal(buffered[1]) => ~Holds(buffered', buffered[1].id))
      /\ IsReal(buffered[1]) => Holds(buffered, buffered[1].id)
    BY <1>1, <1>2, <1>5, PoppedHolds
<1> DEFINE b == buffered[1].id
<1>7. /\ Known(buffered', n_packets) /\ Distinct(buffered') /\ b \in 1 .. n_packets
      /\ IsReal(buffered[1]) /\ ~Holds(buffered', b) /\ Holds(buffered, b)
    BY <1>6, FramesParts
<1>8. IsReal(p)
    BY <1>4, <1>7 DEF IsReal
<1>9. /\ ~Holds(sched.q, b) /\ ~Holds(batch, b) /\ ~Holds(lost, b) /\ ~Holds(unacked, b)
    BY <1>7, FramesParts DEF AllApart, Apart
<1>10. CASE sched'.q = Append(sched.q, p)
    <2>1. /\ \A id : Holds(sched'.q, id) <=> Holds(sched.q, id) \/ id = p.id
          /\ \A o : Carries(sched'.q, o) <=> Carries(sched.q, o) \/ (o[1] = p.id /\ o[2] \in p.frames)
          /\ \A n : Known(sched'.q, n) <=> Known(sched.q, n) /\ p.id \in 1 .. n
          /\ Distinct(sched.q) /\ ~Holds(sched.q, p.id) => Distinct(sched'.q)
        BY <1>1, <1>4, <1>8, <1>10, AppendHolds
    <2>2. AllKnown' /\ AllDistinct'
        BY <1>2, <1>4, <1>7, <1>9, <2>1, FramesParts DEF AllKnown, AllDistinct
    <2>3. AllApart'
        BY <1>2, <1>4, <1>6, <1>7, <1>9, <2>1, FramesParts DEF AllApart, Apart
    <2>4. \A id : Held(id) => Held(id)'
        BY <1>2, <1>4, <1>6, <2>1 DEF Held
    <2>5. Chains'
        BY <1>2, <1>6, <2>4, FramesParts DEF Chains
    <2>6. ASSUME NEW o \in owed PROVE o[2] # "ack" /\ ((o[2] = "stream" /\ reset') \/ Carried(o)')
        <3>1. o[2] # "ack" /\ ((o[2] = "stream" /\ reset) \/ Carried(o))
            BY FramesParts DEF Owed
        <3>2. CASE o[1] = b /\ o[2] \in buffered[1].frames
            <4>1. o[2] \in p.frames
                BY <1>3, <1>4, <3>1, <3>2
            <4> QED BY <1>4, <2>1, <3>1, <3>2, <4>1 DEF Carried
        <3> QED BY <1>2, <1>6, <2>1, <3>1, <3>2 DEF Carried
    <2>7. Owed'
        BY <1>2, <2>6 DEF Owed
    <2> QED BY <2>2, <2>3, <2>5, <2>7 DEF FramesInv
<1>11. CASE t.frames = {} /\ sched' = sched
    <2>1. AllKnown' /\ AllDistinct'
        BY <1>2, <1>7, <1>11, FramesParts DEF AllKnown, AllDistinct
    <2>2. AllApart'
        BY <1>2, <1>6, <1>11, FramesParts DEF AllApart, Apart
    <2>3. Chains'
        BY <1>2, <1>6, <1>11, FramesParts DEF Chains, Held
    <2>4. ASSUME NEW o \in owed PROVE o[2] # "ack" /\ ((o[2] = "stream" /\ reset') \/ Carried(o)')
        <3>1. o[2] # "ack" /\ ((o[2] = "stream" /\ reset) \/ Carried(o))
            BY FramesParts DEF Owed
        <3>2. o[2] \notin buffered[1].frames
            BY <1>3, <1>11, <3>1
        <3> QED BY <1>2, <1>6, <1>11, <3>1, <3>2 DEF Carried
    <2>5. Owed'
        BY <1>2, <2>4 DEF Owed
    <2> QED BY <2>1, <2>2, <2>3, <2>5 DEF FramesInv
<1> QED BY <1>2, <1>10, <1>11

LEMMA FramesNextPacket ==
    ASSUME Basic, FramesInv, NextPacketToSend
    PROVE  FramesInv'
<1>1. /\ Numbers /\ QueuesOK /\ cur \in Int /\ gap \in Int
      /\ sched.q \in Seq(PacketType) /\ batch \in Seq(PacketType) /\ unacked \in Seq(PacketType)
    BY BasicParts DEF Numbers, QueuesOK, QType
<1> DEFINE h == sched.q[1]
<1>2. /\ sched.q # << >> /\ h \in PacketType /\ Popped(sched'.q, sched.q)
      /\ \/ ~h.re /\ batch' = Append(batch, Encrypted(h)) /\ unacked' = unacked
         \/ h.re /\ HasData(h) /\ batch' = Append(batch, Encrypted(Chopped(h))) /\ unacked' = unacked
         \/ h.re /\ ~HasData(h) /\ unacked' = Without(unacked, {h.id}) /\ batch' = batch
    BY <1>1, NextPacketFacts
<1>3. UNCHANGED <<lost, buffered, reset, n_packets, owed>>
    BY DEF NextPacketToSend, ghost
<1>4. /\ sched'.q \in Seq(PacketType)
      /\ \A id : Holds(sched.q, id) => Holds(sched'.q, id) \/ (IsReal(h) /\ id = h.id)
      /\ \A id : Holds(sched'.q, id) => Holds(sched.q, id)
      /\ \A o : Carries(sched.q, o) => Carries(sched'.q, o) \/ (o[1] = h.id /\ o[2] \in h.frames)
      /\ \A n : Known(sched.q, n) => Known(sched'.q, n) /\ IsReal(h) /\ h.id \in 1 .. n
      /\ Distinct(sched.q) => Distinct(sched'.q) /\ (IsReal(h) => ~Holds(sched'.q, h.id))
      /\ IsReal(h) => Holds(sched.q, h.id)
    BY <1>1, <1>2, PoppedHolds
<1>5. /\ Known(sched'.q, n_packets) /\ Distinct(sched'.q) /\ h.id \in 1 .. n_packets
      /\ IsReal(h) /\ ~Holds(sched'.q, h.id) /\ Holds(sched.q, h.id)
    BY <1>4, FramesParts
<1>6. ~Holds(lost, h.id) /\ ~Holds(batch, h.id) /\ ~Holds(buffered, h.id) /\ ~Holds(unacked, h.id)
    BY <1>5, FramesParts DEF AllApart, Apart
<1>7. ASSUME NEW p \in PacketType, p.id = h.id, p.rec = h.rec, batch' = Append(batch, p), unacked' = unacked,
             \A f \in h.frames : f = "ack" \/ f \in p.frames
      PROVE  FramesInv'
    <2>1. IsReal(p)
        BY <1>5, <1>7 DEF IsReal
    <2>2. /\ \A id : Holds(batch', id) <=> Holds(batch, id) \/ id = p.id
          /\ \A o : Carries(batch', o) <=> Carries(batch, o) \/ (o[1] = p.id /\ o[2] \in p.frames)
          /\ \A n : Known(batch', n) <=> Known(batch, n) /\ p.id \in 1 .. n
          /\ Distinct(batch) /\ ~Holds(batch, p.id) => Distinct(batch')
        BY <1>1, <1>7, <2>1, AppendHolds
    <2> HIDE DEF h
    <2>3. AllKnown' /\ AllDistinct'
        BY <1>3, <1>5, <1>6, <1>7, <2>2, FramesParts DEF AllKnown, AllDistinct
    <2>4. AllApart'
        BY <1>3, <1>4, <1>5, <1>6, <1>7, <2>2, FramesParts DEF AllApart, Apart
    <2>5. \A id : Held(id) => Held(id)'
        BY <1>3, <1>4, <1>7, <2>2 DEF Held
    <2>6. Chains'
        BY <1>3, <1>7, <2>5, FramesParts DEF Chains
    <2>7. ASSUME NEW o \in owed PROVE o[2] # "ack" /\ ((o[2] = "stream" /\ reset') \/ Carried(o)')
        <3>1. o[2] # "ack" /\ ((o[2] = "stream" /\ reset) \/ Carried(o))
            BY FramesParts DEF Owed
        <3> QED BY <1>3, <1>4, <1>7, <2>2, <3>1 DEF Carried
    <2>8. Owed'
        BY <1>3, <2>7 DEF Owed
    <2> QED BY <2>3, <2>4, <2>6, <2>8 DEF FramesInv
<1>8. CASE ~h.re /\ batch' = Append(batch, Encrypted(h)) /\ unacked' = unacked
    <2>1. /\ Encrypted(h) \in PacketType /\ Encrypted(h).id = h.id /\ Encrypted(h).rec = h.rec
          /\ Encrypted(h).frames = h.frames
        BY <1>2, EncryptedFacts
    <2> QED BY <1>7, <1>8, <2>1
<1>9. CASE h.re /\ HasData(h) /\ batch' = Append(batch, Encrypted(Chopped(h))) /\ unacked' = unacked
    <2> DEFINE c == Chopped(h)
    <2>1. c \in PacketType /\ c.id = h.id /\ c.rec = h.rec /\ c.frames = h.frames \ {"ack"}
        BY <1>1, <1>2, ChoppedFacts
    <2>2. batch' = Append(batch, Encrypted(c))
        BY <1>9
    <2> HIDE DEF c, h
    <2>3. /\ Encrypted(c) \in PacketType /\ Encrypted(c).id = c.id /\ Encrypted(c).rec = c.rec
          /\ Encrypted(c).frames = c.frames
        BY <2>1, EncryptedFacts
    <2> QED BY <1>7, <1>9, <2>1, <2>2, <2>3
<1>10. CASE h.re /\ ~HasData(h) /\ unacked' = Without(unacked, {h.id}) /\ batch' = batch
    <2>1. /\ \A x : x \in ToSet(unacked') <=> x \in ToSet(unacked) /\ x.id \notin {h.id}
          /\ \A id : Holds(unacked', id) <=> Holds(unacked, id) /\ id \notin {h.id}
          /\ \A o : Carries(unacked', o) <=> Carries(unacked, o) /\ o[1] \notin {h.id}
          /\ Distinct(unacked) => Distinct(unacked')
        BY <1>1, <1>10, WithoutHolds
    <2> HIDE DEF h
    <2>2. AllKnown' /\ AllDistinct'
        BY <1>3, <1>5, <1>10, <2>1, FramesParts DEF AllKnown, AllDistinct
    <2>3. AllApart'
        BY <1>3, <1>4, <1>10, <2>1, FramesParts DEF AllApart, Apart
    <2>4. ASSUME NEW x \in ToSet(unacked'), x.rec = "record"
          PROVE  ~Holds(buffered', x.id) /\ Held(x.id)'
        <3>1. x \in ToSet(unacked) /\ x.id # h.id
            BY <2>1
        <3>2. ~Holds(buffered, x.id) /\ Held(x.id)
            BY <2>4, <3>1, FramesParts DEF Chains
        <3> QED BY <1>3, <1>4, <1>10, <2>1, <3>1, <3>2 DEF Held
    <2>5. Chains'
        BY <2>4 DEF Chains
    <2>6. ASSUME NEW o \in owed PROVE o[2] # "ack" /\ ((o[2] = "stream" /\ reset') \/ Carried(o)')
        <3>1. o[2] # "ack" /\ ((o[2] = "stream" /\ reset) \/ Carried(o))
            BY FramesParts DEF Owed
        <3>2. o[2] \notin h.frames
            BY <1>10, <3>1 DEF HasData
        <3>3. Carries(unacked, o) => o[1] # h.id
            BY <1>6 DEF Carries, Holds
        <3> QED BY <1>3, <1>4, <1>10, <2>1, <3>1, <3>2, <3>3 DEF Carried
    <2>7. Owed'
        BY <1>3, <2>6 DEF Owed
    <2> QED BY <2>2, <2>3, <2>5, <2>7 DEF FramesInv
<1> QED BY <1>2, <1>8, <1>9, <1>10

(* A batch of which a part is sent.                                        *)
LEMMA SplitHolds ==
    ASSUME NEW q \in Seq(PacketType), NEW k \in 0 .. Len(q),
           NEW a \in Seq(PacketType), NEW b \in Seq(PacketType),
           Len(a) = k, Len(b) = Len(q) - k,
           \A i \in 1 .. k : a[i] = q[i], \A i \in 1 .. Len(q) - k : b[i] = q[k + i]
    PROVE  /\ ToSet(q) = ToSet(a) \cup ToSet(b)
           /\ Distinct(q) => Distinct(a) /\ Distinct(b) /\ Apart(a, b)
<1>1. Len(q) \in Nat /\ k \in Nat /\ k <= Len(q)
    BY LenNat
<1>2. \A i \in 1 .. k : i \in 1 .. Len(q)
    BY <1>1
<1>3. \A i \in 1 .. Len(q) - k : k + i \in 1 .. Len(q)
    BY <1>1
<1>4. ASSUME NEW x \in ToSet(q) PROVE x \in ToSet(a) \/ x \in ToSet(b)
    <2>1. PICK i \in 1 .. Len(q) : x = q[i]
        BY InToSet
    <2>2. CASE i \in 1 .. k
        BY <2>1, <2>2, InToSet
    <2>3. CASE i \notin 1 .. k
        <3>1. i - k \in 1 .. Len(q) - k /\ k + (i - k) = i
            BY <1>1, <2>3
        <3>2. x = b[i - k]
            BY <2>1, <3>1
        <3> QED BY <3>1, <3>2, InToSet
    <2> QED BY <2>2, <2>3
<1>5. ASSUME NEW x \in ToSet(a) PROVE \E i \in 1 .. k : x = q[i]
    BY InToSet
<1>6. ASSUME NEW x \in ToSet(b) PROVE \E i \in 1 .. Len(q) - k : x = q[k + i]
    <2>1. PICK i \in 1 .. Len(b) : x = b[i]
        BY InToSet
    <2>2. i \in 1 .. Len(q) - k
        OBVIOUS
    <2> QED BY <2>1, <2>2
<1>7. ToSet(q) = ToSet(a) \cup ToSet(b)
    <2>1. \A i \in 1 .. Len(q) : q[i] \in ToSet(q)
        BY InToSet
    <2>2. ASSUME NEW x \in ToSet(a) PROVE x \in ToSet(q)
        <3>1. PICK i \in 1 .. k : x = q[i]
            BY <1>5
        <3>2. i \in 1 .. Len(q)
            BY <1>1
        <3> QED BY <2>1, <3>1, <3>2
    <2>3. ASSUME NEW x \in ToSet(b) PROVE x \in ToSet(q)
        <3>1. PICK i \in 1 .. Len(q) - k : x = q[k + i]
            BY <1>6
        <3>2. k + i \in 1 .. Len(q)
            BY <1>1
        <3> QED BY <2>1, <3>1, <3>2
    <2>4. \A x \in ToSet(q) : x \in ToSet(a) \cup ToSet(b)
        BY <1>4
    <2> QED BY <2>2, <2>3, <2>4, Zenon
<1>8. ASSUME Distinct(q) PROVE Distinct(a) /\ Distinct(b) /\ Apart(a, b)
    <2>1. Distinct(a)
        BY <1>2, <1>8 DEF Distinct
    <2>2. ASSUME NEW i \in 1 .. Len(b), NEW j \in 1 .. Len(b), IsReal(b[i]), IsReal(b[j]), b[i].id = b[j].id
          PROVE  i = j
        <3>1. b[i] = q[k + i] /\ b[j] = q[k + j] /\ k + i \in 1 .. Len(q) /\ k + j \in 1 .. Len(q)
            BY <1>3
        <3>2. k + i = k + j
            BY <1>8, <2>2, <3>1 DEF Distinct
        <3> QED BY <1>1, <3>2
    <2>3. ASSUME NEW id, Holds(a, id), Holds(b, id) PROVE FALSE
        <3>1. PICK x \in ToSet(a) : IsReal(x) /\ x.id = id
            BY <2>3 DEF Holds
        <3>2. PICK y \in ToSet(b) : IsReal(y) /\ y.id = id
            BY <2>3 DEF Holds
        <3>3. PICK i \in 1 .. k : x = q[i]
            BY <1>5
        <3>4. PICK j \in 1 .. Len(q) - k : y = q[k + j]
            BY <1>6
        <3>5. i = k + j
            BY <1>2, <1>3, <1>8, <3>1, <3>2, <3>3, <3>4 DEF Distinct
        <3> QED BY <1>1, <3>5
    <2> QED BY <2>1, <2>2, <2>3 DEF Distinct, Apart
<1> QED BY <1>7, <1>8

LEMMA FramesSend ==
    ASSUME Basic, FramesInv, NEW k \in 0 .. MaxPackets, SendBatch(k)
    PROVE  FramesInv'
<1>1. /\ Numbers /\ QueuesOK /\ History /\ gap \in Int
      /\ sched.q \in Seq(PacketType) /\ batch \in Seq(PacketType) /\ unacked \in Seq(PacketType)
    BY BasicParts DEF Numbers, QueuesOK, QType
<1>2. PICK sent \in Seq(PacketType), unsent \in Seq(PacketType) :
             /\ k \in 0 .. Len(batch)
             /\ Len(sent) = k /\ Len(unsent) = Len(batch) - k
             /\ \A i \in 1 .. k : sent[i] = batch[i]
             /\ \A i \in 1 .. Len(batch) - k : unsent[i] = batch[k + i]
             /\ Joined(unacked', sent, k)
             /\ sched'.q = unsent \o sched.q
             /\ batch' = << >>
             /\ UNCHANGED <<lost, buffered, reset, n_packets, owed>>
    BY <1>1, SendBatchFacts
<1>3. ToSet(batch) = ToSet(sent) \cup ToSet(unsent) /\ Distinct(sent) /\ Distinct(unsent) /\ Apart(sent, unsent)
    <2>1. Distinct(batch)
        BY FramesParts
    <2>2. /\ k \in 0 .. Len(batch) /\ Len(sent) = k /\ Len(unsent) = Len(batch) - k
          /\ \A i \in 1 .. k : sent[i] = batch[i]
          /\ \A i \in 1 .. Len(batch) - k : unsent[i] = batch[k + i]
        BY <1>2
    <2>3. batch \in Seq(PacketType)
        BY <1>1
    <2> QED BY <2>1, <2>2, <2>3, SplitHolds
<1>4. Known(sent, n_packets) /\ Known(unsent, n_packets)
    BY <1>3, FramesParts DEF Known
<1>5. \A id : Holds(batch, id) <=> Holds(sent, id) \/ Holds(unsent, id)
    BY <1>3 DEF Holds
<1>6. \A o : Carries(batch, o) <=> Carries(sent, o) \/ Carries(unsent, o)
    BY <1>3 DEF Carries
<1>7. Apart(unsent, sched.q)
    BY <1>5, FramesParts DEF AllApart, Apart
<1>8. /\ \A id : Holds(sched'.q, id) <=> Holds(unsent, id) \/ Holds(sched.q, id)
      /\ \A o : Carries(sched'.q, o) <=> Carries(unsent, o) \/ Carries(sched.q, o)
      /\ \A n : Known(sched'.q, n) <=> Known(unsent, n) /\ Known(sched.q, n)
      /\ Distinct(sched'.q)
    BY <1>1, <1>2, <1>3, <1>7, FramesParts, ConcatHolds
<1>9. \A x \in ToSet(batch') : FALSE
    BY <1>2 DEF ToSet
<1>10. Known(batch', n_packets) /\ Distinct(batch') /\ \A id : ~Holds(batch', id)
    <2>1. Len(batch') = 0
        BY <1>2
    <2> QED BY <1>9, <2>1 DEF Known, Distinct, Holds
<1>11. /\ unacked' \in Seq(PacketType)
       /\ \A x \in ToSet(unacked) : x \in ToSet(unacked')
       /\ \A j \in 1 .. k : Stripped(sent[j]) \in ToSet(unacked')
       /\ \A x \in ToSet(unacked') : \/ x \in ToSet(unacked)
                                     \/ x = Poison
                                     \/ \E j \in 1 .. k : x = Stripped(sent[j])
    BY <1>2 DEF Joined
<1>12. ASSUME NEW j \in 1 .. k
       PROVE  /\ sent[j] \in ToSet(sent) /\ IsReal(sent[j]) /\ sent[j].id \in 1 .. n_packets
              /\ Stripped(sent[j]).id = sent[j].id /\ Stripped(sent[j]).rec = sent[j].rec
              /\ Stripped(sent[j]).frames = sent[j].frames
    <2>1. sent[j] \in ToSet(sent) /\ sent[j] \in PacketType
        BY <1>2, InToSet
    <2> QED BY <1>4, <2>1, StrippedFacts DEF Known
<1>13. Distinct(unacked')
    <2>1. ASSUME NEW j \in 1 .. Len(sent)
          PROVE  IsReal(sent[j]) /\ \A x \in ToSet(unacked) : IsReal(x) => x.id # sent[j].id
        <3>1. Holds(sent, sent[j].id) /\ IsReal(sent[j])
            BY <1>2, <1>12 DEF Holds
        <3>2. ~Holds(unacked, sent[j].id)
            BY <1>5, <3>1, FramesParts DEF AllApart, Apart
        <3> QED BY <3>1, <3>2 DEF Holds
    <2>2. Distinct(unacked) /\ Distinct(sent)
        BY <1>3, FramesParts
    <2> QED BY <1>2, <2>1, <2>2 DEF Joined
<1>14. Poison.rec = "poison"
    BY <1>1, PoisonFacts
<1>15. ASSUME NEW x \in ToSet(unacked'), x.rec # "poison"
       PROVE  x \in ToSet(unacked) \/ (IsReal(x) /\ \E y \in ToSet(sent) : x.id = y.id /\ IsReal(y) /\ y.id \in 1 .. n_packets)
    <2>1. CASE \E j \in 1 .. k : x = Stripped(sent[j])
        <3>1. PICK j \in 1 .. k : x = Stripped(sent[j])
            BY <2>1
        <3> QED BY <1>12, <3>1 DEF IsReal
    <2> QED BY <1>11, <1>14, <1>15, <2>1
<1>16. \A id : Holds(unacked', id) => Holds(unacked, id) \/ Holds(sent, id)
    <2> SUFFICES ASSUME NEW id, NEW x \in ToSet(unacked'), IsReal(x), x.id = id
                 PROVE  Holds(unacked, id) \/ Holds(sent, id)
        BY DEF Holds
    <2>1. x.rec # "poison"
        BY DEF IsReal
    <2> QED BY <1>15, <2>1 DEF Holds
<1>17. \A id : Holds(unacked, id) \/ Holds(sent, id) => Holds(unacked', id)
    <2>1. ASSUME NEW id, Holds(sent, id) PROVE Holds(unacked', id)
        <3>1. PICK y \in ToSet(sent) : y.id = id
            BY <2>1 DEF Holds
        <3>2. PICK j \in 1 .. k : y = sent[j]
            BY <1>2, InToSet
        <3> QED BY <1>11, <1>12, <3>1, <3>2 DEF Holds, IsReal
    <2>2. \A id : Holds(unacked, id) => Holds(unacked', id)
        BY <1>11 DEF Holds
    <2> QED BY <2>1, <2>2
<1>18. \A o : Carries(unacked, o) \/ Carries(sent, o) => Carries(unacked', o)
    <2>1. ASSUME NEW o, Carries(sent, o) PROVE Carries(unacked', o)
        <3>1. PICK y \in ToSet(sent) : y.id = o[1] /\ o[2] \in y.frames
            BY <2>1 DEF Carries
        <3>2. PICK j \in 1 .. k : y = sent[j]
            BY <1>2, InToSet
        <3> QED BY <1>11, <1>12, <3>1, <3>2 DEF Carries, IsReal
    <2>2. \A o : Carries(unacked, o) => Carries(unacked', o)
        BY <1>11 DEF Carries
    <2> QED BY <2>1, <2>2
<1>19. AllKnown'
    <2>1. \A x \in ToSet(unacked') : x.rec # "poison" => x.id \in 1 .. n_packets
        BY <1>15, FramesParts
    <2> QED BY <1>2, <1>4, <1>8, <1>10, <2>1, FramesParts DEF AllKnown
<1>20. AllDistinct'
    BY <1>2, <1>8, <1>10, <1>13, FramesParts DEF AllDistinct
<1>21. AllApart'
    BY <1>2, <1>3, <1>5, <1>8, <1>10, <1>16, FramesParts DEF AllApart, Apart
<1>22. \A id : Held(id) => Held(id)'
    BY <1>2, <1>5, <1>8, <1>17 DEF Held
<1>23. Chains'
    <2>1. ASSUME NEW x \in ToSet(unacked'), x.rec = "record"
          PROVE  ~Holds(buffered', x.id) /\ Held(x.id)'
        <3>1. x \in ToSet(unacked)
            BY <1>15, <2>1 DEF IsReal
        <3> QED BY <1>2, <1>22, <2>1, <3>1, FramesParts DEF Chains
    <2> QED BY <2>1 DEF Chains
<1>24. Owed'
    BY <1>2, <1>6, <1>8, <1>18, FramesParts DEF Owed, Carried
<1> QED BY <1>19, <1>20, <1>21, <1>23, <1>24 DEF FramesInv

-----------------------------------------------------------------------------
(***************************************************************************)
(* Queues that lose packets and frames.                                    *)
(***************************************************************************)

(* Queue r is what is left of queue q: the packets whose ids are in I may  *)
(* be gone, and frames of the kinds in G.                                  *)
Thinned(r, q, I, G) ==
    /\ r \in Seq(PacketType)
    /\ Distinct(q) => Distinct(r)
    /\ \A n : Known(q, n) => Known(r, n)
    /\ \A id : Holds(r, id) => Holds(q, id)
    /\ \A id : Holds(q, id) /\ id \notin I => Holds(r, id)
    /\ \A o : Carries(q, o) /\ o[2] \notin G => Carries(r, o)

LEMMA ThinnedThinned ==
    ASSUME NEW r, NEW q, NEW p, NEW I, NEW J, NEW G, NEW H,
           Thinned(r, q, I, G), Thinned(q, p, J, H)
    PROVE  Thinned(r, p, I \cup J, G \cup H)
<1>1. /\ r \in Seq(PacketType) /\ (Distinct(p) => Distinct(r))
      /\ \A n : Known(p, n) => Known(r, n)
    BY DEF Thinned
<1>2. /\ \A id : Holds(r, id) => Holds(p, id)
      /\ \A id : Holds(p, id) /\ id \notin I \cup J => Holds(r, id)
    BY DEF Thinned
<1>3. ASSUME NEW o, Carries(p, o), o[2] \notin G \cup H PROVE Carries(r, o)
    BY <1>3 DEF Thinned
<1> QED BY <1>1, <1>2, <1>3 DEF Thinned

LEMMA LikeThinned ==
    ASSUME NEW r \in Seq(PacketType), NEW q \in Seq(PacketType), Len(r) = Len(q),
           \A i \in 1 .. Len(q) : r[i].id = q[i].id /\ r[i].rec = q[i].rec,
           NEW G, \A i \in 1 .. Len(q) : \A f \in q[i].frames : f \in G \/ f \in r[i].frames
    PROVE  Thinned(r, q, {}, G)
<1>1. /\ \A id : Holds(r, id) <=> Holds(q, id)
      /\ \A o : Carries(q, o) /\ o[2] \notin G => Carries(r, o)
      /\ \A n : Known(q, n) => Known(r, n)
      /\ Distinct(q) => Distinct(r)
    BY LikeHolds
<1> QED BY <1>1 DEF Thinned

LEMMA LeftThinned ==
    ASSUME NEW r, NEW q \in Seq(PacketType), NEW I, LeftOf(r, q, I), NEW G,
           \A x \in ToSet(q) : \A f \in x.frames : f \in G \/ x \in ToSet(r)
    PROVE  Thinned(r, q, I, G)
<1>1. /\ r \in Seq(PacketType) /\ \A x \in ToSet(r) : x \in ToSet(q)
      /\ \A x \in ToSet(q) : x.id \notin I => x \in ToSet(r)
    BY LeftSet
<1>2. Distinct(q) => Distinct(r)
    BY <1>1, LeftEmbeds, DistinctEmbeds
<1>3. \A n : Known(q, n) => Known(r, n)
    BY <1>1 DEF Known
<1>4. \A id : Holds(r, id) => Holds(q, id)
    BY <1>1 DEF Holds
<1>5. \A id : Holds(q, id) /\ id \notin I => Holds(r, id)
    BY <1>1 DEF Holds
<1>6. \A o : Carries(q, o) /\ o[2] \notin G => Carries(r, o)
    BY DEF Carries
<1> QED BY <1>1, <1>2, <1>3, <1>4, <1>5, <1>6 DEF Thinned

LEMMA RestThinned ==
    ASSUME NEW s \in DropType
    PROVE  Thinned(RestAfter(s).q, s.q, {}, {})
<1> DEFINE r == RestAfter(s).q
           q == s.q
           G == {}
<1>1. /\ RestAfter(s) \in QType /\ Len(r) = Len(q)
      /\ \A i \in 1 .. Len(q) : Same(r[i], q[i])
    BY RestFacts DEF DropType
<1>2. r \in Seq(PacketType) /\ q \in Seq(PacketType)
    BY <1>1 DEF QType, DropType
<1>3. /\ \A i \in 1 .. Len(q) : r[i].id = q[i].id /\ r[i].rec = q[i].rec
      /\ \A i \in 1 .. Len(q) : \A f \in q[i].frames : f \in G \/ f \in r[i].frames
    BY <1>1 DEF Same, Like
<1>4. Thinned(r, q, {}, G)
    <2> HIDE DEF r, q, G
    <2> QED BY <1>1, <1>2, <1>3, LikeThinned
<1> QED BY <1>4

LEMMA ElidedThinned ==
    ASSUME NEW q \in Seq(PacketType)
    PROVE  ElidedAll(q) \in Seq(PacketType) /\ Thinned(ElidedAll(q), q, {}, {"stream"})
<1> DEFINE r == ElidedAll(q)
           G == {"stream"}
<1>1. /\ r \in Seq(PacketType) /\ Len(r) = Len(q)
      /\ \A i \in 1 .. Len(q) : r[i] = Elided(q[i])
    BY BytesElided
<1> HIDE DEF r
<1>2. \A i \in 1 .. Len(q) : /\ r[i].id = q[i].id /\ r[i].rec = q[i].rec
                             /\ \A f \in q[i].frames : f \in G \/ f \in r[i].frames
    <2> SUFFICES ASSUME NEW i \in 1 .. Len(q)
                 PROVE  /\ r[i].id = q[i].id /\ r[i].rec = q[i].rec
                        /\ \A f \in q[i].frames : f \in G \/ f \in r[i].frames
        OBVIOUS
    <2>1. q[i] \in PacketType /\ r[i] = Elided(q[i])
        BY <1>1
    <2>2. /\ Elided(q[i]).id = q[i].id /\ Elided(q[i]).rec = q[i].rec
          /\ Elided(q[i]).frames = q[i].frames \ {"stream"}
        BY <2>1, ElidedFacts
    <2> QED BY <2>1, <2>2
<1>3. Thinned(r, q, {}, G)
    <2> HIDE DEF G
    <2> QED BY <1>1, <1>2, LikeThinned
<1> QED BY <1>1, <1>3 DEF r

LEMMA ElidedSchedThinned ==
    ASSUME sched \in QType
    PROVE  /\ Thinned(RestAfter(ElidedSched).q, sched.q, ElidedSched.ids, {"stream"})
           /\ \A id \in ElidedSched.ids : \E y \in ToSet(sched.q) : y.id = id
<1> DEFINE e == ElidedSched
           q == sched.q
           a == ElidedAll(q)
<1>1. q \in Seq(PacketType)
    BY DEF QType
<1>2. /\ e \in DropType /\ LeftOf(e.q, a, e.ids)
      /\ \A k \in 1 .. Len(q) : Elided(q[k]).frames # {} => \E i \in 1 .. Len(e.q) : e.q[i] = Elided(q[k])
      /\ \A id : id \in e.ids <=> \E k \in 1 .. Len(q) : Elided(q[k]).frames = {} /\ q[k].id = id
    BY ElidedSchedFacts
<1>3. a \in Seq(PacketType) /\ Thinned(a, q, {}, {"stream"})
    BY <1>1, ElidedThinned
<1>4. /\ Len(a) = Len(q) /\ \A i \in 1 .. Len(q) : a[i] = Elided(q[i])
    BY <1>1, BytesElided
<1> HIDE DEF e, a, q
<1>5. ASSUME NEW x \in ToSet(a), NEW f \in x.frames PROVE x \in ToSet(e.q)
    <2>1. PICK k \in 1 .. Len(a) : x = a[k]
        BY <1>3, InToSet
    <2>2. k \in 1 .. Len(q) /\ x = Elided(q[k]) /\ Elided(q[k]).frames # {}
        BY <1>4, <1>5, <2>1
    <2>3. PICK i \in 1 .. Len(e.q) : e.q[i] = x
        BY <1>2, <2>2
    <2>4. e.q \in Seq(PacketType)
        BY <1>2 DEF DropType
    <2> QED BY <2>3, <2>4, InToSet
<1>6. Thinned(e.q, a, e.ids, {})
    BY <1>2, <1>3, <1>5, LeftThinned
<1>7. Thinned(RestAfter(e).q, e.q, {}, {})
    BY <1>2, RestThinned
<1>8. Thinned(RestAfter(e).q, a, {} \cup e.ids, {} \cup {})
    BY <1>6, <1>7, ThinnedThinned
<1>9. Thinned(RestAfter(e).q, q, ({} \cup e.ids) \cup {}, ({} \cup {}) \cup {"stream"})
    BY <1>3, <1>8, ThinnedThinned
<1>10. ({} \cup e.ids) \cup {} = e.ids /\ ({} \cup {}) \cup {"stream"} = {"stream"}
    OBVIOUS
<1>11. \A id \in e.ids : \E y \in ToSet(q) : y.id = id
    BY <1>1, <1>2, InToSet
<1> QED BY <1>9, <1>10, <1>11 DEF e, q

LEMMA SqueezedThinned ==
    ASSUME sched \in QType
    PROVE  /\ Thinned(RestAfter(Squeezed).q, sched.q, Squeezed.ids, {"ack"})
           /\ \A id \in Squeezed.ids : \E y \in ToSet(sched.q) : y.id = id
<1> DEFINE e == Squeezed
           q == sched.q
<1>1. q \in Seq(PacketType)
    BY DEF QType
<1>2. PICK r \in Seq(PacketType) :
             /\ e \in DropType /\ e.q = Plain(r)
             /\ LeftOf(r, q, e.ids)
             /\ \A k \in 1 .. Len(q) :
                  HasData(q[k]) => \E i \in 1 .. Len(r) : r[i] = q[k]
             /\ \A id : id \in e.ids <=> \E k \in 1 .. Len(q) : ~HasData(q[k]) /\ q[k].id = id
    BY SqueezedFacts
<1> HIDE DEF e, q
<1>3. ASSUME NEW x \in ToSet(q), NEW f \in x.frames PROVE f \in {"ack"} \/ x \in ToSet(r)
    <2>1. PICK k \in 1 .. Len(q) : x = q[k]
        BY <1>1, InToSet
    <2>2. CASE f # "ack"
        <3>1. HasData(q[k])
            BY <1>3, <2>1, <2>2 DEF HasData
        <3>2. PICK i \in 1 .. Len(r) : r[i] = x
            BY <1>2, <2>1, <3>1
        <3> QED BY <3>2, InToSet
    <2> QED BY <2>2
<1>4. Thinned(r, q, e.ids, {"ack"})
    BY <1>1, <1>2, <1>3, LeftThinned
<1>5. Thinned(Plain(r), r, {}, {})
    <2> DEFINE t == Plain(r)
               G == {}
    <2>1. t \in Seq(PacketType) /\ Len(t) = Len(r) /\ \A i \in 1 .. Len(r) : t[i] = Stripped(r[i])
        BY PlainFacts
    <2> HIDE DEF t
    <2>2. \A i \in 1 .. Len(r) : /\ t[i].id = r[i].id /\ t[i].rec = r[i].rec
                                 /\ \A f \in r[i].frames : f \in G \/ f \in t[i].frames
        <3> SUFFICES ASSUME NEW i \in 1 .. Len(r)
                     PROVE  /\ t[i].id = r[i].id /\ t[i].rec = r[i].rec
                            /\ \A f \in r[i].frames : f \in G \/ f \in t[i].frames
            OBVIOUS
        <3>1. r[i] \in PacketType /\ t[i] = Stripped(r[i])
            BY <2>1
        <3>2. Stripped(r[i]).id = r[i].id /\ Stripped(r[i]).rec = r[i].rec /\ Stripped(r[i]).frames = r[i].frames
            BY <3>1, StrippedFacts
        <3> QED BY <3>1, <3>2
    <2>3. Thinned(t, r, {}, G)
        <3> HIDE DEF G
        <3> QED BY <2>1, <2>2, LikeThinned
    <2> QED BY <2>3 DEF t
<1>6. Thinned(RestAfter(e).q, e.q, {}, {})
    BY <1>2, RestThinned
<1>7. Thinned(RestAfter(e).q, r, {} \cup {}, {} \cup {})
    BY <1>2, <1>5, <1>6, ThinnedThinned
<1>8. Thinned(RestAfter(e).q, q, ({} \cup {}) \cup e.ids, ({} \cup {}) \cup {"ack"})
    BY <1>4, <1>7, ThinnedThinned
<1>9. ({} \cup {}) \cup e.ids = e.ids /\ ({} \cup {}) \cup {"ack"} = {"ack"}
    OBVIOUS
<1>10. \A id \in e.ids : \E y \in ToSet(q) : y.id = id
    BY <1>1, <1>2, InToSet
<1> QED BY <1>8, <1>9, <1>10 DEF e, q

(* A step that takes packets of the Scheduled Queue away, each with its    *)
(* loss chain, and adds at most one packet with a new id.                  *)
LEMMA FramesThin ==
    ASSUME Basic, FramesInv, NEW r, NEW I, NEW J, NEW G,
           Thinned(r, sched.q, I, G), \A id \in I : \E y \in ToSet(sched.q) : y.id = id,
           n_packets' = n_packets \/ n_packets' = n_packets + 1,
           \A id : Holds(sched'.q, id) =>
                Holds(r, id) \/ (n_packets' = n_packets + 1 /\ id = n_packets + 1),
           \A id : Holds(r, id) => Holds(sched'.q, id),
           \A o : Carries(r, o) => Carries(sched'.q, o),
           Known(sched'.q, n_packets'), Distinct(sched'.q),
           unacked' = Without(unacked, I), Thinned(buffered', buffered, J, G),
           UNCHANGED <<batch, lost, owed>>, reset => reset',
           \A f \in G : f = "ack" \/ (f = "stream" /\ reset')
    PROVE  FramesInv'
<1>1. QueuesOK /\ n_packets \in Nat /\ unacked \in Seq(PacketType)
    BY BasicParts DEF Numbers, QueuesOK
<1>2. /\ \A q : Known(q, n_packets) => Known(q, n_packets') /\ ~Holds(q, n_packets + 1)
      /\ ~Held(n_packets + 1)
      /\ \A x \in ToSet(unacked) : x.rec # "poison" => x.id \in 1 .. n_packets'
    BY <1>1, FramesParts, Fresh
<1>3. /\ \A x : x \in ToSet(unacked') <=> x \in ToSet(unacked) /\ x.id \notin I
      /\ \A id : Holds(unacked', id) <=> Holds(unacked, id) /\ id \notin I
      /\ \A o : Carries(unacked', o) <=> Carries(unacked, o) /\ o[1] \notin I
      /\ Distinct(unacked')
    BY <1>1, WithoutHolds, FramesParts
<1>4. \A id \in I : Holds(sched.q, id)
    BY FramesParts DEF Known, Holds
<1>5. AllKnown'
    <2>1. Known(batch, n_packets') /\ Known(lost, n_packets') /\ Known(buffered', n_packets')
        BY <1>2, FramesParts DEF Thinned
    <2>2. \A x \in ToSet(unacked') : x.rec # "poison" => x.id \in 1 .. n_packets'
        BY <1>2, <1>3
    <2> QED BY <2>1, <2>2 DEF AllKnown
<1>6. AllDistinct'
    BY <1>3, FramesParts DEF AllDistinct, Thinned
<1>7. AllApart'
    <2>1. ASSUME NEW id, Holds(sched'.q, id)
          PROVE  ~Holds(batch, id) /\ ~Holds(lost, id) /\ ~Holds(buffered, id) /\ ~Holds(unacked, id)
        <3>1. CASE Holds(r, id)
            <4>1. Holds(sched.q, id)
                BY <3>1 DEF Thinned
            <4> QED BY <4>1, FramesParts DEF AllApart, Apart
        <3>2. CASE id = n_packets + 1
            BY <1>2, <3>2 DEF Held
        <3> QED BY <2>1, <3>1, <3>2
    <2>2. \A id : Holds(buffered', id) => Holds(buffered, id)
        BY DEF Thinned
    <2>3. \A id : Holds(unacked', id) => Holds(unacked, id)
        BY <1>3
    <2>4. /\ Apart(sched'.q, batch') /\ Apart(sched'.q, lost') /\ Apart(sched'.q, buffered')
          /\ Apart(sched'.q, unacked')
        BY <2>1, <2>2, <2>3 DEF Apart
    <2>5. /\ Apart(batch', lost') /\ Apart(batch', buffered')
          /\ Apart(batch', unacked') /\ Apart(lost', buffered') /\ Apart(lost', unacked')
          /\ Apart(buffered', unacked')
        BY <2>2, <2>3, FramesParts DEF AllApart, Apart
    <2> QED BY <2>4, <2>5 DEF AllApart
<1>8. Chains'
    <2>1. ASSUME NEW x \in ToSet(unacked'), x.rec = "record"
          PROVE  ~Holds(buffered', x.id) /\ Held(x.id)'
        <3>1. x \in ToSet(unacked) /\ x.id \notin I
            BY <1>3
        <3>2. ~Holds(buffered, x.id) /\ Held(x.id)
            BY <2>1, <3>1, FramesParts DEF Chains
        <3>3. ~Holds(buffered', x.id)
            BY <3>2 DEF Thinned
        <3>4. Holds(sched.q, x.id) => Holds(sched'.q, x.id)
            BY <3>1 DEF Thinned
        <3>5. Holds(unacked, x.id) => Holds(unacked', x.id)
            BY <1>3, <3>1
        <3> QED BY <3>2, <3>3, <3>4, <3>5 DEF Held
    <2> QED BY <2>1 DEF Chains
<1>9. Owed'
    <2>1. ASSUME NEW o \in owed PROVE o[2] # "ack" /\ ((o[2] = "stream" /\ reset') \/ Carried(o)')
        <3>1. o[2] # "ack" /\ ((o[2] = "stream" /\ reset) \/ Carried(o))
            BY FramesParts DEF Owed
        <3>2. CASE o[2] = "stream" /\ reset'
            BY <3>1, <3>2
        <3>3. CASE ~(o[2] = "stream" /\ reset')
            <4>1. Carried(o) /\ o[2] \notin G
                BY <3>1, <3>3
            <4>2. Carries(sched.q, o) => Carries(sched'.q, o)
                BY <4>1 DEF Thinned
            <4>3. Carries(buffered, o) => Carries(buffered', o)
                BY <4>1 DEF Thinned
            <4>4. Carries(unacked, o) => Carries(unacked', o)
                <5>1. SUFFICES ASSUME Carries(unacked, o) PROVE Carries(unacked', o)
                    OBVIOUS
                <5>2. Holds(unacked, o[1])
                    BY <5>1 DEF Carries, Holds
                <5>3. o[1] \notin I
                    BY <1>4, <5>2, FramesParts DEF AllApart, Apart
                <5> QED BY <1>3, <5>1, <5>3
            <4> QED BY <3>1, <4>1, <4>2, <4>3, <4>4 DEF Carried
        <3> QED BY <3>2, <3>3
    <2> QED BY <2>1 DEF Owed
<1> QED BY <1>5, <1>6, <1>7, <1>8, <1>9 DEF FramesInv

LEMMA FramesReset ==
    ASSUME Basic, FramesInv, ResetStream
    PROVE  FramesInv'
<1>1. QueuesOK /\ sched \in QType /\ buffered \in Seq(PacketType)
    BY BasicParts DEF QueuesOK
<1> DEFINE s == ElidedSched
           e == ElidedAll(buffered)
           J == {x.id : x \in ToSet(e)}
           G == {"stream"}
<1>2. /\ sched' = RestAfter(s) /\ unacked' = Without(unacked, s.ids)
      /\ buffered' = WithFrames(e) /\ reset' = TRUE
      /\ UNCHANGED <<batch, lost, owed, n_packets>>
    BY DEF ResetStream, ElideStreamFrames, ghost
<1>3. /\ Thinned(RestAfter(s).q, sched.q, s.ids, G)
      /\ \A id \in s.ids : \E y \in ToSet(sched.q) : y.id = id
    BY <1>1, ElidedSchedThinned
<1>4. e \in Seq(PacketType) /\ Thinned(e, buffered, {}, G)
    BY <1>1, ElidedThinned
<1> HIDE DEF s, e
<1>5. Thinned(buffered', e, J, {})
    <2> DEFINE S == {p \in ToSet(e) : p.frames # {}}
               b == Only(e, S)
    <2>1. IsOnly(b, PacketType, e, S)
        BY <1>4, OnlyFacts
    <2>2. b \in Seq(PacketType) /\ \A x : x \in ToSet(b) <=> x \in ToSet(e) /\ x \in S
        BY <1>4, OnlySet
    <2>3. buffered' = b
        BY <1>2 DEF WithFrames
    <2>4. \A x \in ToSet(e) : \A f \in x.frames : f \in {} \/ x \in ToSet(b)
        BY <2>2
    <2>5. \A k \in 1 .. Len(e) : e[k].id \in J
        BY <1>4, InToSet
    <2> HIDE DEF b, S, J
    <2>6. LeftOf(b, e, J)
        BY <2>1, <2>2, <2>5 DEF IsOnly, LeftOf
    <2> QED BY <1>4, <2>3, <2>4, <2>6, LeftThinned
<1>6. Thinned(buffered', buffered, J \cup {}, {} \cup G)
    BY <1>4, <1>5, ThinnedThinned
<1>7. {} \cup G = G
    OBVIOUS
<1>8. Known(sched'.q, n_packets') /\ Distinct(sched'.q)
    BY <1>2, <1>3, FramesParts DEF Thinned
<1>9. \A f \in G : f = "ack" \/ (f = "stream" /\ reset')
    BY <1>2
<1> HIDE DEF G, J
<1> QED BY <1>2, <1>3, <1>6, <1>7, <1>8, <1>9, FramesThin

LEMMA FramesTick ==
    ASSUME Basic, FramesInv, NEW with_ack \in BOOLEAN, Tick(with_ack)
    PROVE  FramesInv'
<1>1. Numbers /\ QueuesOK /\ sched \in QType /\ buffered \in Seq(PacketType) /\ n_packets \in Nat
    BY BasicParts DEF QueuesOK, Numbers
<1> DEFINE s == Squeezed
           rest == RestAfter(s)
           delayed == s.q # << >>
           c == IF delayed /\ with_ack THEN largest ELSE CurAfter(s)
           no == IF c + 1 = gap THEN c + 2 ELSE c + 1
           p == Packet(no, n_packets', {"ack"})
           G == {"ack"}
<1>2. /\ unacked' = Without(unacked, s.ids)
      /\ IF with_ack
         THEN /\ n_packets' = n_packets + 1
              /\ sched' = IF delayed THEN AckToFront(rest, no, n_packets')
                          ELSE SchedAppend(rest, p)
         ELSE /\ sched' = rest
              /\ UNCHANGED n_packets
      /\ UNCHANGED <<batch, lost, owed, buffered, reset>>
    BY DEF Tick, ghost
<1>3. /\ Thinned(rest.q, sched.q, s.ids, G)
      /\ \A id \in s.ids : \E y \in ToSet(sched.q) : y.id = id
    BY <1>1, SqueezedThinned
<1>4. s \in DropType
    BY <1>1, SqueezedFacts
<1>5. c \in Int /\ no \in Int
    BY <1>1 DEF Numbers, CurAfter
<1>6. AckToFront(rest, no, n_packets') = SchedPrepend(ResetPacknos(rest), p)
    BY DEF AckToFront
<1>7. IsReal(p) /\ p.id = n_packets' /\ (n_packets' = n_packets + 1 => p \in PacketType)
    <2>1. {"ack"} \in SUBSET Frames
        BY DEF Frames
    <2>2. n_packets' = n_packets + 1 => n_packets' \in Nat
        BY <1>1
    <2> HIDE DEF no
    <2>3. n_packets' = n_packets + 1 => p \in PacketType
        BY <1>5, <2>1, <2>2, PacketFacts
    <2>4. IsReal(p) /\ p.id = n_packets'
        BY DEF Packet, IsReal
    <2> QED BY <2>3, <2>4
<1> HIDE DEF s, c, no
<1>8. rest \in QType
    BY <1>4, RestFacts DEF DropType
<1> HIDE DEF rest, delayed, p
<1>9. Thinned(buffered', buffered, {}, G)
    BY <1>1, <1>2 DEF Thinned
<1>10. /\ Known(rest.q, n_packets) /\ Distinct(rest.q) /\ rest.q \in Seq(PacketType)
       /\ ~Holds(rest.q, n_packets + 1) /\ Known(rest.q, n_packets + 1)
       /\ n_packets + 1 \in 1 .. n_packets + 1
    BY <1>1, <1>3, FramesParts, Fresh DEF Thinned
<1>11. CASE ~with_ack
    <2>1. sched' = rest /\ n_packets' = n_packets
        BY <1>2, <1>11
    <2>2. Known(sched'.q, n_packets') /\ Distinct(sched'.q)
        BY <1>10, <2>1
    <2>3. \A f \in G : f = "ack" \/ (f = "stream" /\ reset')
        OBVIOUS
    <2> HIDE DEF G
    <2> QED BY <1>2, <1>3, <1>9, <2>1, <2>2, <2>3, FramesThin
<1>12. ASSUME with_ack,
              \A id : Holds(sched'.q, id) <=> Holds(rest.q, id) \/ id = n_packets + 1,
              \A o : Carries(rest.q, o) => Carries(sched'.q, o),
              Known(sched'.q, n_packets + 1), Distinct(sched'.q)
       PROVE  FramesInv'
    <2>1. n_packets' = n_packets + 1
        BY <1>2, <1>12
    <2>2. \A f \in G : f = "ack" \/ (f = "stream" /\ reset')
        OBVIOUS
    <2>3. Known(sched'.q, n_packets')
        BY <1>12, <2>1
    <2> HIDE DEF G
    <2> QED BY <1>2, <1>3, <1>9, <1>12, <2>1, <2>2, <2>3, FramesThin
<1>13. CASE with_ack /\ delayed
    <2> DEFINE t == ResetPacknos(rest).q
               q == rest.q
               N == {}
    <2>1. sched' = SchedPrepend(ResetPacknos(rest), p) /\ n_packets' = n_packets + 1
        BY <1>2, <1>6, <1>13
    <2>2. sched'.q = <<p>> \o t
        BY <2>1 DEF SchedPrepend
    <2>3. /\ ResetPacknos(rest) \in QType /\ Len(t) = Len(q)
          /\ \A i \in 1 .. Len(q) : Same(t[i], q[i])
        BY <1>8, ResetFacts
    <2>4. t \in Seq(PacketType) /\ q \in Seq(PacketType)
        BY <1>10, <2>3 DEF QType
    <2>5. /\ \A i \in 1 .. Len(q) : t[i].id = q[i].id /\ t[i].rec = q[i].rec
          /\ \A i \in 1 .. Len(q) : \A f \in q[i].frames : f \in N \/ f \in t[i].frames
        BY <2>3 DEF Same, Like
    <2> HIDE DEF t
    <2>6. /\ \A id : Holds(t, id) <=> Holds(q, id)
          /\ \A o : Carries(q, o) /\ o[2] \notin N => Carries(t, o)
          /\ \A n : Known(q, n) => Known(t, n)
          /\ Distinct(q) => Distinct(t)
        <3> HIDE DEF N, q
        <3> QED BY <2>3, <2>4, <2>5, LikeHolds
    <2>7. p \in PacketType /\ p.id = n_packets + 1
        BY <1>7, <2>1
    <2>8. /\ <<p>> \in Seq(PacketType) /\ Distinct(<<p>>)
          /\ \A id : Holds(<<p>>, id) <=> id = p.id
          /\ \A n : Known(<<p>>, n) <=> p.id \in 1 .. n
        BY <1>7, <2>7, OneHolds
    <2>9. Apart(<<p>>, t)
        BY <1>10, <2>6, <2>7, <2>8 DEF Apart
    <2>10. /\ \A id : Holds(<<p>> \o t, id) <=> Holds(<<p>>, id) \/ Holds(t, id)
           /\ \A o : Carries(<<p>> \o t, o) <=> Carries(<<p>>, o) \/ Carries(t, o)
           /\ \A n : Known(<<p>> \o t, n) <=> Known(<<p>>, n) /\ Known(t, n)
           /\ Distinct(<<p>>) /\ Distinct(t) /\ Apart(<<p>>, t) => Distinct(<<p>> \o t)
        BY <2>4, <2>8, ConcatHolds
    <2>11. \A id : Holds(sched'.q, id) <=> Holds(rest.q, id) \/ id = n_packets + 1
        BY <2>2, <2>6, <2>7, <2>8, <2>10
    <2>12. \A o : Carries(rest.q, o) => Carries(sched'.q, o)
        BY <2>2, <2>6, <2>10
    <2>13. Known(sched'.q, n_packets + 1) /\ Distinct(sched'.q)
        BY <1>10, <2>2, <2>6, <2>7, <2>8, <2>9, <2>10
    <2> QED BY <1>12, <1>13, <2>11, <2>12, <2>13
<1>14. CASE with_ack /\ ~delayed
    <2>1. sched' = SchedAppend(rest, p) /\ n_packets' = n_packets + 1
        BY <1>2, <1>14
    <2>2. sched'.q = Append(rest.q, p)
        BY <2>1 DEF SchedAppend
    <2>3. p \in PacketType /\ p.id = n_packets + 1
        BY <1>7, <2>1
    <2>4. /\ \A id : Holds(sched'.q, id) <=> Holds(rest.q, id) \/ id = p.id
          /\ \A o : Carries(sched'.q, o) <=> Carries(rest.q, o) \/ (o[1] = p.id /\ o[2] \in p.frames)
          /\ \A n : Known(sched'.q, n) <=> Known(rest.q, n) /\ p.id \in 1 .. n
          /\ Distinct(rest.q) /\ ~Holds(rest.q, p.id) => Distinct(sched'.q)
        BY <1>7, <1>10, <2>2, <2>3, AppendHolds
    <2>5. Known(sched'.q, n_packets + 1) /\ Distinct(sched'.q)
        BY <1>10, <2>3, <2>4
    <2>6. \A id : Holds(sched'.q, id) <=> Holds(rest.q, id) \/ id = n_packets + 1
        BY <2>3, <2>4
    <2>7. \A o : Carries(rest.q, o) => Carries(sched'.q, o)
        BY <2>4
    <2> QED BY <1>12, <1>14, <2>5, <2>6, <2>7
<1> QED BY <1>11, <1>13, <1>14

LEMMA KeptHolds ==
    ASSUME NEW q \in Seq(PacketType), NEW r, NEW I, Kept(r, q, I)
    PROVE  /\ Distinct(q) => Distinct(r)
           /\ \A n : Known(q, n) => Known(r, n)
           /\ \A id : Holds(r, id) => Holds(q, id)
           /\ \A id : Holds(q, id) /\ id \notin I => Holds(r, id)
           /\ \A o : Carries(q, o) /\ o[1] \notin I => Carries(r, o)
<1>1. r \in Seq(PacketType)
    BY DEF Kept
<1>2. Distinct(q) => Distinct(r)
    BY <1>1, KeptEmbeds, DistinctEmbeds
<1>3. ASSUME NEW x \in ToSet(r) PROVE \E y \in ToSet(q) : x.id = y.id /\ x.rec = y.rec
    <2>1. PICK i \in 1 .. Len(r) : x = r[i]
        BY <1>1, InToSet
    <2>2. PICK k \in 1 .. Len(q) : Like(r[i], q[k])
        BY DEF Kept
    <2>3. q[k] \in ToSet(q)
        BY InToSet
    <2> QED BY <2>1, <2>2, <2>3 DEF Like
<1>4. ASSUME NEW y \in ToSet(q), y.id \notin I
      PROVE  \E x \in ToSet(r) : x.id = y.id /\ x.rec = y.rec /\ x.frames = y.frames
    <2>1. PICK k \in 1 .. Len(q) : y = q[k]
        BY InToSet
    <2>2. PICK i \in 1 .. Len(r) : Like(r[i], q[k])
        BY <1>4, <2>1 DEF Kept
    <2>3. r[i] \in ToSet(r)
        BY <1>1, InToSet
    <2> QED BY <2>1, <2>2, <2>3 DEF Like
<1>5. \A n : Known(q, n) => Known(r, n)
    BY <1>3 DEF Known, IsReal
<1>6. \A id : Holds(r, id) => Holds(q, id)
    BY <1>3 DEF Holds, IsReal
<1>7. \A id : Holds(q, id) /\ id \notin I => Holds(r, id)
    BY <1>4 DEF Holds, IsReal
<1>8. ASSUME NEW o, Carries(q, o), o[1] \notin I PROVE Carries(r, o)
    <2>1. PICK y \in ToSet(q) : IsReal(y) /\ y.id = o[1] /\ o[2] \in y.frames
        BY <1>8 DEF Carries
    <2>2. PICK x \in ToSet(r) : x.id = y.id /\ x.rec = y.rec /\ x.frames = y.frames
        BY <1>4, <1>8, <2>1
    <2> QED BY <2>1, <2>2 DEF Carries, IsReal
<1> QED BY <1>2, <1>5, <1>6, <1>7, <1>8

(* The loss chains of I are acknowledged, and the packets of L, which are  *)
(* not of them, are declared lost.                                         *)
LEMMA FramesLoss ==
    ASSUME Basic, FramesInv, NEW I, NEW L, NEW left, NEW u, NEW w,
           left = Without(unacked, I), \A x \in L : x \in ToSet(left) /\ IsReal(x),
           IsRecorded(u, left, L), IsLost(w, left, L), w \in Seq(PacketType),
           Distinct(u) => Distinct(unacked'), \A x \in ToSet(unacked') : x \in ToSet(u),
           \A x \in ToSet(u) : x.rec # "poison" => x \in ToSet(unacked'),
           lost' = Without(lost, I) \o w, Kept(sched'.q, sched.q, I),
           \A o \in owed' : o \in owed /\ o[1] \notin I,
           UNCHANGED <<batch, buffered, reset, n_packets>>
    PROVE  FramesInv'
<1>1. QueuesOK /\ n_packets \in Nat /\ unacked \in Seq(PacketType) /\ lost \in Seq(PacketType)
      /\ sched.q \in Seq(PacketType)
    BY BasicParts DEF Numbers, QueuesOK, QType
<1>2. /\ left \in Seq(PacketType) /\ Distinct(left)
      /\ \A x : x \in ToSet(left) <=> x \in ToSet(unacked) /\ x.id \notin I
      /\ \A id : Holds(left, id) <=> Holds(unacked, id) /\ id \notin I
      /\ \A o : Carries(left, o) <=> Carries(unacked, o) /\ o[1] \notin I
    BY <1>1, WithoutHolds, FramesParts
<1> DEFINE rest == Without(lost, I)
<1>3. /\ rest \in Seq(PacketType) /\ Distinct(rest) /\ Known(rest, n_packets)
      /\ \A id : Holds(rest, id) <=> Holds(lost, id) /\ id \notin I
      /\ \A o : Carries(rest, o) <=> Carries(lost, o) /\ o[1] \notin I
    BY <1>1, WithoutHolds, FramesParts
<1> HIDE DEF rest
<1>4. /\ Distinct(u) /\ Distinct(w)
      /\ \A id : Holds(u, id) => Holds(left, id) /\ ~Holds(w, id)
      /\ \A id : Holds(w, id) => Holds(left, id)
      /\ \A x \in ToSet(w) : IsReal(x) /\ x \in ToSet(left)
      /\ \A x \in ToSet(u) : \E y \in ToSet(left) :
           x.id = y.id /\ (x.rec = "poison" <=> y.rec = "poison")
      /\ \A x \in ToSet(u) : x.rec = "record" =>
           \/ Holds(left, x.id) /\ Holds(w, x.id)
           \/ /\ \E y \in ToSet(left) : y.id = x.id /\ y.rec = "record"
              /\ Holds(left, x.id) => Holds(u, x.id) \/ Holds(w, x.id)
      /\ \A o : Carries(left, o) /\ o[2] # "ack" => Carries(u, o) \/ Carries(w, o)
    BY <1>2, LossKeeps
<1>5. /\ \A id : Holds(u, id) <=> Holds(unacked', id)
      /\ \A o : Carries(u, o) <=> Carries(unacked', o)
    <2>1. \A x \in ToSet(u) : IsReal(x) => x \in ToSet(unacked')
        BY DEF IsReal
    <2> QED BY <2>1 DEF Holds, Carries
<1>6. /\ Distinct(sched'.q) /\ Known(sched'.q, n_packets)
      /\ \A id : Holds(sched'.q, id) => Holds(sched.q, id)
      /\ \A id : Holds(sched.q, id) /\ id \notin I => Holds(sched'.q, id)
      /\ \A o : Carries(sched.q, o) /\ o[1] \notin I => Carries(sched'.q, o)
    BY <1>1, KeptHolds, FramesParts
<1>7. Apart(rest, w)
    BY <1>2, <1>3, <1>4, FramesParts DEF AllApart, Apart
<1>8. Known(w, n_packets)
    <2>1. \A x \in ToSet(w) : IsReal(x) /\ x \in ToSet(unacked) /\ x.rec # "poison"
        BY <1>2, <1>4 DEF IsReal
    <2> QED BY <2>1, FramesParts DEF Known
<1>9. /\ \A id : Holds(lost', id) <=> Holds(rest, id) \/ Holds(w, id)
      /\ \A o : Carries(lost', o) <=> Carries(rest, o) \/ Carries(w, o)
      /\ Known(lost', n_packets) /\ Distinct(lost')
    <2>1. /\ \A id : Holds(rest \o w, id) <=> Holds(rest, id) \/ Holds(w, id)
          /\ \A o : Carries(rest \o w, o) <=> Carries(rest, o) \/ Carries(w, o)
          /\ \A n : Known(rest \o w, n) <=> Known(rest, n) /\ Known(w, n)
          /\ Distinct(rest) /\ Distinct(w) /\ Apart(rest, w) => Distinct(rest \o w)
        BY <1>3, ConcatHolds
    <2>2. lost' = rest \o w
        BY DEF rest
    <2> QED BY <1>3, <1>4, <1>7, <1>8, <2>1, <2>2
<1>10. AllKnown'
    <2>1. ASSUME NEW x \in ToSet(unacked'), x.rec # "poison" PROVE x.id \in 1 .. n_packets
        <3>1. PICK y \in ToSet(left) : x.id = y.id /\ (x.rec = "poison" <=> y.rec = "poison")
            BY <1>4
        <3>2. y \in ToSet(unacked) /\ y.rec # "poison"
            BY <1>2, <2>1, <3>1
        <3> QED BY <3>1, <3>2, FramesParts
    <2> QED BY <1>6, <1>9, <2>1, FramesParts DEF AllKnown
<1>11. AllDistinct'
    BY <1>4, <1>6, <1>9, FramesParts DEF AllDistinct
<1>12. AllApart'
    <2>1. \A id : Holds(unacked', id) => Holds(unacked, id) /\ ~Holds(lost', id)
        <3>1. ASSUME NEW id, Holds(unacked', id) PROVE Holds(unacked, id) /\ ~Holds(lost', id)
            <4>1. Holds(u, id) /\ Holds(left, id) /\ ~Holds(w, id) /\ Holds(unacked, id)
                BY <1>2, <1>4, <1>5, <3>1
            <4>2. ~Holds(lost, id)
                BY <4>1, FramesParts DEF AllApart, Apart
            <4> QED BY <1>3, <1>9, <4>1, <4>2
        <3> QED BY <3>1
    <2>2. \A id : Holds(lost', id) => Holds(lost, id) \/ Holds(unacked, id)
        BY <1>2, <1>3, <1>4, <1>9
    <2>3. /\ Apart(sched'.q, batch') /\ Apart(sched'.q, lost') /\ Apart(sched'.q, buffered')
          /\ Apart(sched'.q, unacked')
        BY <1>6, <2>1, <2>2, FramesParts DEF AllApart, Apart
    <2>4. /\ Apart(batch', lost') /\ Apart(batch', buffered')
          /\ Apart(batch', unacked') /\ Apart(lost', buffered')
          /\ Apart(buffered', unacked')
        BY <2>1, <2>2, FramesParts DEF AllApart, Apart
    <2>5. Apart(lost', unacked')
        BY <2>1 DEF Apart
    <2> QED BY <2>3, <2>4, <2>5 DEF AllApart
<1>13. Chains'
    <2>1. ASSUME NEW x \in ToSet(unacked'), x.rec = "record"
          PROVE  ~Holds(buffered', x.id) /\ Held(x.id)'
        <3>1. x \in ToSet(u)
            OBVIOUS
        <3>2. CASE Holds(left, x.id) /\ Holds(w, x.id)
            <4>1. Holds(unacked, x.id) /\ Holds(lost', x.id)
                BY <1>2, <1>9, <3>2
            <4>2. ~Holds(buffered, x.id)
                BY <4>1, FramesParts DEF AllApart, Apart
            <4> QED BY <4>1, <4>2 DEF Held
        <3>3. CASE /\ \E y \in ToSet(left) : y.id = x.id /\ y.rec = "record"
                   /\ Holds(left, x.id) => Holds(u, x.id) \/ Holds(w, x.id)
            <4>1. PICK y \in ToSet(left) : y.id = x.id /\ y.rec = "record"
                BY <3>3
            <4>2. y \in ToSet(unacked) /\ x.id \notin I
                BY <1>2, <4>1
            <4>3. ~Holds(buffered, x.id) /\ Held(x.id)
                BY <4>1, <4>2, FramesParts DEF Chains
            <4>4. Holds(sched.q, x.id) => Holds(sched'.q, x.id)
                BY <1>6, <4>2
            <4>5. Holds(lost, x.id) => Holds(lost', x.id)
                BY <1>3, <1>9, <4>2
            <4>6. Holds(unacked, x.id) => Holds(unacked', x.id) \/ Holds(lost', x.id)
                BY <1>2, <1>5, <1>9, <3>3, <4>2
            <4> QED BY <4>3, <4>4, <4>5, <4>6 DEF Held
        <3> QED BY <1>4, <2>1, <3>1, <3>2, <3>3
    <2> QED BY <2>1 DEF Chains
<1>14. Owed'
    <2>1. ASSUME NEW o \in owed' PROVE o[2] # "ack" /\ ((o[2] = "stream" /\ reset') \/ Carried(o)')
        <3>1. o \in owed /\ o[1] \notin I
            OBVIOUS
        <3>2. o[2] # "ack" /\ ((o[2] = "stream" /\ reset) \/ Carried(o))
            BY <3>1, FramesParts DEF Owed
        <3>3. Carries(sched.q, o) => Carries(sched'.q, o)
            BY <1>6, <3>1
        <3>4. Carries(lost, o) => Carries(lost', o)
            BY <1>3, <1>9, <3>1
        <3>5. Carries(unacked, o) => Carries(unacked', o) \/ Carries(lost', o)
            BY <1>2, <1>4, <1>5, <1>9, <3>1, <3>2
        <3> QED BY <3>2, <3>3, <3>4, <3>5 DEF Carried
    <2> QED BY <2>1 DEF Owed
<1> QED BY <1>10, <1>11, <1>12, <1>13, <1>14 DEF FramesInv

LEMMA WithoutNone ==
    ASSUME NEW q \in Seq(PacketType)
    PROVE  Without(q, {}) = q
<1> DEFINE S == {p \in ToSet(q) : p.id \notin {}}
<1>1. IsOnly(Only(q, S), PacketType, q, S)
    BY OnlyFacts
<1>2. \A k \in 1 .. Len(q) : q[k] \in S
    BY InToSet
<1> HIDE DEF S
<1>3. Only(q, S) = q
    BY <1>1, <1>2 DEF IsOnly
<1> QED BY <1>3 DEF Without, S

LEMMA FramesRing ==
    ASSUME Basic, FramesInv, RetxAlarmRings
    PROVE  FramesInv'
<1>1. QueuesOK /\ unacked \in Seq(PacketType) /\ lost \in Seq(PacketType) /\ sched.q \in Seq(PacketType)
    BY BasicParts DEF QueuesOK, QType
<1>2. PICK L, w :
        /\ \A x \in L : x \in ToSet(unacked) /\ IsReal(x)
        /\ IsRecorded(unacked', unacked, L) /\ unacked' \in Seq(PacketType)
        /\ IsLost(w, unacked, L) /\ w \in Seq(PacketType) /\ lost' = lost \o w
    BY <1>1, RingsFacts
<1>3. UNCHANGED <<sched, batch, buffered, reset, n_packets, owed>>
    BY DEF RetxAlarmRings, ghost
<1>4. Without(unacked, {}) = unacked /\ Without(lost, {}) = lost
    BY <1>1, WithoutNone
<1>5. Kept(sched'.q, sched.q, {})
    <2>1. \A i \in 1 .. Len(sched.q) : Like(sched.q[i], sched.q[i])
        BY DEF Like
    <2> QED BY <1>1, <1>3, <2>1, SameIsKept
<1> DEFINE I == {}
<1>6. /\ unacked = Without(unacked, I) /\ lost' = Without(lost, I) \o w
      /\ Kept(sched'.q, sched.q, I) /\ \A o \in owed' : o \in owed /\ o[1] \notin I
    BY <1>2, <1>3, <1>4, <1>5
<1> HIDE DEF I
<1>7. FramesInv'
    BY <1>2, <1>3, <1>6, FramesLoss
<1> QED BY <1>7

LEMMA FramesAck ==
    ASSUME Basic, FramesInv, NEW A \in SUBSET (0 .. MaxPackno), GotAck(A)
    PROVE  FramesInv'
<1>1. Numbers /\ QueuesOK
    BY BasicParts
<1>2. UNCHANGED <<batch, buffered, reset, n_packets>>
    BY <1>1, GotAckFacts
<1>3. CASE UNCHANGED <<sched, unacked, lost, owed>>
    BY <1>2, <1>3, FramesSame
<1>4. CASE \E L, ids, left, u, w, s : AckTaken(A, L, ids, left, u, w, s)
    <2>1. PICK L, ids, left, u, w, s : AckTaken(A, L, ids, left, u, w, s)
        BY <1>4
    <2> DEFINE I == ToSet(ids)
    <2>2. /\ left = Without(unacked, I) /\ \A x \in L : x \in ToSet(left) /\ IsReal(x)
          /\ u \in Seq(PacketType) /\ IsRecorded(u, left, L)
          /\ w \in Seq(PacketType) /\ IsLost(w, left, L)
          /\ ids \in Seq(Nat) /\ s = DropAllAcked(ids)
          /\ sched' = [q |-> s.q, bytes |-> s.bytes]
          /\ lost' = Without(lost, I) \o w
          /\ owed' = {o \in owed : o[1] \notin I}
          /\ \/ unacked' = u
             \/ unacked' = Only(u, {p \in ToSet(u) : p.rec # "poison"})
        BY <2>1 DEF AckTaken
    <2>3. \A o \in owed' : o \in owed /\ o[1] \notin I
        BY <2>2
    <2>4. /\ unacked' \in Seq(PacketType)
          /\ \A x \in ToSet(unacked') : x \in ToSet(u)
          /\ \A x \in ToSet(u) : x.rec # "poison" => x \in ToSet(unacked')
        BY <1>1, <2>1, AckTakenSet
    <2>5. Distinct(u) => Distinct(unacked')
        <3>1. CASE unacked' = u
            BY <3>1
        <3>2. CASE unacked' = Only(u, {p \in ToSet(u) : p.rec # "poison"})
            <4>1. Embeds(unacked', u)
                BY <2>2, <3>2, OnlyEmbeds
            <4> QED BY <2>2, <2>4, <4>1, DistinctEmbeds
        <3> QED BY <2>2, <3>1, <3>2
    <2>6. Kept(sched'.q, sched.q, I)
        <3>1. sched \in [q : Seq(PacketType), bytes : Int] /\ cur \in Int
            BY <1>1 DEF QueuesOK, QType, Numbers
        <3>2. Kept(DropAllAcked(ids).q, sched.q, ToSet(ids))
            BY <2>2, <3>1, DropAllAckedFacts
        <3>3. sched'.q = s.q
            BY <2>2
        <3> QED BY <2>2, <3>2, <3>3
    <2> HIDE DEF I
    <2> QED BY <1>2, <2>2, <2>3, <2>4, <2>5, <2>6, FramesLoss
<1> QED BY <1>1, <1>3, <1>4, GotAckFacts

-----------------------------------------------------------------------------
(***************************************************************************)
(* Theorems on frames.                                                     *)
(***************************************************************************)

LEMMA FramesStep ==
    ASSUME Basic, FramesInv, [Next]_vars
    PROVE  FramesInv'
<1>1. CASE UNCHANGED vars
    BY <1>1, FramesSame DEF vars, ghost
<1>2. ASSUME NEW A \in SUBSET (0 .. MaxPackno), GotAck(A) PROVE FramesInv'
    BY <1>2, FramesAck
<1>3. CASE RetxAlarmRings
    BY <1>3, FramesRing
<1>4. CASE ResetStream
    BY <1>4, FramesReset
<1>5. ASSUME NEW f \in Kinds, WriteFrame(f) PROVE FramesInv'
    BY <1>5, FramesWrite
<1>6. ASSUME NEW f \in Kinds, NEW with_ack \in BOOLEAN, WriteBuffered(f, with_ack) PROVE FramesInv'
    BY <1>6, FramesWriteBuffered
<1>7. ASSUME NEW with_ack \in BOOLEAN, Tick(with_ack) PROVE FramesInv'
    BY <1>7, FramesTick
<1>8. CASE PacerBlocked
    BY <1>8, FramesSame DEF PacerBlocked, ghost
<1>9. CASE SendUnsent
    BY <1>9, FramesSame DEF SendUnsent, ghost
<1>10. CASE RescheduleLost
    BY <1>10, FramesReschedule
<1>11. CASE WriteStreams
    BY <1>11, FramesSame DEF WriteStreams, ghost
<1>12. ASSUME NEW out_of_order \in BOOLEAN, ScheduleBuffered(out_of_order) PROVE FramesInv'
    BY <1>12, FramesScheduleBuffered
<1>13. CASE EndWrite
    BY <1>13, FramesSame DEF EndWrite, ghost
<1>14. CASE NextPacketToSend
    BY <1>14, FramesNextPacket
<1>15. ASSUME NEW k \in 0 .. MaxPackets, SendBatch(k) PROVE FramesInv'
    BY <1>15, FramesSend
<1> QED BY <1>1, <1>2, <1>3, <1>4, <1>5, <1>6, <1>7, <1>8, <1>9, <1>10, <1>11, <1>12,
           <1>13, <1>14, <1>15 DEF Next

(* A packet in play is a real packet of one of the queues.                 *)
LEMMA InPlayAre ==
    ASSUME QueuesOK
    PROVE  \A p : p \in InPlay <=>
             /\ IsReal(p)
             /\ \/ p \in ToSet(sched.q) \/ p \in ToSet(batch) \/ p \in ToSet(lost)
                \/ p \in ToSet(buffered) \/ p \in ToSet(unacked)
<1>1. ASSUME NEW q \in Seq(PacketType), NEW p
      PROVE  p \in RealIn(q) <=> IsReal(p) /\ p \in ToSet(q)
    <2>1. p \in ToSet(q) <=> \E i \in DOMAIN q : p = q[i]
        BY DEF ToSet
    <2> QED BY <2>1 DEF RealIn
<1>2. /\ sched.q \in Seq(PacketType) /\ batch \in Seq(PacketType) /\ lost \in Seq(PacketType)
      /\ buffered \in Seq(PacketType) /\ unacked \in Seq(PacketType)
    BY DEF QueuesOK, QType
<1> QED BY <1>1, <1>2 DEF InPlay

LEMMA HeldInPlay ==
    ASSUME QueuesOK, NEW id, Held(id)
    PROVE  \E p \in InPlay : p.id = id
BY InPlayAre DEF Held, Holds

(* There is one real packet of a loss chain at most.                       *)
LEMMA OneInPlay ==
    ASSUME QueuesOK, FramesInv, NEW p \in InPlay, NEW o \in InPlay, p.id = o.id
    PROVE  p = o
<1>1. IsReal(p) /\ IsReal(o)
    BY InPlayAre
<1>2. /\ sched.q \in Seq(PacketType) /\ batch \in Seq(PacketType) /\ lost \in Seq(PacketType)
      /\ buffered \in Seq(PacketType) /\ unacked \in Seq(PacketType)
    BY DEF QueuesOK, QType
<1>3. ASSUME NEW q \in Seq(PacketType), Distinct(q), p \in ToSet(q), o \in ToSet(q)
      PROVE  p = o
    BY <1>1, <1>3, DistinctSame
<1>4. /\ Distinct(sched.q) /\ Distinct(batch) /\ Distinct(lost)
      /\ Distinct(buffered) /\ Distinct(unacked)
    BY FramesParts
<1>5. \A q : (p \in ToSet(q) => Holds(q, p.id)) /\ (o \in ToSet(q) => Holds(q, p.id))
    BY <1>1 DEF Holds
<1> DEFINE a == sched.q
           id == p.id
<1>6. /\ ~(Holds(a, id) /\ Holds(batch, id)) /\ ~(Holds(a, id) /\ Holds(lost, id))
      /\ ~(Holds(a, id) /\ Holds(buffered, id)) /\ ~(Holds(a, id) /\ Holds(unacked, id))
      /\ ~(Holds(batch, id) /\ Holds(lost, id)) /\ ~(Holds(batch, id) /\ Holds(buffered, id))
      /\ ~(Holds(batch, id) /\ Holds(unacked, id)) /\ ~(Holds(lost, id) /\ Holds(buffered, id))
      /\ ~(Holds(lost, id) /\ Holds(unacked, id)) /\ ~(Holds(buffered, id) /\ Holds(unacked, id))
    BY FramesParts DEF AllApart, Apart
<1> HIDE DEF id
<1>7. CASE p \in ToSet(sched.q)
    <2>1. Holds(a, id)
        BY <1>5, <1>7 DEF id
    <2>2. o \in ToSet(sched.q)
        BY <1>5, <1>6, <2>1, InPlayAre DEF id
    <2> QED BY <1>2, <1>3, <1>4, <1>7, <2>2
<1>8. CASE p \in ToSet(batch)
    <2>1. Holds(batch, id)
        BY <1>5, <1>8 DEF id
    <2>2. o \in ToSet(batch)
        BY <1>5, <1>6, <2>1, InPlayAre DEF id
    <2> QED BY <1>2, <1>3, <1>4, <1>8, <2>2
<1>9. CASE p \in ToSet(lost)
    <2>1. Holds(lost, id)
        BY <1>5, <1>9 DEF id
    <2>2. o \in ToSet(lost)
        BY <1>5, <1>6, <2>1, InPlayAre DEF id
    <2> QED BY <1>2, <1>3, <1>4, <1>9, <2>2
<1>10. CASE p \in ToSet(buffered)
    <2>1. Holds(buffered, id)
        BY <1>5, <1>10 DEF id
    <2>2. o \in ToSet(buffered)
        BY <1>5, <1>6, <2>1, InPlayAre DEF id
    <2> QED BY <1>2, <1>3, <1>4, <1>10, <2>2
<1>11. CASE p \in ToSet(unacked)
    <2>1. Holds(unacked, id)
        BY <1>5, <1>11 DEF id
    <2>2. o \in ToSet(unacked)
        BY <1>5, <1>6, <2>1, InPlayAre DEF id
    <2> QED BY <1>2, <1>3, <1>4, <1>11, <2>2
<1> QED BY <1>7, <1>8, <1>9, <1>10, <1>11, InPlayAre

LEMMA FramesKept ==
    ASSUME Basic, FramesInv
    PROVE  FramesAreKept
<1>1. QueuesOK /\ unacked \in Seq(PacketType)
    BY BasicParts DEF QueuesOK
<1>2. ASSUME NEW o \in owed, ~(o[2] = "stream" /\ reset)
      PROVE  Cardinality({p \in InPlay : p.id = o[1] /\ o[2] \in p.frames}) = 1
    <2>1. Carried(o)
        BY <1>2, FramesParts DEF Owed
    <2>2. PICK p \in InPlay : p.id = o[1] /\ o[2] \in p.frames
        BY <1>1, <2>1, InPlayAre DEF Carried, Carries
    <2>3. \A r \in InPlay : r.id = o[1] => r = p
        BY <1>1, <2>2, OneInPlay
    <2>4. {r \in InPlay : r.id = o[1] /\ o[2] \in r.frames} = {p}
        BY <2>2, <2>3
    <2> QED BY <2>4, FS_Singleton
<1>3. ASSUME NEW i \in DOMAIN unacked, unacked[i].rec = "record"
      PROVE  \E p \in InPlay : p.id = unacked[i].id
    <2>1. unacked[i] \in ToSet(unacked)
        BY <1>1, InToSet
    <2>2. Held(unacked[i].id)
        BY <1>3, <2>1, FramesParts DEF Chains
    <2> QED BY <1>1, <2>2, HeldInPlay
<1> QED BY <1>2, <1>3 DEF FramesAreKept, DataIsKept, ChainsIntact

(***************************************************************************)
(* No frame is lost or duplicated among the queues and no loss record is   *)
(* left behind, whichever of the rarer events happen.                      *)
(***************************************************************************)
THEOREM SendCtlFramesAreKept == Spec => []FramesAreKept
<1>1. Init => Basic /\ FramesInv
    BY BasicInit, FramesInit
<1>2. Basic /\ FramesInv /\ [Next]_vars => (Basic /\ FramesInv)'
    BY BasicStep, FramesStep
<1>3. Basic /\ FramesInv => FramesAreKept
    BY FramesKept
<1> QED BY <1>1, <1>2, <1>3, PTL DEF Spec

(***************************************************************************)
(* While a packet with data is unacknowledged the retransmission alarm is  *)
(* set, whichever of the rarer events happen.                              *)
(***************************************************************************)
THEOREM SendCtlAlarmArmed == Spec => []AlarmArmed
<1>1. Basic => AlarmArmed
    BY DEF Basic
<1> QED BY <1>1, SendCtlBasic, PTL

-----------------------------------------------------------------------------
(***************************************************************************)
(* Theorems on numbers.                                                    *)
(***************************************************************************)

LEMMA NumberStep ==
    ASSUME Tame, Basic, Basic', FramesInv, NumberInv, [Next]_vars
    PROVE  NumberInv'
<1>1. CASE UNCHANGED vars
    BY <1>1, NumberQuiet
<1>2. ASSUME NEW A \in SUBSET (0 .. MaxPackno), GotAck(A) PROVE NumberInv'
    BY <1>2, NumberAck
<1>3. CASE RetxAlarmRings
    BY <1>3, NumberRing
<1>4. CASE ResetStream
    BY <1>4, NumberReset
<1>5. ASSUME NEW f \in Kinds, WriteFrame(f) PROVE NumberInv'
    BY <1>5, NumberWrite
<1>6. ASSUME NEW f \in Kinds, NEW with_ack \in BOOLEAN, WriteBuffered(f, with_ack) PROVE NumberInv'
    BY <1>6, NumberWriteBuffered
<1>7. ASSUME NEW with_ack \in BOOLEAN, Tick(with_ack) PROVE NumberInv'
    BY <1>7, NumberTick
<1>8. CASE PacerBlocked \/ SendUnsent \/ WriteStreams \/ EndWrite
    BY <1>8, NumberQuiet
<1>9. CASE RescheduleLost
    BY <1>9, NumberReschedule
<1>10. ASSUME NEW out_of_order \in BOOLEAN, ScheduleBuffered(out_of_order) PROVE NumberInv'
    BY <1>10, NumberScheduleBuffered
<1>11. CASE NextPacketToSend
    BY <1>11, NumberNextPacket
<1>12. ASSUME NEW k \in 0 .. MaxPackets, SendBatch(k) PROVE NumberInv'
    <2>1. batch \in Seq(PacketType)
        BY BasicParts DEF QueuesOK
    <2>2. \A i \in 1 .. Len(batch) : IsReal(batch[i])
        BY <2>1, InToSet, FramesParts DEF Known
    <2> QED BY <1>12, <2>2, NumberSend
<1> QED BY <1>1, <1>2, <1>3, <1>4, <1>5, <1>6, <1>7, <1>8, <1>9, <1>10, <1>11, <1>12
        DEF Next

LEMMA NumberSound ==
    ASSUME Basic, NumberInv
    PROVE  NumberingIsSound /\ ScheduledIsSane
<1>1. /\ unacked \in Seq(PacketType) /\ batch \in Seq(PacketType) /\ sched.q \in Seq(PacketType)
    BY BasicParts DEF QueuesOK, QType
<1>2. NumberingIsSound
    <2>1. DOMAIN unacked = 1 .. Len(unacked)
        BY <1>1
    <2>2. UnackedAscends
        BY <2>1 DEF NumberInv, UnackedInv, UnackedAscends, Ascends
    <2> QED BY <2>2 DEF NumberInv, WireInv, NumberingIsSound
<1>3. RenumberedToTheRight
    <2> DEFINE q == batch \o sched.q
               b == Len(batch)
    <2>1. /\ q \in Seq(PacketType) /\ Len(q) = b + Len(sched.q)
          /\ \A i \in 1 .. Len(sched.q) : q[b + i] = sched.q[i]
        BY <1>1, ConcatFacts
    <2>2. Numbered(q, largest, cur, gap)
        BY DEF NumberInv, LineInv
    <2>3. b \in Nat /\ Len(sched.q) \in Nat /\ DOMAIN sched.q = 1 .. Len(sched.q)
        BY <1>1
    <2> HIDE DEF q, b
    <2>4. ASSUME NEW i \in 1 .. Len(sched.q), NEW j \in 1 .. Len(sched.q), i < j, sched.q[i].re
          PROVE  sched.q[j].re
        <3>1. b + i \in 1 .. Len(q) /\ b + j \in 1 .. Len(q) /\ b + i < b + j
            BY <2>1, <2>3, <2>4
        <3>2. q[b + i] = sched.q[i] /\ q[b + j] = sched.q[j]
            BY <2>1
        <3>3. q[b + j].re
            BY <2>1, <2>2, <2>4, <3>1, <3>2, NumberedRight
        <3> QED BY <3>2, <3>3
    <2> QED BY <2>3, <2>4 DEF RenumberedToTheRight
<1>4. BytesScheduled
    BY DEF Basic
<1> QED BY <1>2, <1>3, <1>4 DEF ScheduledIsSane

(***************************************************************************)
(* Packets go out in the order of their numbers, all numbers but the       *)
(* skipped ones are used, and the Unacked Queue is in that order: whatever *)
(* is delayed, dropped, renumbered, lost and acknowledged, and whether the *)
(* pacer or the engine makes the controller send without a tick.           *)
(***************************************************************************)
THEOREM SendCtlNumberingIsSound ==
    ASSUME Tame
    PROVE  Spec => []NumberingIsSound
<1>1. Init => Basic /\ FramesInv /\ NumberInv
    BY BasicInit, FramesInit, NumberInit
<1>2. Basic /\ FramesInv /\ NumberInv /\ [Next]_vars => (Basic /\ FramesInv /\ NumberInv)'
    BY BasicStep, FramesStep, NumberStep
<1>3. Basic /\ FramesInv /\ NumberInv => NumberingIsSound
    BY NumberSound
<1> QED BY <1>1, <1>2, <1>3, PTL DEF Spec

(***************************************************************************)
(* On the Scheduled Queue, all packets to the right of one that waits for  *)
(* a new number wait for one, and sc_bytes_scheduled is their size.        *)
(***************************************************************************)
THEOREM SendCtlScheduledIsSane ==
    ASSUME Tame
    PROVE  Spec => []ScheduledIsSane
<1>1. Init => Basic /\ FramesInv /\ NumberInv
    BY BasicInit, FramesInit, NumberInit
<1>2. Basic /\ FramesInv /\ NumberInv /\ [Next]_vars => (Basic /\ FramesInv /\ NumberInv)'
    BY BasicStep, FramesStep, NumberStep
<1>3. Basic /\ FramesInv /\ NumberInv => ScheduledIsSane
    BY NumberSound
<1> QED BY <1>1, <1>2, <1>3, PTL DEF Spec

-----------------------------------------------------------------------------
(***************************************************************************)
(* Ciphertext and acknowledgements. When no packet is sent that has not    *)
(* been squeezed since it was delayed, what is on the wire carries the     *)
(* number it was recorded under, and an honest peer reports only such      *)
(* numbers.                                                                *)
(***************************************************************************)

(* No packet is sent that has not been squeezed.                           *)
Calm == Tame /\ "pacer_blocks" \notin Events /\ "send_unsent" \notin Events

Bare(q) == \A x \in ToSet(q) : x.enc = NotEncrypted
Sealed(q) == \A x \in ToSet(q) : x.enc.no = x.no
OnTheWire(x) == \E j \in 1 .. Len(wire) : wire[j].no = x.no /\ wire[j].id = x.id
EncInv ==
    /\ phase # "idle" => Bare(sched.q)
    /\ Sealed(batch)
    /\ Bare(lost) /\ Bare(buffered) /\ Bare(unacked)
    /\ \A x \in ToSet(unacked) : x.rec # "poison" => OnTheWire(x)
    /\ \A j \in 1 .. Len(wire) : wire[j].enc.no = wire[j].no
    /\ AckedWasReported /\ HonestPeerAccepted

LEMMA EncInit ==
    ASSUME Init
    PROVE  EncInv
<1>1. ToSet(<< >>) = {} /\ Len(<< >>) = 0
    BY DEF ToSet
<1>2. /\ sched.q = << >> /\ batch = << >> /\ lost = << >> /\ buffered = << >>
      /\ unacked = << >> /\ wire = << >> /\ misacked = {} /\ aborted = FALSE
    BY DEF Init
<1> QED BY <1>1, <1>2 DEF EncInv, Bare, Sealed, AckedWasReported, HonestPeerAccepted

(* A packet of the Unacked Queue, before and after a loss is recorded.     *)
Stays(x, y) == /\ x.enc = y.enc /\ x.no = y.no /\ x.id = y.id
               /\ y.rec = "poison" => x.rec = "poison"

LEMMA EncNext ==
    ASSUME EncInv, phase' # "idle" => Bare(sched'.q), Sealed(batch'),
           Bare(lost'), Bare(buffered'),
           \A x \in ToSet(unacked') : \E y \in ToSet(unacked) : Stays(x, y),
           UNCHANGED <<wire, misacked, aborted>>
    PROVE  EncInv'
<1>1. \A x \in ToSet(unacked') : x.enc = NotEncrypted /\ (x.rec # "poison" => OnTheWire(x)')
    <2> SUFFICES ASSUME NEW x \in ToSet(unacked')
                 PROVE  x.enc = NotEncrypted /\ (x.rec # "poison" => OnTheWire(x)')
        OBVIOUS
    <2>1. PICK y \in ToSet(unacked) : Stays(x, y)
        OBVIOUS
    <2>2. y.enc = NotEncrypted /\ (y.rec # "poison" => OnTheWire(y))
        BY DEF EncInv, Bare
    <2> QED BY <2>1, <2>2 DEF Stays, OnTheWire
<1> QED BY <1>1 DEF EncInv, Bare, Sealed, AckedWasReported, HonestPeerAccepted

LEMMA BareParts ==
    ASSUME EncInv
    PROVE  /\ phase # "idle" => Bare(sched.q)
           /\ Sealed(batch) /\ Bare(lost) /\ Bare(buffered) /\ Bare(unacked)
BY DEF EncInv

LEMMA BareAppend ==
    ASSUME NEW q \in Seq(PacketType), NEW p \in PacketType, Bare(q), p.enc = NotEncrypted
    PROVE  Bare(Append(q, p))
<1>1. ToSet(Append(q, p)) = ToSet(q) \cup {p}
    BY SetAppend
<1> QED BY <1>1 DEF Bare

LEMMA BareConcat ==
    ASSUME NEW q \in Seq(PacketType), NEW r \in Seq(PacketType), Bare(q), Bare(r)
    PROVE  Bare(q \o r)
<1>1. ToSet(q \o r) = ToSet(q) \cup ToSet(r)
    BY SetConcat
<1> QED BY <1>1 DEF Bare

LEMMA BareLike ==
    ASSUME NEW q \in Seq(PacketType), NEW r \in Seq(PacketType), Len(r) = Len(q),
           \A i \in 1 .. Len(q) : r[i].enc = q[i].enc, Bare(q)
    PROVE  Bare(r)
<1>1. ASSUME NEW x \in ToSet(r) PROVE x.enc = NotEncrypted
    <2>1. PICK i \in 1 .. Len(r) : x = r[i]
        BY InToSet
    <2>2. q[i] \in ToSet(q) /\ r[i].enc = q[i].enc
        BY InToSet
    <2> QED BY <2>1, <2>2 DEF Bare
<1> QED BY <1>1 DEF Bare

LEMMA BareLess ==
    ASSUME NEW q, NEW r, Bare(q), \A x \in ToSet(r) : x \in ToSet(q)
    PROVE  Bare(r)
BY DEF Bare

LEMMA UnackedStays ==
    ASSUME \A x \in ToSet(unacked') : x \in ToSet(unacked)
    PROVE  \A x \in ToSet(unacked') : \E y \in ToSet(unacked) : Stays(x, y)
BY DEF Stays

LEMMA MarkedStays ==
    ASSUME NEW y \in PacketType, NEW L, \A x \in L : IsReal(x)
    PROVE  Stays(Marked(y, L), y)
<1>1. /\ Marked(y, L).enc = y.enc /\ Marked(y, L).no = y.no /\ Marked(y, L).id = y.id
      /\ Marked(y, L).rec = IF y \in L THEN "record" ELSE y.rec
    BY MarkedFacts
<1>2. y \in L => y.rec = "packet"
    BY DEF IsReal
<1> QED BY <1>1, <1>2 DEF Stays

LEMMA EncQuiet ==
    ASSUME Calm, EncInv, WriteStreams \/ EndWrite \/ PacerBlocked \/ SendUnsent \/ UNCHANGED vars
    PROVE  EncInv'
<1>1. /\ UNCHANGED <<sched, batch, unacked, lost, buffered, wire, misacked, aborted>>
      /\ phase' # "idle" => phase # "idle"
    <2>1. CASE WriteStreams \/ EndWrite
        BY <2>1 DEF WriteStreams, EndWrite, ghost
    <2>2. CASE UNCHANGED vars
        BY <2>2 DEF vars, ghost
    <2>3. ~PacerBlocked /\ ~SendUnsent
        BY DEF PacerBlocked, SendUnsent, Calm
    <2> QED BY <2>1, <2>2, <2>3
<1>2. \A x \in ToSet(unacked') : \E y \in ToSet(unacked) : Stays(x, y)
    BY <1>1, UnackedStays
<1> QED BY <1>1, <1>2, BareParts, EncNext

LEMMA EncWriteBuffered ==
    ASSUME Basic, EncInv, NEW f \in Kinds, NEW with_ack \in BOOLEAN, WriteBuffered(f, with_ack)
    PROVE  EncInv'
<1>1. Numbers /\ QueuesOK /\ n_packets \in Nat /\ buffered \in Seq(PacketType)
    BY BasicParts DEF Numbers, QueuesOK
<1> DEFINE frames == IF with_ack THEN {"ack", f} ELSE {f}
           p == Packet(NoPackno, n_packets', frames)
<1>2. /\ n_packets' = n_packets + 1 /\ buffered' = Append(buffered, p)
      /\ UNCHANGED <<sched, batch, unacked, lost, phase, wire, misacked, aborted>>
    BY DEF WriteBuffered
<1>3. p \in PacketType /\ p.enc = NotEncrypted
    <2>1. frames \in SUBSET Frames
        BY KindsAreFrames DEF Frames
    <2>2. NoPackno \in Int /\ n_packets' \in Nat
        BY <1>1, <1>2 DEF NoPackno
    <2> HIDE DEF frames
    <2>3. p \in PacketType
        BY <2>1, <2>2, PacketFacts
    <2>4. p.enc = NotEncrypted
        BY DEF Packet
    <2> QED BY <2>3, <2>4
<1> HIDE DEF p, frames
<1>4. Bare(buffered')
    BY <1>1, <1>2, <1>3, BareAppend, BareParts
<1>5. \A x \in ToSet(unacked') : \E y \in ToSet(unacked) : Stays(x, y)
    BY <1>2, UnackedStays
<1> QED BY <1>2, <1>4, <1>5, BareParts, EncNext

LEMMA EncWrite ==
    ASSUME Calm, Basic, EncInv, NEW f \in Kinds, WriteFrame(f)
    PROVE  EncInv'
<1>1. Numbers /\ sched \in QType /\ sched.q \in Seq(PacketType)
    BY BasicParts DEF QueuesOK, QType
<1>2. /\ UNCHANGED <<batch, unacked, lost, buffered, phase, wire, misacked, aborted>>
      /\ phase # "idle"
    BY DEF WriteFrame, CanWrite, Calm, Tame
<1>3. Bare(sched.q)
    BY <1>2, BareParts
<1>4. f \in Frames
    BY KindsAreFrames
<1>5. Bare(sched'.q)
    <2>1. CASE ScheduleNew(sched, {f})
        <3> DEFINE p == Packet(NextPackno, n_packets', {f})
        <3>1. {f} \in SUBSET Frames
            BY <1>4
        <3>2. p \in PacketType /\ sched'.q = Append(sched.q, p)
            BY <1>1, <2>1, <3>1, ScheduleNewFacts
        <3>3. p.enc = NotEncrypted
            BY DEF Packet
        <3> HIDE DEF p
        <3> QED BY <1>1, <1>3, <3>2, <3>3, BareAppend
    <2>2. CASE /\ sched.q # << >> /\ f \notin sched.q[Len(sched.q)].frames
               /\ sched' = IncrPackSz(sched, Len(sched.q), f)
        <3> DEFINE i == Len(sched.q)
        <3>1. i \in 1 .. Len(sched.q)
            BY <1>1, <2>2
        <3>2. /\ IncrPackSz(sched, i, f) \in QType /\ Len(IncrPackSz(sched, i, f).q) = Len(sched.q)
              /\ \A j \in 1 .. Len(sched.q) : j # i => IncrPackSz(sched, i, f).q[j] = sched.q[j]
              /\ IncrPackSz(sched, i, f).q[i] = [sched.q[i] EXCEPT !.frames = sched.q[i].frames \cup {f}]
            BY <1>1, <1>4, <2>2, <3>1, IncrFacts
        <3>3. sched' \in QType /\ sched'.q \in Seq(PacketType) /\ Len(sched'.q) = Len(sched.q)
            BY <2>2, <3>2 DEF QType
        <3>4. ASSUME NEW j \in 1 .. Len(sched.q) PROVE sched'.q[j].enc = sched.q[j].enc
            <4>1. sched.q[i] \in PacketType
                BY <1>1, <3>1
            <4>2. sched'.q[i].enc = sched.q[i].enc
                BY <2>2, <3>2, <4>1 DEF PacketType
            <4> QED BY <2>2, <3>2, <4>2
        <3> QED BY <1>1, <1>3, <3>3, <3>4, BareLike
    <2> QED BY <2>1, <2>2 DEF WriteFrame, GetWriteablePacket
<1>6. \A x \in ToSet(unacked') : \E y \in ToSet(unacked) : Stays(x, y)
    BY <1>2, UnackedStays
<1> QED BY <1>2, <1>5, <1>6, BareParts, EncNext

LEMMA EncReset ==
    ASSUME Calm, Basic, EncInv, ResetStream
    PROVE  EncInv'
<1>1. QueuesOK /\ buffered \in Seq(PacketType) /\ unacked \in Seq(PacketType)
    BY BasicParts DEF QueuesOK
<1> DEFINE e == ElidedAll(buffered)
<1>2. /\ unacked' = Without(unacked, ElidedSched.ids)
      /\ buffered' = Only(e, {p \in ToSet(e) : p.frames # {}})
      /\ UNCHANGED <<batch, lost, phase, wire, misacked, aborted>> /\ phase = "idle"
    BY DEF ResetStream, ElideStreamFrames, ghost, Calm, Tame, WithFrames
<1>3. /\ e \in Seq(PacketType) /\ Len(e) = Len(buffered)
      /\ \A i \in 1 .. Len(buffered) : e[i] = Elided(buffered[i])
    BY <1>1, BytesElided
<1> HIDE DEF e
<1>4. \A i \in 1 .. Len(buffered) : e[i].enc = buffered[i].enc
    <2> SUFFICES ASSUME NEW i \in 1 .. Len(buffered) PROVE e[i].enc = buffered[i].enc
        OBVIOUS
    <2>1. buffered[i] \in PacketType /\ e[i] = Elided(buffered[i])
        BY <1>1, <1>3
    <2>2. Elided(buffered[i]).enc = buffered[i].enc
        BY <2>1, ElidedFacts
    <2> QED BY <2>1, <2>2
<1>5. Bare(e)
    BY <1>1, <1>3, <1>4, BareLike, BareParts
<1>6. Bare(buffered')
    <2>1. \A x \in ToSet(buffered') : x \in ToSet(e)
        BY <1>2, <1>3, OnlySet
    <2> QED BY <1>5, <2>1, BareLess
<1>7. \A x \in ToSet(unacked') : x \in ToSet(unacked)
    BY <1>1, <1>2, WithoutSet
<1>8. \A x \in ToSet(unacked') : \E y \in ToSet(unacked) : Stays(x, y)
    BY <1>7, UnackedStays
<1> QED BY <1>2, <1>6, <1>8, BareParts, EncNext

LEMMA EncTick ==
    ASSUME Basic, EncInv, NEW with_ack \in BOOLEAN, Tick(with_ack)
    PROVE  EncInv'
<1>1. Numbers /\ QueuesOK /\ sched \in QType /\ unacked \in Seq(PacketType) /\ n_packets \in Nat
    BY BasicParts DEF QueuesOK, Numbers
<1> DEFINE s == Squeezed
           rest == RestAfter(s)
           delayed == s.q # << >>
           c == IF delayed /\ with_ack THEN largest ELSE CurAfter(s)
           no == IF c + 1 = gap THEN c + 2 ELSE c + 1
           p == Packet(no, n_packets', {"ack"})
<1>2. /\ unacked' = Without(unacked, s.ids)
      /\ \/ sched' = rest
         \/ /\ n_packets' = n_packets + 1
            /\ \/ sched' = AckToFront(rest, no, n_packets')
               \/ sched' = SchedAppend(rest, p)
      /\ UNCHANGED <<batch, lost, buffered, wire, misacked, aborted>>
    BY DEF Tick, ghost
<1>3. PICK r \in Seq(PacketType) : s \in DropType /\ s.q = Plain(r)
    BY <1>1, SqueezedFacts
<1>4. c \in Int /\ no \in Int
    BY <1>1 DEF Numbers, CurAfter
<1>5. AckToFront(rest, no, n_packets') = SchedPrepend(ResetPacknos(rest), p)
    BY DEF AckToFront
<1>6. p.enc = NotEncrypted /\ (n_packets' = n_packets + 1 => p \in PacketType)
    <2>1. {"ack"} \in SUBSET Frames
        BY DEF Frames
    <2>2. n_packets' = n_packets + 1 => n_packets' \in Nat
        BY <1>1
    <2> HIDE DEF no
    <2>3. n_packets' = n_packets + 1 => p \in PacketType
        BY <1>4, <2>1, <2>2, PacketFacts
    <2>4. p.enc = NotEncrypted
        BY DEF Packet
    <2> QED BY <2>3, <2>4
<1> HIDE DEF s, c, no
<1>7. s.q \in Seq(PacketType) /\ Bare(s.q)
    <2>1. /\ s.q \in Seq(PacketType) /\ Len(s.q) = Len(r)
          /\ \A i \in 1 .. Len(r) : s.q[i] = Stripped(r[i])
        BY <1>3, PlainFacts
    <2>2. ASSUME NEW x \in ToSet(s.q) PROVE x.enc = NotEncrypted
        <3>1. PICK i \in 1 .. Len(s.q) : x = s.q[i]
            BY <2>1, InToSet
        <3>2. r[i] \in PacketType /\ x = Stripped(r[i])
            BY <2>1, <3>1
        <3> QED BY <3>2, StrippedFacts
    <2> QED BY <2>1, <2>2 DEF Bare
<1>8. /\ rest \in QType /\ Len(rest.q) = Len(s.q)
      /\ \A i \in 1 .. Len(s.q) : rest.q[i].enc = s.q[i].enc
    BY <1>3, RestFacts DEF DropType
<1> HIDE DEF rest, delayed, p
<1>9. rest.q \in Seq(PacketType)
    BY <1>8 DEF QType
<1>10. Bare(rest.q)
    BY <1>7, <1>8, <1>9, BareLike
<1>11. Bare(sched'.q)
    <2>1. CASE sched' = rest
        BY <1>10, <2>1
    <2>2. CASE n_packets' = n_packets + 1 /\ sched' = SchedAppend(rest, p)
        <3>1. sched'.q = Append(rest.q, p)
            BY <2>2 DEF SchedAppend
        <3> QED BY <1>6, <1>9, <1>10, <2>2, <3>1, BareAppend
    <2>3. CASE n_packets' = n_packets + 1 /\ sched' = AckToFront(rest, no, n_packets')
        <3> DEFINE t == ResetPacknos(rest).q
        <3>1. /\ ResetPacknos(rest) \in QType /\ Len(t) = Len(rest.q)
              /\ \A i \in 1 .. Len(rest.q) : t[i].enc = rest.q[i].enc
            BY <1>8, ResetFacts
        <3>2. t \in Seq(PacketType)
            BY <3>1 DEF QType
        <3>3. sched'.q = <<p>> \o t
            BY <1>5, <2>3 DEF SchedPrepend
        <3> HIDE DEF t
        <3>4. Bare(t)
            BY <1>9, <1>10, <3>1, <3>2, BareLike
        <3>5. p \in PacketType /\ p.enc = NotEncrypted
            BY <1>6, <2>3
        <3>6. <<p>> \in Seq(PacketType) /\ Len(<<p>>) = 1 /\ <<p>>[1] = p
            BY <3>5
        <3>7. Bare(<<p>>)
            <4>1. ToSet(<<p>>) = {p}
                BY <3>6 DEF ToSet
            <4> QED BY <3>5, <4>1 DEF Bare
        <3> QED BY <3>2, <3>3, <3>4, <3>6, <3>7, BareConcat
    <2> QED BY <1>2, <2>1, <2>2, <2>3
<1>12. \A x \in ToSet(unacked') : x \in ToSet(unacked)
    BY <1>1, <1>2, WithoutSet
<1>13. \A x \in ToSet(unacked') : \E y \in ToSet(unacked) : Stays(x, y)
    BY <1>12, UnackedStays
<1> QED BY <1>2, <1>11, <1>13, BareParts, EncNext

LEMMA BareTail ==
    ASSUME NEW q \in Seq(PacketType), q # << >>, Bare(q)
    PROVE  Bare(Tail(q)) /\ q[1].enc = NotEncrypted
<1>1. /\ 1 \in 1 .. Len(q) /\ Tail(q) \in Seq(PacketType) /\ Len(Tail(q)) = Len(q) - 1
      /\ \A i \in 1 .. Len(q) - 1 : Tail(q)[i] = q[i + 1]
    BY HeadFacts
<1>2. ASSUME NEW x \in ToSet(Tail(q)) PROVE x \in ToSet(q)
    <2> DEFINE t == Tail(q)
    <2>0. t \in Seq(PacketType) /\ x \in ToSet(t)
        BY <1>1
    <2> HIDE DEF t
    <2>4. PICK i \in 1 .. Len(t) : x = t[i]
        BY <2>0, InToSet
    <2>1. i \in 1 .. Len(Tail(q)) /\ x = Tail(q)[i]
        BY <2>4 DEF t
    <2>2. Len(q) \in Nat
        OBVIOUS
    <2>3. i + 1 \in 1 .. Len(q) /\ x = q[i + 1]
        BY <1>1, <2>1, <2>2
    <2> QED BY <2>3, InToSet
<1>3. q[1] \in ToSet(q)
    BY <1>1, InToSet
<1> QED BY <1>2, <1>3 DEF Bare

LEMMA EncReschedule ==
    ASSUME Basic, EncInv, RescheduleLost
    PROVE  EncInv'
<1>1. /\ Numbers /\ QueuesOK /\ sched.q \in Seq(PacketType) /\ unacked \in Seq(PacketType)
      /\ lost \in Seq(PacketType) /\ cur \in Int /\ gap \in Int
    BY BasicParts DEF QueuesOK, QType, Numbers
<1>2. /\ phase = "control" /\ lost # << >> /\ lost' = Tail(lost)
      /\ UNCHANGED <<batch, buffered, phase, wire, misacked, aborted>>
      /\ \/ unacked' = unacked /\ sched' = SchedAppend(sched, Resent(NextLost))
         \/ unacked' = Without(unacked, {NextLost.id}) /\ UNCHANGED sched
    BY DEF RescheduleLost, Resent, ghost
<1>3. Bare(lost') /\ lost[1].enc = NotEncrypted
    BY <1>1, <1>2, BareTail, BareParts
<1>4. Bare(sched.q)
    BY <1>2, BareParts
<1>5. Bare(sched'.q)
    <2>1. CASE sched' = SchedAppend(sched, Resent(NextLost))
        <3> DEFINE p == Resent(NextLost)
        <3>1. NextLost \in PacketType /\ NextLost.enc = lost[1].enc
            BY <1>1, <1>2, NextLostFacts
        <3>2. p \in PacketType /\ p.enc = NextLost.enc
            BY <1>1, <3>1, ResentFacts
        <3>3. sched'.q = Append(sched.q, p)
            BY <2>1 DEF SchedAppend
        <3> HIDE DEF p
        <3> QED BY <1>1, <1>3, <1>4, <3>1, <3>2, <3>3, BareAppend
    <2>2. CASE UNCHANGED sched
        BY <1>4, <2>2
    <2> QED BY <1>2, <2>1, <2>2
<1>6. \A x \in ToSet(unacked') : x \in ToSet(unacked)
    BY <1>1, <1>2, WithoutSet
<1>7. \A x \in ToSet(unacked') : \E y \in ToSet(unacked) : Stays(x, y)
    BY <1>6, UnackedStays
<1> QED BY <1>2, <1>3, <1>5, <1>7, BareParts, EncNext

LEMMA EncScheduleBuffered ==
    ASSUME Basic, EncInv, NEW o \in BOOLEAN, ScheduleBuffered(o)
    PROVE  EncInv'
<1>1. /\ Numbers /\ QueuesOK /\ sched.q \in Seq(PacketType)
      /\ buffered \in Seq(PacketType) /\ cur \in Int /\ gap \in Int
    BY BasicParts DEF QueuesOK, QType, Numbers
<1> DEFINE p == [FirstBuffered(o) EXCEPT !.no = NextPackno]
<1>2. /\ phase = "streams" /\ buffered # << >> /\ buffered' = Tail(buffered)
      /\ UNCHANGED <<batch, lost, unacked, phase, wire, misacked, aborted>>
      /\ sched' = SchedAppend(sched, p) \/ UNCHANGED sched
    BY DEF ScheduleBuffered, FirstBuffered, ghost
<1>3. Bare(buffered') /\ buffered[1].enc = NotEncrypted
    BY <1>1, <1>2, BareTail, BareParts
<1>4. Bare(sched.q)
    BY <1>2, BareParts
<1>5. p \in PacketType /\ p.enc = NotEncrypted
    <2>1. NextPackno \in Int
        BY <1>1, NextPacknoType
    <2>2. FirstBuffered(o).enc = buffered[1].enc
        BY <1>1, <1>2, FirstBufferedFacts
    <2>3. p \in PacketType /\ p.enc = FirstBuffered(o).enc
        BY <1>1, <1>2, <2>1, FirstBufferedFacts
    <2> QED BY <1>3, <2>2, <2>3
<1> HIDE DEF p
<1>6. Bare(sched'.q)
    <2>1. CASE sched' = SchedAppend(sched, p)
        <3>1. sched'.q = Append(sched.q, p)
            BY <2>1 DEF SchedAppend
        <3> QED BY <1>1, <1>4, <1>5, <3>1, BareAppend
    <2>2. CASE UNCHANGED sched
        BY <1>4, <2>2
    <2> QED BY <1>2, <2>1, <2>2
<1>7. \A x \in ToSet(unacked') : \E y \in ToSet(unacked) : Stays(x, y)
    BY <1>2, UnackedStays
<1> QED BY <1>2, <1>3, <1>6, <1>7, BareParts, EncNext

LEMMA EncNextPacket ==
    ASSUME Basic, EncInv, NextPacketToSend
    PROVE  EncInv'
<1>1. /\ Numbers /\ QueuesOK /\ sched.q \in Seq(PacketType) /\ unacked \in Seq(PacketType)
      /\ batch \in Seq(PacketType) /\ cur \in Int /\ gap \in Int
    BY BasicParts DEF QueuesOK, QType, Numbers
<1> DEFINE p == sched.q[1]
<1>2. /\ phase = "send" /\ sched.q # << >> /\ p \in PacketType /\ Popped(sched'.q, sched.q)
      /\ \/ batch' = Append(batch, Encrypted(p)) /\ UNCHANGED unacked
         \/ batch' = Append(batch, Encrypted(Chopped(p))) /\ UNCHANGED unacked
         \/ unacked' = Without(unacked, {p.id}) /\ UNCHANGED batch
    BY <1>1, NextPacketFacts
<1>3. UNCHANGED <<lost, buffered, phase, wire, misacked, aborted>>
    BY DEF NextPacketToSend, ghost
<1>4. Bare(sched.q)
    BY <1>2, BareParts
<1>5. p \in ToSet(sched.q) /\ \A x \in ToSet(sched'.q) : x \in ToSet(sched.q)
    BY <1>1, <1>2, PoppedHolds
<1>6. Bare(sched'.q) /\ p.enc = NotEncrypted
    BY <1>4, <1>5 DEF Bare
<1>7. ASSUME NEW o \in PacketType, o.enc = NotEncrypted, batch' = Append(batch, Encrypted(o))
      PROVE  Sealed(batch')
    <2>1. Encrypted(o) \in PacketType /\ Encrypted(o).enc.no = Encrypted(o).no
        BY <1>7, EncryptedFacts
    <2>2. ToSet(batch') = ToSet(batch) \cup {Encrypted(o)}
        BY <1>1, <1>7, <2>1, SetAppend
    <2> QED BY <2>1, <2>2, BareParts DEF Sealed
<1>8. Chopped(p) \in PacketType /\ Chopped(p).enc = p.enc
    BY <1>1, <1>2, ChoppedFacts
<1> HIDE DEF p
<1>9. Sealed(batch')
    <2>1. CASE batch' = Append(batch, Encrypted(p))
        BY <1>2, <1>6, <1>7, <2>1
    <2>2. CASE batch' = Append(batch, Encrypted(Chopped(p)))
        BY <1>6, <1>7, <1>8, <2>2
    <2>3. CASE UNCHANGED batch
        BY <2>3, BareParts
    <2> QED BY <1>2, <2>1, <2>2, <2>3
<1>10. \A x \in ToSet(unacked') : x \in ToSet(unacked)
    BY <1>1, <1>2, WithoutSet
<1>11. \A x \in ToSet(unacked') : \E y \in ToSet(unacked) : Stays(x, y)
    BY <1>10, UnackedStays
<1> QED BY <1>3, <1>6, <1>9, <1>11, BareParts, EncNext

LEMMA EncRing ==
    ASSUME Basic, EncInv, RetxAlarmRings
    PROVE  EncInv'
<1>1. QueuesOK /\ unacked \in Seq(PacketType) /\ lost \in Seq(PacketType)
    BY BasicParts DEF QueuesOK
<1>2. PICK L, w :
        /\ phase = "idle" /\ \A x \in L : x \in ToSet(unacked) /\ IsReal(x)
        /\ IsRecorded(unacked', unacked, L)
        /\ IsLost(w, unacked, L) /\ w \in Seq(PacketType) /\ lost' = lost \o w
    BY <1>1, RingsFacts
<1>3. UNCHANGED <<batch, buffered, phase, wire, misacked, aborted>>
    BY DEF RetxAlarmRings, ghost
<1>4. Bare(w)
    <2>1. \A x \in ToSet(w) : x \in ToSet(unacked)
        BY <1>1, <1>2, LostSet
    <2> QED BY <2>1, BareLess, BareParts
<1>5. Bare(lost')
    BY <1>1, <1>2, <1>4, BareConcat, BareParts
<1>6. ASSUME NEW x \in ToSet(unacked') PROVE \E y \in ToSet(unacked) : Stays(x, y)
    <2>1. PICK y \in ToSet(unacked) : x = Marked(y, L)
        BY <1>1, <1>2, RecordedSet
    <2>2. y \in PacketType
        BY <1>1, InToSet
    <2> QED BY <1>2, <2>1, <2>2, MarkedStays
<1> QED BY <1>2, <1>3, <1>5, <1>6, BareParts, EncNext

(***************************************************************************)
(* An honest ACK frame is taken, and what it acknowledges was reported.    *)
(***************************************************************************)
LEMMA HonestAck ==
    ASSUME Basic, NumberInv, EncInv, NEW A \in SUBSET (0 .. MaxPackno), GotAck(A)
    PROVE  /\ ~(Max(A) > largest \/ Walk(A).bad)
           /\ ToSet(Walk(A).ids) \subseteq ReportedIn(A)
<1>1. /\ Numbers /\ QueuesOK /\ History /\ unacked \in Seq(PacketType) /\ largest_acked \in Int
      /\ wire \in Seq(WireType) /\ largest \in Int /\ gap \in Int
    BY BasicParts DEF QueuesOK, Numbers, History
<1>2. A # {} /\ A \subseteq {wire[i].enc.no : i \in DOMAIN wire} /\ MaxPackno \in Nat
    BY <1>1, GotAckFacts, SendCtlAssumption
<1>3. DOMAIN wire = 1 .. Len(wire)
    BY <1>1
<1>4. \A n \in A : \E i \in 1 .. Len(wire) : wire[i].no = n
    BY <1>2, <1>3 DEF EncInv
<1>5. \A n \in A : n <= largest /\ n # gap
    BY <1>4 DEF NumberInv, WireInv
<1>6. Max(A) \in A
    BY <1>2, MaxOf
<1>7. Max(A) <= largest /\ Max(A) \in Int
    <2>1. \A n \in A : n \in 0 .. MaxPackno
        OBVIOUS
    <2>2. \A n \in 0 .. MaxPackno : n \in Int
        OBVIOUS
    <2> QED BY <1>5, <1>6, <2>1, <2>2
<1>8. WalkSound(Walk(A), A, unacked, Len(unacked))
    <2>1. Ascends(unacked)
        BY DEF NumberInv, UnackedInv
    <2> QED BY <1>1, <1>2, <2>1, WalkFacts
<1>9. ~Walk(A).bad
    <2>1. SUFFICES ASSUME Walk(A).bad PROVE FALSE
        OBVIOUS
    <2>2. PICK k \in 1 .. Len(unacked) : unacked[k].rec = "poison" /\ unacked[k].no \in A
        BY <1>8, <2>1 DEF WalkSound
    <2>3. unacked[k] \in ToSet(unacked)
        BY <1>1, InToSet
    <2>4. unacked[k].no = gap
        BY <2>2, <2>3 DEF NumberInv, UnackedInv
    <2> QED BY <1>5, <2>2, <2>4
<1>10. ASSUME NEW id \in ToSet(Walk(A).ids) PROVE id \in ReportedIn(A)
    <2>1. PICK k \in 1 .. Len(unacked) :
            unacked[k].id = id /\ unacked[k].no \in A /\ unacked[k].rec # "poison"
        BY <1>8 DEF WalkSound
    <2>2. unacked[k] \in ToSet(unacked)
        BY <1>1, InToSet
    <2>3. PICK j \in 1 .. Len(wire) : wire[j].no = unacked[k].no /\ wire[j].id = unacked[k].id
        BY <2>1, <2>2 DEF EncInv, OnTheWire
    <2>4. wire[j].enc.no \in A /\ wire[j].id = id /\ j \in DOMAIN wire
        BY <1>3, <2>1, <2>3 DEF EncInv
    <2> QED BY <2>4 DEF ReportedIn
<1> QED BY <1>1, <1>7, <1>9, <1>10

LEMMA EncAck ==
    ASSUME Basic, NumberInv, EncInv, NEW A \in SUBSET (0 .. MaxPackno), GotAck(A)
    PROVE  EncInv'
<1>1. Numbers /\ QueuesOK /\ unacked \in Seq(PacketType) /\ lost \in Seq(PacketType)
    BY BasicParts DEF QueuesOK
<1>2. ~(Max(A) > largest \/ Walk(A).bad) /\ ToSet(Walk(A).ids) \subseteq ReportedIn(A)
    BY HonestAck
<1>3. /\ phase = "idle" /\ UNCHANGED <<batch, buffered, phase, wire>>
      /\ \E L, ids, left, u, w, s : AckTaken(A, L, ids, left, u, w, s)
    BY <1>1, <1>2, GotAckFacts
<1>4. PICK L, ids, left, u, w, s : AckTaken(A, L, ids, left, u, w, s)
    BY <1>3
<1>5. /\ left \in Seq(PacketType) /\ \A x \in L : x \in ToSet(left) /\ IsReal(x)
      /\ w \in Seq(PacketType) /\ IsLost(w, left, L)
      /\ ids = Walk(A).ids /\ lost' = Without(lost, ToSet(ids)) \o w
      /\ misacked' = misacked \cup (ToSet(ids) \ ReportedIn(A))
      /\ aborted' = aborted
    BY <1>4 DEF AckTaken
<1>6. /\ \A x : x \in ToSet(left) <=> x \in ToSet(unacked) /\ x.id \notin ToSet(ids)
      /\ \A x \in ToSet(unacked') : \E y \in ToSet(left) : x = Marked(y, L)
    BY <1>1, <1>4, AckTakenSet
<1>7. misacked' = misacked
    BY <1>2, <1>5
<1>8. Bare(lost')
    <2>1. Without(lost, ToSet(ids)) \in Seq(PacketType) /\ Bare(Without(lost, ToSet(ids)))
        BY <1>1, WithoutSet, BareLess, BareParts
    <2>2. \A x \in ToSet(w) : x \in ToSet(unacked)
        BY <1>5, <1>6, LostSet
    <2>3. Bare(w)
        BY <2>2, BareLess, BareParts
    <2> QED BY <1>5, <2>1, <2>3, BareConcat
<1>9. ASSUME NEW x \in ToSet(unacked') PROVE \E y \in ToSet(unacked) : Stays(x, y)
    <2>1. PICK y \in ToSet(left) : x = Marked(y, L)
        BY <1>6
    <2>2. y \in PacketType /\ y \in ToSet(unacked)
        BY <1>5, <1>6, InToSet
    <2> QED BY <1>5, <2>1, <2>2, MarkedStays
<1> QED BY <1>3, <1>5, <1>7, <1>8, <1>9, BareParts, EncNext

LEMMA EncSend ==
    ASSUME Basic, EncInv, NEW k \in 0 .. MaxPackets, SendBatch(k)
    PROVE  EncInv'
<1>1. /\ Numbers /\ QueuesOK /\ History /\ batch \in Seq(PacketType)
      /\ unacked \in Seq(PacketType) /\ wire \in Seq(WireType) /\ gap \in Int
    BY BasicParts DEF QueuesOK, Numbers, History
<1>2. PICK sent \in Seq(PacketType), unsent \in Seq(PacketType) :
             /\ phase = "send" /\ k \in 0 .. Len(batch) /\ Len(sent) = k
             /\ \A i \in 1 .. k : sent[i] = batch[i]
             /\ Joined(unacked', sent, k)
             /\ wire' \in Seq(WireType) /\ Len(wire') = Len(wire) + k
             /\ \A i \in 1 .. Len(wire) : wire'[i] = wire[i]
             /\ \A i \in 1 .. k : wire'[Len(wire) + i] = OnWire(sent[i])
             /\ phase' \in {"idle", "send"} /\ batch' = << >>
             /\ phase' # "send" \/ sched'.q = sched.q
             /\ UNCHANGED <<lost, buffered, aborted, misacked>>
    BY <1>1, SendBatchFacts
<1>3. phase' # "idle" => Bare(sched'.q)
    BY <1>2, BareParts
<1>4. Sealed(batch')
    <2>1. ToSet(<< >>) = {}
        BY DEF ToSet
    <2> QED BY <1>2, <2>1 DEF Sealed
<1>5. Len(wire) \in Nat /\ k \in Nat /\ Len(batch) \in Nat
    BY <1>1, LenNat
<1>6. \A i \in 1 .. k : sent[i] \in PacketType /\ sent[i].enc.no = sent[i].no
    <2> SUFFICES ASSUME NEW i \in 1 .. k
                 PROVE  sent[i] \in PacketType /\ sent[i].enc.no = sent[i].no
        OBVIOUS
    <2>1. i \in 1 .. Len(batch) /\ sent[i] = batch[i]
        BY <1>2, <1>5
    <2>2. batch[i] \in ToSet(batch) /\ batch[i] \in PacketType
        BY <1>1, <2>1, InToSet
    <2> QED BY <2>1, <2>2, BareParts DEF Sealed
<1>7. /\ \A i \in 1 .. Len(wire) : i \in 1 .. Len(wire')
      /\ \A i \in 1 .. k : Len(wire) + i \in 1 .. Len(wire')
    BY <1>2, <1>5
<1>8. ASSUME NEW j \in 1 .. Len(wire') PROVE wire'[j].enc.no = wire'[j].no
    <2>1. CASE j <= Len(wire)
        <3>1. j \in 1 .. Len(wire)
            BY <1>5, <2>1
        <3>2. wire'[j] = wire[j]
            BY <1>2, <3>1
        <3>3. wire[j].enc.no = wire[j].no
            BY <3>1 DEF EncInv
        <3> QED BY <3>2, <3>3
    <2>2. CASE j > Len(wire)
        <3> DEFINE i == j - Len(wire)
        <3>1. i \in 1 .. k /\ Len(wire) + i = j
            BY <1>2, <1>5, <2>2
        <3> HIDE DEF i
        <3>2. wire'[j] = OnWire(sent[i])
            BY <1>2, <3>1
        <3> QED BY <1>6, <3>1, <3>2 DEF OnWire
    <2>3. j <= Len(wire) \/ j > Len(wire)
        BY <1>5
    <2> QED BY <2>1, <2>2, <2>3, Zenon
<1>9. ASSUME NEW x \in ToSet(unacked')
      PROVE  x.enc = NotEncrypted /\ (x.rec # "poison" => OnTheWire(x)')
    <2>1. CASE x \in ToSet(unacked)
        <3>1. x.enc = NotEncrypted /\ (x.rec # "poison" => OnTheWire(x))
            BY <2>1 DEF EncInv, Bare
        <3>2. ASSUME OnTheWire(x) PROVE OnTheWire(x)'
            <4>1. PICK j \in 1 .. Len(wire) : wire[j].no = x.no /\ wire[j].id = x.id
                BY <3>2 DEF OnTheWire
            <4>2. j \in 1 .. Len(wire') /\ wire'[j] = wire[j]
                BY <1>2, <1>7
            <4> QED BY <4>1, <4>2 DEF OnTheWire
        <3> QED BY <3>1, <3>2
    <2>2. CASE x = Poison
        BY <1>1, <2>2, PoisonFacts
    <2>3. CASE \E j \in 1 .. k : x = Stripped(sent[j])
        <3>1. PICK j \in 1 .. k : x = Stripped(sent[j])
            BY <2>3
        <3>2. /\ Stripped(sent[j]).enc = NotEncrypted /\ Stripped(sent[j]).no = sent[j].no
              /\ Stripped(sent[j]).id = sent[j].id
            BY <1>6, StrippedFacts
        <3>3. Len(wire) + j \in 1 .. Len(wire') /\ wire'[Len(wire) + j] = OnWire(sent[j])
            BY <1>2, <1>7
        <3>4. OnTheWire(x)'
            BY <3>1, <3>2, <3>3 DEF OnTheWire, OnWire
        <3> QED BY <3>1, <3>2, <3>4
    <2>4. x \in ToSet(unacked) \/ x = Poison \/ \E j \in 1 .. k : x = Stripped(sent[j])
        BY <1>2 DEF Joined
    <2> QED BY <2>1, <2>2, <2>3, <2>4
<1>10. /\ Bare(unacked') /\ Bare(lost') /\ Bare(buffered')
       /\ AckedWasReported' /\ HonestPeerAccepted'
    BY <1>2, <1>9, BareParts DEF Bare, EncInv, AckedWasReported, HonestPeerAccepted
<1> QED BY <1>3, <1>4, <1>8, <1>9, <1>10 DEF EncInv

LEMMA EncStep ==
    ASSUME Calm, Basic, NumberInv, EncInv, [Next]_vars
    PROVE  EncInv'
<1>1. CASE UNCHANGED vars
    BY <1>1, EncQuiet
<1>2. ASSUME NEW A \in SUBSET (0 .. MaxPackno), GotAck(A) PROVE EncInv'
    BY <1>2, EncAck
<1>3. CASE RetxAlarmRings
    BY <1>3, EncRing
<1>4. CASE ResetStream
    BY <1>4, EncReset
<1>5. ASSUME NEW f \in Kinds, WriteFrame(f) PROVE EncInv'
    BY <1>5, EncWrite
<1>6. ASSUME NEW f \in Kinds, NEW with_ack \in BOOLEAN, WriteBuffered(f, with_ack) PROVE EncInv'
    BY <1>6, EncWriteBuffered
<1>7. ASSUME NEW with_ack \in BOOLEAN, Tick(with_ack) PROVE EncInv'
    BY <1>7, EncTick
<1>8. CASE PacerBlocked \/ SendUnsent \/ WriteStreams \/ EndWrite
    BY <1>8, EncQuiet
<1>9. CASE RescheduleLost
    BY <1>9, EncReschedule
<1>10. ASSUME NEW out_of_order \in BOOLEAN, ScheduleBuffered(out_of_order) PROVE EncInv'
    BY <1>10, EncScheduleBuffered
<1>11. CASE NextPacketToSend
    BY <1>11, EncNextPacket
<1>12. ASSUME NEW k \in 0 .. MaxPackets, SendBatch(k) PROVE EncInv'
    BY <1>12, EncSend
<1> QED BY <1>1, <1>2, <1>3, <1>4, <1>5, <1>6, <1>7, <1>8, <1>9, <1>10, <1>11, <1>12
        DEF Next

(* The inductive invariant of a controller that squeezes before it sends.  *)
CalmInv == Basic /\ FramesInv /\ NumberInv /\ EncInv
LEMMA CalmInit == Init => CalmInv
BY BasicInit, FramesInit, NumberInit, EncInit DEF CalmInv
LEMMA CalmStep ==
    ASSUME Calm
    PROVE  CalmInv /\ [Next]_vars => CalmInv'
<1>1. Tame
    BY DEF Calm
<1> QED BY <1>1, BasicStep, FramesStep, NumberStep, EncStep DEF CalmInv

(***************************************************************************)
(* Every packet that is taken for acknowledged was reported by the peer,   *)
(* when delayed packets are squeezed before they are sent.                 *)
(***************************************************************************)
THEOREM SendCtlAckedWasReported ==
    ASSUME Calm
    PROVE  Spec => []AckedWasReported
<1>1. Init => CalmInv
    BY CalmInit
<1>2. CalmInv /\ [Next]_vars => CalmInv'
    BY CalmStep
<1>3. CalmInv => AckedWasReported
    BY DEF CalmInv, EncInv
<1> QED BY <1>1, <1>2, <1>3, PTL DEF Spec

(***************************************************************************)
(* No ACK frame of a peer that acknowledges only what it was sent is       *)
(* refused, when delayed packets are squeezed before they are sent.        *)
(***************************************************************************)
THEOREM SendCtlHonestPeerAccepted ==
    ASSUME Calm
    PROVE  Spec => []HonestPeerAccepted
<1>1. Init => CalmInv
    BY CalmInit
<1>2. CalmInv /\ [Next]_vars => CalmInv'
    BY CalmStep
<1>3. CalmInv => HonestPeerAccepted
    BY DEF CalmInv, EncInv
<1> QED BY <1>1, <1>2, <1>3, PTL DEF Spec
=============================================================================

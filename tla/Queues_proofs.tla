---------------------------- MODULE Queues_proofs ----------------------------
(***************************************************************************)
(* Four stores of the engine and of its connections, for any sizes: the    *)
(* purgatory of connection IDs keeps an ID for its minimum life (Purga),   *)
(* the packet request queue neither leaks nor reuses a request (PrQueue),  *)
(* a push promise is freed by the last stream that holds it, while         *)
(* PUSH_PROMISE frames do not mix (PushPromise), and a connection issues   *)
(* as many IDs as its peer allows (ConnIds).                               *)
(***************************************************************************)
EXTENDS Purga, PrQueue, PushPromise, ConnIds, Sums_proofs, SequenceTheorems

-----------------------------------------------------------------------------
(* The members of a sequence, and what appending one does. *)
LEMMA AppendMembers ==
    ASSUME NEW S, NEW s \in Seq(S), NEW c \in S
    PROVE  /\ Append(s, c) \in Seq(S)
           /\ Len(Append(s, c)) = Len(s) + 1
           /\ ToSet(Append(s, c)) = ToSet(s) \cup {c}
<1>1. Append(s, c) \in Seq(S) /\ Len(Append(s, c)) = Len(s) + 1
    OBVIOUS
<1>2. ASSUME NEW x \in ToSet(Append(s, c)) PROVE x \in ToSet(s) \cup {c}
    BY DEF ToSet
<1>3. ASSUME NEW x \in ToSet(s) \cup {c} PROVE x \in ToSet(Append(s, c))
    <2>1. CASE x = c
        BY <2>1, <1>1 DEF ToSet
    <2>2. CASE x \in ToSet(s)
        <3>1. PICK i \in DOMAIN s : x = s[i]
            BY <2>2 DEF ToSet
        <3>2. i \in DOMAIN Append(s, c) /\ Append(s, c)[i] = x
            BY <3>1
        <3> QED BY <3>2 DEF ToSet
    <2> QED BY <2>1, <2>2
<1> QED BY <1>1, <1>2, <1>3

(* The page that receives an ID. *)
Base == IF pages = << >> \/ PageIsFull(Last(pages)) THEN EmptyPage ELSE Last(pages)
NewPage(c) == Stamp(WithId(Base, c))

LEMMA BasePage ==
    ASSUME PurgaInv
    PROVE  /\ Base \in Page
           /\ ~PageIsFull(Base)
           /\ \A d \in ToSet(Base.cids) : Hash[d] \subseteq Base.mask
<1>1. CASE pages = << >> \/ PageIsFull(Last(pages))
    <2>1. Base = EmptyPage
        BY <1>1 DEF Base
    <2>2. ToSet(EmptyPage.cids) = {} /\ Len(EmptyPage.cids) = 0
        BY DEF ToSet, EmptyPage
    <2>3. EmptyPage \in Page
        BY DEF EmptyPage, Page
    <2>4. ~(0 >= PerPage)
        BY PurgaAssumption
    <2> QED BY <2>1, <2>2, <2>3, <2>4 DEF PageIsFull
<1>2. CASE ~(pages = << >> \/ PageIsFull(Last(pages)))
    <2>1. Base = pages[Len(pages)] /\ Len(pages) \in DOMAIN pages
        BY <1>2 DEF Base, Last, PurgaInv, PurgaTypeOK
    <2> QED BY <1>2, <2>1 DEF Last, Base, PurgaInv, PurgaTypeOK, Filter
<1> QED BY <1>1, <1>2

LEMMA NewPageType ==
    ASSUME PurgaInv, NEW c \in PCid
    PROVE  /\ NewPage(c) \in Page
           /\ ToSet(NewPage(c).cids) = ToSet(Base.cids) \cup {c}
           /\ \A d \in ToSet(NewPage(c).cids) : Hash[d] \subseteq NewPage(c).mask
           /\ PageIsFull(NewPage(c)) => NewPage(c).last = p_now
<1> DEFINE b == Base
           q == WithId(b, c)
<1>1. /\ b \in Page /\ ~PageIsFull(b) /\ \A d \in ToSet(b.cids) : Hash[d] \subseteq b.mask
    BY BasePage
<1> HIDE DEF b
<1>2. b.cids \in Seq(PCid) /\ b.mask \in SUBSET UNION {Hash[d] : d \in PCid} /\ b.last \in Nat
    BY <1>1 DEF Page
<1>3. /\ Append(b.cids, c) \in Seq(PCid)
      /\ ToSet(Append(b.cids, c)) = ToSet(b.cids) \cup {c}
    BY <1>2, AppendMembers
<1>4. b.mask \cup Hash[c] \in SUBSET UNION {Hash[d] : d \in PCid}
    BY <1>2
<1>5. /\ q \in Page /\ q.cids = Append(b.cids, c) /\ q.mask = b.mask \cup Hash[c]
    BY <1>1, <1>3, <1>4 DEF Page, WithId
<1> HIDE DEF q
<1>6. \A d \in ToSet(q.cids) : Hash[d] \subseteq q.mask
    BY <1>1, <1>3, <1>5
<1>7. NewPage(c) = Stamp(q)
    BY DEF NewPage, q, b
<1>8. p_now \in Nat
    BY DEF PurgaInv, PurgaTypeOK
<1>9. CASE PageIsFull(q)
    <2> DEFINE r == [q EXCEPT !.last = p_now]
    <2>1. r \in Page /\ r.cids = q.cids /\ r.mask = q.mask /\ r.last = p_now
        BY <1>5, <1>8 DEF Page
    <2>2. NewPage(c) = r
        BY <1>7, <1>9 DEF Stamp
    <2> HIDE DEF r
    <2> QED BY <1>3, <1>5, <1>6, <2>1, <2>2 DEF b
<1>10. CASE ~PageIsFull(q)
    <2>1. NewPage(c) = q
        BY <1>7, <1>10 DEF Stamp
    <2> QED BY <1>3, <1>5, <1>6, <1>10, <2>1 DEF b
<1> QED BY <1>9, <1>10

LEMMA FiledAt ==
    ASSUME NEW g, NEW c, g[Len(g)] = Base
    PROVE  Filed(g, c) = [g EXCEPT ![Len(g)] = NewPage(c)]
BY DEF Filed, NewPage

(* The pages after an ID was filed, before any of them goes. *)
LEMMA FiledPages ==
    ASSUME PurgaInv, NEW c \in PCid, NEW ps, ps = Filed(GetPage, c)
    PROVE  /\ ps \in Seq(Page) /\ Len(ps) \in Nat \ {0}
           /\ ps[Len(ps)] = NewPage(c)
           /\ \A i \in 1 .. Len(ps) - 1 : i \in DOMAIN pages /\ ps[i] = pages[i]
           /\ \A i \in DOMAIN pages :
                \/ i \in 1 .. Len(ps) - 1
                \/ i = Len(ps) /\ pages[i] = Base
<1>0. pages \in Seq(Page) /\ NewPage(c) \in Page
    BY NewPageType DEF PurgaInv, PurgaTypeOK
<1>1. CASE pages = << >> \/ PageIsFull(Last(pages))
    <2>1. GetPage = Append(pages, EmptyPage) /\ Base = EmptyPage
        BY <1>1 DEF GetPage, Base
    <2>2. EmptyPage \in Page
        BY DEF EmptyPage, Page
    <2> DEFINE g == Append(pages, EmptyPage)
    <2>3. /\ g \in Seq(Page) /\ Len(g) = Len(pages) + 1 /\ g[Len(g)] = EmptyPage
          /\ \A i \in 1 .. Len(pages) : g[i] = pages[i]
        BY <1>0, <2>2
    <2> HIDE DEF g
    <2>4. ps = [g EXCEPT ![Len(g)] = NewPage(c)]
        <3>1. ps = Filed(g, c)
            BY <2>1 DEF g
        <3>2. g[Len(g)] = Base
            BY <2>1, <2>3
        <3>3. g = [i \in 1 .. Len(g) |-> g[i]] /\ Len(g) \in 1 .. Len(g)
            BY <2>3
        <3> QED BY <3>1, <3>2, <3>3, FiledAt
    <2> QED BY <1>0, <2>3, <2>4
<1>2. CASE ~(pages = << >> \/ PageIsFull(Last(pages)))
    <2>1. GetPage = pages /\ Base = pages[Len(pages)] /\ Len(pages) \in Nat \ {0}
        BY <1>0, <1>2 DEF GetPage, Base, Last
    <2>2. ps = [pages EXCEPT ![Len(pages)] = NewPage(c)]
        <3>1. Len(pages) \in 1 .. Len(pages) /\ pages = [i \in 1 .. Len(pages) |-> pages[i]]
            BY <1>0, <2>1
        <3> QED BY <2>1, <3>1, FiledAt
    <2> QED BY <1>0, <2>1, <2>2
<1> QED BY <1>1, <1>2

(* How many pages go: all of them expired, and never the last one. *)
LEMMA NumExpiredExists ==
    ASSUME NEW ps \in Seq(Page), Len(ps) \in Nat \ {0}
    PROVE  /\ NumExpired(ps) \in 0 .. Len(ps) - 1
           /\ \A i \in 1 .. NumExpired(ps) : Expired(ps[i])
<1> DEFINE L == Len(ps)
           T == {n \in 0 .. L - 1 : n + 1 < L => ~Expired(ps[n + 1])}
<1>1. T \in SUBSET Nat /\ L - 1 \in T
    OBVIOUS
<1>2. PICK n \in T : \A m \in T : n <= m
    BY <1>1, LeastNat
<1>3. ASSUME NEW i \in 1 .. n PROVE Expired(ps[i])
    <2>1. i - 1 \in 0 .. L - 1 /\ ~(n <= i - 1) /\ (i - 1) + 1 = i
        BY <1>2
    <2>2. i - 1 \notin T
        BY <1>2, <2>1
    <2> QED BY <2>1, <2>2
<1>4. \E m \in 0 .. L - 1 :
        /\ \A i \in 1 .. m : Expired(ps[i])
        /\ m + 1 < L => ~Expired(ps[m + 1])
    BY <1>2, <1>3
<1> QED BY <1>4 DEF NumExpired

(* An ID that was found stays, or its page went because its time was up. *)
LEMMA AddStep ==
    ASSUME PurgaInv, NEW c \in PCid, PurgaAdd(c)
    PROVE  PurgaInv'
<1> DEFINE ps == Filed(GetPage, c)
           n == NumExpired(ps)
           L == Len(ps)
<1>1. /\ pages' = SubSeq(ps, n + 1, L)
      /\ p_reported' = [d \in PCid |->
                IF \E i \in 1 .. n : d \in ToSet(ps[i].cids) THEN TRUE
                ELSE IF d = c THEN FALSE ELSE p_reported[d]]
      /\ p_added' = [p_added EXCEPT ![c] = p_now]
      /\ p_now' = p_now
    BY DEF PurgaAdd
<1>2. /\ ps \in Seq(Page) /\ L \in Nat \ {0} /\ ps[L] = NewPage(c)
      /\ \A i \in 1 .. L - 1 : i \in DOMAIN pages /\ ps[i] = pages[i]
      /\ \A i \in DOMAIN pages : i \in 1 .. L - 1 \/ (i = L /\ pages[i] = Base)
    BY FiledPages
<1> HIDE DEF ps
<1>3. n \in 0 .. L - 1 /\ \A i \in 1 .. n : Expired(ps[i])
    BY <1>2, NumExpiredExists
<1> HIDE DEF n
<1>4. /\ pages' \in Seq(Page) /\ Len(pages') = L - n
      /\ \A j \in 1 .. L - n : pages'[j] = ps[n + j]
    BY <1>1, <1>2, <1>3
<1>5. /\ pages \in Seq(Page) /\ p_now \in Nat
      /\ p_added \in [PCid -> Nat \cup {NoTime}] /\ p_reported \in [PCid -> BOOLEAN]
    BY DEF PurgaInv, PurgaTypeOK
<1>6. PurgaTypeOK'
    BY <1>1, <1>4, <1>5 DEF PurgaTypeOK
<1>7. /\ ToSet(ps[L].cids) = ToSet(Base.cids) \cup {c}
      /\ \A d \in ToSet(ps[L].cids) : Hash[d] \subseteq ps[L].mask
      /\ PageIsFull(ps[L]) => ps[L].last = p_now
    BY <1>2, NewPageType
<1>8. Filter'
    <2> SUFFICES ASSUME NEW j \in 1 .. L - n, NEW d \in ToSet(pages'[j].cids)
                 PROVE  Hash[d] \subseteq pages'[j].mask
        BY <1>4 DEF Filter
    <2>1. pages'[j] = ps[n + j] /\ n + j \in 1 .. L
        BY <1>3, <1>4
    <2>2. CASE n + j = L
        BY <1>7, <2>1, <2>2
    <2>3. CASE n + j # L
        <3>1. n + j \in 1 .. L - 1
            BY <1>2, <2>1, <2>3
        <3>2. n + j \in DOMAIN pages /\ ps[n + j] = pages[n + j]
            BY <1>2, <3>1
        <3> QED BY <2>1, <3>2 DEF PurgaInv, Filter
    <2> QED BY <2>2, <2>3
<1>9. ASSUME NEW i \in 1 .. L, i > n
      PROVE  i - n \in DOMAIN pages' /\ pages'[i - n] = ps[i]
    <2>1. i - n \in 1 .. L - n /\ n + (i - n) = i
        BY <1>2, <1>3, <1>9
    <2> QED BY <1>4, <2>1
<1>10. ASSUME NEW d \in PCid, p_added'[d] # NoTime
       PROVE  /\ p_added'[d] <= p_now'
              /\ Kept(d)' \/ (p_reported'[d] /\ p_added'[d] + MinLife < p_now')
    <2>1. CASE d = c
        <3>1. p_added'[d] = p_now
            BY <2>1, <1>1, <1>5
        <3>2. L - n \in DOMAIN pages' /\ pages'[L - n] = ps[L]
            <4>1. L \in 1 .. L /\ L > n
                BY <1>2, <1>3
            <4> QED BY <1>9, <4>1
        <3>3. Kept(d)'
            BY <1>5, <1>7, <2>1, <3>1, <3>2, SMTT(30) DEF Kept, PageIsFull
        <3> QED BY <1>1, <1>5, <3>1, <3>3
    <2>2. CASE d # c
        <3>1. p_added'[d] = p_added[d] /\ p_added[d] \in Nat /\ p_added[d] <= p_now
            BY <2>2, <1>1, <1>5, <1>10 DEF PurgaInv
        <3>2. CASE Kept(d)
            <4>1. PICK i \in DOMAIN pages :
                    /\ d \in ToSet(pages[i].cids)
                    /\ PageIsFull(pages[i]) => p_added[d] <= pages[i].last
                BY <3>2 DEF Kept
            <4>2. CASE i \in 1 .. L - 1 /\ i > n
                <5>1. i - n \in DOMAIN pages' /\ pages'[i - n] = pages[i]
                    BY <1>2, <1>9, <4>2
                <5>2. Kept(d)'
                    BY <3>1, <4>1, <5>1 DEF Kept, PageIsFull
                <5> QED BY <1>1, <3>1, <5>2
            <4>3. CASE i \in 1 .. L - 1 /\ ~(i > n)
                <5>1. i \in 1 .. n /\ ps[i] = pages[i]
                    BY <1>2, <1>3, <4>3
                <5>2. Expired(pages[i])
                    BY <1>3, <5>1
                <5>3. pages[i].last \in Nat
                    <6>1. pages[i] \in Page
                        BY <1>5
                    <6> QED BY <6>1 DEF Page
                <5>4. p_added[d] + MinLife < p_now
                    BY <1>5, <3>1, <4>1, <5>2, <5>3, PurgaAssumption DEF Expired
                <5>5. p_reported'[d]
                    BY <1>1, <4>1, <5>1
                <5> QED BY <1>1, <3>1, <5>4, <5>5
            <4>4. CASE i = L /\ pages[i] = Base
                <5>1. L - n \in DOMAIN pages' /\ pages'[L - n] = ps[L]
                    BY <1>2, <1>3, <1>9
                <5>2. d \in ToSet(ps[L].cids)
                    BY <1>7, <4>1, <4>4
                <5>3. Kept(d)'
                    BY <1>7, <3>1, <5>1, <5>2 DEF Kept, PageIsFull
                <5> QED BY <1>1, <3>1, <5>3
            <4> QED BY <1>2, <4>2, <4>3, <4>4
        <3>3. CASE ~Kept(d)
            <4>1. p_reported[d] /\ p_added[d] + MinLife < p_now
                BY <3>1, <3>3 DEF PurgaInv, NoTime
            <4>2. p_reported'[d]
                BY <1>1, <2>2, <4>1
            <4> QED BY <1>1, <3>1, <4>1, <4>2
        <3> QED BY <3>2, <3>3
    <2> QED BY <2>1, <2>2
<1> QED BY <1>6, <1>8, <1>10 DEF PurgaInv

LEMMA PurgaInduction ==
    ASSUME PurgaInv, [PurgaNext]_pvars
    PROVE  PurgaInv'
<1>1. CASE UNCHANGED pvars
    BY <1>1 DEF pvars, PurgaInv, PurgaTypeOK, Filter, Kept, PageIsFull
<1>2. CASE PTick
    <2>1. p_now' = p_now + 1 /\ pages' = pages /\ p_added' = p_added /\ p_reported' = p_reported
        BY <1>2 DEF PTick
    <2>2. p_now \in Nat /\ \A c \in PCid : p_added[c] # NoTime => p_added[c] \in Nat
        BY DEF PurgaInv, PurgaTypeOK
    <2>3. PurgaTypeOK' /\ Filter'
        BY <2>1, <2>2 DEF PurgaInv, PurgaTypeOK, Filter
    <2>4. \A c \in PCid : Kept(c)' = Kept(c)
        BY <2>1 DEF Kept
    <2> QED BY <2>1, <2>2, <2>3, <2>4, PurgaAssumption DEF PurgaInv
<1>3. CASE PurgaDestroy
    <2>1. /\ pages' = << >> /\ p_now' = p_now /\ p_added' = [c \in PCid |-> NoTime]
          /\ p_reported' = [c \in PCid |->
                (\E i \in 1 .. Len(pages) : c \in ToSet(pages[i].cids)) \/ p_reported[c]]
        BY <1>3 DEF PurgaDestroy
    <2>2. p_reported' \in [PCid -> BOOLEAN]
        BY <2>1, Zenon
    <2>3. PurgaTypeOK'
        BY <2>1, <2>2 DEF PurgaInv, PurgaTypeOK
    <2> QED BY <2>1, <2>3 DEF PurgaInv, Filter
<1>4. CASE \E c \in PCid : PurgaAdd(c)
    BY <1>4, AddStep
<1> QED BY <1>1, <1>2, <1>3, <1>4 DEF PurgaNext

(* A closed connection's ID is ignored for at least the minimum life, and  *)
(* an ID that lsquic_purga_contains() no longer finds was handed to the    *)
(* remove_cids callback: for any number of IDs, any page size and any      *)
(* filter bits.                                                            *)
THEOREM ClosedIdsAreIgnored == PurgaSpec => []IgnoredLongEnough
<1>1. PurgaInit => PurgaInv
    BY DEF PurgaInit, PurgaInv, PurgaTypeOK, Filter
<1>2. PurgaInv /\ [PurgaNext]_pvars => PurgaInv'
    BY PurgaInduction
<1>3. PurgaInv => IgnoredLongEnough
    <2> SUFFICES ASSUME PurgaInv, NEW c \in PCid, p_added[c] # NoTime
                 PROVE  /\ p_now <= p_added[c] + MinLife => PurgaContains(c)
                        /\ ~PurgaContains(c) => p_reported[c]
        BY DEF IgnoredLongEnough
    <2>1. Kept(c) => PurgaContains(c)
        BY DEF Kept, PurgaContains, PurgaInv, PurgaTypeOK, Filter
    <2>2. p_added[c] \in Nat /\ p_now \in Nat
        BY DEF PurgaInv, PurgaTypeOK
    <2> QED BY <2>1, <2>2, PurgaAssumption DEF PurgaInv
<1> QED BY <1>1, <1>2, <1>3, PTL DEF PurgaSpec

-----------------------------------------------------------------------------
(***************************************************************************)
(* The packet request queue.  The lists of connections first: taking the   *)
(* head and putting a connection in front.                                 *)
(***************************************************************************)
LEMMA HeadAndTail ==
    ASSUME NEW S, NEW s \in Seq(S), s # << >>, IsInjective(s)
    PROVE  /\ Head(s) \in ToSet(s) /\ Head(s) \in S
           /\ Tail(s) \in Seq(S) /\ IsInjective(Tail(s))
           /\ ToSet(Tail(s)) = ToSet(s) \ {Head(s)}
<1>1. /\ Len(s) \in Nat \ {0} /\ DOMAIN s = 1 .. Len(s) /\ Head(s) = s[1]
      /\ Head(s) \in S /\ Tail(s) \in Seq(S)
      /\ DOMAIN Tail(s) = 1 .. Len(s) - 1
      /\ \A i \in 1 .. Len(s) - 1 : Tail(s)[i] = s[i + 1]
    OBVIOUS
<1>2. \A i, j \in 1 .. Len(s) : s[i] = s[j] => i = j
    BY <1>1 DEF IsInjective
<1>3. IsInjective(Tail(s))
    BY <1>1, <1>2 DEF IsInjective
<1>4. Head(s) \in ToSet(s)
    BY <1>1 DEF ToSet
<1>5. ASSUME NEW x \in ToSet(Tail(s)) PROVE x \in ToSet(s) \ {Head(s)}
    <2>1. PICK i \in 1 .. Len(s) - 1 : x = Tail(s)[i]
        BY <1>1 DEF ToSet
    <2>2. x = s[i + 1] /\ i + 1 \in 1 .. Len(s) /\ i + 1 # 1
        BY <1>1, <2>1
    <2>3. x # s[1]
        BY <1>1, <1>2, <2>2
    <2> QED BY <1>1, <2>2, <2>3 DEF ToSet
<1>6. ASSUME NEW x \in ToSet(s) \ {Head(s)} PROVE x \in ToSet(Tail(s))
    <2>1. PICK i \in 1 .. Len(s) : x = s[i]
        BY <1>1 DEF ToSet
    <2>2. i # 1
        BY <1>1, <2>1
    <2>3. i - 1 \in 1 .. Len(s) - 1 /\ Tail(s)[i - 1] = x
        BY <1>1, <2>1, <2>2
    <2> QED BY <1>1, <2>3 DEF ToSet
<1> QED BY <1>1, <1>3, <1>4, <1>5, <1>6

LEMMA PutInFront ==
    ASSUME NEW S, NEW s \in Seq(S), NEW e \in S, IsInjective(s), e \notin ToSet(s)
    PROVE  /\ <<e>> \o s \in Seq(S) /\ IsInjective(<<e>> \o s)
           /\ ToSet(<<e>> \o s) = ToSet(s) \cup {e}
<1> DEFINE t == <<e>> \o s
<1>1. /\ t \in Seq(S) /\ Len(s) \in Nat /\ DOMAIN s = 1 .. Len(s)
      /\ DOMAIN t = 1 .. Len(s) + 1 /\ t[1] = e
      /\ \A i \in 2 .. Len(s) + 1 : t[i] = s[i - 1]
    OBVIOUS
<1> HIDE DEF t
<1>2. ASSUME NEW i \in 1 .. Len(s) + 1, NEW j \in 1 .. Len(s) + 1, t[i] = t[j] PROVE i = j
    <2>1. \A k \in 2 .. Len(s) + 1 : t[k] = s[k - 1] /\ k - 1 \in DOMAIN s /\ t[k] # e
        <3>1. \A m \in DOMAIN s : s[m] # e
            BY DEF ToSet
        <3>2. \A k \in 2 .. Len(s) + 1 : k - 1 \in 1 .. Len(s)
            BY <1>1
        <3> QED BY <1>1, <3>1, <3>2
    <2>2. CASE i = 1 \/ j = 1
        BY <1>1, <1>2, <2>1, <2>2
    <2>3. CASE i # 1 /\ j # 1
        <3>1. i - 1 \in DOMAIN s /\ j - 1 \in DOMAIN s /\ s[i - 1] = s[j - 1]
            BY <1>1, <1>2, <2>1, <2>3
        <3>2. i - 1 = j - 1
            BY <3>1 DEF IsInjective
        <3> QED BY <3>2
    <2> QED BY <2>2, <2>3
<1>3. ASSUME NEW x \in ToSet(t) PROVE x \in ToSet(s) \cup {e}
    <2>1. PICK i \in 1 .. Len(s) + 1 : x = t[i]
        BY <1>1 DEF ToSet
    <2>2. i = 1 \/ (i \in 2 .. Len(s) + 1 /\ i - 1 \in 1 .. Len(s))
        BY <1>1
    <2> QED BY <1>1, <2>1, <2>2 DEF ToSet
<1>4. ASSUME NEW x \in ToSet(s) \cup {e} PROVE x \in ToSet(t)
    <2>1. CASE x = e
        BY <1>1, <2>1 DEF ToSet
    <2>2. CASE x \in ToSet(s)
        <3>1. PICK i \in 1 .. Len(s) : x = s[i]
            BY <1>1, <2>2 DEF ToSet
        <3>2. i + 1 \in 2 .. Len(s) + 1 /\ i + 1 \in DOMAIN t /\ t[i + 1] = s[i]
            BY <1>1
        <3> QED BY <3>1, <3>2 DEF ToSet
    <2> QED BY <2>1, <2>2
<1> QED BY <1>1, <1>2, <1>3, <1>4 DEF t, IsInjective

(* There is an element left as long as the count is below the limit. *)
LEMMA OneLeft ==
    ASSUME NEW n \in Nat, NEW T \in SUBSET (1 .. n), Cardinality(T) < n
    PROVE  Min((1 .. n) \ T) \in (1 .. n) \ T
<1>1. IsFiniteSet(1 .. n) /\ Cardinality(1 .. n) = n
    <2>1. 1 \in Int /\ n \in Int
        OBVIOUS
    <2>2. IsFiniteSet(1 .. n) /\ Cardinality(1 .. n) = IF 1 > n THEN 0 ELSE n - 1 + 1
        BY <2>1, FS_Interval
    <2> QED BY <2>2
<1>2. (1 .. n) \ T # {}
    <2>1. T # 1 .. n
        BY <1>1
    <2> QED BY <2>1
<1>3. (1 .. n) \ T \in SUBSET Nat
    OBVIOUS
<1> DEFINE D == (1 .. n) \ T
<1> HIDE DEF D
<1>4. \E k \in D : \A m \in D : k <= m
    BY <1>2, <1>3, LeastNat DEF D
<1>5. Min(D) \in D
    BY <1>4 DEF Min
<1> QED BY <1>5 DEF D

LEMMA CountOf ==
    ASSUME NEW n \in Nat, NEW T \in SUBSET (1 .. n), NEW x
    PROVE  /\ Cardinality(T) \in Nat
           /\ x \notin T => Cardinality(T \cup {x}) = Cardinality(T) + 1
           /\ x \in T => Cardinality(T \ {x}) = Cardinality(T) - 1 /\ Cardinality(T) > 0
<1>1. IsFiniteSet(T)
    <2>1. 1 \in Int /\ n \in Int
        OBVIOUS
    <2>2. IsFiniteSet(1 .. n)
        BY <2>1, FS_Interval
    <2> QED BY <2>2, FS_Subset
<1>2. Cardinality(T) \in Nat
    BY <1>1, FS_CardinalityType
<1>3. x \in T => Cardinality(T) # 0
    BY <1>1, FS_EmptySet
<1>4. Cardinality(T \cup {x}) = IF x \in T THEN Cardinality(T) ELSE Cardinality(T) + 1
    BY <1>1, FS_AddElement
<1>5. Cardinality(T \ {x}) = IF x \in T THEN Cardinality(T) - 1 ELSE Cardinality(T)
    BY <1>1, FS_RemoveElement
<1> QED BY <1>2, <1>3, <1>4, <1>5

(* A stateless reset is at least one byte shorter than what it answers. *)
LEMMA ResetIsBelow ==
    ASSUME NEW sz \in Nat, sz > MinReset, NEW size \in ResetSizes(sz)
    PROVE  size \in Nat /\ size < sz
<1> DEFINE max == Min({MaxReset, sz - 1})
<1>1. max \in Int /\ max <= sz - 1
    <2>1. MaxReset \in Nat /\ sz - 1 \in Int
        BY PrQueueAssumption
    <2>2. \E x \in {MaxReset, sz - 1} : \A y \in {MaxReset, sz - 1} : x <= y
        BY <2>1
    <2>3. max \in {MaxReset, sz - 1} /\ \A y \in {MaxReset, sz - 1} : max <= y
        BY <2>2 DEF Min
    <2> QED BY <2>1, <2>3
<1>2. size \in IF max > MinReset THEN {MinReset + (r % (max - MinReset)) : r \in 0 .. 255}
               ELSE {MinReset}
    BY DEF ResetSizes
<1> HIDE DEF max
<1>3. MinReset \in Nat
    BY PrQueueAssumption
<1>4. CASE max > MinReset
    <2>1. PICK r \in 0 .. 255 : size = MinReset + (r % (max - MinReset))
        BY <1>2, <1>4
    <2>2. max - MinReset \in Nat \ {0}
        BY <1>1, <1>3, <1>4
    <2>3. r % (max - MinReset) \in 0 .. (max - MinReset) - 1
        BY <2>2
    <2> QED BY <1>1, <1>3, <2>1, <2>2, <2>3
<1>5. CASE ~(max > MinReset)
    BY <1>2, <1>3, <1>5
<1> QED BY <1>4, <1>5

-----------------------------------------------------------------------------
(* What the invariant says, part by part, of the sets the steps change. *)
LEMMA QueueFacts ==
    ASSUME PrQueueInv
    PROVE  /\ Allocated \in SUBSET QSlot /\ InUse \in SUBSET EvConn
           /\ ToSet(free_conns) \in SUBSET EvConn
           /\ \A s \in Allocated : req[s] \in Request
           /\ \A s \in QSlot \ Allocated : req[s] = Freed
<1>1. free_conns \in Seq(EvConn) /\ returned_conns \in Seq(EvConn) /\ batched \in SUBSET EvConn
    BY DEF PrQueueInv, PrQueueTypeOK
<1>2. ToSet(free_conns) \in SUBSET EvConn /\ ToSet(returned_conns) \in SUBSET EvConn
    BY <1>1 DEF ToSet
<1>3. req \in [QSlot -> Request \cup {Freed}]
    BY DEF PrQueueInv, PrQueueTypeOK
<1> QED BY <1>1, <1>2, <1>3 DEF Allocated, InUse

LEMMA RequestIsNotFreed ==
    ASSUME NEW r \in Request
    PROVE  r # Freed
BY DEF Request, Types, Freed

(* A new request gets a slot that nothing refers to. *)
LEMMA NewReqStep ==
    ASSUME PrQueueInv, NEW type \in Types, NEW gquic \in BOOLEAN, NEW cid \in QCid,
           NEW sz \in Sizes, NewReq(type, gquic, cid, sz)
    PROVE  PrQueueInv'
<1> DEFINE s == Min(QSlot \ Allocated)
<1>1. PICK size \in IF type = "pubres" /\ ~gquic
                    THEN (IF sz <= MinReset THEN {} ELSE ResetSizes(sz)) ELSE {0} :
        /\ req' = [req EXCEPT ![s] = [type |-> type, cid |-> cid, size |-> size,
                                      trigger |-> sz]]
        /\ reqs_hash' = reqs_hash \cup {s}
    BY DEF NewReq
<1>2. /\ nreqs < MaxReqs /\ ~Waiting(type, cid) /\ nreqs' = nreqs + 1
      /\ UNCHANGED <<evc_req, evc_drop, free_conns, returned_conns, batched, nconns>>
    BY DEF NewReq
<1>3. PrQueueTypeOK /\ RequestsOwnedOnce /\ ResetIsShorter
      /\ batched \cap ToSet(returned_conns) = {}
    BY DEF PrQueueInv, PacketQueueIsSound
<1>4. s \in QSlot /\ s \notin Allocated
    <2>1. Cardinality(Allocated) < MaxReqs
        BY <1>2, <1>3 DEF RequestsOwnedOnce
    <2>2. MaxReqs \in Nat /\ Allocated \in SUBSET (1 .. MaxReqs)
        BY QueueFacts, PrQueueAssumption DEF QSlot
    <2>3. Min((1 .. MaxReqs) \ Allocated) \in (1 .. MaxReqs) \ Allocated
        BY <2>1, <2>2, OneLeft
    <2> QED BY <2>3 DEF QSlot
<1> HIDE DEF s
<1> DEFINE r == [type |-> type, cid |-> cid, size |-> size, trigger |-> sz]
<1>5. size \in Nat /\ (size > 0 => size < sz) /\ sz \in Nat
    <2>1. sz \in Nat /\ MinReset \in Nat
        BY PrQueueAssumption
    <2>2. CASE type = "pubres" /\ ~gquic
        <3>1. ~(sz <= MinReset) /\ size \in ResetSizes(sz)
            BY <2>2, <1>1
        <3> QED BY <2>1, <3>1, ResetIsBelow
    <2>3. CASE ~(type = "pubres" /\ ~gquic)
        BY <2>1, <2>3, <1>1
    <2> QED BY <2>2, <2>3
<1>6. r \in Request /\ r.type = type /\ r.cid = cid /\ r.size = size /\ r.trigger = sz
    BY <1>5 DEF Request
<1>7. req' = [req EXCEPT ![s] = r]
    BY <1>1
<1> HIDE DEF r
<1>8. req \in [QSlot -> Request \cup {Freed}]
    BY <1>3 DEF PrQueueTypeOK
<1>9. Allocated' = Allocated \cup {s} /\ req'[s] = r /\ \A t \in Allocated : req'[t] = req[t]
    <2>1. r # Freed
        BY <1>6, RequestIsNotFreed
    <2> QED BY <1>4, <1>7, <1>8, <2>1 DEF Allocated
<1>10. InUse' = InUse
    BY <1>2 DEF InUse
<1>11. PrQueueTypeOK'
    <2>1. req' \in [QSlot -> Request \cup {Freed}]
        BY <1>4, <1>6, <1>7, <1>8
    <2> QED BY <1>1, <1>2, <1>3, <1>4, <2>1 DEF PrQueueTypeOK
<1>12. RequestsOwnedOnce'
    <2>1. reqs_hash \subseteq Allocated /\ s \notin reqs_hash
        BY <1>3, <1>4 DEF RequestsOwnedOnce
    <2>2. \A e \in InUse' : evc_req'[e] \in Allocated' \ reqs_hash'
        BY <1>1, <1>2, <1>3, <1>4, <1>9, <1>10 DEF RequestsOwnedOnce
    <2>3. \A e, f \in InUse' : evc_req'[e] = evc_req'[f] => e = f
        BY <1>2, <1>3, <1>10 DEF RequestsOwnedOnce
    <2>4. Allocated' = reqs_hash' \cup {evc_req'[e] : e \in InUse'}
        <3>1. Allocated = reqs_hash \cup {evc_req[e] : e \in InUse}
            BY <1>3 DEF RequestsOwnedOnce
        <3> QED BY <1>1, <1>2, <1>9, <1>10, <3>1
    <2>5. nreqs' = Cardinality(Allocated')
        <3>1. MaxReqs \in Nat /\ Allocated \in SUBSET (1 .. MaxReqs)
            BY QueueFacts, PrQueueAssumption DEF QSlot
        <3>2. Cardinality(Allocated \cup {s}) = Cardinality(Allocated) + 1
            BY <1>4, <3>1, CountOf
        <3> QED BY <1>2, <1>3, <1>9, <3>2 DEF RequestsOwnedOnce
    <2>6. /\ nconns' = Cardinality(InUse')
          /\ IsInjective(free_conns') /\ IsInjective(returned_conns')
          /\ ToSet(free_conns') \cap InUse' = {}
        BY <1>2, <1>3, <1>10 DEF RequestsOwnedOnce
    <2>7. ASSUME NEW t \in reqs_hash', NEW u \in reqs_hash',
                 req'[t].type = req'[u].type, req'[t].cid = req'[u].cid
          PROVE  t = u
        <3>1. \A v \in reqs_hash : req'[v] = req[v] /\ ~(req[v].type = type /\ req[v].cid = cid)
            BY <1>2, <1>9, <2>1 DEF Waiting
        <3>2. req'[s].type = type /\ req'[s].cid = cid
            BY <1>6, <1>9
        <3>3. CASE t = s \/ u = s
            BY <1>1, <2>7, <3>1, <3>2, <3>3
        <3>4. CASE t # s /\ u # s
            <4>1. t \in reqs_hash /\ u \in reqs_hash
                BY <1>1, <3>4
            <4> QED BY <1>3, <2>7, <3>1, <4>1 DEF RequestsOwnedOnce
        <3> QED BY <3>3, <3>4
    <2> QED BY <2>2, <2>3, <2>4, <2>5, <2>6, <2>7 DEF RequestsOwnedOnce
<1>13. ResetIsShorter'
    BY <1>3, <1>5, <1>6, <1>9 DEF ResetIsShorter
<1> QED BY <1>2, <1>3, <1>11, <1>12, <1>13 DEF PrQueueInv, PacketQueueIsSound

(* A connection changes lists but stays in use. *)
LEMMA SameUse ==
    ASSUME PrQueueInv, InUse' = InUse,
           UNCHANGED <<req, reqs_hash, evc_req, free_conns, nreqs, nconns>>,
           returned_conns' \in Seq(EvConn), IsInjective(returned_conns'),
           batched' \in SUBSET EvConn, batched' \cap ToSet(returned_conns') = {}
    PROVE  PrQueueInv'
<1>1. PrQueueTypeOK'
    BY DEF PrQueueInv, PrQueueTypeOK
<1>2. Allocated' = Allocated
    BY DEF Allocated
<1>3. RequestsOwnedOnce'
    <2>1. RequestsOwnedOnce
        BY DEF PrQueueInv, PacketQueueIsSound
    <2>2. {evc_req'[e] : e \in InUse'} = {evc_req[e] : e \in InUse}
        OBVIOUS
    <2> QED BY <1>2, <2>1, <2>2 DEF RequestsOwnedOnce
<1>4. ResetIsShorter'
    BY <1>2 DEF PrQueueInv, PacketQueueIsSound, ResetIsShorter
<1> QED BY <1>1, <1>3, <1>4 DEF PrQueueInv, PacketQueueIsSound

LEMMA NextReturnedStep ==
    ASSUME PrQueueInv, NextReturned
    PROVE  PrQueueInv'
<1> DEFINE e == Head(returned_conns)
<1>1. /\ returned_conns # << >> /\ returned_conns' = Tail(returned_conns)
      /\ batched' = batched \cup {e}
      /\ UNCHANGED <<req, reqs_hash, evc_req, free_conns, nreqs, nconns>>
    BY DEF NextReturned
<1>2. returned_conns \in Seq(EvConn) /\ batched \in SUBSET EvConn /\ IsInjective(returned_conns)
      /\ batched \cap ToSet(returned_conns) = {}
    BY DEF PrQueueInv, PrQueueTypeOK, PacketQueueIsSound, RequestsOwnedOnce
<1>3. /\ e \in ToSet(returned_conns) /\ e \in EvConn
      /\ returned_conns' \in Seq(EvConn) /\ IsInjective(returned_conns')
      /\ ToSet(returned_conns') = ToSet(returned_conns) \ {e}
    BY <1>1, <1>2, HeadAndTail
<1> HIDE DEF e
<1>4. InUse' = InUse
    BY <1>1, <1>2, <1>3 DEF InUse
<1>5. batched' \in SUBSET EvConn /\ batched' \cap ToSet(returned_conns') = {}
    BY <1>1, <1>2, <1>3
<1> QED BY <1>1, <1>3, <1>4, <1>5, SameUse

(* A connection that is reused or new is not in use. *)
LEMMA EvconnIsNew ==
    ASSUME PrQueueInv, ~ConnLimit, returned_conns = << >>
    PROVE  GetEvconn \in EvConn /\ GetEvconn \notin InUse
<1>1. RequestsOwnedOnce /\ free_conns \in Seq(EvConn) /\ nconns \in Nat
    BY DEF PrQueueInv, PrQueueTypeOK, PacketQueueIsSound
<1>2. CASE free_conns # << >>
    <2>1. IsInjective(free_conns) /\ ToSet(free_conns) \cap InUse = {}
        BY <1>1 DEF RequestsOwnedOnce
    <2>2. Head(free_conns) \in ToSet(free_conns) /\ Head(free_conns) \in EvConn
        BY <1>1, <1>2, <2>1, HeadAndTail
    <2> QED BY <1>2, <2>1, <2>2 DEF GetEvconn
<1>3. CASE free_conns = << >>
    <2>1. KnownConns = InUse
        BY <1>3 DEF KnownConns, InUse, ToSet
    <2>2. MaxConns \in Nat /\ InUse \in SUBSET (1 .. MaxConns) /\ Cardinality(InUse) < MaxConns
        BY <1>1, QueueFacts, PrQueueAssumption DEF EvConn, ConnLimit, RequestsOwnedOnce
    <2>3. Min((1 .. MaxConns) \ InUse) \in (1 .. MaxConns) \ InUse
        BY <2>2, OneLeft
    <2>4. GetEvconn = Min((1 .. MaxConns) \ InUse)
        BY <1>3, <2>1 DEF GetEvconn, EvConn
    <2> QED BY <2>3, <2>4 DEF EvConn
<1> QED BY <1>2, <1>3

(* The request goes from the hash to the connection. *)
LEMMA NextConnStep ==
    ASSUME PrQueueInv, NEW s \in QSlot, NextConn(s)
    PROVE  PrQueueInv'
<1> DEFINE e == GetEvconn
<1>1. /\ returned_conns = << >> /\ returned_conns' = returned_conns /\ s \in reqs_hash
      /\ ~ConnLimit
      /\ free_conns' = IF free_conns # << >> THEN Tail(free_conns) ELSE << >>
      /\ evc_req' = [evc_req EXCEPT ![e] = s]
      /\ batched' = batched \cup {e}
      /\ reqs_hash' = reqs_hash \ {s}
      /\ nconns' = nconns + 1
      /\ req' = req /\ nreqs' = nreqs
    BY DEF NextConn
<1>2. e \in EvConn /\ e \notin InUse
    BY <1>1, EvconnIsNew
<1>3. PrQueueTypeOK /\ RequestsOwnedOnce /\ ResetIsShorter
    BY DEF PrQueueInv, PacketQueueIsSound
<1>4. /\ free_conns \in Seq(EvConn) /\ evc_req \in [EvConn -> QSlot \cup {NoSlot}]
      /\ IsInjective(free_conns) /\ ToSet(free_conns) \cap InUse = {}
    BY <1>3 DEF PrQueueTypeOK, RequestsOwnedOnce
<1>5. /\ free_conns' \in Seq(EvConn) /\ IsInjective(free_conns')
      /\ ToSet(free_conns') \subseteq ToSet(free_conns) \ {e}
    <2>1. CASE free_conns # << >>
        <3>1. e = Head(free_conns) /\ free_conns' = Tail(free_conns)
            BY <1>1, <2>1 DEF GetEvconn
        <3> QED BY <1>4, <2>1, <3>1, HeadAndTail
    <2>2. CASE free_conns = << >>
        <3>1. free_conns' = << >>
            BY <1>1, <2>2
        <3> QED BY <3>1 DEF ToSet, IsInjective
    <2> QED BY <2>1, <2>2
<1> HIDE DEF e
<1>6. Allocated' = Allocated /\ InUse' = InUse \cup {e}
    BY <1>1 DEF Allocated, InUse
<1>7. evc_req'[e] = s /\ \A f \in InUse : evc_req'[f] = evc_req[f]
    BY <1>1, <1>2, <1>4, QueueFacts
<1>8. PrQueueTypeOK'
    BY <1>1, <1>2, <1>3, <1>4, <1>5 DEF PrQueueTypeOK
<1>9. RequestsOwnedOnce'
    <2>1. /\ \A f \in InUse : evc_req[f] \in Allocated \ reqs_hash
          /\ \A f, g \in InUse : evc_req[f] = evc_req[g] => f = g
          /\ Allocated = reqs_hash \cup {evc_req[f] : f \in InUse}
        BY <1>3 DEF RequestsOwnedOnce
    <2>2. \A f \in InUse' : evc_req'[f] \in Allocated' \ reqs_hash'
        BY <1>1, <1>6, <1>7, <2>1
    <2>3. \A f, g \in InUse' : evc_req'[f] = evc_req'[g] => f = g
        BY <1>1, <1>6, <1>7, <2>1
    <2>4. Allocated' = reqs_hash' \cup {evc_req'[f] : f \in InUse'}
        <3>1. {evc_req'[f] : f \in InUse'} = {evc_req[f] : f \in InUse} \cup {s}
            BY <1>6, <1>7
        <3> QED BY <1>1, <1>6, <2>1, <3>1
    <2>5. nreqs' = Cardinality(Allocated')
        BY <1>1, <1>3, <1>6 DEF RequestsOwnedOnce
    <2>6. nconns' = Cardinality(InUse')
        <3>1. MaxConns \in Nat /\ InUse \in SUBSET (1 .. MaxConns)
            BY QueueFacts, PrQueueAssumption DEF EvConn
        <3>2. Cardinality(InUse \cup {e}) = Cardinality(InUse) + 1
            BY <1>2, <3>1, CountOf
        <3> QED BY <1>1, <1>3, <1>6, <3>2 DEF RequestsOwnedOnce
    <2>7. IsInjective(free_conns') /\ IsInjective(returned_conns')
          /\ ToSet(free_conns') \cap InUse' = {}
        BY <1>1, <1>3, <1>4, <1>5, <1>6 DEF RequestsOwnedOnce
    <2>8. \A t, u \in reqs_hash' :
            req'[t].type = req'[u].type /\ req'[t].cid = req'[u].cid => t = u
        BY <1>1, <1>3 DEF RequestsOwnedOnce
    <2> QED BY <2>2, <2>3, <2>4, <2>5, <2>6, <2>7, <2>8 DEF RequestsOwnedOnce
<1>10. ResetIsShorter'
    BY <1>1, <1>3, <1>6 DEF ResetIsShorter
<1>11. batched' \cap ToSet(returned_conns') = {}
    BY <1>1 DEF ToSet
<1> QED BY <1>8, <1>9, <1>10, <1>11 DEF PrQueueInv, PacketQueueIsSound

(* The request and the connection become free together. *)
LEMMA FreeStep ==
    ASSUME PrQueueInv, NEW e \in batched, FreeConn(e), batched' = batched \ {e},
           UNCHANGED <<reqs_hash, evc_req, returned_conns>>
    PROVE  PrQueueInv'
<1> DEFINE s == evc_req[e]
<1>1. /\ req' = [req EXCEPT ![s] = Freed] /\ nreqs' = nreqs - 1
      /\ free_conns' = <<e>> \o free_conns /\ nconns' = nconns - 1
    BY DEF FreeConn, PutReq
<1>2. /\ PrQueueTypeOK /\ RequestsOwnedOnce /\ ResetIsShorter
      /\ batched \cap ToSet(returned_conns) = {}
    BY DEF PrQueueInv, PacketQueueIsSound
<1>3. /\ \A f \in InUse : evc_req[f] \in Allocated \ reqs_hash
      /\ \A f, g \in InUse : evc_req[f] = evc_req[g] => f = g
      /\ Allocated = reqs_hash \cup {evc_req[f] : f \in InUse}
    BY <1>2 DEF RequestsOwnedOnce
<1>4. e \in EvConn /\ e \in InUse /\ e \notin ToSet(returned_conns)
    BY <1>2, QueueFacts DEF InUse
<1>5. s \in Allocated /\ s \notin reqs_hash /\ s \in QSlot
    BY <1>3, <1>4, QueueFacts
<1>6. \A f \in InUse \ {e} : evc_req[f] # s
    BY <1>3, <1>4
<1> HIDE DEF s
<1>7. req \in [QSlot -> Request \cup {Freed}] /\ free_conns \in Seq(EvConn)
    BY <1>2 DEF PrQueueTypeOK
<1>8. Allocated' = Allocated \ {s} /\ \A t \in Allocated' : req'[t] = req[t]
    BY <1>1, <1>5, <1>7 DEF Allocated
<1>9. InUse' = InUse \ {e}
    BY <1>2, <1>4 DEF InUse
<1>10. /\ free_conns' \in Seq(EvConn) /\ IsInjective(free_conns')
       /\ ToSet(free_conns') = ToSet(free_conns) \cup {e}
    <2>1. IsInjective(free_conns) /\ e \notin ToSet(free_conns)
        BY <1>2, <1>4 DEF RequestsOwnedOnce
    <2> QED BY <1>1, <1>4, <1>7, <2>1, PutInFront
<1>11. nreqs' = Cardinality(Allocated') /\ nreqs' \in Nat
    <2>1. MaxReqs \in Nat /\ Allocated \in SUBSET (1 .. MaxReqs)
        BY QueueFacts, PrQueueAssumption DEF QSlot
    <2>2. /\ Cardinality(Allocated) \in Nat /\ Cardinality(Allocated) > 0
          /\ Cardinality(Allocated \ {s}) = Cardinality(Allocated) - 1
        BY <1>5, <2>1, CountOf
    <2> QED BY <1>1, <1>2, <1>8, <2>2 DEF RequestsOwnedOnce
<1>12. nconns' = Cardinality(InUse') /\ nconns' \in Nat
    <2>1. MaxConns \in Nat /\ InUse \in SUBSET (1 .. MaxConns)
        BY QueueFacts, PrQueueAssumption DEF EvConn
    <2>2. /\ Cardinality(InUse) \in Nat /\ Cardinality(InUse) > 0
          /\ Cardinality(InUse \ {e}) = Cardinality(InUse) - 1
        BY <1>4, <2>1, CountOf
    <2> QED BY <1>1, <1>2, <1>9, <2>2 DEF RequestsOwnedOnce
<1>13. PrQueueTypeOK'
    <2>1. req' \in [QSlot -> Request \cup {Freed}]
        BY <1>1, <1>7
    <2> QED BY <1>2, <1>10, <1>11, <1>12, <2>1 DEF PrQueueTypeOK
<1>14. RequestsOwnedOnce'
    <2>1. \A f \in InUse' : evc_req'[f] \in Allocated' \ reqs_hash'
        BY <1>3, <1>6, <1>8, <1>9
    <2>2. \A f, g \in InUse' : evc_req'[f] = evc_req'[g] => f = g
        BY <1>3, <1>9
    <2>3. Allocated' = reqs_hash' \cup {evc_req'[f] : f \in InUse'}
        <3>1. {evc_req'[f] : f \in InUse'} = {evc_req[f] : f \in InUse} \ {s}
            BY <1>6, <1>9 DEF s
        <3> QED BY <1>3, <1>5, <1>8, <3>1
    <2>4. IsInjective(returned_conns') /\ ToSet(free_conns') \cap InUse' = {}
        BY <1>2, <1>9, <1>10 DEF RequestsOwnedOnce
    <2>5. \A t, u \in reqs_hash' :
            req'[t].type = req'[u].type /\ req'[t].cid = req'[u].cid => t = u
        <3>1. \A t \in reqs_hash : req'[t] = req[t]
            BY <1>3, <1>5, <1>8
        <3> QED BY <1>2, <3>1 DEF RequestsOwnedOnce
    <2> QED BY <1>10, <1>11, <1>12, <2>1, <2>2, <2>3, <2>4, <2>5 DEF RequestsOwnedOnce
<1>15. ResetIsShorter'
    BY <1>2, <1>8 DEF ResetIsShorter
<1>16. batched' \cap ToSet(returned_conns') = {}
    BY <1>2
<1> QED BY <1>13, <1>14, <1>15, <1>16 DEF PrQueueInv, PacketQueueIsSound

LEMMA NotSentStep ==
    ASSUME PrQueueInv, NEW e \in EvConn, PacketNotSent(e)
    PROVE  PrQueueInv'
<1>1. /\ e \in batched /\ batched' = batched \ {e}
      /\ UNCHANGED <<reqs_hash, evc_req>>
    BY DEF PacketNotSent
<1>2. CASE e \in evc_drop
    <2>1. FreeConn(e) /\ returned_conns' = returned_conns
        BY <1>2 DEF PacketNotSent
    <2> QED BY <1>1, <2>1, FreeStep
<1>3. CASE e \notin evc_drop
    <2>1. /\ returned_conns' = <<e>> \o returned_conns
          /\ UNCHANGED <<req, nreqs, free_conns, nconns>>
        BY <1>3 DEF PacketNotSent
    <2>2. /\ returned_conns \in Seq(EvConn) /\ IsInjective(returned_conns)
          /\ e \notin ToSet(returned_conns) /\ batched \in SUBSET EvConn
          /\ batched \cap ToSet(returned_conns) = {}
        BY <1>1 DEF PrQueueInv, PrQueueTypeOK, PacketQueueIsSound, RequestsOwnedOnce
    <2>3. /\ returned_conns' \in Seq(EvConn) /\ IsInjective(returned_conns')
          /\ ToSet(returned_conns') = ToSet(returned_conns) \cup {e}
        BY <2>1, <2>2, PutInFront
    <2>4. InUse' = InUse
        BY <1>1, <2>3 DEF InUse
    <2>5. batched' \in SUBSET EvConn /\ batched' \cap ToSet(returned_conns') = {}
        BY <1>1, <2>2, <2>3
    <2> QED BY <1>1, <2>1, <2>3, <2>4, <2>5, SameUse
<1> QED BY <1>2, <1>3

LEMMA PrQueueInduction == PrQueueSpec => []PrQueueInv
<1>1. PrQueueInit => PrQueueInv
    <2> SUFFICES ASSUME PrQueueInit PROVE PrQueueInv
        OBVIOUS
    <2>1. Allocated = {} /\ InUse = {} /\ ToSet(returned_conns) = {} /\ ToSet(free_conns) = {}
        BY DEF PrQueueInit, Allocated, InUse, ToSet
    <2>2. Cardinality({}) = 0
        BY FS_EmptySet
    <2>3. PrQueueTypeOK
        BY DEF PrQueueInit, PrQueueTypeOK, NoSlot
    <2>4. RequestsOwnedOnce
        BY <2>1, <2>2 DEF PrQueueInit, RequestsOwnedOnce, IsInjective
    <2> QED BY <2>1, <2>3, <2>4 DEF PrQueueInv, PacketQueueIsSound, ResetIsShorter
<1>2. PrQueueInv /\ [PrQueueNext]_qvars => PrQueueInv'
    <2> SUFFICES ASSUME PrQueueInv, [PrQueueNext]_qvars PROVE PrQueueInv'
        OBVIOUS
    <2>1. ASSUME NEW type \in Types, NEW gquic \in BOOLEAN, NEW cid \in QCid, NEW sz \in Sizes,
                 NewReq(type, gquic, cid, sz)
          PROVE  PrQueueInv'
        BY <2>1, NewReqStep
    <2>2. CASE NextReturned
        BY <2>2, NextReturnedStep
    <2>3. ASSUME NEW s \in QSlot, NextConn(s) PROVE PrQueueInv'
        BY <2>3, NextConnStep
    <2>4. ASSUME NEW e \in EvConn, PacketSent(e) PROVE PrQueueInv'
        BY <2>4, FreeStep DEF PacketSent
    <2>5. ASSUME NEW e \in EvConn, PacketNotSent(e) PROVE PrQueueInv'
        BY <2>5, NotSentStep
    <2>6. CASE UNCHANGED <<req, reqs_hash, evc_req, free_conns, returned_conns, batched,
                           nreqs, nconns>>
        <3>1. InUse' = InUse
            BY <2>6 DEF InUse
        <3>2. /\ returned_conns' \in Seq(EvConn) /\ IsInjective(returned_conns')
              /\ batched' \in SUBSET EvConn /\ batched' \cap ToSet(returned_conns') = {}
            BY <2>6 DEF PrQueueInv, PrQueueTypeOK, PacketQueueIsSound, RequestsOwnedOnce
        <3> QED BY <2>6, <3>1, <3>2, SameUse
    <2> QED BY <2>1, <2>2, <2>3, <2>4, <2>5, <2>6
            DEF PrQueueNext, DropConn, SendEnds, qvars
<1> QED BY <1>1, <1>2, PTL DEF PrQueueSpec

(***************************************************************************)
(* The packet request queue is sound for any limits on requests and        *)
(* connections: each request of lsquic_pr_queue.c has one owner, the hash  *)
(* or one evanescent connection, the counters say how many there are, and  *)
(* a stateless reset is shorter than the packet that provoked it.          *)
(***************************************************************************)
THEOREM PacketQueueSound == PrQueueSpec => []PacketQueueIsSound
<1>1. PrQueueInv => PacketQueueIsSound
    BY DEF PrQueueInv
<1> QED BY <1>1, PrQueueInduction, PTL

-----------------------------------------------------------------------------
(***************************************************************************)
(* Push promises                                                           *)
(***************************************************************************)

PromiseRec == [refs : Nat, hashed : BOOLEAN, freed : BOOLEAN, carried : BOOLEAN, left : Nat]
RequestRec == [alive : BOOLEAN, promises : Seq(Nat), nopush : BOOLEAN, pushing : BOOLEAN,
               headers : BOOLEAN, want : BOOLEAN, saved : BOOLEAN]
ConnRec == [max_push : Int, error : BOOLEAN, touched : BOOLEAN, told : SUBSET Nat,
            cut : SUBSET Nat]
PPTypeOK ==
    /\ pps \in Seq(PromiseRec)
    /\ reqs \in [PpRequests -> RequestRec]
    /\ pconn \in ConnRec

(***************************************************************************)
(* A request's list names promises that were made, each once; a stream     *)
(* that is gone has none; only promises that were made are cut.            *)
(***************************************************************************)
ListsAreSane ==
    /\ \A s \in PpRequests :
        /\ \A k \in DOMAIN reqs[s].promises : reqs[s].promises[k] \in DOMAIN pps
        /\ \A k, j \in DOMAIN reqs[s].promises :
              reqs[s].promises[k] = reqs[s].promises[j] => k = j
        /\ ~reqs[s].alive => reqs[s].promises = << >>
    /\ pconn.cut \subseteq DOMAIN pps

PushInv == PPTypeOK /\ ListsAreSane /\ PushIsSound
-----------------------------------------------------------------------------
(* What lsquic_pp_put() does to a promise. *)
LEMMA PutFacts ==
    ASSUME NEW p \in PromiseRec
    PROVE  /\ Put(p) \in PromiseRec
           /\ Put(p).refs = (IF p.refs > 0 THEN p.refs - 1 ELSE 0)
           /\ Put(p).freed <=> p.freed \/ p.refs = 1
           /\ Put(p).hashed <=> p.hashed /\ p.refs # 1
           /\ Put(p).carried = p.carried /\ Put(p).left = p.left
<1>1. (IF p.refs > 0 THEN p.refs - 1 ELSE 0) \in Nat
    BY DEF PromiseRec
<1> QED BY <1>1 DEF Put, PromiseRec

(* A function on the indices of a sequence is a sequence of its length. *)
LEMMA FunctionIsSeq ==
    ASSUME NEW S, NEW T, NEW q \in Seq(S), NEW f, f \in [DOMAIN q -> T]
    PROVE  f \in Seq(T) /\ DOMAIN f = DOMAIN q /\ Len(f) = Len(q)
<1>1. DOMAIN q = 1 .. Len(q) /\ Len(q) \in Nat
    OBVIOUS
<1> QED BY <1>1

(* The promises that are new on a list, and those that were on it. *)
LEMMA InFront ==
    ASSUME NEW q \in Seq(Nat), NEW id \in Nat
    PROVE  /\ <<id>> \o q \in Seq(Nat)
           /\ DOMAIN (<<id>> \o q) = 1 .. Len(q) + 1
           /\ (<<id>> \o q)[1] = id
           /\ \A k \in DOMAIN (<<id>> \o q) :
                 k # 1 => k - 1 \in DOMAIN q /\ (<<id>> \o q)[k] = q[k - 1]
           /\ ToSet(<<id>> \o q) = ToSet(q) \cup {id}
<1> DEFINE w == <<id>> \o q
<1>1. /\ w \in Seq(Nat) /\ Len(w) = Len(q) + 1
      /\ \A k \in 1 .. Len(q) + 1 : w[k] = IF k = 1 THEN id ELSE q[k - 1]
    OBVIOUS
<1> HIDE DEF w
<1>2. DOMAIN w = 1 .. Len(q) + 1 /\ w[1] = id
    BY <1>1
<1>3. \A k \in DOMAIN w : k # 1 => k - 1 \in DOMAIN q /\ w[k] = q[k - 1]
    BY <1>1, <1>2
<1>4. ASSUME NEW x \in ToSet(w) PROVE x \in ToSet(q) \cup {id}
    BY <1>2, <1>3 DEF ToSet
<1>5. ASSUME NEW x \in ToSet(q) PROVE x \in ToSet(w)
    <2>1. PICK j \in DOMAIN q : x = q[j]
        BY DEF ToSet
    <2>2. j + 1 \in DOMAIN w /\ w[j + 1] = x
        <3>1. j \in 1 .. Len(q) /\ j + 1 \in 1 .. Len(q) + 1 /\ j + 1 # 1 /\ (j + 1) - 1 = j
            BY <2>1
        <3> QED BY <2>1, <1>1, <1>2, <3>1
    <2> QED BY <2>2 DEF ToSet
<1>6. id \in ToSet(w)
    BY <1>2 DEF ToSet
<1>7. ToSet(w) = ToSet(q) \cup {id}
    BY <1>4, <1>5, <1>6
<1> QED BY <1>1, <1>2, <1>3, <1>7 DEF w
-----------------------------------------------------------------------------
LEMMA PushInit == PPInit => PushInv
<1> SUFFICES ASSUME PPInit PROVE PushInv
    OBVIOUS
<1>1. PPTypeOK
    BY DEF PPInit, PPTypeOK, NewRequest, RequestRec, PromiseRec, NoLimit, ConnRec
<1>2. ListsAreSane
    BY DEF PPInit, ListsAreSane, NewRequest
<1>3. PushIsSound
    BY DEF PPInit, PushIsSound, RefcntIsHolders, PromisesAreWhole, IdsAreAllowed, Ids,
           NewRequest
<1> QED BY <1>1, <1>2, <1>3 DEF PushInv
-----------------------------------------------------------------------------
(* on_max_push_id() raises the limit or refuses. *)
LEMMA MaxPushIdKeeps ==
    ASSUME PushInv, NEW v \in Nat, OnMaxPushId(v)
    PROVE  PushInv'
<1>1. /\ pps' = pps /\ reqs' = reqs
      /\ pconn'.touched = pconn.touched /\ pconn'.cut = pconn.cut
      /\ pconn'.max_push >= pconn.max_push \/ pconn.max_push = NoLimit
      /\ pconn'.max_push \in Int /\ (pconn'.max_push >= 0 \/ pconn'.max_push = pconn.max_push)
      /\ PPTypeOK'
    <2>1. pconn.max_push \in Int
        BY DEF PushInv, PPTypeOK, ConnRec
    <2>2. CASE pconn.max_push = NoLimit \/ v > pconn.max_push
        <3>1. pconn' = [pconn EXCEPT !.max_push = v] /\ pps' = pps /\ reqs' = reqs
            BY <2>2 DEF OnMaxPushId
        <3>2. /\ pconn'.touched = pconn.touched /\ pconn'.cut = pconn.cut
              /\ pconn'.max_push = v /\ PPTypeOK'
            BY <3>1 DEF PushInv, PPTypeOK, ConnRec
        <3> QED BY <2>1, <2>2, <3>1, <3>2
    <2>3. CASE ~(pconn.max_push = NoLimit \/ v > pconn.max_push)
        <3> DEFINE e == v < pconn.max_push
        <3>0. e \in BOOLEAN
            OBVIOUS
        <3>1. pconn' = [pconn EXCEPT !.error = e] /\ pps' = pps /\ reqs' = reqs
            BY <2>3 DEF OnMaxPushId
        <3> HIDE DEF e
        <3>2. /\ pconn'.touched = pconn.touched /\ pconn'.cut = pconn.cut
              /\ pconn'.max_push = pconn.max_push /\ PPTypeOK'
            BY <3>0, <3>1 DEF PushInv, PPTypeOK, ConnRec
        <3> QED BY <2>1, <3>1, <3>2
    <2> QED BY <2>2, <2>3
<1>3. ListsAreSane'
    BY <1>1 DEF PushInv, ListsAreSane
<1>4. RefcntIsHolders' /\ PromisesAreWhole'
    BY <1>1 DEF PushInv, PushIsSound, RefcntIsHolders, PromisesAreWhole, Ids, Announcing,
                Holders
<1>5. IdsAreAllowed'
    <2>1. SUFFICES ASSUME pps # << >> PROVE Len(pps) <= pconn'.max_push + 1
        BY <1>1 DEF IdsAreAllowed
    <2>2. Len(pps) <= pconn.max_push + 1 /\ Len(pps) \in Nat /\ Len(pps) # 0
        BY <2>1 DEF PushInv, PushIsSound, IdsAreAllowed, PPTypeOK, ConnRec
    <2>3. pconn.max_push \in Int
        BY DEF PushInv, PPTypeOK, ConnRec
    <2> QED BY <1>1, <2>2, <2>3 DEF NoLimit
<1> QED BY <1>1, <1>3, <1>4, <1>5 DEF PushInv, PushIsSound

(* lsquic_stream_wantwrite() and the headers of a response change no list. *)
LEMMA WantWriteKeeps ==
    ASSUME PushInv, NEW s \in PpRequests, NEW b \in BOOLEAN, WantWrite(s, b)
    PROVE  PushInv'
<1>1. /\ pps' = pps /\ pconn' = pconn
      /\ reqs' \in [PpRequests -> RequestRec]
      /\ \A t \in PpRequests :
            /\ reqs'[t].promises = reqs[t].promises /\ reqs'[t].alive = reqs[t].alive
            /\ reqs'[t].pushing = reqs[t].pushing /\ reqs'[t].nopush = reqs[t].nopush
            /\ reqs'[t].headers = reqs[t].headers
            /\ t # s => reqs'[t] = reqs[t]
      /\ reqs'[s].want = b /\ reqs'[s].saved = b
    BY DEF WantWrite, PushInv, PPTypeOK, RequestRec
<1>2. PPTypeOK'
    BY <1>1 DEF PushInv, PPTypeOK, ConnRec
<1>3. ListsAreSane'
    BY <1>1 DEF PushInv, ListsAreSane
<1>4. RefcntIsHolders' /\ IdsAreAllowed'
    BY <1>1 DEF PushInv, PushIsSound, RefcntIsHolders, IdsAreAllowed, Ids, Announcing, Holders
<1>5. PromisesAreWhole'
    BY <1>1 DEF PushInv, PushIsSound, PromisesAreWhole
<1> QED BY <1>2, <1>3, <1>4, <1>5 DEF PushInv, PushIsSound

LEMMA SendHeadersKeeps ==
    ASSUME PushInv, NEW s \in PpRequests, SendHeaders(s)
    PROVE  PushInv'
<1>1. /\ pps' = pps /\ pconn' = pconn
      /\ reqs' \in [PpRequests -> RequestRec]
      /\ \A t \in PpRequests :
            /\ reqs'[t].promises = reqs[t].promises /\ reqs'[t].alive = reqs[t].alive
            /\ t # s => reqs'[t] = reqs[t]
      /\ ~reqs[s].pushing /\ reqs'[s].pushing = reqs[s].pushing
    BY ZenonT(60) DEF SendHeaders, PushInv, PPTypeOK, RequestRec
<1>2. PPTypeOK'
    BY <1>1 DEF PushInv, PPTypeOK, ConnRec
<1>3. ListsAreSane'
    BY <1>1 DEF PushInv, ListsAreSane
<1>4. RefcntIsHolders' /\ IdsAreAllowed'
    BY <1>1 DEF PushInv, PushIsSound, RefcntIsHolders, IdsAreAllowed, Ids, Announcing, Holders
<1>5. PromisesAreWhole'
    BY <1>1 DEF PushInv, PushIsSound, PromisesAreWhole
<1> QED BY <1>2, <1>3, <1>4, <1>5 DEF PushInv, PushIsSound
-----------------------------------------------------------------------------
(***************************************************************************)
(* A step by which streams leave: the promises of lost lose one holder     *)
(* each, and are put.                                                      *)
(***************************************************************************)
LEMMA HoldersLeave ==
    ASSUME PushInv, PPTypeOK', ~pconn.touched,
           NEW lost \in SUBSET Ids,
           DOMAIN pps' = DOMAIN pps,
           pconn'.cut = pconn.cut,
           pconn'.touched <=> \E i \in lost : pps[i].freed,
           \A i \in Ids : \A s \in Announcing(i)' : s \in Announcing(i),
           \A i \in lost :
              /\ pps'[i].refs = (IF pps[i].refs > 0 THEN pps[i].refs - 1 ELSE 0)
              /\ pps'[i].freed <=> pps[i].freed \/ pps[i].refs = 1
              /\ pps'[i].hashed <=> pps[i].hashed /\ pps[i].refs # 1
              /\ Holders(i)' = Holders(i) - 1,
           \A i \in Ids \ lost :
              /\ pps'[i].refs = pps[i].refs /\ pps'[i].freed = pps[i].freed
              /\ pps'[i].hashed = pps[i].hashed
              /\ Holders(i)' = Holders(i)
    PROVE  RefcntIsHolders'
<1>1. \A i \in Ids : /\ pps[i] \in PromiseRec /\ Holders(i) \in Nat
                     /\ pps[i].refs \in Nat /\ pps[i].hashed \in BOOLEAN
                     /\ pps[i].freed \in BOOLEAN
    <2>1. \A i \in Ids : pps[i] \in PromiseRec
        BY DEF PushInv, PPTypeOK, Ids
    <2>2. \A i \in Ids : Holders(i) \in Nat
        BY DEF Holders
    <2> QED BY <2>1, <2>2 DEF PromiseRec
<1>2. \A i \in Ids : /\ pps[i].refs = Holders(i) - (IF i \in pconn.cut THEN 1 ELSE 0)
                     /\ pps[i].freed <=> pps[i].refs = 0
                     /\ pps[i].hashed <=> ~pps[i].freed /\ i \notin pconn.cut
    BY DEF PushInv, PushIsSound, RefcntIsHolders
<1>3. \A i \in Ids' : \A s, t \in Announcing(i)' : s = t
    BY DEF PushInv, PushIsSound, RefcntIsHolders, Ids
<1>4. \A i \in Ids : Holders(i)' \in Nat
    BY DEF Holders
<1>5. ASSUME NEW i \in lost, pps[i].freed PROVE i \in pconn.cut
    <2>1. Holders(i) - 1 \in Nat
        BY <1>4
    <2> QED BY <1>1, <1>2, <1>5, <2>1
<1>6. pconn'.touched => pconn'.cut # {}
    BY <1>5
<1>7. ASSUME ~pconn'.touched, NEW i \in Ids
      PROVE  /\ pps'[i].refs = Holders(i)' - (IF i \in pconn'.cut THEN 1 ELSE 0)
             /\ pps'[i].freed <=> pps'[i].refs = 0
             /\ pps'[i].hashed <=> ~pps'[i].freed /\ i \notin pconn'.cut
    <2>1. CASE i \in lost
        <3>1. ~pps[i].freed /\ pps[i].refs > 0
            BY <1>7, <2>1, <1>1, <1>2
        <3> QED BY <2>1, <3>1, <1>1, <1>2
    <2>2. CASE i \notin lost
        BY <2>2, <1>1, <1>2
    <2> QED BY <2>1, <2>2
<1> QED BY <1>3, <1>6, <1>7 DEF RefcntIsHolders, Ids

(* A request whose list is whole stays so while nothing is written. *)
Whole(r, q) ==
    /\ \A k \in DOMAIN r.promises :
          q[r.promises[k]].left > 0 => k = 1 /\ r.pushing /\ r.nopush /\ ~r.headers
    /\ r.alive /\ r.pushing => /\ r.promises # << >> /\ q[Head(r.promises)].left > 0
                               /\ r.want \/ ~r.saved
LEMMA LeftKept ==
    ASSUME PushInv, NEW t \in PpRequests, NEW q, \A i \in Ids : q[i].left = pps[i].left
    PROVE  Whole(reqs[t], q)
<1>1. /\ \A k \in DOMAIN reqs[t].promises : reqs[t].promises[k] \in Ids
      /\ reqs[t].promises \in Seq(Nat)
    BY DEF PushInv, ListsAreSane, PPTypeOK, RequestRec, Ids
<1>2. reqs[t].promises # << >> => Head(reqs[t].promises) \in Ids
    BY <1>1
<1> QED BY <1>1, <1>2 DEF PushInv, PushIsSound, PromisesAreWhole, Whole

(* The references of promises that lose no holder. *)
LEMMA RestOfLists ==
    ASSUME PushInv, NEW s \in PpRequests, NEW i \in Ids, i \in ToSet(reqs[s].promises)
    PROVE  Announcing(i) = {s}
BY DEF PushInv, PushIsSound, RefcntIsHolders, Announcing

(* The end of a request stream. *)
LEMMA DestroyRequestKeeps ==
    ASSUME PushInv, ~pconn.touched, NEW s \in PpRequests, DestroyRequest(s)
    PROVE  PushInv'
<1> DEFINE mine == ToSet(reqs[s].promises)
           gone == [reqs[s] EXCEPT !.alive = FALSE, !.promises = << >>]
<1>0. pps \in Seq(PromiseRec) /\ \A i \in Ids : pps[i] \in PromiseRec
    BY DEF PushInv, PPTypeOK, Ids
<1>1. mine \subseteq Ids
    BY DEF PushInv, ListsAreSane, ToSet, Ids
<1>2. /\ pps' = [i \in Ids |-> IF i \in mine THEN Put(pps[i]) ELSE pps[i]]
      /\ pconn' = [pconn EXCEPT !.touched = Touches(mine)]
      /\ reqs' = [reqs EXCEPT ![s] = gone]
    BY DEF DestroyRequest
<1> HIDE DEF mine
<1>3. pps' \in [Ids -> PromiseRec]
    BY <1>0, <1>2, PutFacts
<1>4. pps' \in Seq(PromiseRec) /\ DOMAIN pps' = DOMAIN pps /\ Len(pps') = Len(pps)
    BY <1>0, <1>3, FunctionIsSeq DEF Ids
<1>5. /\ reqs' \in [PpRequests -> RequestRec]
      /\ \A t \in PpRequests : t # s => reqs'[t] = reqs[t]
      /\ reqs'[s].promises = << >> /\ ~reqs'[s].alive
    <2>0. reqs[s] \in RequestRec /\ << >> \in Seq(Nat)
        BY DEF PushInv, PPTypeOK, ConnRec
    <2>1. gone \in RequestRec /\ gone.promises = << >> /\ ~gone.alive
        BY <2>0 DEF RequestRec
    <2> HIDE DEF gone
    <2> QED BY <1>2, <2>1 DEF PushInv, PPTypeOK, ConnRec
<1>6. Touches(mine) \in BOOLEAN
    BY DEF Touches, PushInv, PPTypeOK, ConnRec
<1>7. /\ pconn'.cut = pconn.cut /\ pconn'.max_push = pconn.max_push
      /\ pconn'.touched = Touches(mine) /\ PPTypeOK'
    BY <1>2, <1>4, <1>5, <1>6 DEF PushInv, PPTypeOK, ConnRec
<1>8. ListsAreSane'
    BY <1>4, <1>5, <1>7 DEF PushInv, ListsAreSane
<1>9. \A i \in Ids : Announcing(i)' = Announcing(i) \ {s}
    BY <1>5 DEF Announcing, ToSet
<1>10. ASSUME NEW i \in mine
       PROVE  /\ pps'[i].refs = (IF pps[i].refs > 0 THEN pps[i].refs - 1 ELSE 0)
              /\ pps'[i].freed <=> pps[i].freed \/ pps[i].refs = 1
              /\ pps'[i].hashed <=> pps[i].hashed /\ pps[i].refs # 1
              /\ Holders(i)' = Holders(i) - 1
    <2>1. i \in Ids /\ pps'[i] = Put(pps[i]) /\ pps[i] \in PromiseRec
        BY <1>0, <1>1, <1>2
    <2>2. Announcing(i) = {s}
        BY <2>1, RestOfLists DEF mine
    <2>3. Announcing(i)' = {}
        BY <1>9, <2>1, <2>2
    <2>4. pps'[i].carried = pps[i].carried
        BY <2>1, PutFacts
    <2>5. Holders(i)' = Holders(i) - 1
        BY <2>2, <2>3, <2>4 DEF Holders
    <2> QED BY <2>1, <2>5, PutFacts
<1>11. ASSUME NEW i \in Ids \ mine
       PROVE  pps'[i] = pps[i] /\ Holders(i)' = Holders(i)
    <2>1. pps'[i] = pps[i] /\ s \notin Announcing(i)
        BY <1>2 DEF Announcing, mine
    <2>2. Announcing(i)' = Announcing(i)
        BY <1>9, <2>1
    <2> QED BY <2>1, <2>2 DEF Holders
<1>12. RefcntIsHolders'
    <2>1. pconn'.touched <=> \E i \in mine : pps[i].freed
        BY <1>7 DEF Touches
    <2> QED BY <1>1, <1>4, <1>7, <1>9, <1>10, <1>11, <2>1, HoldersLeave
<1>13. \A i \in Ids : pps'[i].left = pps[i].left
    BY <1>0, <1>1, <1>2, <1>11, PutFacts
<1>14. PromisesAreWhole'
    <2> SUFFICES ASSUME NEW t \in PpRequests, t # s PROVE Whole(reqs[t], pps')
        BY <1>5 DEF PromisesAreWhole, Whole
    <2> QED BY <1>13, LeftKept
<1>15. IdsAreAllowed'
    BY <1>4, <1>7, <1>0 DEF PushInv, PushIsSound, IdsAreAllowed
<1> QED BY <1>7, <1>8, <1>12, <1>14, <1>15 DEF PushInv, PushIsSound

(* The end of a stream that was pushed. *)
LEMMA DestroyPushedKeeps ==
    ASSUME PushInv, ~pconn.touched, NEW i \in Ids, DestroyPushed(i)
    PROVE  PushInv'
<1> DEFINE p == [pps[i] EXCEPT !.carried = FALSE]
<1>0. pps \in Seq(PromiseRec) /\ \A j \in Ids : pps[j] \in PromiseRec
    BY DEF PushInv, PPTypeOK, Ids
<1>1. /\ p \in PromiseRec /\ p.refs = pps[i].refs /\ p.freed = pps[i].freed
      /\ p.hashed = pps[i].hashed /\ p.left = pps[i].left /\ ~p.carried
    BY <1>0 DEF PromiseRec
<1>2. /\ pps' = [pps EXCEPT ![i] = Put(p)] /\ pps[i].carried
      /\ pconn' = [pconn EXCEPT !.touched = Touches({i})]
      /\ reqs' = reqs
    BY DEF DestroyPushed
<1> HIDE DEF p
<1>3. Put(p) \in PromiseRec
    BY <1>1, PutFacts
<1>4. /\ pps' \in Seq(PromiseRec) /\ DOMAIN pps' = DOMAIN pps /\ Len(pps') = Len(pps)
      /\ pps'[i] = Put(p) /\ \A j \in Ids \ {i} : pps'[j] = pps[j]
    BY <1>0, <1>2, <1>3 DEF Ids
<1>5. Touches({i}) \in BOOLEAN
    BY DEF Touches, PushInv, PPTypeOK, ConnRec
<1>6. /\ pconn'.cut = pconn.cut /\ pconn'.max_push = pconn.max_push
      /\ pconn'.touched = Touches({i}) /\ PPTypeOK'
    BY <1>2, <1>4, <1>5 DEF PushInv, PPTypeOK, ConnRec
<1>7. ListsAreSane'
    BY <1>2, <1>4, <1>6 DEF PushInv, ListsAreSane
<1>8. \A j \in Ids : Announcing(j)' = Announcing(j)
    BY <1>2 DEF Announcing
<1>9. /\ pps'[i].refs = (IF pps[i].refs > 0 THEN pps[i].refs - 1 ELSE 0)
      /\ pps'[i].freed <=> pps[i].freed \/ pps[i].refs = 1
      /\ pps'[i].hashed <=> pps[i].hashed /\ pps[i].refs # 1
      /\ ~pps'[i].carried /\ pps'[i].left = pps[i].left
    BY <1>1, <1>4, PutFacts
<1>10. Holders(i)' = Holders(i) - 1
    BY <1>2, <1>8, <1>9 DEF Holders
<1>11. \A j \in Ids \ {i} : Holders(j)' = Holders(j)
    BY <1>4, <1>8 DEF Holders
<1>12. RefcntIsHolders'
    <2>1. pconn'.touched <=> pps[i].freed
        BY <1>6 DEF Touches
    <2> DEFINE lost == {i}
    <2>2. /\ lost \in SUBSET Ids /\ (pconn'.touched <=> \E j \in lost : pps[j].freed)
          /\ \A j \in lost : j = i
        BY <2>1
    <2>3. \A j \in Ids \ lost : pps'[j] = pps[j] /\ Holders(j)' = Holders(j)
        BY <1>4, <1>11
    <2>4. i \in lost
        OBVIOUS
    <2> HIDE DEF lost
    <2> QED BY <1>4, <1>6, <1>8, <1>9, <1>10, <2>2, <2>3, <2>4, HoldersLeave
<1>13. \A j \in Ids : pps'[j].left = pps[j].left
    BY <1>4, <1>9
<1>14. PromisesAreWhole'
    <2> SUFFICES ASSUME NEW t \in PpRequests PROVE Whole(reqs[t], pps')
        BY <1>2 DEF PromisesAreWhole, Whole
    <2> QED BY <1>13, LeftKept
<1>15. IdsAreAllowed'
    BY <1>4, <1>6, <1>0 DEF PushInv, PushIsSound, IdsAreAllowed
<1> QED BY <1>6, <1>7, <1>12, <1>14, <1>15 DEF PushInv, PushIsSound

(* cancel_push_promise(): a reference is put that no stream gave up. *)
LEMMA CancelKeeps ==
    ASSUME PushInv, ~pconn.touched, NEW ids \in SUBSET Hashed, CancelPushPromises(ids)
    PROVE  PushInv'
<1> DEFINE unhashed(i) == [pps[i] EXCEPT !.hashed = FALSE]
           touched == Touches(ids) \/ \E i \in ids : ~pps[i].carried
<1>0. pps \in Seq(PromiseRec) /\ \A i \in Ids : pps[i] \in PromiseRec
    BY DEF PushInv, PPTypeOK, Ids
<1>1. \A i \in ids : i \in Ids /\ pps[i].hashed
    BY DEF Hashed
<1>2. ASSUME NEW i \in Ids
      PROVE  /\ unhashed(i) \in PromiseRec /\ unhashed(i).refs = pps[i].refs
             /\ unhashed(i).freed = pps[i].freed /\ unhashed(i).carried = pps[i].carried
             /\ unhashed(i).left = pps[i].left /\ ~unhashed(i).hashed
    BY <1>0 DEF PromiseRec
<1>3. /\ pps' = [i \in Ids |-> IF i \in ids THEN Put(unhashed(i)) ELSE pps[i]]
      /\ pconn' = [pconn EXCEPT !.told = @ \cup ids, !.cut = @ \cup ids, !.touched = touched]
      /\ reqs' = reqs
    BY DEF CancelPushPromises
<1>4. touched \in BOOLEAN
    BY DEF Touches, PushInv, PPTypeOK, ConnRec
<1>5. touched => ids # {}
    BY DEF Touches
<1> HIDE DEF unhashed, touched
<1>6. pps' \in [Ids -> PromiseRec]
    BY <1>0, <1>2, <1>3, PutFacts
<1>7. pps' \in Seq(PromiseRec) /\ DOMAIN pps' = DOMAIN pps /\ Len(pps') = Len(pps)
    BY <1>0, <1>6, FunctionIsSeq DEF Ids
<1>8. ids \in SUBSET Nat
    BY <1>0, <1>1 DEF Ids
<1>9. /\ pconn'.cut = pconn.cut \cup ids /\ pconn'.max_push = pconn.max_push
      /\ pconn'.touched = touched /\ PPTypeOK'
    BY <1>3, <1>4, <1>7, <1>8 DEF PushInv, PPTypeOK, ConnRec
<1>10. ListsAreSane'
    BY <1>1, <1>3, <1>7, <1>9 DEF PushInv, ListsAreSane, Ids
<1>11. ASSUME NEW i \in ids
       PROVE  /\ pps'[i].refs = (IF pps[i].refs > 0 THEN pps[i].refs - 1 ELSE 0)
              /\ pps'[i].freed <=> pps[i].freed \/ pps[i].refs = 1
              /\ ~pps'[i].hashed
              /\ pps'[i].carried = pps[i].carried /\ pps'[i].left = pps[i].left
    BY <1>1, <1>2, <1>3, PutFacts
<1>12. \A i \in Ids \ ids : pps'[i] = pps[i]
    BY <1>3
<1>13. \A i \in Ids : Announcing(i)' = Announcing(i) /\ Holders(i)' = Holders(i)
    BY <1>3, <1>11, <1>12 DEF Announcing, Holders
<1>14. RefcntIsHolders'
    <2>1. \A i \in Ids' : \A s, t \in Announcing(i)' : s = t
        BY <1>7, <1>13 DEF PushInv, PushIsSound, RefcntIsHolders, Ids
    <2>2. pconn'.touched => pconn'.cut # {}
        BY <1>5, <1>9
    <2>3. ASSUME NEW i \in Ids
          PROVE  /\ pps'[i].refs = Holders(i)' - (IF i \in pconn'.cut THEN 1 ELSE 0)
                 /\ pps'[i].freed <=> pps'[i].refs = 0
                 /\ pps'[i].hashed <=> ~pps'[i].freed /\ i \notin pconn'.cut
        <3>1. /\ pps[i].refs = Holders(i) - (IF i \in pconn.cut THEN 1 ELSE 0)
              /\ pps[i].freed <=> pps[i].refs = 0
              /\ pps[i].hashed <=> ~pps[i].freed /\ i \notin pconn.cut
              /\ pps[i].refs \in Nat /\ Holders(i) \in Nat
            <4>1. pps[i].refs \in Nat /\ Holders(i) \in Nat
                BY <1>0 DEF PromiseRec, Holders
            <4> QED BY <4>1 DEF PushInv, PushIsSound, RefcntIsHolders
        <3>2. CASE i \in ids
            <4>1. i \notin pconn.cut /\ pps[i].refs > 0 /\ ~pps[i].freed
                BY <1>1, <3>1, <3>2
            <4> QED BY <1>9, <1>11, <1>13, <3>1, <3>2, <4>1
        <3>3. CASE i \notin ids
            BY <1>9, <1>12, <1>13, <3>1, <3>3
        <3> QED BY <3>2, <3>3
    <2> QED BY <1>7, <2>1, <2>2, <2>3 DEF RefcntIsHolders, Ids
<1>15. \A i \in Ids : pps'[i].left = pps[i].left
    BY <1>11, <1>12
<1>16. PromisesAreWhole'
    <2> SUFFICES ASSUME NEW t \in PpRequests PROVE Whole(reqs[t], pps')
        BY <1>3 DEF PromisesAreWhole, Whole
    <2> QED BY <1>15, LeftKept
<1>17. IdsAreAllowed'
    BY <1>0, <1>7, <1>9 DEF PushInv, PushIsSound, IdsAreAllowed
<1> QED BY <1>9, <1>10, <1>14, <1>16, <1>17 DEF PushInv, PushIsSound
-----------------------------------------------------------------------------
(* on_write_pp_wrapper(): the promise in front loses bytes that are left. *)
LEMMA OnWritePPKeeps ==
    ASSUME PushInv, ~pconn.touched, NEW s \in PpRequests, NEW n \in Nat, OnWritePP(s, n)
    PROVE  PushInv'
<1> DEFINE id == Head(reqs[s].promises)
           p == [pps[id] EXCEPT !.left = pps[id].left - n]
           r == IF n = pps[id].left
                THEN [reqs[s] EXCEPT !.pushing = FALSE, !.want = reqs[s].saved]
                ELSE reqs[s]
<1>0. /\ pps \in Seq(PromiseRec) /\ \A i \in Ids : pps[i] \in PromiseRec
      /\ reqs[s] \in RequestRec /\ reqs[s].promises \in Seq(Nat)
    BY DEF PushInv, PPTypeOK, Ids, RequestRec
<1>1. /\ reqs[s].alive /\ reqs[s].want /\ reqs[s].pushing
      /\ pps[id].left > 0 /\ n <= pps[id].left
      /\ pps' = [pps EXCEPT ![id] = p]
      /\ pconn' = [pconn EXCEPT !.touched = Touches({id})]
    BY DEF OnWritePP
<1>2. reqs' = [reqs EXCEPT ![s] = r]
    <2>1. n = pps[id].left => reqs' = [reqs EXCEPT ![s].pushing = FALSE, ![s].want = reqs[s].saved]
        BY DEF OnWritePP
    <2>2. n # pps[id].left => reqs' = reqs
        BY DEF OnWritePP
    <2> QED BY <2>1, <2>2 DEF PushInv, PPTypeOK, ConnRec
<1>3. reqs[s].promises # << >> /\ 1 \in DOMAIN reqs[s].promises /\ id = reqs[s].promises[1]
    <2>1. reqs[s].promises # << >>
        BY <1>1 DEF PushInv, PushIsSound, PromisesAreWhole
    <2> QED BY <1>0, <2>1
<1> HIDE DEF id
<1>4. id \in Ids /\ s \in Announcing(id)
    BY <1>3 DEF PushInv, ListsAreSane, Ids, Announcing, ToSet
<1>5. pps[id].left - n \in Nat
    BY <1>0, <1>1, <1>4 DEF PromiseRec
<1>6. /\ p \in PromiseRec /\ p.refs = pps[id].refs /\ p.freed = pps[id].freed
      /\ p.hashed = pps[id].hashed /\ p.carried = pps[id].carried
      /\ p.left = pps[id].left - n
    BY <1>0, <1>4, <1>5 DEF PromiseRec
<1>7. /\ r \in RequestRec /\ r.promises = reqs[s].promises /\ r.alive = reqs[s].alive
      /\ r.nopush = reqs[s].nopush /\ r.headers = reqs[s].headers
      /\ r.pushing <=> n # pps[id].left
      /\ r.pushing => r.want
    <2>1. CASE n = pps[id].left
        BY <1>0, <2>1 DEF RequestRec
    <2>2. CASE n # pps[id].left
        BY <1>0, <1>1, <2>2 DEF RequestRec
    <2> QED BY <2>1, <2>2
<1> HIDE DEF p, r
<1>8. /\ pps' \in Seq(PromiseRec) /\ DOMAIN pps' = DOMAIN pps /\ Len(pps') = Len(pps)
      /\ pps'[id] = p /\ \A i \in Ids \ {id} : pps'[i] = pps[i]
    BY <1>0, <1>1, <1>4, <1>6 DEF Ids
<1>9. /\ reqs' \in [PpRequests -> RequestRec]
      /\ reqs'[s] = r /\ \A t \in PpRequests \ {s} : reqs'[t] = reqs[t]
    BY <1>2, <1>7 DEF PushInv, PPTypeOK, ConnRec
<1>10. Touches({id}) \in BOOLEAN
    BY DEF Touches, PushInv, PPTypeOK, ConnRec
<1>11. /\ pconn'.cut = pconn.cut /\ pconn'.max_push = pconn.max_push
       /\ pconn'.touched = Touches({id}) /\ PPTypeOK'
    BY <1>1, <1>8, <1>9, <1>10 DEF PushInv, PPTypeOK, ConnRec
<1>12. ListsAreSane'
    BY <1>7, <1>8, <1>9, <1>11 DEF PushInv, ListsAreSane
<1>13. \A i \in Ids : Announcing(i)' = Announcing(i)
    BY <1>7, <1>9 DEF Announcing
<1>14. \A i \in Ids : Holders(i)' = Holders(i)
    BY <1>6, <1>8, <1>13 DEF Holders
<1>15. RefcntIsHolders'
    <2>1. \A i \in Ids' : \A u, t \in Announcing(i)' : u = t
        BY <1>8, <1>13 DEF PushInv, PushIsSound, RefcntIsHolders, Ids
    <2>2. ASSUME NEW i \in Ids
          PROVE  /\ pps'[i].refs = pps[i].refs /\ pps'[i].freed = pps[i].freed
                 /\ pps'[i].hashed = pps[i].hashed
        BY <1>6, <1>8
    <2>3. pps[id].freed => id \in pconn.cut
        <3>1. Holders(id) \in {1, 2}
            BY <1>4 DEF Holders
        <3>2. pps[id].freed => Holders(id) - (IF id \in pconn.cut THEN 1 ELSE 0) = 0
            BY <1>4 DEF PushInv, PushIsSound, RefcntIsHolders
        <3> QED BY <3>1, <3>2
    <2>4. pconn'.touched => pconn'.cut # {}
        BY <1>11, <2>3 DEF Touches
    <2> QED BY <1>8, <1>11, <1>14, <2>1, <2>2, <2>4
            DEF RefcntIsHolders, Ids, PushInv, PushIsSound
<1>16. PromisesAreWhole'
    <2> SUFFICES ASSUME NEW t \in PpRequests PROVE Whole(reqs'[t], pps')
        BY DEF PromisesAreWhole, Whole
    <2>0. /\ reqs[t].promises \in Seq(Nat)
          /\ \A k \in DOMAIN reqs[t].promises : reqs[t].promises[k] \in Ids
        BY DEF PushInv, PPTypeOK, RequestRec, ListsAreSane, Ids
    <2>1. Whole(reqs[t], pps)
        BY LeftKept
    <2>2. CASE t # s
        <3>1. \A k \in DOMAIN reqs[t].promises : reqs[t].promises[k] # id
            BY <1>4, <2>2 DEF PushInv, PushIsSound, RefcntIsHolders, Announcing, ToSet
        <3>2. \A k \in DOMAIN reqs[t].promises :
                 pps'[reqs[t].promises[k]] = pps[reqs[t].promises[k]]
            BY <1>8, <2>0, <3>1
        <3>3. reqs[t].promises # << >> =>
                 Head(reqs[t].promises) = reqs[t].promises[1] /\ 1 \in DOMAIN reqs[t].promises
            BY <2>0
        <3> QED BY <1>9, <2>1, <2>2, <3>2, <3>3 DEF Whole
    <2>3. CASE t = s
        <3>1. \A k \in DOMAIN reqs[s].promises : k # 1 => reqs[s].promises[k] # id
            BY <1>3 DEF PushInv, ListsAreSane
        <3>2. \A k \in DOMAIN reqs[s].promises :
                 k # 1 => ~(pps'[reqs[s].promises[k]].left > 0)
            BY <1>8, <2>0, <2>1, <2>3, <3>1 DEF Whole
        <3>3. reqs[s].nopush /\ ~reqs[s].headers
            BY <1>1, <1>3, <2>1, <2>3 DEF Whole
        <3>4. pps'[id].left > 0 <=> r.pushing
            <4>1. pps'[id].left = pps[id].left - n /\ pps[id].left \in Nat /\ n \in Nat
                BY <1>0, <1>4, <1>6, <1>8 DEF PromiseRec
            <4> QED BY <1>1, <1>7, <4>1
        <3> QED BY <1>3, <1>7, <1>9, <2>3, <3>2, <3>3, <3>4 DEF Whole, id
    <2> QED BY <2>2, <2>3
<1>17. IdsAreAllowed'
    BY <1>0, <1>8, <1>11 DEF PushInv, PushIsSound, IdsAreAllowed
<1> QED BY <1>11, <1>12, <1>15, <1>16, <1>17 DEF PushInv, PushIsSound
-----------------------------------------------------------------------------
(* A new promise takes the next ID, which nothing refers to yet. *)
LEMMA NewId ==
    ASSUME PushInv, NEW p \in PromiseRec
    PROVE  /\ Append(pps, p) \in Seq(PromiseRec)
           /\ Len(Append(pps, p)) = Len(pps) + 1
           /\ DOMAIN Append(pps, p) = Ids \cup {Len(pps) + 1}
           /\ Len(pps) + 1 \in Nat /\ Len(pps) + 1 \notin Ids
           /\ Append(pps, p)[Len(pps) + 1] = p
           /\ \A i \in Ids : Append(pps, p)[i] = pps[i]
           /\ Announcing(Len(pps) + 1) = {}
           /\ Len(pps) + 1 \notin pconn.cut
<1>1. pps \in Seq(PromiseRec) /\ Len(pps) \in Nat /\ Ids = 1 .. Len(pps)
    BY DEF PushInv, PPTypeOK, Ids
<1>2. /\ Append(pps, p) \in Seq(PromiseRec) /\ Len(Append(pps, p)) = Len(pps) + 1
      /\ Append(pps, p)[Len(pps) + 1] = p
      /\ \A i \in 1 .. Len(pps) : Append(pps, p)[i] = pps[i]
    BY <1>1
<1>3. /\ DOMAIN Append(pps, p) = 1 .. Len(pps) + 1
      /\ Len(pps) + 1 \notin Ids /\ Len(pps) + 1 \in Nat
    BY <1>1, <1>2
<1>4. 1 .. Len(pps) + 1 = Ids \cup {Len(pps) + 1}
    BY <1>1
<1>5. Announcing(Len(pps) + 1) = {} /\ Len(pps) + 1 \notin pconn.cut
    BY <1>3 DEF PushInv, ListsAreSane, Announcing, ToSet, Ids
<1> QED BY <1>1, <1>2, <1>3, <1>4, <1>5

(* The promise could not be hashed, or its frame not be started. *)
LEMMA UnannouncedKeeps ==
    ASSUME PushInv, ~pconn.touched, NEW s \in PpRequests, CanPush(s),
           NEW p \in PromiseRec, p.refs = 0, p.freed, ~p.hashed, ~p.carried,
           NEW id, id = Len(pps) + 1,
           pps' = Append(pps, p), pconn' = pconn,
           reqs' = reqs \/ reqs' = [reqs EXCEPT ![s].nopush = TRUE]
    PROVE  PushInv'
<1>1. /\ pps' \in Seq(PromiseRec) /\ Len(pps') = Len(pps) + 1
      /\ Ids' = Ids \cup {id} /\ id \notin Ids
      /\ pps'[id] = p /\ (\A i \in Ids : pps'[i] = pps[i])
      /\ Announcing(id) = {} /\ id \notin pconn.cut
    BY NewId DEF Ids
<1>2. /\ reqs' \in [PpRequests -> RequestRec]
      /\ \A t \in PpRequests :
            /\ reqs'[t].promises = reqs[t].promises /\ reqs'[t].alive = reqs[t].alive
            /\ reqs'[t].pushing = reqs[t].pushing /\ reqs'[t].headers = reqs[t].headers
            /\ reqs'[t].want = reqs[t].want /\ reqs'[t].saved = reqs[t].saved
            /\ reqs[t].nopush => reqs'[t].nopush
    <2>1. CASE reqs' = reqs
        BY <2>1 DEF PushInv, PPTypeOK
    <2>2. CASE reqs' = [reqs EXCEPT ![s].nopush = TRUE]
        <3>1. reqs \in [PpRequests -> RequestRec]
            BY DEF PushInv, PPTypeOK
        <3> DEFINE r == [reqs[s] EXCEPT !.nopush = TRUE]
        <3>2. /\ r \in RequestRec /\ r.promises = reqs[s].promises /\ r.alive = reqs[s].alive
              /\ r.pushing = reqs[s].pushing /\ r.headers = reqs[s].headers
              /\ r.want = reqs[s].want /\ r.saved = reqs[s].saved /\ r.nopush
            BY <3>1 DEF RequestRec
        <3>3. reqs' = [reqs EXCEPT ![s] = r]
            BY <2>2
        <3> HIDE DEF r
        <3>4. reqs' \in [PpRequests -> RequestRec]
            BY <3>1, <3>2, <3>3
        <3> QED BY <3>1, <3>2, <3>3, <3>4
    <2> QED BY <2>1, <2>2
<1>3. PPTypeOK'
    BY <1>1, <1>2 DEF PushInv, PPTypeOK
<1>4. ListsAreSane'
    BY <1>1, <1>2 DEF PushInv, ListsAreSane, Ids
<1>5. \A i \in Ids' : Announcing(i)' = Announcing(i)
    BY <1>2 DEF Announcing
<1>6. \A i \in Ids : Holders(i)' = Holders(i)
    BY <1>1, <1>5 DEF Holders
<1>7. Holders(id)' = 0
    BY <1>1, <1>5 DEF Holders
<1>8. RefcntIsHolders'
    <2>1. \A i \in Ids' : \A u, t \in Announcing(i)' : u = t
        BY <1>1, <1>5 DEF PushInv, PushIsSound, RefcntIsHolders
    <2>2. ASSUME NEW i \in Ids
          PROVE  /\ pps'[i].refs = Holders(i)' - (IF i \in pconn.cut THEN 1 ELSE 0)
                 /\ pps'[i].freed <=> pps'[i].refs = 0
                 /\ pps'[i].hashed <=> ~pps'[i].freed /\ i \notin pconn.cut
        BY <1>1, <1>6 DEF PushInv, PushIsSound, RefcntIsHolders
    <2>3. /\ pps'[id].refs = Holders(id)' - (IF id \in pconn.cut THEN 1 ELSE 0)
          /\ pps'[id].freed <=> pps'[id].refs = 0
          /\ pps'[id].hashed <=> ~pps'[id].freed /\ id \notin pconn.cut
        BY <1>1, <1>7
    <2> QED BY <1>1, <2>1, <2>2, <2>3 DEF RefcntIsHolders
<1>9. PromisesAreWhole'
    <2> SUFFICES ASSUME NEW t \in PpRequests PROVE Whole(reqs'[t], pps')
        BY DEF PromisesAreWhole, Whole
    <2>0. \A i \in Ids : pps'[i].left = pps[i].left
        BY <1>1
    <2>1. Whole(reqs[t], pps')
        <3>1. PICK q : q = pps'
            OBVIOUS
        <3>2. \A i \in Ids : q[i].left = pps[i].left
            BY <2>0, <3>1
        <3>3. Whole(reqs[t], q)
            BY <3>2, LeftKept
        <3> QED BY <3>1, <3>3
    <2> QED BY <1>2, <2>1 DEF Whole
<1>10. IdsAreAllowed'
    <2>1. Len(pps) <= pconn.max_push /\ Len(pps) \in Nat /\ pconn.max_push \in Int
        BY DEF CanPush, PushInv, PPTypeOK, ConnRec
    <2> QED BY <1>1, <2>1 DEF IdsAreAllowed
<1> QED BY <1>3, <1>4, <1>8, <1>9, <1>10 DEF PushInv, PushIsSound

(* The promise is announced: the request holds it, and perhaps a pushed stream. *)
LEMMA AnnouncedKeeps ==
    ASSUME PushInv, ~pconn.touched, PpSize \in Nat,
           NEW s \in PpRequests, CanPush(s),
           NEW n \in Nat, n <= PpSize,
           NEW p \in PromiseRec, p.refs = (IF p.carried THEN 2 ELSE 1), ~p.freed, p.hashed,
           p.left = PpSize - n,
           NEW id, id = Len(pps) + 1,
           pps' = Append(pps, p),
           reqs' = Announced(s, id, n),
           pconn'.cut = pconn.cut, pconn'.max_push = pconn.max_push,
           pconn'.touched = pconn.touched, pconn' \in ConnRec
    PROVE  PushInv'
<1> DEFINE r == Pushing(reqs[s], id, n)
<1>1. /\ pps' \in Seq(PromiseRec) /\ Len(pps') = Len(pps) + 1
      /\ Ids' = Ids \cup {id} /\ id \notin Ids /\ id \in Nat
      /\ pps'[id] = p /\ (\A i \in Ids : pps'[i] = pps[i])
      /\ Announcing(id) = {} /\ id \notin pconn.cut
    BY NewId DEF Ids
<1>2. reqs' = [reqs EXCEPT ![s] = r]
    BY DEF Announced
<1>3. /\ reqs[s] \in RequestRec /\ reqs[s].promises \in Seq(Nat)
      /\ reqs[s].alive /\ ~reqs[s].nopush /\ ~reqs[s].headers
    BY DEF PushInv, PPTypeOK, RequestRec, CanPush
<1>4. /\ <<id>> \o reqs[s].promises \in Seq(Nat)
      /\ DOMAIN (<<id>> \o reqs[s].promises) = 1 .. Len(reqs[s].promises) + 1
      /\ (<<id>> \o reqs[s].promises)[1] = id
      /\ \A k \in DOMAIN (<<id>> \o reqs[s].promises) :
            k # 1 => /\ k - 1 \in DOMAIN reqs[s].promises
                     /\ (<<id>> \o reqs[s].promises)[k] = reqs[s].promises[k - 1]
      /\ ToSet(<<id>> \o reqs[s].promises) = ToSet(reqs[s].promises) \cup {id}
    BY <1>1, <1>3, InFront
<1>5. (n < PpSize) \in BOOLEAN /\ (reqs[s].want \/ n < PpSize) \in BOOLEAN
      /\ (reqs[s].nopush \/ n < PpSize) \in BOOLEAN
      /\ (IF n < PpSize THEN reqs[s].want ELSE reqs[s].saved) \in BOOLEAN
    BY <1>3 DEF RequestRec
<1>6. /\ r \in RequestRec /\ r.promises = <<id>> \o reqs[s].promises
      /\ r.alive /\ ~r.headers
      /\ r.pushing <=> n < PpSize
      /\ n < PpSize => r.nopush /\ r.want
    BY <1>3, <1>4, <1>5, ZenonT(60) DEF RequestRec, Pushing
<1> HIDE DEF r
<1>7. /\ reqs' \in [PpRequests -> RequestRec] /\ reqs'[s] = r
      /\ \A t \in PpRequests \ {s} : reqs'[t] = reqs[t]
    BY <1>2, <1>6 DEF PushInv, PPTypeOK
<1>8. PPTypeOK'
    BY <1>1, <1>7 DEF PPTypeOK
<1>9. ListsAreSane'
    <2>1. ASSUME NEW t \in PpRequests
          PROVE  /\ \A k \in DOMAIN reqs'[t].promises : reqs'[t].promises[k] \in Ids'
                 /\ \A k, j \in DOMAIN reqs'[t].promises :
                       reqs'[t].promises[k] = reqs'[t].promises[j] => k = j
                 /\ ~reqs'[t].alive => reqs'[t].promises = << >>
        <3>0. /\ \A k \in DOMAIN reqs[t].promises : reqs[t].promises[k] \in Ids
              /\ \A k, j \in DOMAIN reqs[t].promises :
                    reqs[t].promises[k] = reqs[t].promises[j] => k = j
              /\ ~reqs[t].alive => reqs[t].promises = << >>
            BY DEF PushInv, ListsAreSane, Ids
        <3>1. CASE t # s
            BY <1>1, <1>7, <3>0, <3>1
        <3>2. CASE t = s
            <4> DEFINE w == <<id>> \o reqs[s].promises
            <4>1. reqs'[t].promises = w /\ reqs'[t].alive
                BY <1>6, <1>7, <3>2
            <4>2. /\ DOMAIN w = 1 .. Len(reqs[s].promises) + 1 /\ w[1] = id
                  /\ \A k \in DOMAIN w : k # 1 => /\ k - 1 \in DOMAIN reqs[s].promises
                                                  /\ w[k] = reqs[s].promises[k - 1]
                BY <1>4
            <4> HIDE DEF w
            <4>3. \A k \in DOMAIN w : w[k] \in Ids'
                BY <1>1, <3>0, <3>2, <4>2
            <4>4. \A k \in DOMAIN w : k # 1 => w[k] # id
                BY <1>1, <3>0, <3>2, <4>2
            <4>5. ASSUME NEW k \in DOMAIN w, NEW j \in DOMAIN w, w[k] = w[j] PROVE k = j
                <5>1. CASE k = 1 \/ j = 1
                    BY <4>2, <4>4, <4>5, <5>1
                <5>2. CASE k # 1 /\ j # 1
                    <6>1. k - 1 = j - 1
                        BY <3>0, <3>2, <4>2, <4>5, <5>2
                    <6>2. k \in Int /\ j \in Int
                        BY <1>3, <4>2
                    <6> QED BY <6>1, <6>2
                <5> QED BY <5>1, <5>2
            <4> QED BY <4>1, <4>3, <4>5
        <3> QED BY <3>1, <3>2
    <2>2. pconn'.cut \subseteq Ids'
        BY <1>1 DEF PushInv, ListsAreSane, Ids
    <2> QED BY <2>1, <2>2 DEF ListsAreSane, Ids
<1>10. /\ \A i \in Ids : Announcing(i)' = Announcing(i)
       /\ Announcing(id)' = {s}
    <2>1. ToSet(reqs'[s].promises) = ToSet(reqs[s].promises) \cup {id}
        BY <1>4, <1>6, <1>7
    <2>2. \A t \in PpRequests \ {s} : ToSet(reqs'[t].promises) = ToSet(reqs[t].promises)
        BY <1>7
    <2> QED BY <1>1, <2>1, <2>2 DEF Announcing
<1>11. \A i \in Ids : Holders(i)' = Holders(i)
    BY <1>1, <1>10 DEF Holders
<1>12. Holders(id)' = p.refs /\ p.refs # 0
    <2>1. Holders(id)' = 1 + (IF p.carried THEN 1 ELSE 0)
        BY <1>1, <1>10 DEF Holders
    <2> QED BY <2>1
<1>13. RefcntIsHolders'
    <2>1. \A i \in Ids' : \A u, t \in Announcing(i)' : u = t
        BY <1>1, <1>10 DEF PushInv, PushIsSound, RefcntIsHolders
    <2>2. ASSUME NEW i \in Ids
          PROVE  /\ pps'[i].refs = Holders(i)' - (IF i \in pconn'.cut THEN 1 ELSE 0)
                 /\ pps'[i].freed <=> pps'[i].refs = 0
                 /\ pps'[i].hashed <=> ~pps'[i].freed /\ i \notin pconn'.cut
        <3>1. /\ pps[i].refs = Holders(i) - (IF i \in pconn.cut THEN 1 ELSE 0)
              /\ pps[i].freed <=> pps[i].refs = 0
              /\ pps[i].hashed <=> ~pps[i].freed /\ i \notin pconn.cut
            BY DEF PushInv, PushIsSound, RefcntIsHolders
        <3>2. pps'[i] = pps[i] /\ Holders(i)' = Holders(i)
            BY <1>1, <1>11
        <3> QED BY <3>1, <3>2
    <2>3. /\ pps'[id].refs = Holders(id)' - (IF id \in pconn'.cut THEN 1 ELSE 0)
          /\ pps'[id].freed <=> pps'[id].refs = 0
          /\ pps'[id].hashed <=> ~pps'[id].freed /\ id \notin pconn'.cut
        <3>1. p.refs \in Nat
            BY DEF PromiseRec
        <3> QED BY <1>1, <1>12, <3>1
    <2> QED BY <1>1, <2>1, <2>2, <2>3 DEF RefcntIsHolders
<1>14. PromisesAreWhole'
    <2> SUFFICES ASSUME NEW t \in PpRequests PROVE Whole(reqs'[t], pps')
        BY DEF PromisesAreWhole, Whole
    <2>0. \A i \in Ids : pps'[i].left = pps[i].left
        BY <1>1
    <2>1. Whole(reqs[t], pps')
        BY <2>0, LeftKept
    <2>2. CASE t # s
        BY <1>7, <2>1, <2>2
    <2>3. CASE t = s
        <3> DEFINE w == <<id>> \o reqs[s].promises
        <3>1. /\ w \in Seq(Nat) /\ w # << >> /\ Head(w) = id /\ w[1] = id
              /\ \A k \in DOMAIN w : k # 1 => /\ k - 1 \in DOMAIN reqs[s].promises
                                              /\ w[k] = reqs[s].promises[k - 1]
            <4>1. Len(w) = Len(reqs[s].promises) + 1 /\ Len(reqs[s].promises) \in Nat
                BY <1>3
            <4> QED BY <1>4, <4>1
        <3>2. r.promises = w
            BY <1>6
        <3> HIDE DEF w
        <3>3. \A k \in DOMAIN reqs[s].promises : ~(pps'[reqs[s].promises[k]].left > 0)
            BY <1>3, <2>1, <2>3 DEF Whole
        <3>4. \A k \in DOMAIN w : pps'[w[k]].left > 0 => k = 1
            BY <3>1, <3>3
        <3>5. pps'[id].left > 0 <=> n < PpSize
            BY <1>1
        <3>6. \A k \in DOMAIN w : pps'[w[k]].left > 0 => n < PpSize
            BY <3>1, <3>4, <3>5
        <3> QED BY <1>6, <1>7, <2>3, <3>1, <3>2, <3>4, <3>5, <3>6 DEF Whole
    <2> QED BY <2>2, <2>3
<1>15. IdsAreAllowed'
    <2>1. Len(pps) <= pconn.max_push /\ Len(pps) \in Nat /\ pconn.max_push \in Int
        BY DEF CanPush, PushInv, PPTypeOK, ConnRec
    <2> QED BY <1>1, <2>1 DEF IdsAreAllowed
<1> QED BY <1>8, <1>9, <1>13, <1>14, <1>15 DEF PushInv, PushIsSound

(* ietf_full_conn_ci_push_stream(), whichever step of it fails. *)
LEMMA PushStreamKeeps ==
    ASSUME PushInv, ~pconn.touched, PpSize \in Nat,
           NEW s \in PpRequests, NEW n \in Nat, n <= PpSize, NEW how,
           how \in {"not_inserted", "uh_refused", "ok"}, PushStream(s, n, how)
    PROVE  PushInv'
<1> USE DEF PromiseRec
<1>0. CanPush(s)
    BY DEF PushStream
<1>1. PpSize - n \in Nat
    OBVIOUS
<1> DEFINE id == Len(pps) + 1
<1>2. CASE how = "not_inserted"
    <2> DEFINE q == [Promise(1) EXCEPT !.hashed = FALSE]
    <2>1. q \in PromiseRec /\ q.refs = 1 /\ ~q.hashed /\ ~q.carried
        BY DEF Promise
    <2>2. pps' = Append(pps, Put(q)) /\ reqs' = reqs /\ pconn' = pconn
        BY <1>2 DEF PushStream
    <2> HIDE DEF q
    <2>3. /\ Put(q) \in PromiseRec /\ Put(q).refs = 0 /\ Put(q).freed /\ ~Put(q).hashed
          /\ ~Put(q).carried
        BY <2>1, PutFacts
    <2> QED BY <1>0, <2>2, <2>3, UnannouncedKeeps
<1>3. CASE how # "not_inserted" /\ n = 0
    <2>1. Promise(1) \in PromiseRec /\ Promise(1).refs = 1 /\ ~Promise(1).carried
        BY DEF Promise
    <2>2. /\ pps' = Append(pps, Put(Promise(1)))
          /\ reqs' = [reqs EXCEPT ![s].nopush = TRUE] /\ pconn' = pconn
        BY <1>3 DEF PushStream
    <2>3. /\ Put(Promise(1)) \in PromiseRec /\ Put(Promise(1)).refs = 0
          /\ Put(Promise(1)).freed /\ ~Put(Promise(1)).hashed /\ ~Put(Promise(1)).carried
        BY <2>1, PutFacts
    <2> QED BY <1>0, <2>2, <2>3, UnannouncedKeeps
<1>4. CASE how = "uh_refused" /\ n > 0
    <2> DEFINE q == [Promise(2) EXCEPT !.left = PpSize - n]
    <2>1. /\ q \in PromiseRec /\ q.refs = 2 /\ ~q.freed /\ q.hashed /\ ~q.carried
          /\ q.left = PpSize - n
        BY <1>1 DEF Promise
    <2>2. /\ pps' = Append(pps, Put(q)) /\ reqs' = Announced(s, id, n)
          /\ pconn' = [pconn EXCEPT !.told = @ \cup {Len(pps) + 1}]
        BY <1>4 DEF PushStream
    <2> HIDE DEF q
    <2>3. /\ Put(q) \in PromiseRec /\ Put(q).refs = 1 /\ ~Put(q).freed /\ Put(q).hashed
          /\ ~Put(q).carried /\ Put(q).left = PpSize - n
        BY <2>1, PutFacts
    <2>4. pconn \in ConnRec /\ Len(pps) + 1 \in Nat
        BY DEF PushInv, PPTypeOK
    <2>5. /\ pconn' \in ConnRec /\ pconn'.cut = pconn.cut
          /\ pconn'.max_push = pconn.max_push /\ pconn'.touched = pconn.touched
        BY <2>2, <2>4 DEF ConnRec
    <2> QED BY <1>0, <2>2, <2>3, <2>5, AnnouncedKeeps
<1>5. CASE how = "ok" /\ n > 0
    <2> DEFINE q == [Promise(2) EXCEPT !.left = PpSize - n]
    <2>1. /\ q \in PromiseRec /\ q.refs = 2 /\ ~q.freed /\ q.hashed
          /\ q.left = PpSize - n
        BY <1>1 DEF Promise
    <2>2. /\ pps' = Append(pps, Put(Carried(q))) /\ reqs' = Announced(s, id, n)
          /\ pconn' = pconn
        BY <1>5 DEF PushStream
    <2> HIDE DEF q
    <2>3. /\ Carried(q) \in PromiseRec /\ Carried(q).refs = 3 /\ ~Carried(q).freed
          /\ Carried(q).hashed /\ Carried(q).carried /\ Carried(q).left = PpSize - n
        <3>1. q.refs + 1 = 3 /\ Carried(q) = [q EXCEPT !.refs = q.refs + 1, !.carried = TRUE]
            BY <2>1 DEF Carried
        <3>2. Carried(q) = [q EXCEPT !.refs = 3, !.carried = TRUE]
            BY <3>1
        <3>3. q \in [refs : Nat, hashed : BOOLEAN, freed : BOOLEAN, carried : BOOLEAN,
                     left : Nat]
            BY <2>1
        <3>4. Carried(q) \in PromiseRec
            <4>1. q.hashed \in BOOLEAN /\ q.freed \in BOOLEAN /\ q.left \in Nat /\ 3 \in Nat
                BY <3>3
            <4>2. Carried(q) = [refs |-> 3, hashed |-> q.hashed, freed |-> q.freed,
                                carried |-> TRUE, left |-> q.left]
                BY <3>2, <3>3
            <4> QED BY <4>1, <4>2
        <3>5. /\ Carried(q).refs = 3 /\ Carried(q).carried = TRUE
              /\ Carried(q).freed = q.freed /\ Carried(q).hashed = q.hashed
              /\ Carried(q).left = q.left
            BY <3>2, <3>3
        <3> QED BY <2>1, <3>4, <3>5
    <2>4. /\ Put(Carried(q)) \in PromiseRec /\ Put(Carried(q)).refs = 2
          /\ ~Put(Carried(q)).freed /\ Put(Carried(q)).hashed
          /\ Put(Carried(q)).carried /\ Put(Carried(q)).left = PpSize - n
        BY <2>3, PutFacts
    <2>5. pconn \in ConnRec
        BY DEF PushInv, PPTypeOK
    <2> QED BY <1>0, <2>2, <2>4, <2>5, AnnouncedKeeps
<1> QED BY <1>2, <1>3, <1>4, <1>5
-----------------------------------------------------------------------------
LEMMA PushStep ==
    ASSUME PushInv, [PPNext]_ppvars
    PROVE  PushInv'
<1>0. PpSize \in Nat /\ (\A n \in PpWrites : n \in Nat /\ n <= PpSize) /\ PpLimits \subseteq Nat
    BY PushPromiseAssumption
<1>1. CASE UNCHANGED ppvars
    BY <1>1 DEF ppvars, PushInv, PPTypeOK, ListsAreSane, PushIsSound, RefcntIsHolders,
                PromisesAreWhole, IdsAreAllowed, Ids, Announcing, Holders
<1>2. CASE PPNext
    <2>0. ~pconn.touched
        BY <1>2 DEF PPNext
    <2>1. ASSUME NEW v \in PpLimits, OnMaxPushId(v) PROVE PushInv'
        BY <1>0, <2>1, MaxPushIdKeeps
    <2>2. ASSUME NEW s \in PpRequests, NEW n \in PpWrites,
                 NEW how \in {"not_inserted", "uh_refused", "ok"}, PushStream(s, n, how)
          PROVE  PushInv'
        BY <1>0, <2>0, <2>2, PushStreamKeeps
    <2>3. ASSUME NEW s \in PpRequests, NEW n \in PpWrites, OnWritePP(s, n) PROVE PushInv'
        BY <1>0, <2>0, <2>3, OnWritePPKeeps
    <2>4. ASSUME NEW s \in PpRequests, SendHeaders(s) PROVE PushInv'
        BY <2>4, SendHeadersKeeps
    <2>5. ASSUME NEW s \in PpRequests, DestroyRequest(s) PROVE PushInv'
        BY <2>0, <2>5, DestroyRequestKeeps
    <2>6. ASSUME NEW s \in PpRequests, NEW b \in BOOLEAN, WantWrite(s, b) PROVE PushInv'
        BY <2>6, WantWriteKeeps
    <2>7. ASSUME NEW i \in Ids, DestroyPushed(i) PROVE PushInv'
        BY <2>0, <2>7, DestroyPushedKeeps
    <2>8. ASSUME NEW push_id \in 0 .. MaxPromises, OnCancelPush(push_id) PROVE PushInv'
        <3>1. CASE CancelPushPromises({push_id + 1} \cap Hashed)
            <4>1. {push_id + 1} \cap Hashed \in SUBSET Hashed
                OBVIOUS
            <4> QED BY <2>0, <3>1, <4>1, CancelKeeps
        <3>2. CASE pconn' = [pconn EXCEPT !.error = TRUE] /\ UNCHANGED <<pps, reqs>>
            <4>1. /\ pconn' \in ConnRec /\ pconn'.cut = pconn.cut /\ pps' = pps /\ reqs' = reqs
                  /\ pconn'.max_push = pconn.max_push /\ pconn'.touched = pconn.touched
                BY <3>2 DEF PushInv, PPTypeOK, ConnRec
            <4> QED BY <4>1 DEF PushInv, PPTypeOK, ListsAreSane, PushIsSound, RefcntIsHolders,
                                PromisesAreWhole, IdsAreAllowed, Ids, Announcing, Holders
        <3> QED BY <2>8, <3>1, <3>2 DEF OnCancelPush
    <2>9. ASSUME NEW push_id \in 0 .. MaxPromises, OnGoaway(push_id) PROVE PushInv'
        <3>1. {i \in Hashed : i - 1 > push_id} \in SUBSET Hashed
            OBVIOUS
        <3> QED BY <2>0, <2>9, <3>1, CancelKeeps DEF OnGoaway
    <2> QED BY <1>2, <2>1, <2>2, <2>3, <2>4, <2>5, <2>6, <2>7, <2>8, <2>9 DEF PPNext
<1> QED BY <1>1, <1>2

(***************************************************************************)
(* However requests, pushed streams, CANCEL_PUSH and GOAWAY interleave,    *)
(* lsquic_pp_put() frees a promise with the last stream that holds it, and *)
(* only cancel_push_promise() can break that; PUSH_PROMISE frames do not   *)
(* mix, and no more push IDs are used than MAX_PUSH_ID allows.             *)
(***************************************************************************)
THEOREM PushPromisesAreSound == PPSpec => []PushIsSound
<1>1. PushInv /\ [PPNext]_ppvars => PushInv'
    BY PushStep
<1>2. PushInv => PushIsSound
    BY DEF PushInv
<1> QED BY PushInit, <1>1, <1>2, PTL DEF PPSpec

-----------------------------------------------------------------------------
(* The IDs a connection issues *)

(* The fields of the connection that have to do with the IDs it issues. *)
IssueFields == {"cces", "count", "limit", "newcid", "throt", "scid_seqno"}
Cce == {None} \cup [seq : Nat \cup {Orig}, flag : BOOLEAN]
IssueShape(c) ==
    /\ IssueFields \subseteq DOMAIN c
    /\ c.cces \in [1 .. N_CCES -> Cce]
    /\ c.limit \in Nat /\ c.scid_seqno \in Nat /\ c.newcid \in BOOLEAN /\ c.throt \in BOOLEAN

(* The IDs are counted, the limit is kept, and exactly when another ID may be issued is it
   either due or waiting for the alarm. *)
IssueInv(c) ==
    /\ IssueShape(c)
    /\ c.count = Cardinality(Ours(c)) /\ c.count <= c.limit
    /\ CanIssueCids(c) <=> c.newcid \/ c.throt
    /\ ~(c.newcid /\ c.throt)

(* Nothing is issued or retired: an ID may be marked as used. *)
Quiet(c, d) ==
    /\ IssueShape(d)
    /\ d.count = c.count /\ d.limit = c.limit /\ d.newcid = c.newcid /\ d.throt = c.throt
    /\ d.scid_seqno = c.scid_seqno
    /\ \A i \in 1 .. N_CCES : (d.cces[i] = None <=> c.cces[i] = None) /\ d.cces[i].seq = c.cces[i].seq

(* The step is about other fields. *)
Other(c, d) == DOMAIN d = DOMAIN c /\ \A x \in IssueFields : d[x] = c[x]

(* The lowest slot of a set is one of the set. *)
LEMMA FirstIn ==
    ASSUME NEW S \in SUBSET Nat, S # {} PROVE First(S) \in S
  BY LeastNat DEF First

(* Marking an ID as used keeps its number. *)
LEMMA MarkedCce ==
    ASSUME NEW x \in Cce, x # None, NEW y, y = [x EXCEPT !.flag = TRUE]
    PROVE  y \in Cce /\ y # None /\ y.seq = x.seq
<1>1. x \in [seq : Nat \cup {Orig}, flag : BOOLEAN]
  BY DEF Cce
<1>2. y \in [seq : Nat \cup {Orig}, flag : BOOLEAN] /\ y.seq = x.seq
  BY <1>1
<1>3. x.seq # -9
  BY <1>1 DEF Orig
<1>4. y # None
  BY <1>2, <1>3 DEF None
<1> QED BY <1>2, <1>4 DEF Cce

(* The invariant speaks only of what a quiet step keeps. *)
LEMMA QuietKeeps ==
    ASSUME NEW c, NEW d, Quiet(c, d), IssueInv(c) PROVE IssueInv(d)
<1>1. DOMAIN c.cces = 1 .. N_CCES /\ DOMAIN d.cces = 1 .. N_CCES
  BY DEF IssueInv, IssueShape, Quiet
<1>2. Slots(d.cces) = Slots(c.cces) /\ Ours(d) = Ours(c)
  BY <1>1 DEF Slots, Ours, Quiet
<1>3. CanIssueCids(d) <=> CanIssueCids(c)
  BY <1>1, <1>2 DEF CanIssueCids, Quiet
<1> QED BY <1>2, <1>3 DEF IssueInv, Quiet

(* Quiet steps, one after the other. *)
LEMMA QuietChain ==
    ASSUME NEW c, NEW d, NEW e, Quiet(c, d), Quiet(d, e) PROVE Quiet(c, e)
  BY DEF Quiet

(* No step is a quiet one. *)
LEMMA QuietSelf ==
    ASSUME NEW c, IssueShape(c) PROVE Quiet(c, c)
  BY DEF Quiet

(* A step that is about other fields is quiet. *)
LEMMA QuietOther ==
    ASSUME NEW c, NEW d, IssueShape(c), Other(c, d) PROVE Quiet(c, d)
<1>1. /\ IssueFields \subseteq DOMAIN d /\ d.cces = c.cces /\ d.count = c.count /\ d.limit = c.limit
      /\ d.newcid = c.newcid /\ d.throt = c.throt /\ d.scid_seqno = c.scid_seqno
  BY DEF Other, IssueShape, IssueFields
<1> QED BY <1>1 DEF Quiet, IssueShape

(* So is one that marks an ID as used. *)
LEMMA QuietMark ==
    ASSUME NEW c, NEW d, IssueShape(c), NEW i \in Slots(c.cces), DOMAIN d = DOMAIN c,
           \A x \in IssueFields \ {"cces"} : d[x] = c[x],
           d.cces = [c.cces EXCEPT ![i].flag = TRUE]
    PROVE  Quiet(c, d)
<1> DEFINE x == c.cces[i]
           y == [x EXCEPT !.flag = TRUE]
<1>1. x \in Cce /\ x # None /\ i \in 1 .. N_CCES /\ c.cces \in [1 .. N_CCES -> Cce]
  BY DEF Slots, IssueShape
<1>2. d.cces = [c.cces EXCEPT ![i] = y]
  OBVIOUS
<1>3. y \in Cce /\ y # None /\ y.seq = x.seq
  <2> HIDE DEF x
  <2> QED BY <1>1, MarkedCce
<1> HIDE DEF y
<1>4. /\ IssueFields \subseteq DOMAIN d /\ d.count = c.count /\ d.limit = c.limit
      /\ d.newcid = c.newcid /\ d.throt = c.throt /\ d.scid_seqno = c.scid_seqno
  BY DEF IssueShape, IssueFields
<1>5. d.cces \in [1 .. N_CCES -> Cce]
  BY <1>1, <1>2, <1>3
<1>6. \A k \in 1 .. N_CCES : (d.cces[k] = None <=> c.cces[k] = None) /\ d.cces[k].seq = c.cces[k].seq
  BY <1>1, <1>2, <1>3
<1> QED BY <1>4, <1>5, <1>6 DEF Quiet, IssueShape

-----------------------------------------------------------------------------
(* The operations on the IDs of the peer and on paths are about other fields. *)
LEMMA OtherSelf == ASSUME NEW c PROVE Other(c, c)
  BY DEF Other

(* Steps about other fields, one after the other. *)
LEMMA OtherChain == ASSUME NEW c, NEW d, NEW e, Other(c, d), Other(d, e) PROVE Other(c, e)
  BY DEF Other

(* retire_dcid() *)
LEMMA RetireDcidOther ==
    ASSUME NEW c, IssueShape(c), NEW i PROVE Other(c, RetireDcid(c, i))
  BY DEF IssueShape, Other, IssueFields, RetireDcid

(* insert_new_dcid() *)
LEMMA InsertOther ==
    ASSUME NEW c, IssueShape(c), NEW seq, NEW update PROVE Other(c, InsertNewDcid(c, seq, update))
  BY DEF IssueShape, Other, IssueFields, InsertNewDcid

(* retire_dcids_prior_to() *)
LEMMA RetirePriorOther ==
    ASSUME NEW c, IssueShape(c), NEW rpt PROVE Other(c, RetirePriorTo(c, rpt))
  BY DEF IssueShape, Other, IssueFields, RetirePriorTo

(* maybe_retire_dcid() *)
LEMMA MaybeRetireOther ==
    ASSUME NEW c, IssueShape(c), NEW dcid PROVE Other(c, MaybeRetireDcid(c, dcid))
  BY RetireDcidOther, OtherSelf DEF IssueShape, Other, IssueFields, MaybeRetireDcid

(* process_new_connection_id_frame() *)
LEMMA NewConnectionIdOther ==
    ASSUME NEW c, IssueShape(c), NEW seq, NEW rpt PROVE Other(c, NewConnectionId(c, seq, rpt))
<1> DEFINE c0 == [c EXCEPT !.last_rpt = rpt]
           newer == rpt > c.last_rpt
           c1 == IF newer THEN RetirePriorTo(c0, rpt) ELSE c
           update == newer /\ \E i \in Slots(c.dces) : c.dces[i].seq < rpt
                                                       /\ c.dces[i].seq = CurDcid(c)
<1>1. Other(c, c0)
  BY DEF IssueShape, Other, IssueFields
<1>2. IssueShape(c0)
  <2> HIDE DEF c0
  <2> QED BY <1>1, QuietOther DEF Quiet
<1> HIDE DEF c0
<1>3. Other(c, c1)
  BY <1>1, <1>2, RetirePriorOther, OtherChain, OtherSelf
<1>4. NewConnectionId(c, seq, rpt) \in {[c EXCEPT !.aborted = TRUE], RetireSeqno(c, seq),
                                        InsertNewDcid(c1, seq, update)}
  BY DEF NewConnectionId, c0
<1> HIDE DEF c1, update
<1>5. IssueShape(c1)
  BY <1>3, QuietOther DEF Quiet
<1>6. Other(c, InsertNewDcid(c1, seq, update))
  BY <1>3, <1>5, InsertOther, OtherChain
<1>7. Other(c, [c EXCEPT !.aborted = TRUE]) /\ Other(c, RetireSeqno(c, seq))
  BY DEF IssueShape, Other, IssueFields, RetireSeqno
<1> QED BY <1>4, <1>6, <1>7

(* ietf_full_conn_ci_retire_cid() *)
LEMMA CiRetireOther ==
    ASSUME NEW c, IssueShape(c) PROVE Other(c, CiRetireCid(c))
<1> DEFINE old == {i \in Slots(c.dces) : c.dces[i].seq = CurDcid(c)}
           new == Slots(c.dces) \ old
           c1 == [c EXCEPT !.paths[c.cur].dcid = c.dces[First(new)].seq]
<1>1. CiRetireCid(c) = IF old = {} THEN [c EXCEPT !.aborted = TRUE]
                       ELSE IF new = {} THEN c ELSE RetireDcid(c1, First(old))
  BY DEF CiRetireCid
<1>2. Other(c, c1) /\ Other(c, [c EXCEPT !.aborted = TRUE]) /\ Other(c, c)
  BY DEF IssueShape, Other, IssueFields
<1> HIDE DEF c1, old
<1>3. IssueShape(c1)
  BY <1>2, QuietOther DEF Quiet
<1>4. Other(c, RetireDcid(c1, First(old)))
  BY <1>2, <1>3, RetireDcidOther, OtherChain
<1> QED BY <1>1, <1>2, <1>4

(* ietf_full_conn_ci_record_addrs() *)
LEMMA RecordOther ==
    ASSUME NEW c, IssueShape(c), NEW addr PROVE Other(c, RecordAddrs(c, addr).c)
<1> DEFINE d(p) == [c EXCEPT !.paths[p].addr = addr, !.used = @ \cup {p}]
<1>1. RecordAddrs(c, addr).c = c \/ \E p : RecordAddrs(c, addr).c = d(p)
  BY DEF RecordAddrs
<1>2. \A p : Other(c, d(p))
  BY DEF IssueShape, Other, IssueFields
<1> QED BY <1>1, <1>2, OtherSelf

(* switch_path_to() *)
LEMMA SwitchOther ==
    ASSUME NEW c, IssueShape(c), NEW p PROVE Other(c, SwitchPathTo(c, p))
<1> DEFINE old == c.cur
           c1 == MaybeRetireDcid(c, CurDcid(c))
           c2 == [c1 EXCEPT !.cur = p, !.cur_cce = c1.paths[p].cce,
                            !.chal = @ \ {old}, !.resp = @ \ {old}, !.alarms = @ \ {old}]
<1>1. SwitchPathTo(c, p) \in {WipePath(c2, old), c2}
  BY DEF SwitchPathTo
<1> HIDE DEF old
<1>2. Other(c, c1)
  BY MaybeRetireOther
<1> HIDE DEF c1
<1>3. IssueShape(c1)
  BY <1>2, QuietOther DEF Quiet
<1>4. Other(c1, c2)
  BY <1>3 DEF IssueShape, Other, IssueFields
<1> HIDE DEF c2
<1>5. IssueShape(c2)
  BY <1>3, <1>4, QuietOther DEF Quiet
<1>6. Other(c2, WipePath(c2, old))
  BY <1>5 DEF IssueShape, Other, IssueFields, WipePath
<1> QED BY <1>1, <1>2, <1>4, <1>6, OtherChain

(* init_new_path() *)
LEMMA InitPathOther ==
    ASSUME NEW c, IssueShape(c), NEW p, NEW changed PROVE Other(c, InitNewPath(c, p, changed).c)
  BY DEF IssueShape, Other, IssueFields, InitNewPath

(* PATH_CHALLENGE, PATH_RESPONSE, and the migration of a client. *)
LEMMA PathFramesOther ==
    ASSUME NEW c, IssueShape(c), NEW p, NEW n, NEW id, NEW addr, NEW allowed
    PROVE  /\ Other(c, PathChallenge(c, p, n)) /\ Other(c, PathResponse(c, id))
           /\ Other(c, MaybeStartMigration(c, addr, allowed))
<1>1. Other(c, PathChallenge(c, p, n))
  BY DEF IssueShape, Other, IssueFields, PathChallenge
<1>2. Other(c, PathResponse(c, id))
  <2> DEFINE q == First(ChallengedPaths(c, id))
             a == [c EXCEPT !.paths[q].valid = TRUE, !.chal = @ \ {q}, !.alarms = @ \ {q}]
             b == [c EXCEPT !.paths[q].valid = TRUE, !.paths[q].pad = TRUE, !.chal = @ \cup {q}]
             x == IF c.paths[q].pad THEN a ELSE b
  <2>1. PathResponse(c, id) = IF ChallengedPaths(c, id) = {} THEN [c EXCEPT !.aborted = TRUE]
                              ELSE IF q # c.cur /\ (c.paths[q].nonprob \/ ~c.server)
                              THEN SwitchPathTo(x, q) ELSE x
    BY DEF PathResponse
  <2> HIDE DEF q
  <2>2. Other(c, a) /\ Other(c, b) /\ Other(c, [c EXCEPT !.aborted = TRUE])
    BY DEF IssueShape, Other, IssueFields
  <2>3. Other(c, x)
    BY <2>2
  <2> HIDE DEF x
  <2>4. IssueShape(x)
    BY <2>3, QuietOther DEF Quiet
  <2> QED BY <2>1, <2>2, <2>3, <2>4, SwitchOther, OtherChain
<1>3. Other(c, MaybeStartMigration(c, addr, allowed))
  <2> DEFINE i == First(DOMAIN c.dces \ Slots(c.dces))
             m == [c EXCEPT !.dces[i] = [seq |-> 1, flag |-> TRUE],
                            !.paths[2] = [NoPath EXCEPT !.addr = addr, !.init = TRUE, !.dcid = 1],
                            !.mig = 2, !.used = @ \cup {2}, !.chal = @ \cup {2}]
  <2>1. MaybeStartMigration(c, addr, allowed)
            = IF ~allowed THEN InsertNewDcid(c, 1, FALSE)
              ELSE IF DOMAIN c.dces \ Slots(c.dces) = {} THEN [c EXCEPT !.aborted = TRUE] ELSE m
    BY DEF MaybeStartMigration
  <2> HIDE DEF i
  <2>2. Other(c, m) /\ Other(c, [c EXCEPT !.aborted = TRUE])
    BY DEF IssueShape, Other, IssueFields
  <2> HIDE DEF m
  <2>3. Other(c, InsertNewDcid(c, 1, FALSE))
    BY InsertOther
  <2> QED BY <2>1, <2>2, <2>3
<1> QED BY <1>1, <1>2, <1>3

-----------------------------------------------------------------------------
(* An ID that is found, but for the current one, is in a slot. *)
LEMMA FoundCce ==
    ASSUME NEW c, IssueShape(c), NEW cid, NEW x, FindCce(c, cid) \ {x} # {}
    PROVE  First(FindCce(c, cid) \ {x}) \in Slots(c.cces)
<1>1. FindCce(c, cid) \subseteq Slots(c.cces) /\ Slots(c.cces) \subseteq 1 .. N_CCES
  BY DEF FindCce, Slots, IssueShape
<1>2. FindCce(c, cid) \ {x} \in SUBSET Nat
  BY <1>1
<1> QED BY <1>1, <1>2, FirstIn

(* An ID that is found is in a slot. *)
LEMMA FoundFirst ==
    ASSUME NEW c, IssueShape(c), NEW cid, FindCce(c, cid) # {}
    PROVE  First(FindCce(c, cid)) \in Slots(c.cces)
<1>1. FindCce(c, cid) \subseteq Slots(c.cces) /\ Slots(c.cces) \subseteq 1 .. N_CCES
  BY DEF FindCce, Slots, IssueShape
<1>2. FindCce(c, cid) \in SUBSET Nat
  BY <1>1
<1> QED BY <1>1, <1>2, FirstIn

(* on_dcid_change() *)
LEMMA DcidChangeQuiet ==
    ASSUME NEW c, IssueShape(c), NEW dcid PROVE Quiet(c, OnDcidChange(c, dcid))
<1> DEFINE S == FindCce(c, dcid) \ {c.cur_cce}
           i == First(S)
           d == [c EXCEPT !.cces[i].flag = TRUE, !.cur_cce = i]
<1>1. OnDcidChange(c, dcid) = IF S = {} THEN [c EXCEPT !.aborted = TRUE]
                              ELSE IF c.cces[i].flag THEN c ELSE d
  BY DEF OnDcidChange
<1>2. Quiet(c, [c EXCEPT !.aborted = TRUE]) /\ Quiet(c, c)
  <2>1. Other(c, [c EXCEPT !.aborted = TRUE]) /\ Other(c, c)
    BY DEF IssueShape, Other, IssueFields
  <2> QED BY <2>1, QuietOther
<1>3. ASSUME S # {} PROVE Quiet(c, d)
  <2>1. i \in Slots(c.cces)
    BY <1>3, FoundCce
  <2> HIDE DEF i
  <2>2. /\ DOMAIN d = DOMAIN c /\ \A x \in IssueFields \ {"cces"} : d[x] = c[x]
        /\ d.cces = [c.cces EXCEPT ![i].flag = TRUE]
    BY DEF IssueShape, IssueFields
  <2> HIDE DEF d
  <2> QED BY <2>1, <2>2, QuietMark
<1> HIDE DEF d
<1> QED BY <1>1, <1>2, <1>3

(* on_new_or_unconfirmed_path() *)
LEMMA NewPathQuiet ==
    ASSUME NEW c, IssueShape(c), NEW p, NEW dcid, NEW nonprob, NEW big
    PROVE  Quiet(c, OnNewPath(c, p, dcid, nonprob, big))
<1> DEFINE c0 == IF nonprob THEN [c EXCEPT !.paths[p].nonprob = TRUE] ELSE c
           S  == FindCce(c0, dcid)
           k  == First(S)
           n  == InitNewPath(c0, p, ~c0.cces[k].flag)
           c1 == [n.c EXCEPT !.paths[p].init = TRUE, !.paths[p].pad = @ \/ big, !.chal = @ \cup {p}]
           c2 == IF c0.paths[p].valid /\ c0.paths[p].nonprob THEN SwitchPathTo(c0, p) ELSE c0
           cancel(x) == [x EXCEPT !.resp = @ \ {p}]
           use(x) == [x EXCEPT !.paths[p].cce = k, !.cces[k].flag = TRUE]
           ab == [c0 EXCEPT !.aborted = TRUE]
<1>1. OnNewPath(c, p, dcid, nonprob, big)
        = IF S = {} THEN cancel(ab)
          ELSE IF c0.paths[p].init THEN use(c2)
          ELSE IF n.ok THEN use(c1) ELSE cancel(c0)
  BY DEF OnNewPath
<1>2. Other(c, c0)
  BY DEF IssueShape, Other, IssueFields
<1> HIDE DEF c0
<1>3. Quiet(c, c0) /\ IssueShape(c0)
  BY <1>2, QuietOther DEF Quiet
<1>4. Other(c0, n.c)
  <2> HIDE DEF k
  <2> QED BY <1>3, InitPathOther
<1>5. Other(c0, c2)
  BY <1>3, SwitchOther, OtherSelf
<1>6. Other(c0, ab)
  BY <1>3 DEF IssueShape, Other, IssueFields
<1> DEFINE nc == n.c
<1> HIDE DEF n
<1>7. Other(c0, c1)
  <2>1. IssueShape(nc)
    BY <1>3, <1>4, QuietOther DEF Quiet
  <2>2. c1 = [nc EXCEPT !.paths[p].init = TRUE, !.paths[p].pad = @ \/ big, !.chal = @ \cup {p}]
    OBVIOUS
  <2> HIDE DEF c1, nc
  <2>3. Other(nc, c1)
    BY <2>1, <2>2 DEF IssueShape, Other, IssueFields
  <2> QED BY <1>4, <2>3, OtherChain DEF nc
<1> HIDE DEF c1, c2, ab
<1>8. ASSUME NEW x, Other(c0, x) PROVE Quiet(c, cancel(x))
  <2>1. IssueShape(x)
    BY <1>3, <1>8, QuietOther DEF Quiet
  <2>2. Other(x, cancel(x))
    BY <2>1 DEF IssueShape, Other, IssueFields
  <2> HIDE DEF cancel
  <2>3. Quiet(c0, cancel(x))
    BY <1>3, <1>8, <2>2, OtherChain, QuietOther
  <2> QED BY <1>3, <2>3, QuietChain
<1>9. ASSUME NEW x, Other(c0, x), S # {} PROVE Quiet(c, use(x))
  <2>1. k \in Slots(c0.cces)
    BY <1>3, <1>9, FoundFirst
  <2>2. Quiet(c0, x) /\ IssueShape(x)
    BY <1>3, <1>9, QuietOther DEF Quiet
  <2>3. k \in Slots(x.cces)
    BY <1>9, <2>1 DEF Other, IssueFields
  <2> HIDE DEF k
  <2>4. /\ DOMAIN use(x) = DOMAIN x /\ \A y \in IssueFields \ {"cces"} : use(x)[y] = x[y]
        /\ use(x).cces = [x.cces EXCEPT ![k].flag = TRUE]
    BY <2>2 DEF IssueShape, IssueFields
  <2> DEFINE u == use(x)
  <2> HIDE DEF u, use
  <2>5. Quiet(x, u)
    <3>1. /\ DOMAIN u = DOMAIN x /\ \A y \in IssueFields \ {"cces"} : u[y] = x[y]
          /\ u.cces = [x.cces EXCEPT ![k].flag = TRUE]
      BY <2>4 DEF u
    <3> QED BY <2>2, <2>3, <3>1, QuietMark
  <2>6. Quiet(c0, u)
    BY <2>2, <2>5, QuietChain
  <2> QED BY <1>3, <2>6, QuietChain DEF u
<1> HIDE DEF use, cancel, S
<1> QED BY <1>1, <1>5, <1>6, <1>7, <1>8, <1>9, OtherSelf

-----------------------------------------------------------------------------
(* Another ID may be issued: now, or when the alarm says so. *)
LEMMA RatedKeeps ==
    ASSUME NEW c, IssueShape(c), c.count = Cardinality(Ours(c)), c.count <= c.limit,
           CanIssueCids(c), ~c.throt, NEW throttled \in BOOLEAN
    PROVE  IssueInv(RateSlot(c, throttled))
<1> DEFINE d == RateSlot(c, throttled)
           yes == TRUE
           no == FALSE
<1>1. d = IF throttled THEN [c EXCEPT !.throt = yes, !.newcid = no] ELSE [c EXCEPT !.newcid = yes]
  BY DEF RateSlot
<1>2. IssueFields \subseteq DOMAIN c
  BY DEF IssueShape
<1> HIDE DEF d, yes, no
<1>3. /\ DOMAIN d = DOMAIN c /\ d.cces = c.cces /\ d.count = c.count /\ d.limit = c.limit
      /\ d.scid_seqno = c.scid_seqno
  BY <1>1, <1>2 DEF IssueFields
<1>4. (throttled => d.throt = yes /\ d.newcid = no) /\ (~throttled => d.throt = c.throt /\ d.newcid = yes)
  BY <1>1, <1>2 DEF IssueFields
<1>5. d.newcid \in BOOLEAN /\ d.throt \in BOOLEAN /\ (d.newcid \/ d.throt) /\ ~(d.newcid /\ d.throt)
  BY <1>4 DEF yes, no, IssueShape
<1>6. Ours(d) = Ours(c) /\ CanIssueCids(d)
  BY <1>3 DEF Ours, CanIssueCids
<1>7. IssueShape(d)
  BY <1>3, <1>5 DEF IssueShape
<1> QED BY <1>3, <1>5, <1>6, <1>7 DEF IssueInv, d

(* There are finitely many slots. *)
LEMMA FiniteCces ==
    ASSUME ConnIdsAssumption PROVE IsFiniteSet(1 .. N_CCES)
<1>1. N_CCES \in Int /\ 1 \in Int
  BY DEF ConnIdsAssumption
<1> QED BY <1>1, FS_Interval

(* An ID is retired: another one may be issued in its place. *)
LEMMA RetireKeeps ==
    ASSUME ConnIdsAssumption, NEW c, IssueInv(c), NEW i \in Slots(c.cces), NEW throttled \in BOOLEAN
    PROVE  IssueInv(RetireCid(c, i, throttled))
<1> DEFINE n == IF c.cces[i].seq >= 0 THEN c.count - 1 ELSE c.count
           cc == [c.cces EXCEPT ![i] = None]
           c1 == [c EXCEPT !.cces = cc, !.count = n]
<1>1. RetireCid(c, i, throttled) = IF CanIssueCids(c1) /\ ~c1.throt THEN RateSlot(c1, throttled) ELSE c1
  BY DEF RetireCid
<1>2. /\ IssueShape(c) /\ i \in 1 .. N_CCES /\ c.cces \in [1 .. N_CCES -> Cce] /\ N_CCES \in Nat
      /\ c.cces[i] # None /\ IssueFields \subseteq DOMAIN c
  BY DEF IssueInv, IssueShape, Slots, ConnIdsAssumption
<1>3. cc \in [1 .. N_CCES -> Cce] /\ cc[i] = None /\ \A k \in 1 .. N_CCES : k # i => cc[k] = c.cces[k]
  BY <1>2 DEF Cce
<1> HIDE DEF n, cc
<1>4. /\ IssueFields \subseteq DOMAIN c1 /\ c1.cces = cc /\ c1.count = n /\ c1.limit = c.limit
      /\ c1.newcid = c.newcid /\ c1.throt = c.throt /\ c1.scid_seqno = c.scid_seqno
  BY <1>2 DEF IssueFields
<1> HIDE DEF c1
<1>5. IssueShape(c1)
  BY <1>2, <1>3, <1>4 DEF IssueShape
<1>6. Slots(cc) = Slots(c.cces) \ {i} /\ Slots(cc) # DOMAIN cc
  BY <1>2, <1>3 DEF Slots
<1>7. Ours(c1) = Ours(c) \ {i} /\ (i \in Ours(c) <=> c.cces[i].seq >= 0)
  BY <1>2, <1>3, <1>4, <1>6 DEF Ours, Slots
<1>8. IsFiniteSet(Ours(c)) /\ Cardinality(Ours(c)) \in Nat
  <2>1. IsFiniteSet(1 .. N_CCES)
    BY FiniteCces
  <2>2. Ours(c) \subseteq 1 .. N_CCES
    BY <1>2 DEF Ours, Slots
  <2> QED BY <2>1, <2>2, FS_Subset, FS_CardinalityType
<1>9. n = Cardinality(Ours(c1)) /\ n <= c.count /\ n \in Int /\ c.count \in Nat
  <2>1. c.count = Cardinality(Ours(c))
    BY DEF IssueInv
  <2>2. Cardinality(Ours(c1)) = IF i \in Ours(c) THEN Cardinality(Ours(c)) - 1 ELSE Cardinality(Ours(c))
    BY <1>7, <1>8, FS_RemoveElement
  <2> QED BY <1>7, <1>8, <2>1, <2>2 DEF n
<1>10. CanIssueCids(c1) <=> n < c.limit
  BY <1>4, <1>6 DEF CanIssueCids
<1>11. c.limit \in Nat /\ (c.newcid \/ c.throt => c.count < c.limit) /\ ~(c.newcid /\ c.throt) /\ c.count <= c.limit
  BY DEF IssueInv, IssueShape, CanIssueCids
<1>12. c.newcid \/ c.throt => CanIssueCids(c1)
  BY <1>9, <1>10, <1>11
<1>13. c1.count = Cardinality(Ours(c1)) /\ c1.count <= c1.limit
  BY <1>4, <1>9, <1>11
<1>14. CASE ~(CanIssueCids(c1) /\ ~c1.throt)
  <2>1. CanIssueCids(c1) <=> c1.newcid \/ c1.throt
    BY <1>4, <1>12, <1>14
  <2>2. ~(c1.newcid /\ c1.throt)
    BY <1>4, <1>11
  <2> QED BY <1>1, <1>5, <1>13, <1>14, <2>1, <2>2 DEF IssueInv
<1>15. CASE CanIssueCids(c1) /\ ~c1.throt
  BY <1>1, <1>5, <1>13, <1>15, RatedKeeps
<1> QED BY <1>14, <1>15

(* process_retire_connection_id_frame() *)
LEMMA RetireFrameKeeps ==
    ASSUME ConnIdsAssumption, NEW c, IssueInv(c), NEW seq, NEW dcid, NEW throttled \in BOOLEAN
    PROVE  IssueInv(RetireConnectionId(c, seq, dcid, throttled))
<1> DEFINE S  == FindCce(c, seq)
           i  == First(S)
           c1 == RetireCid(c, i, throttled)
           k  == First(FindCce(c1, dcid))
           d  == [c1 EXCEPT !.cces[k].flag = TRUE, !.cur_cce = k]
           ab == [c EXCEPT !.aborted = TRUE]
<1>1. RetireConnectionId(c, seq, dcid, throttled)
        = IF seq >= c.scid_seqno THEN ab
          ELSE IF S = {} THEN c
          ELSE IF seq = dcid THEN ab
          ELSE IF c.cur_cce # i \/ FindCce(c1, dcid) = {} THEN c1
          ELSE d
  BY DEF RetireConnectionId
<1>2. IssueShape(c)
  BY DEF IssueInv
<1>3. IssueInv(ab)
  <2>1. Other(c, ab)
    BY <1>2 DEF IssueShape, Other, IssueFields
  <2> HIDE DEF ab
  <2> QED BY <1>2, <2>1, QuietOther, QuietKeeps
<1>4. S # {} => IssueInv(c1)
  <2>1. S # {} => i \in Slots(c.cces)
    BY <1>2, FoundFirst
  <2> HIDE DEF i, S
  <2> QED BY <2>1, RetireKeeps
<1> HIDE DEF c1, ab, S, i
<1>5. ASSUME S # {}, FindCce(c1, dcid) # {} PROVE IssueInv(d)
  <2>1. IssueInv(c1) /\ IssueShape(c1)
    BY <1>4, <1>5 DEF IssueInv
  <2>2. k \in Slots(c1.cces)
    BY <1>5, <2>1, FoundFirst
  <2> HIDE DEF k
  <2>3. /\ DOMAIN d = DOMAIN c1 /\ \A x \in IssueFields \ {"cces"} : d[x] = c1[x]
        /\ d.cces = [c1.cces EXCEPT ![k].flag = TRUE]
    BY <2>1 DEF IssueShape, IssueFields
  <2> HIDE DEF d
  <2>4. Quiet(c1, d)
    BY <2>1, <2>2, <2>3, QuietMark
  <2> QED BY <2>1, <2>4, QuietKeeps
<1> HIDE DEF d
<1> QED BY <1>1, <1>3, <1>4, <1>5

(* A packet is processed: its addresses, its frame, its path and the ID it came with. *)
LEMMA PacketKeeps ==
    ASSUME ConnIdsAssumption, NEW c, IssueInv(c), NEW pkt, pkt.throttled \in BOOLEAN,
           pkt.frame \in {"NEW_CONNECTION_ID", "RETIRE_CONNECTION_ID", "PATH_CHALLENGE",
                          "PATH_RESPONSE", "DATA"}
    PROVE  IssueInv(ProcessPacket(c, pkt))
<1>1. ASSUME NEW a, IssueInv(a), NEW b, Other(a, b) PROVE IssueInv(b)
  <2>1. IssueShape(a)
    BY <1>1 DEF IssueInv
  <2> QED BY <1>1, <2>1, QuietOther, QuietKeeps
<1> DEFINE r == RecordAddrs(c, pkt.addr)
           a == r.c
           p == r.id
<1>2. IssueInv(a) /\ IssueShape(a)
  <2>1. IssueShape(c)
    BY DEF IssueInv
  <2>2. Other(c, a)
    BY <2>1, RecordOther
  <2> HIDE DEF a
  <2> QED BY <1>1, <2>2 DEF IssueInv
<1>3. ProcessPacket(c, pkt) = OnPath(a, p, pkt)
  BY DEF ProcessPacket, Recorded
<1> HIDE DEF r, a, p
<1> DEFINE f == Frame(a, p, pkt)
<1>4. IssueInv(f)
  <2>1. CASE pkt.frame = "NEW_CONNECTION_ID"
    <3>1. f = NewConnectionId(a, pkt.seq, pkt.rpt)
      BY <2>1 DEF Frame
    <3> HIDE DEF f
    <3> QED BY <1>1, <1>2, <3>1, NewConnectionIdOther
  <2>2. CASE pkt.frame = "RETIRE_CONNECTION_ID"
    <3>1. f = RetireConnectionId(a, pkt.seq, pkt.dcid, pkt.throttled)
      BY <2>2 DEF Frame
    <3> HIDE DEF f
    <3> QED BY <1>2, <3>1, RetireFrameKeeps
  <2>3. CASE pkt.frame = "PATH_CHALLENGE"
    <3>1. f = PathChallenge(a, p, pkt.seq)
      BY <2>3 DEF Frame
    <3> HIDE DEF f
    <3> QED BY <1>1, <1>2, <3>1, PathFramesOther
  <2>4. CASE pkt.frame = "PATH_RESPONSE"
    <3>1. f = PathResponse(a, pkt.seq)
      BY <2>4 DEF Frame
    <3> HIDE DEF f
    <3> QED BY <1>1, <1>2, <3>1, PathFramesOther
  <2>5. CASE pkt.frame = "DATA"
    <3>1. f = a
      BY <2>5 DEF Frame
    <3> QED BY <1>2, <3>1
  <2> QED BY <2>1, <2>2, <2>3, <2>4, <2>5
<1>5. OnPath(a, p, pkt) = IF p # a.cur /\ ~a.server /\ ~(p = a.mig /\ MigraIsOn(a, p)) THEN a
                          ELSE AfterFrame(a, f, p, pkt)
  BY DEF OnPath
<1> HIDE DEF f
<1>6. IssueInv(AfterFrame(a, f, p, pkt))
  <2> DEFINE np == NonProbing(pkt) /\ pkt.latest
  <2>1. \/ AfterFrame(a, f, p, pkt) = f
        \/ AfterFrame(a, f, p, pkt) = OnNewPath(f, p, pkt.dcid, np, pkt.big)
        \/ AfterFrame(a, f, p, pkt) = OnDcidChange(f, pkt.dcid)
    BY DEF AfterFrame
  <2> HIDE DEF np
  <2>2. IssueShape(f)
    BY <1>4 DEF IssueInv
  <2>3. Quiet(f, OnNewPath(f, p, pkt.dcid, np, pkt.big)) /\ Quiet(f, OnDcidChange(f, pkt.dcid))
    BY <2>2, NewPathQuiet, DcidChangeQuiet
  <2> QED BY <1>4, <2>1, <2>3, QuietKeeps
<1> QED BY <1>2, <1>3, <1>5, <1>6

(* An ID is issued: there is a free slot, since one was due. *)
LEMMA NewCidKeeps ==
    ASSUME ConnIdsAssumption, NEW c, IssueInv(c), c.newcid, NEW d, d = NewCid(c)
    PROVE  IssueInv(d) /\ (d.newcid => CanIssueCids(d) /\ ~d.throt)
<1> DEFINE i  == First(DOMAIN c.cces \ Slots(c.cces))
           new == [seq |-> c.scid_seqno, flag |-> FALSE]
           cc == [c.cces EXCEPT ![i] = new]
           sq == c.scid_seqno + 1
           n == c.count + 1
           c1 == [c EXCEPT !.cces = cc, !.scid_seqno = sq, !.count = n]
           w == c1.newcid /\ CanIssueCids(c1)
<1>1. /\ IssueShape(c) /\ c.cces \in [1 .. N_CCES -> Cce] /\ N_CCES \in Nat /\ c.scid_seqno \in Nat
      /\ IssueFields \subseteq DOMAIN c
      /\ Slots(c.cces) # DOMAIN c.cces /\ c.count < c.limit /\ ~c.throt
      /\ c.count = Cardinality(Ours(c)) /\ c.limit \in Nat
  BY DEF IssueInv, IssueShape, ConnIdsAssumption, CanIssueCids
<1>2. i \in 1 .. N_CCES /\ i \notin Slots(c.cces)
  <2> DEFINE free == DOMAIN c.cces \ Slots(c.cces)
  <2>1. DOMAIN c.cces = 1 .. N_CCES /\ Slots(c.cces) \subseteq DOMAIN c.cces
    BY <1>1 DEF Slots
  <2>2. free \subseteq 1 .. N_CCES /\ free # {}
    BY <1>1, <2>1
  <2>3. free \in SUBSET Nat
    BY <1>1, <2>2
  <2> HIDE DEF free
  <2>4. First(free) \in free
    BY <2>2, <2>3, FirstIn
  <2> QED BY <2>1, <2>4 DEF free
<1>3. d = [c1 EXCEPT !.newcid = w]
  BY <1>1 DEF NewCid
<1> HIDE DEF i
<1>4. new \in Cce /\ new # None /\ new.seq >= 0
  BY <1>1 DEF Cce, None
<1> HIDE DEF new
<1>5. cc \in [1 .. N_CCES -> Cce] /\ cc[i] = new /\ \A k \in 1 .. N_CCES : k # i => cc[k] = c.cces[k]
  BY <1>1, <1>2, <1>4
<1> HIDE DEF cc
<1>6. sq \in Nat
  BY <1>1
<1> HIDE DEF sq, n
<1>7. /\ IssueFields \subseteq DOMAIN c1 /\ c1.cces = cc /\ c1.count = n /\ c1.limit = c.limit
      /\ c1.newcid = c.newcid /\ c1.throt = c.throt /\ c1.scid_seqno = sq
  BY <1>1 DEF IssueFields
<1>8. w \in BOOLEAN /\ (w <=> CanIssueCids(c1))
  BY <1>7
<1> HIDE DEF c1, w
<1>9. /\ IssueFields \subseteq DOMAIN d /\ d.cces = cc /\ d.count = n /\ d.limit = c.limit
      /\ d.throt = c.throt /\ d.scid_seqno = sq
  BY <1>3, <1>7 DEF IssueFields
<1>10. d.newcid = w
  BY <1>3, <1>7 DEF IssueFields
<1>11. IssueShape(d)
  BY <1>1, <1>5, <1>6, <1>8, <1>9, <1>10 DEF IssueShape
<1>12. Slots(cc) = Slots(c.cces) \cup {i} /\ Ours(d) = Ours(c) \cup {i} /\ i \notin Ours(c)
  BY <1>1, <1>2, <1>4, <1>5, <1>9 DEF Ours, Slots
<1>13. n = Cardinality(Ours(d)) /\ n <= c.limit
  <2>1. IsFiniteSet(1 .. N_CCES)
    BY FiniteCces
  <2>2. Ours(c) \subseteq 1 .. N_CCES
    BY <1>1 DEF Ours, Slots
  <2>3. IsFiniteSet(Ours(c)) /\ Cardinality(Ours(c)) \in Nat
    BY <2>1, <2>2, FS_Subset, FS_CardinalityType
  <2>4. Cardinality(Ours(d)) = Cardinality(Ours(c)) + 1
    BY <1>12, <2>3, FS_AddElement
  <2> QED BY <1>1, <2>3, <2>4 DEF n
<1>14. CanIssueCids(d) <=> CanIssueCids(c1)
  BY <1>7, <1>9 DEF CanIssueCids
<1> QED BY <1>1, <1>8, <1>9, <1>10, <1>11, <1>13, <1>14 DEF IssueInv

-----------------------------------------------------------------------------
(* An ID is issued, the alarm expires, or the original ID is retired. *)
LEMMA IssueSteps ==
    ASSUME ConnIdsAssumption, IssueInv(ifc), SendNewCid \/ ThrottleExpires \/ RetireOriginal
    PROVE  IssueInv(ifc')
<1>0. \A t \in Rates : t \in BOOLEAN
  BY DEF Rates
<1>1. CASE SendNewCid
  <2> DEFINE c == NewCid(ifc)
  <2>1. PICK throttled \in Rates : ifc' = IF c.newcid THEN RateSlot(c, throttled) ELSE c
    BY <1>1 DEF SendNewCid
  <2>2. ifc.newcid
    BY <1>1 DEF SendNewCid
  <2>3. IssueInv(c) /\ (c.newcid => CanIssueCids(c) /\ ~c.throt)
    BY <2>2, NewCidKeeps
  <2> HIDE DEF c
  <2>4. c.newcid => IssueInv(RateSlot(c, throttled))
    BY <1>0, <2>3, RatedKeeps DEF IssueInv
  <2> QED BY <2>1, <2>3, <2>4
<1>2. CASE ThrottleExpires
  <2> DEFINE yes == TRUE
             no == FALSE
  <2>1. ifc' = [ifc EXCEPT !.throt = no, !.newcid = yes] /\ ifc.throt
    BY <1>2 DEF ThrottleExpires
  <2>2. IssueShape(ifc) /\ IssueFields \subseteq DOMAIN ifc /\ CanIssueCids(ifc)
    BY <2>1 DEF IssueInv, IssueShape
  <2> DEFINE d == ifc'
  <2> HIDE DEF yes, no
  <2>3. /\ IssueFields \subseteq DOMAIN d /\ d.cces = ifc.cces /\ d.count = ifc.count
        /\ d.limit = ifc.limit /\ d.scid_seqno = ifc.scid_seqno
    BY <2>1, <2>2 DEF IssueFields
  <2>4. d.throt = no /\ d.newcid = yes
    BY <2>1, <2>2 DEF IssueFields
  <2> HIDE DEF d
  <2>5. IssueShape(d) /\ d.newcid /\ ~d.throt
    BY <2>2, <2>3, <2>4 DEF IssueShape, yes, no
  <2>6. Ours(d) = Ours(ifc) /\ CanIssueCids(d)
    BY <2>2, <2>3 DEF Ours, CanIssueCids
  <2>7. IssueInv(d)
    BY <2>3, <2>5, <2>6 DEF IssueInv
  <2> QED BY <2>7 DEF d
<1>3. CASE RetireOriginal
  <2>1. PICK i \in Slots(ifc.cces), throttled \in Rates : ifc' = RetireCid(ifc, i, throttled)
    BY <1>3 DEF RetireOriginal
  <2> QED BY <1>0, <2>1, RetireKeeps
<1> QED BY <1>1, <1>2, <1>3

(* The steps that neither issue nor retire an ID of ours. *)
LEMMA OtherSteps ==
    ASSUME IssueInv(ifc), SendRetireCid \/ SendPathChal \/ SendPathResp \/ PathChalExpires
                          \/ RetireOwn \/ Confirmed
    PROVE  IssueInv(ifc')
<1>0. IssueShape(ifc)
  BY DEF IssueInv
<1>1. Other(ifc, ifc')
  <2>1. CASE SendRetireCid
    BY <1>0, <2>1 DEF SendRetireCid, IssueShape, Other, IssueFields
  <2>2. CASE SendPathChal
    BY <1>0, <2>2 DEF SendPathChal, IssueShape, Other, IssueFields
  <2>3. CASE SendPathResp
    BY <1>0, <2>3 DEF SendPathResp, IssueShape, Other, IssueFields
  <2>4. CASE PathChalExpires
    <3>1. PICK p \in ifc.alarms :
            LET c == [ifc EXCEPT !.alarms = @ \ {p}]
            IN  ifc' \in {[c EXCEPT !.chal = @ \cup {p}], WipePath(c, p), c}
      BY <2>4 DEF PathChalExpires
    <3> QED BY <1>0, <3>1 DEF IssueShape, Other, IssueFields, WipePath
  <2>5. CASE RetireOwn
    BY <1>0, <2>5, CiRetireOther DEF RetireOwn
  <2>6. CASE Confirmed
    BY <1>0, <2>6, PathFramesOther DEF Confirmed
  <2> QED BY <2>1, <2>2, <2>3, <2>4, <2>5, <2>6
<1> QED BY <1>0, <1>1, QuietOther, QuietKeeps

(* A packet of the peer arrives. *)
LEMMA PacketSteps ==
    ASSUME ConnIdsAssumption, IssueInv(ifc), PacketIn
    PROVE  IssueInv(ifc')
<1> DEFINE Full(pkt, addr, dcid, latest, big) ==
              [frame |-> pkt.frame, seq |-> pkt.seq, rpt |-> pkt.rpt, throttled |-> pkt.throttled,
               addr |-> addr, dcid |-> dcid, latest |-> latest, big |-> big]
<1>a. PICK dcid, addr : \E pkt \in Packets : \E latest, big :
            ifc' = ProcessPacket(ifc, Full(pkt, addr, dcid, latest, big))
  BY ZenonT(60) DEF PacketIn
<1>b. PICK pkt \in Packets : \E latest, big : ifc' = ProcessPacket(ifc, Full(pkt, addr, dcid, latest, big))
  BY <1>a, Zenon
<1>1. PICK latest, big : ifc' = ProcessPacket(ifc, Full(pkt, addr, dcid, latest, big))
  BY <1>b, Zenon
<1> DEFINE q == Full(pkt, addr, dcid, latest, big)
<1>2. /\ pkt.throttled \in BOOLEAN
      /\ pkt.frame \in {"NEW_CONNECTION_ID", "RETIRE_CONNECTION_ID", "PATH_CHALLENGE",
                        "PATH_RESPONSE", "DATA"}
  <2>1. \A t \in Rates : t \in BOOLEAN
    BY DEF Rates
  <2>2. \/ pkt \in [frame : {"DATA"}, seq : {0}, rpt : {0}, throttled : {FALSE}]
        \/ pkt \in [frame : {"PATH_CHALLENGE"}, seq : {1}, rpt : {0}, throttled : {FALSE}]
        \/ pkt \in [frame : {"PATH_RESPONSE"}, seq : DOMAIN remote.chals, rpt : {0}, throttled : {FALSE}]
        \/ pkt \in {[frame |-> "NEW_CONNECTION_ID", seq |-> s, rpt |-> remote.rpts[s],
                     throttled |-> FALSE] : s \in 1..remote.issued}
        \/ pkt \in [frame : {"RETIRE_CONNECTION_ID"}, rpt : {0},
                    seq : IF remote.mode = "migrate" THEN {} ELSE remote.has \cup remote.gone,
                    throttled : IF ifc.throt THEN {FALSE} ELSE Rates]
    BY DEF Packets
  <2>3. CASE pkt \in [frame : {"DATA"}, seq : {0}, rpt : {0}, throttled : {FALSE}]
             \/ pkt \in [frame : {"PATH_CHALLENGE"}, seq : {1}, rpt : {0}, throttled : {FALSE}]
             \/ pkt \in [frame : {"PATH_RESPONSE"}, seq : DOMAIN remote.chals, rpt : {0}, throttled : {FALSE}]
    <3>1. pkt.throttled \in {FALSE} /\ pkt.frame \in {"DATA", "PATH_CHALLENGE", "PATH_RESPONSE"}
      BY <2>3
    <3> QED BY <3>1
  <2>4. CASE pkt \in {[frame |-> "NEW_CONNECTION_ID", seq |-> s, rpt |-> remote.rpts[s],
                       throttled |-> FALSE] : s \in 1..remote.issued}
    <3>1. PICK s \in 1..remote.issued : pkt = [frame |-> "NEW_CONNECTION_ID", seq |-> s,
                                               rpt |-> remote.rpts[s], throttled |-> FALSE]
      BY <2>4
    <3> QED BY <3>1
  <2>5. CASE pkt \in [frame : {"RETIRE_CONNECTION_ID"}, rpt : {0},
                      seq : IF remote.mode = "migrate" THEN {} ELSE remote.has \cup remote.gone,
                      throttled : IF ifc.throt THEN {FALSE} ELSE Rates]
    <3>1. pkt.throttled \in (IF ifc.throt THEN {FALSE} ELSE Rates) /\ pkt.frame = "RETIRE_CONNECTION_ID"
      BY <2>5
    <3> QED BY <2>1, <3>1
  <2> QED BY <2>2, <2>3, <2>4, <2>5
<1>3. q.throttled = pkt.throttled /\ q.frame = pkt.frame
  OBVIOUS
<1> HIDE DEF q
<1>4. ifc' = ProcessPacket(ifc, q)
  BY <1>1 DEF q
<1>5. /\ q.throttled \in BOOLEAN
      /\ q.frame \in {"NEW_CONNECTION_ID", "RETIRE_CONNECTION_ID", "PATH_CHALLENGE",
                      "PATH_RESPONSE", "DATA"}
  BY <1>2, <1>3
<1>6. IssueInv(ProcessPacket(ifc, q))
  BY <1>5, PacketKeeps
<1> QED BY <1>4, <1>6

(* After the handshake one ID is in use. *)
LEMMA IssueStart ==
    ASSUME ConnIdsAssumption, CidsInit PROVE IssueInv(ifc)
<1>1. PICK server \in BOOLEAN : ifc = [Conn(server) EXCEPT !.newcid = CanIssueCids(Conn(server))]
  BY DEF CidsInit
<1> DEFINE c == Conn(server)
           w == CanIssueCids(c)
           k == IF server THEN 2 ELSE 1
           one == [seq |-> 0, flag |-> TRUE]
           orig == [seq |-> Orig, flag |-> TRUE]
           cc == [i \in 1 .. N_CCES |-> IF server /\ i = 1 THEN orig ELSE IF i = k THEN one ELSE None]
           m == IF PeerLimit > N_CCES THEN N_CCES ELSE PeerLimit
<1>2. /\ c.count = 1 /\ c.limit = m /\ c.scid_seqno = 1 /\ IssueFields \subseteq DOMAIN c /\ c.cces = cc
  BY DEF Conn, IssueFields
<1>3. c.throt = FALSE
  BY DEF Conn
<1>4. N_CCES \in Nat /\ N_CCES > 1 /\ m \in Nat /\ 1 <= m
  BY DEF ConnIdsAssumption
<1>5. one \in Cce /\ orig \in Cce /\ None \in Cce /\ one # None /\ orig # None /\ one.seq = 0
      /\ orig.seq = -1
  BY DEF Cce, None, Orig
<1>6. k \in 1 .. N_CCES /\ (server => k # 1)
  BY <1>4
<1>7. w \in BOOLEAN
  BY DEF CanIssueCids
<1> DEFINE no == FALSE
<1>8. c.throt = no
  BY <1>3
<1> HIDE DEF c, w, m, one, orig, k, no
<1>9. cc \in [1 .. N_CCES -> Cce]
  BY <1>5
<1>10. {i \in 1 .. N_CCES : cc[i] # None /\ cc[i].seq >= 0} = {k}
  <2>1. ASSUME NEW i \in 1 .. N_CCES, cc[i] # None, cc[i].seq >= 0 PROVE i = k
    <3>1. cc[i] = orig \/ cc[i] = None \/ i = k
      OBVIOUS
    <3>2. ~(orig.seq >= 0)
      BY <1>5
    <3> HIDE DEF cc
    <3> QED BY <2>1, <3>1, <3>2
  <2>2. cc[k] = one
    BY <1>6
  <2> QED BY <1>5, <1>6, <2>1, <2>2
<1> HIDE DEF cc
<1> DEFINE d == ifc
<1>11. d = [c EXCEPT !.newcid = w]
  BY <1>1 DEF c, w
<1> HIDE DEF d
<1>12. /\ d.count = 1 /\ d.limit = m /\ d.scid_seqno = 1 /\ IssueFields \subseteq DOMAIN d /\ d.cces = cc
  BY <1>2, <1>11 DEF IssueFields
<1>13. d.newcid = w /\ d.throt = no
  <2>1. "newcid" \in DOMAIN c /\ "throt" \in DOMAIN c
    BY <1>2 DEF IssueFields
  <2>2. d.newcid = w
    BY <1>11, <2>1
  <2>3. d.throt = c.throt
    BY <1>11, <2>1
  <2> QED BY <1>8, <2>2, <2>3
<1>14. IssueShape(d)
  <2>1. d.newcid \in BOOLEAN /\ d.throt \in BOOLEAN
    BY <1>7, <1>13 DEF no
  <2>2. d.limit \in Nat /\ d.scid_seqno \in Nat /\ d.cces \in [1 .. N_CCES -> Cce]
    BY <1>4, <1>9, <1>12
  <2> QED BY <1>12, <2>1, <2>2 DEF IssueShape
<1>15. Ours(d) = {k}
  BY <1>9, <1>10, <1>12 DEF Ours, Slots
<1>16. CanIssueCids(d) <=> w
  BY <1>2, <1>12 DEF CanIssueCids, w
<1>17. d.count = Cardinality(Ours(d)) /\ d.count <= d.limit
  BY <1>4, <1>12, <1>15, FS_Singleton
<1>18. IssueInv(d)
  BY <1>7, <1>13, <1>14, <1>16, <1>17 DEF IssueInv, no
<1> QED BY <1>18 DEF d

\* Whatever is retired, throttled and repeated, for any limits: the IDs this end issues are
\* counted exactly and stay within the peer's limit, and an ID is due, or waits for the
\* alarm, exactly when one may be issued.
THEOREM IdsAreIssuedExactly ==
    ASSUME ConnIdsAssumption
    PROVE  CidsSpec => []IssueIsExact
<1>1. CidsInit => IssueInv(ifc)
  BY IssueStart
<1>2. IssueInv(ifc) /\ [CidsNext]_cidvars => IssueInv(ifc)'
  <2> SUFFICES ASSUME IssueInv(ifc), [CidsNext]_cidvars PROVE IssueInv(ifc')
    OBVIOUS
  <2>1. CASE SendNewCid \/ ThrottleExpires \/ RetireOriginal
    BY <2>1, IssueSteps
  <2>2. CASE SendRetireCid \/ SendPathChal \/ SendPathResp \/ PathChalExpires \/ RetireOwn \/ Confirmed
    BY <2>2, OtherSteps
  <2>3. CASE PacketIn
    BY <2>3, PacketSteps
  <2>4. CASE UNCHANGED cidvars \/ PeerLearnsCid \/ PeerIssues
    <3>1. ifc' = ifc
      BY <2>4 DEF cidvars, PeerLearnsCid, PeerIssues
    <3> QED BY <3>1
  <2> QED BY <2>1, <2>2, <2>3, <2>4 DEF CidsNext
<1>3. IssueInv(ifc) => IssueIsExact
  BY DEF IssueInv, IssueIsExact
<1> QED BY <1>1, <1>2, <1>3, PTL DEF CidsSpec
=============================================================================

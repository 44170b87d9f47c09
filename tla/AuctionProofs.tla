--------------------------- MODULE AuctionProofs ---------------------------
(***************************************************************************)
(* Proofs about AuctionBook, for every set of orders and every finite set  *)
(* of prices: the clearing price is the best there is, the sweep executes  *)
(* all of its volume in priority, and what it leaves over cannot trade.    *)
(***************************************************************************)
EXTENDS AuctionBook, FiniteLemmas, SequenceTheorems, TLAPS

LEMMA RankedSorts ==
    ASSUME NEW S, IsFiniteSet(S), NEW R, StrictOrder(S, R)
    PROVE  Sorted(S, R, Ranked(S, R))
BY RanksSort DEF Ranked, RankSequence

------------------------------------------------------------------------------
(* Auction books: their order of priority and their volumes.                 *)

Book(b) ==
    /\ IsFiniteSet(DOMAIN b)
    /\ \A o \in DOMAIN b : /\ b[o].side \in {"Bid", "Ask"} /\ b[o].price \in Nat \ {0}
                           /\ b[o].qty \in Nat \ {0} /\ b[o].seq \in Nat
    /\ \A o, p \in DOMAIN b : b[o].seq = b[p].seq => o = p

\* The orders of S are of one side.
OneSided(b, S) == \E s \in {"Bid", "Ask"} : \A o \in S : b[o].side = s

\* q holds the orders of S, best first.
Queued(b, S, q) ==
    /\ q \in Seq(S) /\ Len(q) \in Nat /\ DOMAIN q = 1..Len(q)
    /\ \A i, j \in 1..Len(q) : i < j => Ahead(b, q[i], q[j])
    /\ \A o \in S : \E i \in 1..Len(q) : q[i] = o
    /\ \A i \in 1..Len(q) : q[i] \in S

LEMMA InPrioritySorts ==
    ASSUME NEW b, Book(b), NEW S \in SUBSET DOMAIN b, OneSided(b, S)
    PROVE  Queued(b, S, InPriority(b, S))
<1> DEFINE R == {x \in S \X S : Ahead(b, x[1], x[2])}
           q == Ranked(S, R)
<1>1. \A x, y \in S : <<x, y>> \in R <=> Ahead(b, x, y)
  <2> SUFFICES ASSUME NEW x \in S, NEW y \in S PROVE <<x, y>> \in R <=> Ahead(b, x, y)
    OBVIOUS
  <2>1. <<x, y>> \in S \X S /\ <<x, y>>[1] = x /\ <<x, y>>[2] = y
    OBVIOUS
  <2> QED
    BY <2>1
<1>2. PICK s \in {"Bid", "Ask"} : \A o \in S : b[o].side = s
  BY DEF OneSided
<1>3. \A o \in S : b[o].price \in Int /\ b[o].seq \in Int
  BY DEF Book
<1>4. \A x \in S : ~Ahead(b, x, x)
  BY <1>3 DEF Ahead
<1>5. \A x, y, z \in S : Ahead(b, x, y) /\ Ahead(b, y, z) => Ahead(b, x, z)
  <2>1. CASE s = "Bid"
    BY <1>2, <1>3, <2>1 DEF Ahead
  <2>2. CASE s = "Ask"
    BY <1>2, <1>3, <2>2 DEF Ahead
  <2> QED
    BY <2>1, <2>2
<1>6. \A x, y \in S : x = y \/ Ahead(b, x, y) \/ Ahead(b, y, x)
  <2> SUFFICES ASSUME NEW x \in S, NEW y \in S, x # y
               PROVE  Ahead(b, x, y) \/ Ahead(b, y, x)
    OBVIOUS
  <2>1. b[x].seq # b[y].seq
    BY DEF Book
  <2>2. b[x].seq < b[y].seq \/ b[y].seq < b[x].seq
    BY <1>3, <2>1
  <2>3. b[x].price = b[y].price \/ b[x].price < b[y].price \/ b[x].price > b[y].price
    BY <1>3
  <2>4. b[x].price < b[y].price <=> b[y].price > b[x].price
    BY <1>3
  <2>5. b[x].price > b[y].price <=> b[y].price < b[x].price
    BY <1>3
  <2> QED
    BY <1>2, <2>2, <2>3, <2>4, <2>5 DEF Ahead
<1> HIDE DEF R
<1>7. StrictOrder(S, R)
  BY <1>1, <1>4, <1>5, <1>6 DEF StrictOrder
<1>8. IsFiniteSet(S)
  BY FS_Subset DEF Book
<1>9. Sorted(S, R, q)
  BY <1>7, <1>8, RankedSorts
<1>10. InPriority(b, S) = q
  BY DEF InPriority, R
<1> HIDE DEF q
<1>11. q \in Seq(S) /\ DOMAIN q = 1..Len(q) /\ Len(q) \in Nat /\ \A i \in 1..Len(q) : q[i] \in S
  <2>1. q \in Seq(S) /\ DOMAIN q = 1..Len(q)
    BY <1>9 DEF Sorted
  <2> QED
    BY <2>1, LenProperties, ElementOfSeq
<1>12. \A i, j \in 1..Len(q) : i < j => Ahead(b, q[i], q[j])
  BY <1>1, <1>9, <1>11 DEF Sorted
<1>13. Queued(b, S, q)
  BY <1>9, <1>11, <1>12 DEF Sorted, Queued
<1> QED
  BY <1>10, <1>13

\* Nobody is ahead of somebody who is ahead of him.
LEMMA AheadOnce ==
    ASSUME NEW b, Book(b), NEW x \in DOMAIN b, NEW y \in DOMAIN b, b[x].side = b[y].side,
           Ahead(b, x, y)
    PROVE  ~Ahead(b, y, x) /\ x # y
<1>1. b[x].price \in Int /\ b[y].price \in Int /\ b[x].seq \in Int /\ b[y].seq \in Int
  BY DEF Book
<1> QED
  BY <1>1 DEF Ahead

\* More orders have more volume.
LEMMA MoreVolume ==
    ASSUME NEW b, Book(b), NEW T \in SUBSET DOMAIN b, NEW S \in SUBSET T
    PROVE  /\ Volume(b, S) \in Nat /\ Volume(b, T) \in Nat
           /\ Volume(b, S) <= Volume(b, T)
           /\ \A x \in T \ S : Volume(b, S) < Volume(b, T)
<1> DEFINE g == [o \in DOMAIN b |-> b[o].qty]
<1>1. /\ IsFiniteSet(T) /\ IsFiniteSet(T \ S)
      /\ (\A x \in T : g[x] \in Nat) /\ (\A x \in T \ S : g[x] \in Nat)
      /\ \A x \in T : g[x] > 0
  BY FS_Subset DEF Book
<1>2. Volume(b, S) = Sum(g, S) /\ Volume(b, T) = Sum(g, T)
  BY SumUnfolded DEF Volume
<1> HIDE DEF g
<1>3. /\ Sum(g, S) \in Nat /\ Sum(g, T) \in Nat /\ Sum(g, T) - Sum(g, S) \in Nat
      /\ Sum(g, T) = Sum(g, S) + Sum(g, T \ S)
  BY <1>1, SumSubset
<1>4. ASSUME NEW x \in T \ S PROVE Sum(g, S) < Sum(g, T)
  <2>1. Sum(g, T \ S) >= g[x]
    BY <1>1, SumTerm
  <2>2. Sum(g, T \ S) \in Nat /\ g[x] \in Nat /\ g[x] > 0
    BY <1>1, SumNat
  <2> DEFINE u == Sum(g, T \ S)
  <2>3. u \in Nat /\ u > 0
    <3> HIDE DEF u
    <3> QED
      BY <2>1, <2>2 DEF u
  <2>4. Sum(g, T) = Sum(g, S) + u /\ Sum(g, S) \in Nat
    BY <1>3
  <2> HIDE DEF u
  <2> QED
    BY <2>3, <2>4
<1> QED
  BY <1>2, <1>3, <1>4

LEMMA VolumeOfNone == ASSUME NEW b PROVE Volume(b, {}) = 0
BY SumUnfolded, SumEmpty DEF Volume

------------------------------------------------------------------------------
(* The clearing price.                                                       *)

Quoted(b) == {b[o].price : o \in DOMAIN b}

LEMMA QuotedPrices ==
    ASSUME NEW b, Book(b)
    PROVE  Quoted(b) \subseteq Nat \ {0} /\ IsFiniteSet(Quoted(b))
<1>1. Quoted(b) \subseteq Nat \ {0}
  BY DEF Quoted, Book
<1> DEFINE f == [o \in DOMAIN b |-> b[o].price]
<1>2. f \in Surjection(DOMAIN b, Quoted(b))
  BY DEF Quoted, Surjection
<1>3. IsFiniteSet(Quoted(b))
  <2> HIDE DEF f
  <2> QED
    BY <1>2, FS_Surjection DEF Book
<1> QED
  BY <1>1, <1>3

\* What can be executed at a price, and how far it is from the reference.
LEMMA PriceFigures ==
    ASSUME NEW b, Book(b), NEW p \in Nat, NEW ref \in Nat
    PROVE  /\ CumBid(b, p) \in Nat /\ CumAsk(b, p) \in Nat
           /\ ExecQty(b, p) \in Nat /\ Imbalance(b, p) \in Nat /\ Distance(p, ref) \in Nat
           /\ ExecQty(b, p) <= CumBid(b, p) /\ ExecQty(b, p) <= CumAsk(b, p)
           /\ ExecQty(b, p) = CumBid(b, p) \/ ExecQty(b, p) = CumAsk(b, p)
<1>1. CumBid(b, p) \in Nat /\ CumAsk(b, p) \in Nat
  <2>1. /\ {o \in Bids(b) : b[o].price >= p} \in SUBSET DOMAIN b
        /\ {o \in Asks(b) : b[o].price <= p} \in SUBSET DOMAIN b
    BY DEF Bids, Asks
  <2> QED
    BY <2>1, MoreVolume DEF CumBid, CumAsk
<1> QED
  BY <1>1 DEF ExecQty, Imbalance, Distance, Lesser

\* Where best is kept, k is no better.
NoBetter(b, ref, k, best) ==
    \/ ExecQty(b, k) < ExecQty(b, best)
    \/ /\ ExecQty(b, k) = ExecQty(b, best)
       /\ Imbalance(b, best) < Imbalance(b, k)
    \/ /\ ExecQty(b, k) = ExecQty(b, best)
       /\ Imbalance(b, k) = Imbalance(b, best)
       /\ ref # 0 => Distance(best, ref) <= Distance(k, ref)

\* best is the best of the quoted prices up to p.
BestUpTo(b, ref, p, best) ==
    /\ best = 0 => \A k \in Quoted(b) : k <= p => ExecQty(b, k) = 0
    /\ best # 0 => /\ best \in Quoted(b) /\ ExecQty(b, best) > 0
                   /\ \A k \in Quoted(b) : k <= p => NoBetter(b, ref, k, best)

NextBest(b, ref, best, p) ==
    IF p \in Quoted(b) /\ Improves(b, ref, best, p) THEN p ELSE best

LEMMA NoBetterIsTransitive ==
    ASSUME NEW b, Book(b), NEW ref \in Nat, NEW x \in Nat, NEW y \in Nat, NEW z \in Nat,
           NoBetter(b, ref, x, y), NoBetter(b, ref, y, z)
    PROVE  NoBetter(b, ref, x, z)
<1>1. /\ ExecQty(b, x) \in Nat /\ Imbalance(b, x) \in Nat /\ Distance(x, ref) \in Nat
      /\ ExecQty(b, y) \in Nat /\ Imbalance(b, y) \in Nat /\ Distance(y, ref) \in Nat
      /\ ExecQty(b, z) \in Nat /\ Imbalance(b, z) \in Nat /\ Distance(z, ref) \in Nat
  BY PriceFigures
<1> QED
  BY <1>1 DEF NoBetter

LEMMA NextBestIsBest ==
    ASSUME NEW b, Book(b), NEW ref \in Nat, NEW p \in Nat \ {0}, NEW best,
           BestUpTo(b, ref, p - 1, best)
    PROVE  BestUpTo(b, ref, p, NextBest(b, ref, best, p))
<1>1. \A k \in Quoted(b) : k \in Nat /\ k # 0 /\ (k <= p => k <= p - 1 \/ k = p)
  BY QuotedPrices
<1>2. \A k \in Quoted(b) : /\ ExecQty(b, k) \in Nat /\ Imbalance(b, k) \in Nat
                           /\ Distance(k, ref) \in Nat
  BY <1>1, PriceFigures
<1>3. CASE p \in Quoted(b) /\ Improves(b, ref, best, p)
  <2>1. NextBest(b, ref, best, p) = p
    BY <1>3 DEF NextBest
  <2>2. ExecQty(b, p) > 0
    BY <1>3 DEF Improves
  <2>3. NoBetter(b, ref, p, p)
    BY <1>2, <1>3 DEF NoBetter
  <2>4. ASSUME best = 0, NEW k \in Quoted(b), k <= p - 1 PROVE NoBetter(b, ref, k, p)
    BY <2>2, <2>4, <1>2 DEF BestUpTo, NoBetter
  <2>5. ASSUME best # 0, NEW k \in Quoted(b), k <= p - 1 PROVE NoBetter(b, ref, k, p)
    <3>1. best \in Quoted(b) /\ NoBetter(b, ref, k, best)
      BY <2>5 DEF BestUpTo
    <3>2. NoBetter(b, ref, best, p)
      BY <1>2, <1>3, <2>5, <3>1 DEF Improves, NoBetter
    <3> QED
      BY <1>1, <1>3, <3>1, <3>2, NoBetterIsTransitive
  <2> QED
    BY <1>1, <1>3, <2>1, <2>2, <2>3, <2>4, <2>5 DEF BestUpTo
<1>4. CASE p \in Quoted(b) /\ ~Improves(b, ref, best, p)
  <2>1. NextBest(b, ref, best, p) = best
    BY <1>4 DEF NextBest
  <2>2. best = 0 => ExecQty(b, p) = 0
    BY <1>2, <1>4 DEF Improves
  <2>3. ASSUME best # 0 PROVE NoBetter(b, ref, p, best)
    <3>1. best \in Quoted(b) /\ ExecQty(b, best) > 0
      BY <2>3 DEF BestUpTo
    <3> QED
      BY <1>2, <1>4, <2>3, <3>1 DEF Improves, NoBetter
  <2> QED
    BY <1>1, <2>1, <2>2, <2>3 DEF BestUpTo
<1>5. CASE p \notin Quoted(b)
  <2>1. NextBest(b, ref, best, p) = best
    BY <1>5 DEF NextBest
  <2>2. \A k \in Quoted(b) : k <= p => k <= p - 1
    BY <1>1, <1>5
  <2> QED
    BY <2>1, <2>2 DEF BestUpTo
<1> QED
  BY <1>3, <1>4, <1>5

\* The recursion of ComputeClearingPrice over the prices up to n.
Bests(f, n, b, ref) ==
    f = [p \in 0..n |-> IF p = 0 THEN 0 ELSE NextBest(b, ref, f[p - 1], p)]

LEMMA BestsExist ==
    ASSUME NEW n \in Nat, NEW b, NEW ref
    PROVE  \E f : Bests(f, n, b, ref)
<1> DEFINE T == {i \in Nat : ~\E f : Bests(f, i, b, ref)}
<1> SUFFICES ASSUME T # {} PROVE FALSE
  OBVIOUS
<1>1. PICK x \in T : \A y \in T : x <= y
  <2>1. T \subseteq Nat
    OBVIOUS
  <2> HIDE DEF T
  <2> QED
    BY <2>1, Least
<1>2. x \in Nat /\ ~\E f : Bests(f, x, b, ref)
  OBVIOUS
<1>3. CASE x = 0
  <2> DEFINE f == [i \in 0..0 |-> 0]
  <2>1. f = [p \in 0..0 |-> IF p = 0 THEN 0 ELSE NextBest(b, ref, f[p - 1], p)]
    OBVIOUS
  <2> QED
    BY <2>1, <1>2, <1>3 DEF Bests
<1>4. CASE x # 0
  <2>1. x - 1 \in Nat /\ x - 1 \notin T
    BY <1>1, <1>2, <1>4
  <2>2. PICK g : Bests(g, x - 1, b, ref)
    BY <2>1
  <2>3. \A i \in 0..(x - 1) : g[i] = IF i = 0 THEN 0 ELSE NextBest(b, ref, g[i - 1], i)
    BY <2>2 DEF Bests
  <2> HIDE DEF T
  <2> DEFINE f == [i \in 0..x |-> IF i = x THEN NextBest(b, ref, g[x - 1], x) ELSE g[i]]
             u == [i \in 0..x |-> IF i = 0 THEN 0 ELSE NextBest(b, ref, f[i - 1], i)]
  <2>4. \A i \in 0..(x - 1) : f[i] = g[i]
    BY <1>2
  <2>5. ASSUME NEW i \in 0..x
        PROVE  f[i] = IF i = 0 THEN 0 ELSE NextBest(b, ref, f[i - 1], i)
    <3>1. CASE i = x
      <4>1. x - 1 \in 0..(x - 1) /\ f[x] = NextBest(b, ref, g[x - 1], x)
        BY <1>2, <1>4
      <4> HIDE DEF f
      <4> QED
        BY <4>1, <3>1, <2>4, <1>4
    <3>2. CASE i # x
      <4>1. i \in 0..(x - 1) /\ (i # 0 => i - 1 \in 0..(x - 1))
        BY <3>2, <1>2
      <4> HIDE DEF f
      <4> QED
        BY <4>1, <2>3, <2>4
    <3> QED
      BY <3>1, <3>2
  <2>6. f = u
    <3>1. DOMAIN f = 0..x /\ f = [i \in 0..x |-> f[i]]
      OBVIOUS
    <3> HIDE DEF f
    <3> QED
      BY <3>1, <2>5
  <2>7. Bests(f, x, b, ref)
    BY <2>6 DEF Bests
  <2> QED
    BY <2>7, <1>2
<1> QED
  BY <1>3, <1>4

\* The clearing price is the best of the quoted ones, 0 when nothing trades at any.
LEMMA ClearingPriceIsBest ==
    ASSUME NEW b, Book(b), NEW ref \in Nat, DOMAIN b # {}
    PROVE  BestUpTo(b, ref, Max(Quoted(b)), ComputeClearingPrice(b, ref))
<1> DEFINE n == Max(Quoted(b))
           c == ComputeClearingPrice(b, ref)
<1>1. n \in Nat /\ \A k \in Quoted(b) : k <= n /\ k \in Nat
  <2>1. Quoted(b) # {}
    BY DEF Quoted
  <2>2. IsFiniteSet(Quoted(b)) /\ Quoted(b) \subseteq Nat
    BY QuotedPrices
  <2>3. Max(Quoted(b)) \in Quoted(b) /\ \A y \in Quoted(b) : y <= Max(Quoted(b))
    BY <2>1, <2>2, Greatest
  <2> QED
    BY <2>2, <2>3
<1>2. CASE Bids(b) = {} \/ Asks(b) = {}
  <2>1. c = 0
    BY <1>2 DEF ComputeClearingPrice
  <2>2. ASSUME NEW k \in Quoted(b) PROVE ExecQty(b, k) = 0
    <3>1. CumBid(b, k) = 0 \/ CumAsk(b, k) = 0
      <4>1. CASE Bids(b) = {}
        <5>1. {o \in Bids(b) : b[o].price >= k} = {}
          BY <4>1
        <5> QED
          BY <5>1, VolumeOfNone DEF CumBid
      <4>2. CASE Asks(b) = {}
        <5>1. {o \in Asks(b) : b[o].price <= k} = {}
          BY <4>2
        <5> QED
          BY <5>1, VolumeOfNone DEF CumAsk
      <4> QED
        BY <1>2, <4>1, <4>2
    <3>2. k \in Nat
      BY <1>1
    <3>3. /\ ExecQty(b, k) \in Nat
          /\ ExecQty(b, k) <= CumBid(b, k) /\ ExecQty(b, k) <= CumAsk(b, k)
      BY <3>2, PriceFigures
    <3> QED
      BY <3>1, <3>3
  <2> QED
    BY <2>1, <2>2 DEF BestUpTo
<1>3. CASE ~(Bids(b) = {} \/ Asks(b) = {})
  <2> DEFINE F == CHOOSE f : Bests(f, n, b, ref)
  <2>1. Bests(F, n, b, ref)
    <3>1. \E f : Bests(f, n, b, ref)
      <4> HIDE DEF n
      <4> QED
        BY <1>1, BestsExist
    <3> QED
      BY <3>1
  <2>2. c = F[n]
    BY <1>3 DEF ComputeClearingPrice, Bests, NextBest, Quoted
  <2> HIDE DEF F, c, n
  <2>3. F[0] = 0 /\ \A p \in 1..n : F[p] = NextBest(b, ref, F[p - 1], p)
    <3>1. \A p \in 0..n : F[p] = IF p = 0 THEN 0 ELSE NextBest(b, ref, F[p - 1], p)
      BY <2>1 DEF Bests
    <3>2. 0 \in 0..n /\ \A p \in 1..n : p \in 0..n /\ p # 0
      BY <1>1
    <3> QED
      BY <3>1, <3>2
  <2> DEFINE T == {p \in Nat : p <= n /\ ~BestUpTo(b, ref, p, F[p])}
  <2>4. T = {}
    <3> SUFFICES ASSUME T # {} PROVE FALSE
      OBVIOUS
    <3>1. PICK x \in T : \A y \in T : x <= y
      <4>1. T \subseteq Nat
        OBVIOUS
      <4> HIDE DEF T
      <4> QED
        BY <4>1, Least
    <3>2. x \in Nat /\ x <= n /\ ~BestUpTo(b, ref, x, F[x])
      OBVIOUS
    <3>3. x # 0
      <4>1. \A k \in Quoted(b) : ~(k <= 0)
        BY QuotedPrices
      <4>2. BestUpTo(b, ref, 0, 0)
        BY <4>1 DEF BestUpTo
      <4> QED
        BY <3>2, <4>2, <2>3
    <3>4. x - 1 \in Nat /\ x - 1 <= n /\ x - 1 \notin T /\ x \in 1..n
      BY <1>1, <3>1, <3>2, <3>3
    <3>5. BestUpTo(b, ref, x - 1, F[x - 1])
      BY <3>4
    <3> HIDE DEF T
    <3> QED
      BY <2>3, <3>2, <3>3, <3>4, <3>5, NextBestIsBest
  <2>5. BestUpTo(b, ref, n, F[n])
    <3>1. n \notin T
      BY <2>4
    <3> QED
      BY <3>1, <1>1
  <2> QED
    BY <2>2, <2>5 DEF c, n
<1> QED
  BY <1>2, <1>3

\* No other price executes more than the best of the quoted ones.
LEMMA QuotedIsEnough ==
    ASSUME NEW b, Book(b), NEW q \in Nat \ {0}
    PROVE  ExecQty(b, q) = 0 \/ \E k \in Quoted(b) : ExecQty(b, q) <= ExecQty(b, k)
<1> DEFINE T == {k \in Quoted(b) : \E o \in Bids(b) : b[o].price = k /\ k >= q}
<1>0. \A k \in Quoted(b) : k \in Nat
  BY QuotedPrices
<1>1. CASE T = {}
  <2>1. \A o \in Bids(b) : b[o].price \in Quoted(b)
    BY DEF Bids, Quoted
  <2>2. {o \in Bids(b) : b[o].price >= q} = {}
    BY <1>1, <2>1
  <2>3. CumBid(b, q) = 0
    BY <2>2, VolumeOfNone DEF CumBid
  <2>4. ExecQty(b, q) \in Nat /\ ExecQty(b, q) <= CumBid(b, q)
    BY PriceFigures
  <2> QED
    BY <2>3, <2>4
<1>2. CASE T # {}
  <2>1. PICK k \in T : \A y \in T : k <= y
    <3>1. T \subseteq Nat
      BY <1>0
    <3> HIDE DEF T
    <3> QED
      BY <1>2, <3>1, Least
  <2>2. k \in Quoted(b) /\ k \in Nat /\ k >= q
    BY <1>0
  <2>3. \A o \in Bids(b) : b[o].price \in Nat
    BY DEF Bids, Book
  <2>4. ASSUME NEW o \in Bids(b) PROVE b[o].price >= q <=> b[o].price >= k
    <3>1. b[o].price >= q => b[o].price \in T
      BY DEF Bids, Quoted
    <3>2. b[o].price >= q => k <= b[o].price
      BY <2>1, <3>1
    <3>3. b[o].price \in Nat
      BY <2>3
    <3> HIDE DEF T
    <3> QED
      BY <2>2, <3>2, <3>3
  <2>5. CumBid(b, k) = CumBid(b, q)
    <3>1. {o \in Bids(b) : b[o].price >= q} = {o \in Bids(b) : b[o].price >= k}
      BY <2>4
    <3> QED
      BY <3>1 DEF CumBid
  <2>6. CumAsk(b, q) <= CumAsk(b, k)
    <3> DEFINE X == {o \in Asks(b) : b[o].price <= q}
               Y == {o \in Asks(b) : b[o].price <= k}
    <3>1. \A o \in Asks(b) : b[o].price \in Nat
      BY DEF Asks, Book
    <3>2. X \subseteq Y
      BY <2>2, <3>1
    <3>3. Y \subseteq DOMAIN b
      BY DEF Asks
    <3>4. CumAsk(b, q) = Volume(b, X) /\ CumAsk(b, k) = Volume(b, Y)
      BY DEF CumAsk
    <3> HIDE DEF X, Y
    <3> QED
      BY <3>2, <3>3, <3>4, MoreVolume
  <2>7. /\ CumBid(b, q) \in Nat /\ CumAsk(b, q) \in Nat
        /\ CumBid(b, k) \in Nat /\ CumAsk(b, k) \in Nat
    BY <2>2, PriceFigures
  <2>8. ExecQty(b, q) <= ExecQty(b, k)
    BY <2>5, <2>6, <2>7 DEF ExecQty, Lesser
  <2> QED
    BY <2>2, <2>8
<1> QED
  BY <1>1, <1>2

------------------------------------------------------------------------------
(* The book that AddOrder fills.                                             *)

Filled ==
    /\ ab \in Seq(AuctionOrder)
    /\ Len(ab) <= MaxOrders
    /\ \A i \in 1..Len(ab) : ab[i].seq = i

LEMMA InitFilled == Init => Filled
<1> SUFFICES ASSUME Init PROVE Filled
  OBVIOUS
<1>1. ab = <<>> /\ Len(ab) = 0
  BY DEF Init
<1>2. MaxOrders \in Nat
  BY AuctionAssumption
<1> QED
  BY <1>1, <1>2 DEF Filled

LEMMA StepFilled == Filled /\ [Next]_ab => Filled'
<1> SUFFICES ASSUME Filled, [Next]_ab PROVE Filled'
  OBVIOUS
<1>1. CASE UNCHANGED ab
  BY <1>1 DEF Filled
<1>2. CASE Next
  <2>1. PICK order \in AuctionOrder : AddOrder(order)
    BY <1>2 DEF Next
  <2>2. ab \in Seq(AuctionOrder) /\ Len(ab) \in Nat /\ DOMAIN ab = 1..Len(ab)
    BY LenProperties DEF Filled
  <2>3. Cardinality(DOMAIN ab) = Len(ab)
    <3>1. Cardinality(1..Len(ab)) = IF 1 > Len(ab) THEN 0 ELSE Len(ab) - 1 + 1
      BY <2>2, FS_Interval
    <3> QED
      BY <2>2, <3>1
  <2>4. ab' = Append(ab, order) /\ order.seq = Len(ab) + 1 /\ Len(ab) < MaxOrders
    BY <2>1, <2>3 DEF AddOrder
  <2>5. /\ ab' \in Seq(AuctionOrder) /\ Len(ab') = Len(ab) + 1
        /\ \A i \in 1..Len(ab) : ab'[i] = ab[i]
        /\ ab'[Len(ab) + 1] = order
    <3> DEFINE t == Append(ab, order)
    <3>1. /\ t \in Seq(AuctionOrder) /\ Len(t) = Len(ab) + 1
          /\ \A i \in 1..Len(ab) : t[i] = ab[i]
          /\ t[Len(ab) + 1] = order
      BY <2>2, AppendProperties
    <3>2. ab' = t
      BY <2>4
    <3> HIDE DEF t
    <3> QED
      BY <3>1, <3>2
  <2>6. Len(ab') <= MaxOrders
    <3> DEFINE n == Len(ab)
    <3>1. MaxOrders \in Nat /\ n \in Nat /\ n < MaxOrders
      BY <2>2, <2>4, AuctionAssumption
    <3>2. Len(ab') = n + 1
      BY <2>5
    <3> HIDE DEF n
    <3> QED
      BY <3>1, <3>2
  <2>7. ASSUME NEW i \in 1..Len(ab') PROVE ab'[i].seq = i
    <3>1. i \in 1..Len(ab) \/ i = Len(ab) + 1
      BY <2>2, <2>5
    <3> QED
      BY <3>1, <2>4, <2>5 DEF Filled
  <2> QED
    BY <2>5, <2>6, <2>7 DEF Filled
<1> QED
  BY <1>1, <1>2

LEMMA FilledIsBook ==
    ASSUME Filled
    PROVE  /\ Book(ab) /\ ReferencePrice \in Nat
           /\ \A o \in DOMAIN ab : ab[o].price \in Prices
<1>1. ab \in Seq(AuctionOrder) /\ Len(ab) \in Nat /\ DOMAIN ab = 1..Len(ab)
  BY LenProperties DEF Filled
<1>2. IsFiniteSet(DOMAIN ab)
  BY <1>1, FS_Interval
<1>3. \A o \in DOMAIN ab : ab[o] \in AuctionOrder /\ ab[o].seq = o /\ o \in Nat
  BY <1>1, ElementOfSeq DEF Filled
<1>4. ASSUME NEW o \in DOMAIN ab
      PROVE  /\ ab[o].side \in {"Bid", "Ask"} /\ ab[o].price \in Nat \ {0}
             /\ ab[o].qty \in Nat \ {0} /\ ab[o].seq \in Nat /\ ab[o].price \in Prices
  BY <1>3, AuctionAssumption DEF AuctionOrder
<1>5. \A o, p \in DOMAIN ab : ab[o].seq = ab[p].seq => o = p
  BY <1>3
<1> QED
  BY <1>2, <1>4, <1>5, AuctionAssumption DEF Book

\* The clearing price maximises the executable volume, leaves the smallest imbalance among
\* the quoted prices of that volume and is then nearest to the reference price
\* (ComputeClearingPrice), for every sequence of orders.
LEMMA BookIsCleared ==
    ASSUME Filled
    PROVE  ClearingIsBest
<1> DEFINE p == ClearingPrice
           quoted == {ab[o].price : o \in DOMAIN ab}
           tied == {q \in quoted : ExecQty(ab, q) = ExecQty(ab, p)}
           even == {q \in tied : Imbalance(ab, q) = Imbalance(ab, p)}
<1>1. Book(ab) /\ ReferencePrice \in Nat
  BY FilledIsBook
<1>2. quoted = Quoted(ab) /\ quoted \subseteq Nat \ {0} /\ IsFiniteSet(quoted)
  BY <1>1, QuotedPrices DEF Quoted
<1>3. p = ComputeClearingPrice(ab, ReferencePrice)
  BY DEF ClearingPrice
<1>4. CASE DOMAIN ab = {}
  <2>1. p = 0
    BY <1>3, <1>4 DEF ComputeClearingPrice, Bids
  <2>2. quoted = {}
    BY <1>4
  <2> QED
    BY <2>1, <2>2 DEF ClearingIsBest
<1>5. CASE DOMAIN ab # {}
  <2>1. quoted # {}
    BY <1>5
  <2>2. BestUpTo(ab, ReferencePrice, Max(quoted), p)
    BY <1>1, <1>2, <1>3, <1>5, ClearingPriceIsBest
  <2>3. \A k \in quoted : k <= Max(quoted)
    <3> HIDE DEF quoted
    <3> QED
      BY <1>2, <2>1, Greatest
  <2>4. p = 0 => \A q \in quoted : ExecQty(ab, q) = 0
    BY <1>2, <2>2, <2>3 DEF BestUpTo
  <2>5. ASSUME p # 0
        PROVE  /\ \A q \in 1..Max(Prices) : ExecQty(ab, q) <= ExecQty(ab, p)
               /\ \A q \in tied : Imbalance(ab, p) <= Imbalance(ab, q)
               /\ ReferencePrice # 0 =>
                    \A q \in even : Distance(p, ReferencePrice) <= Distance(q, ReferencePrice)
    <3>1. /\ p \in quoted /\ ExecQty(ab, p) > 0
          /\ \A q \in quoted : NoBetter(ab, ReferencePrice, q, p)
      BY <1>2, <2>2, <2>3, <2>5 DEF BestUpTo
    <3> HIDE DEF p, quoted
    <3>2. \A q \in quoted : /\ ExecQty(ab, q) \in Nat /\ Imbalance(ab, q) \in Nat
                            /\ Distance(q, ReferencePrice) \in Nat
      BY <1>1, <1>2, PriceFigures
    <3>3. \A q \in quoted : ExecQty(ab, q) <= ExecQty(ab, p)
      BY <3>1, <3>2 DEF NoBetter
    <3>4. ASSUME NEW q \in 1..Max(Prices) PROVE ExecQty(ab, q) <= ExecQty(ab, p)
      <4>1. q \in Nat \ {0}
        <5>1. Max(Prices) \in Nat
          <6>1. Prices # {}
            BY <3>1, FilledIsBook DEF quoted
          <6>2. IsFiniteSet(Prices) /\ Prices \subseteq Nat
            BY AuctionAssumption
          <6> QED
            BY <6>1, <6>2, Greatest
        <5> QED
          BY <5>1
      <4>2. ExecQty(ab, q) = 0 \/ \E k \in quoted : ExecQty(ab, q) <= ExecQty(ab, k)
        BY <1>1, <1>2, <4>1, QuotedIsEnough
      <4>3. ExecQty(ab, q) \in Nat
        BY <1>1, <4>1, PriceFigures
      <4>4. CASE ExecQty(ab, q) = 0
        BY <3>1, <3>2, <4>4
      <4>5. CASE \E k \in quoted : ExecQty(ab, q) <= ExecQty(ab, k)
        <5>1. PICK k \in quoted : ExecQty(ab, q) <= ExecQty(ab, k)
          BY <4>5
        <5>2. ExecQty(ab, k) <= ExecQty(ab, p) /\ ExecQty(ab, k) \in Nat /\ ExecQty(ab, p) \in Nat
          BY <3>1, <3>2, <3>3, <5>1
        <5> QED
          BY <4>3, <5>1, <5>2
      <4> QED
        BY <4>2, <4>4, <4>5
    <3>5. ASSUME NEW q \in quoted, ExecQty(ab, q) = ExecQty(ab, p)
          PROVE  Imbalance(ab, p) <= Imbalance(ab, q)
      BY <3>1, <3>2, <3>5 DEF NoBetter
    <3>6. ASSUME ReferencePrice # 0, NEW q \in quoted, ExecQty(ab, q) = ExecQty(ab, p),
                 Imbalance(ab, q) = Imbalance(ab, p)
          PROVE  Distance(p, ReferencePrice) <= Distance(q, ReferencePrice)
      BY <3>1, <3>2, <3>6 DEF NoBetter
    <3> QED
      BY <3>4, <3>5, <3>6
  <2> QED
    BY <2>4, <2>5 DEF ClearingIsBest
<1> QED
  BY <1>4, <1>5

------------------------------------------------------------------------------
(* The sweep: the loop's invariant.                                          *)

BidsOf(b, p) == {o \in Bids(b) : b[o].price >= p}
AsksOf(b, p) == {o \in Asks(b) : b[o].price <= p}

FillOf(b, p) == [maker : AsksOf(b, p), taker : BidsOf(b, p), price : {p}, qty : Nat \ {0}]

QtyOf(fs) == Sum([i \in DOMAIN fs |-> fs[i].qty], DOMAIN fs)
Executed(w) == QtyOf(w.fills)

\* The queue is used up before the cursor and untouched after it.
Walked(b, left, q, i) ==
    \A k \in 1..Len(q) : /\ k < i => left[q[k]] = 0
                         /\ k > i => left[q[k]] = b[q[k]].qty

SweepTypes(b, p, bids, asks, w) ==
    /\ w.left \in [DOMAIN b -> Nat] /\ \A o \in DOMAIN b : w.left[o] <= b[o].qty
    /\ w.bi \in Nat /\ w.bi >= 1 /\ w.bi <= Len(bids) + 1
    /\ w.ai \in Nat /\ w.ai >= 1 /\ w.ai <= Len(asks) + 1
    /\ w.fills \in Seq(FillOf(b, p))
    /\ DOMAIN w = {"left", "bi", "ai", "fills"}

\* What was executed is what each side has lost.
Balanced(b, p, w) ==
    /\ Executed(w) + Sum(w.left, BidsOf(b, p)) = Volume(b, BidsOf(b, p))
    /\ Executed(w) + Sum(w.left, AsksOf(b, p)) = Volume(b, AsksOf(b, p))

SweepInv(b, p, bids, asks, w) ==
    /\ SweepTypes(b, p, bids, asks, w)
    /\ Walked(b, w.left, bids, w.bi) /\ Walked(b, w.left, asks, w.ai)
    /\ \A o \in DOMAIN b \ (BidsOf(b, p) \cup AsksOf(b, p)) : w.left[o] = b[o].qty
    /\ Balanced(b, p, w)

\* How many iterations are left at most: two for every order the cursor has not passed, one
\* when it has nothing left.
Used(w, q, i) == IF i <= Len(q) /\ w.left[q[i]] = 0 THEN 1 ELSE 0
StepsFor(w, q, i) == 2 * (Len(q) + 1 - i) - Used(w, q, i)
StepsLeft(w, bids, asks) == StepsFor(w, bids, w.bi) + StepsFor(w, asks, w.ai)

Queues(b, p, bids, asks) ==
    /\ Queued(b, BidsOf(b, p), bids) /\ Queued(b, AsksOf(b, p), asks)
    /\ bids = EligibleBids(b, p) /\ asks = EligibleAsks(b, p)

LEMMA QueuesOfBook ==
    ASSUME NEW b, Book(b), NEW p
    PROVE  /\ Queues(b, p, EligibleBids(b, p), EligibleAsks(b, p))
           /\ BidsOf(b, p) \subseteq DOMAIN b /\ AsksOf(b, p) \subseteq DOMAIN b
           /\ IsFiniteSet(BidsOf(b, p)) /\ IsFiniteSet(AsksOf(b, p))
           /\ BidsOf(b, p) \cap AsksOf(b, p) = {}
<1>1. BidsOf(b, p) \in SUBSET DOMAIN b /\ AsksOf(b, p) \in SUBSET DOMAIN b
  BY DEF BidsOf, AsksOf, Bids, Asks
<1>2. OneSided(b, BidsOf(b, p)) /\ OneSided(b, AsksOf(b, p))
  BY DEF BidsOf, AsksOf, Bids, Asks, OneSided
<1>3. /\ Queued(b, BidsOf(b, p), InPriority(b, BidsOf(b, p)))
      /\ Queued(b, AsksOf(b, p), InPriority(b, AsksOf(b, p)))
  BY <1>1, <1>2, InPrioritySorts
<1>4. Queues(b, p, EligibleBids(b, p), EligibleAsks(b, p))
  BY <1>3 DEF Queues, EligibleBids, EligibleAsks, BidsOf, AsksOf
<1>5. BidsOf(b, p) \cap AsksOf(b, p) = {}
  BY DEF BidsOf, AsksOf, Bids, Asks
<1> QED
  BY <1>1, <1>4, <1>5, FS_Subset DEF Book

\* Nobody stands in a queue twice.
LEMMA QueuedOnce ==
    ASSUME NEW b, Book(b), NEW S \in SUBSET DOMAIN b, OneSided(b, S), NEW q, Queued(b, S, q),
           NEW i \in 1..Len(q), NEW j \in 1..Len(q), i # j
    PROVE  q[i] # q[j]
<1>1. PICK s : \A o \in S : b[o].side = s
  BY DEF OneSided
<1>2. q[i] \in S /\ q[j] \in S /\ b[q[i]].side = b[q[j]].side /\ i \in Nat /\ j \in Nat
  BY <1>1 DEF Queued
<1>3. CASE i < j
  <2>1. Ahead(b, q[i], q[j])
    BY <1>3 DEF Queued
  <2> QED
    BY <1>2, <2>1, AheadOnce
<1>4. CASE j < i
  <2>1. Ahead(b, q[j], q[i])
    BY <1>4 DEF Queued
  <2> QED
    BY <1>2, <2>1, AheadOnce
<1> QED
  BY <1>2, <1>3, <1>4

\* One more fill executes its quantity more.
LEMMA ExecutedMore ==
    ASSUME NEW F, NEW fs \in Seq(F), \A x \in F : x.qty \in Nat \ {0}, NEW f \in F
    PROVE  QtyOf(fs) \in Nat /\ QtyOf(Append(fs, f)) = QtyOf(fs) + f.qty
<1> DEFINE n == Len(fs)
           t == Append(fs, f)
           g == [i \in DOMAIN fs |-> fs[i].qty]
           h == [i \in DOMAIN t |-> t[i].qty]
<1>1. n \in Nat /\ DOMAIN fs = 1..n /\ \A i \in 1..n : fs[i] \in F
  BY LenProperties, ElementOfSeq
<1>2. /\ t \in Seq(F) /\ Len(t) = n + 1 /\ DOMAIN t = 1..(n + 1) /\ t[n + 1] = f
      /\ \A i \in 1..n : t[i] = fs[i]
  <2>1. t \in Seq(F) /\ Len(t) = n + 1 /\ t[n + 1] = f /\ \A i \in 1..n : t[i] = fs[i]
    BY AppendProperties
  <2> HIDE DEF t
  <2> QED
    BY <2>1, LenProperties
<1> HIDE DEF t, n
<1>3. /\ \A i \in 1..n : g[i] = fs[i].qty /\ g[i] \in Nat
      /\ \A i \in 1..(n + 1) : h[i] = t[i].qty
  BY <1>1, <1>2
<1> HIDE DEF g, h
<1>4. \A i \in 1..n : i \in 1..(n + 1) /\ i # n + 1
  BY <1>1
<1>5. n + 1 \in 1..(n + 1) /\ 1..n = 1..(n + 1) \ {n + 1} /\ IsFiniteSet(1..(n + 1)) /\ IsFiniteSet(1..n)
  <2>1. n + 1 \in 1..(n + 1)
    BY <1>1
  <2>2. 1..n = 1..(n + 1) \ {n + 1}
    BY <1>1
  <2>3. 1 \in Int /\ n \in Int /\ n + 1 \in Int
    BY <1>1
  <2>4. IsFiniteSet(1..(n + 1)) /\ IsFiniteSet(1..n)
    BY <2>3, FS_Interval
  <2> QED
    BY <2>1, <2>2, <2>4
<1>6. \A i \in 1..(n + 1) : h[i] \in Int
  <2> SUFFICES ASSUME NEW i \in 1..(n + 1) PROVE h[i] \in Int
    OBVIOUS
  <2>1. i \in 1..n \/ i = n + 1
    BY <1>1
  <2> QED
    BY <2>1, <1>2, <1>3
<1>7. Sum(h, 1..(n + 1)) = h[n + 1] + Sum(h, 1..n)
  <2> DEFINE U == 1..(n + 1)
             V == 1..n
  <2>1. IsFiniteSet(U) /\ (\A i \in U : h[i] \in Int) /\ n + 1 \in U /\ V = U \ {n + 1}
    BY <1>5, <1>6
  <2> HIDE DEF U, V
  <2>2. Sum(h, U) = h[n + 1] + Sum(h, U \ {n + 1})
    BY <2>1, SumRemove
  <2>3. Sum(h, U) = h[n + 1] + Sum(h, V)
    BY <2>1, <2>2
  <2> QED
    BY <2>3 DEF U, V
<1>8. Sum(h, 1..n) = Sum(g, 1..n) /\ Sum(g, 1..n) \in Nat
  <2> DEFINE V == 1..n
  <2>1. IsFiniteSet(V) /\ (\A i \in V : h[i] = g[i]) /\ (\A i \in V : g[i] \in Nat)
    BY <1>2, <1>3, <1>4, <1>5
  <2> HIDE DEF V
  <2>2. Sum(h, V) = Sum(g, V) /\ Sum(g, V) \in Nat
    BY <2>1, SumSame, SumNat
  <2> QED
    BY <2>2 DEF V
<1>9. h[n + 1] = f.qty /\ f.qty \in Nat
  BY <1>2, <1>3, <1>5
<1>10. Sum(h, DOMAIN t) = Sum(g, DOMAIN fs) + f.qty /\ Sum(g, DOMAIN fs) \in Nat
  <2>1. DOMAIN t = 1..(n + 1) /\ DOMAIN fs = 1..n
    BY <1>1, <1>2
  <2>2. Sum(h, 1..(n + 1)) = Sum(g, 1..n) + f.qty /\ Sum(g, 1..n) \in Nat
    BY <1>7, <1>8, <1>9
  <2> QED
    BY <2>1, <2>2
<1> QED
  BY <1>10 DEF QtyOf, g, h, t

\* The sweep begins with everything left.
LEMMA SweepStarts ==
    ASSUME NEW b, Book(b), NEW p, NEW bids, NEW asks, Queues(b, p, bids, asks)
    PROVE  /\ SweepInv(b, p, bids, asks, SweepStart(b))
           /\ StepsLeft(SweepStart(b), bids, asks) \in Int
           /\ StepsLeft(SweepStart(b), bids, asks) <= 2 * (Len(bids) + Len(asks))
<1> DEFINE w == SweepStart(b)
           B == BidsOf(b, p)
           A == AsksOf(b, p)
           g == [o \in DOMAIN b |-> b[o].qty]
<1>1. /\ w.left = g /\ w.bi = 1 /\ w.ai = 1 /\ w.fills = <<>>
      /\ DOMAIN w = {"left", "bi", "ai", "fills"}
  BY DEF SweepStart
<1>2. /\ B \subseteq DOMAIN b /\ A \subseteq DOMAIN b
      /\ Len(bids) \in Nat /\ Len(asks) \in Nat
      /\ (\A i \in 1..Len(bids) : bids[i] \in B) /\ (\A i \in 1..Len(asks) : asks[i] \in A)
  BY QueuesOfBook DEF Queues, Queued
<1>3. /\ g \in [DOMAIN b -> Nat] /\ \A o \in DOMAIN b : g[o] = b[o].qty /\ b[o].qty \in Nat
      /\ \A o \in DOMAIN b : g[o] <= b[o].qty
  BY DEF Book
<1>4. <<>> \in Seq(FillOf(b, p))
  OBVIOUS
<1>5. Executed(w) = 0
  <2> DEFINE h == [i \in DOMAIN w.fills |-> w.fills[i].qty]
  <2>1. DOMAIN w.fills = {}
    BY <1>1
  <2>2. Sum(h, {}) = 0
    BY SumEmpty
  <2> QED
    BY <2>1, <2>2 DEF Executed, QtyOf
<1>6. Volume(b, B) = Sum(g, B) /\ Volume(b, A) = Sum(g, A) /\ Sum(g, A) \in Nat /\ Sum(g, B) \in Nat
  <2>1. B \in SUBSET DOMAIN b /\ A \in SUBSET DOMAIN b /\ B \in SUBSET B /\ A \in SUBSET A
    BY <1>2
  <2>2. Volume(b, B) = Sum(g, B) /\ Volume(b, A) = Sum(g, A)
    BY SumUnfolded DEF Volume
  <2> HIDE DEF B, A, g
  <2>3. Volume(b, B) \in Nat /\ Volume(b, A) \in Nat
    BY <2>1, MoreVolume
  <2> QED
    BY <2>2, <2>3
<1> HIDE DEF w, g
<1>7. Balanced(b, p, w)
  BY <1>1, <1>5, <1>6 DEF Balanced
<1>8. SweepTypes(b, p, bids, asks, w)
  BY <1>1, <1>2, <1>3, <1>4 DEF SweepTypes
<1>9. Walked(b, w.left, bids, w.bi) /\ Walked(b, w.left, asks, w.ai)
  BY <1>1, <1>2, <1>3 DEF Walked
<1>10. SweepInv(b, p, bids, asks, w)
  BY <1>1, <1>3, <1>7, <1>8, <1>9 DEF SweepInv
<1>11. /\ Used(w, bids, w.bi) \in 0..1 /\ Used(w, asks, w.ai) \in 0..1
  BY DEF Used
<1>12. /\ StepsFor(w, bids, w.bi) \in Int /\ StepsFor(w, bids, w.bi) <= 2 * Len(bids)
       /\ StepsFor(w, asks, w.ai) \in Int /\ StepsFor(w, asks, w.ai) <= 2 * Len(asks)
  BY <1>1, <1>2, <1>11 DEF StepsFor
<1>13. /\ StepsLeft(w, bids, asks) \in Int
       /\ StepsLeft(w, bids, asks) <= 2 * (Len(bids) + Len(asks))
  BY <1>2, <1>12 DEF StepsLeft
<1> QED
  BY <1>10, <1>13 DEF w

\* The cursor passes an order that has nothing left.
LEMMA CursorMoves ==
    ASSUME NEW b, NEW w, NEW q, NEW i \in 1..Len(q), Len(q) \in Nat, Walked(b, w.left, q, i),
           w.left[q[i]] = 0
    PROVE  /\ Walked(b, w.left, q, i + 1)
           /\ StepsFor(w, q, i) \in Int /\ StepsFor(w, q, i + 1) \in Int
           /\ StepsFor(w, q, i + 1) <= StepsFor(w, q, i) - 1
<1>1. i \in Nat /\ i <= Len(q)
  OBVIOUS
<1>2. Walked(b, w.left, q, i + 1)
  <2> SUFFICES ASSUME NEW k \in 1..Len(q)
               PROVE  /\ k < i + 1 => w.left[q[k]] = 0
                      /\ k > i + 1 => w.left[q[k]] = b[q[k]].qty
    BY DEF Walked
  <2>1. k < i + 1 => k < i \/ k = i
    BY <1>1
  <2>2. k > i + 1 => k > i
    BY <1>1
  <2> QED
    BY <2>1, <2>2 DEF Walked
<1>3. Used(w, q, i) = 1 /\ Used(w, q, i + 1) \in 0..1
  BY <1>1 DEF Used
<1>4. /\ StepsFor(w, q, i) \in Int /\ StepsFor(w, q, i + 1) \in Int
      /\ StepsFor(w, q, i + 1) <= StepsFor(w, q, i) - 1
  BY <1>1, <1>3 DEF StepsFor
<1> QED
  BY <1>2, <1>4

\* The orders under the cursors trade as much as both have left.
Trades(p, bids, asks, w, r) ==
    LET x == bids[w.bi]
        y == asks[w.ai]
        q == Lesser(w.left[x], w.left[y])
    IN  /\ w.left[x] > 0 /\ w.left[y] > 0
        /\ r.left = [w.left EXCEPT ![x] = @ - q, ![y] = @ - q]
        /\ r.bi = w.bi /\ r.ai = w.ai /\ DOMAIN r = {"left", "bi", "ai", "fills"}
        /\ r.fills = Append(w.fills, [maker |-> y, taker |-> x, price |-> p, qty |-> q])

LEMMA StepCases ==
    ASSUME NEW b, Book(b), NEW p, NEW bids, NEW asks, Queues(b, p, bids, asks),
           NEW w, SweepTypes(b, p, bids, asks, w), ~SweepEnds(bids, asks, w)
    PROVE  LET bid == bids[w.bi]
               ask == asks[w.ai]
               r == SweepStep(p, bids, asks, w)
           IN  /\ w.bi \in 1..Len(bids) /\ w.ai \in 1..Len(asks)
               /\ bid \in BidsOf(b, p) /\ ask \in AsksOf(b, p)
               /\ DOMAIN r = {"left", "bi", "ai", "fills"}
               /\ \/ /\ w.left[bid] = 0
                     /\ r.left = w.left /\ r.bi = w.bi + 1 /\ r.ai = w.ai /\ r.fills = w.fills
                  \/ /\ w.left[ask] = 0
                     /\ r.left = w.left /\ r.bi = w.bi /\ r.ai = w.ai + 1 /\ r.fills = w.fills
                  \/ Trades(p, bids, asks, w, r)
<1> DEFINE bid == bids[w.bi]
           ask == asks[w.ai]
           q == Lesser(w.left[bid], w.left[ask])
           r == SweepStep(p, bids, asks, w)
<1>1. w.bi \in 1..Len(bids) /\ w.ai \in 1..Len(asks)
  BY DEF SweepEnds, SweepTypes, Queues, Queued
<1>2. bid \in BidsOf(b, p) /\ ask \in AsksOf(b, p)
  BY <1>1 DEF Queues, Queued
<1>3. bid \in DOMAIN b /\ ask \in DOMAIN b
  BY <1>2, QueuesOfBook
<1>4. w.left[bid] \in Nat /\ w.left[ask] \in Nat
  BY <1>3 DEF SweepTypes
<1>5. DOMAIN w = {"left", "bi", "ai", "fills"}
  BY DEF SweepTypes
<1>6. CASE w.left[bid] = 0
  <2>1. r = [w EXCEPT !.bi = @ + 1]
    BY <1>6 DEF SweepStep
  <2> HIDE DEF r, bid, ask, q
  <2>2. /\ r.left = w.left /\ r.bi = w.bi + 1 /\ r.ai = w.ai /\ r.fills = w.fills
        /\ DOMAIN r = {"left", "bi", "ai", "fills"}
    BY <2>1, <1>5
  <2> QED
    BY <1>1, <1>2, <1>6, <2>2 DEF r, bid, ask, q
<1>7. CASE w.left[bid] # 0 /\ w.left[ask] = 0
  <2>1. r = [w EXCEPT !.ai = @ + 1]
    BY <1>7 DEF SweepStep
  <2> HIDE DEF r, bid, ask, q
  <2>2. /\ r.left = w.left /\ r.bi = w.bi /\ r.ai = w.ai + 1 /\ r.fills = w.fills
        /\ DOMAIN r = {"left", "bi", "ai", "fills"}
    BY <2>1, <1>5
  <2> QED
    BY <1>1, <1>2, <1>7, <2>2 DEF r, bid, ask, q
<1>8. CASE w.left[bid] # 0 /\ w.left[ask] # 0
  <2> DEFINE l == [w.left EXCEPT ![bid] = @ - q, ![ask] = @ - q]
             fs == Append(w.fills, [maker |-> ask, taker |-> bid, price |-> p, qty |-> q])
  <2>1. r = [left |-> l, bi |-> w.bi, ai |-> w.ai, fills |-> fs]
    BY <1>8 DEF SweepStep
  <2> HIDE DEF l, fs, r
  <2>2. /\ r.left = l /\ r.bi = w.bi /\ r.ai = w.ai /\ r.fills = fs
        /\ DOMAIN r = {"left", "bi", "ai", "fills"}
    BY <2>1
  <2>3. w.left[bid] > 0 /\ w.left[ask] > 0
    BY <1>4, <1>8
  <2>4. Trades(p, bids, asks, w, r)
    BY <2>2, <2>3 DEF l, fs, Trades
  <2> QED
    BY <1>1, <1>2, <2>2, <2>4 DEF r
<1> QED
  BY <1>6, <1>7, <1>8

\* A trade takes its quantity from the order under a cursor and from no other of that side.
LEMMA TradeOnOneSide ==
    ASSUME NEW b, Book(b), NEW S \in SUBSET DOMAIN b, OneSided(b, S), NEW q, Queued(b, S, q),
           NEW i \in 1..Len(q), NEW f \in [DOMAIN b -> Nat], NEW g, NEW n \in Nat,
           Less(f, g, S, q[i], n), Walked(b, f, q, i)
    PROVE  /\ Walked(b, g, q, i)
           /\ Sum(f, S) \in Int /\ Sum(g, S) = Sum(f, S) - n
<1> DEFINE x == q[i]
<1>1. \A k \in 1..Len(q) : k # i => q[k] # x
  BY QueuedOnce
<1>2. /\ x \in S /\ Len(q) \in Nat /\ i \in Nat
      /\ \A k \in 1..Len(q) : q[k] \in S
  BY DEF Queued
<1>3. Walked(b, g, q, i)
  <2> SUFFICES ASSUME NEW k \in 1..Len(q)
               PROVE  /\ k < i => g[q[k]] = 0
                      /\ k > i => g[q[k]] = b[q[k]].qty
    BY DEF Walked
  <2>1. k # i => g[q[k]] = f[q[k]]
    BY <1>1, <1>2 DEF Less
  <2>2. k < i \/ k > i => k # i
    BY <1>2
  <2>3. /\ k < i => f[q[k]] = 0
        /\ k > i => f[q[k]] = b[q[k]].qty
    BY DEF Walked
  <2> QED
    BY <2>1, <2>2, <2>3
<1>4. IsFiniteSet(S) /\ \A y \in S : f[y] \in Int
  <2>1. IsFiniteSet(S)
    BY FS_Subset DEF Book
  <2>2. \A y \in S : f[y] \in Nat
    OBVIOUS
  <2> QED
    BY <2>1, <2>2
<1> HIDE DEF x
<1>5. Less(f, g, S, x, n) /\ n \in Int
  BY DEF x
<1>6. Sum(f, S) \in Int /\ Sum(g, S) = Sum(f, S) - n
  BY <1>2, <1>4, <1>5, SumLess
<1> QED
  BY <1>3, <1>6

LEMMA TradeKeeps ==
    ASSUME NEW b, Book(b), NEW p, NEW bids, NEW asks, Queues(b, p, bids, asks),
           NEW w, SweepInv(b, p, bids, asks, w), NEW r,
           w.bi \in 1..Len(bids), w.ai \in 1..Len(asks),
           Trades(p, bids, asks, w, r)
    PROVE  /\ SweepInv(b, p, bids, asks, r)
           /\ StepsLeft(w, bids, asks) \in Int /\ StepsLeft(r, bids, asks) \in Int
           /\ StepsLeft(r, bids, asks) <= StepsLeft(w, bids, asks) - 1
<1> DEFINE x == bids[w.bi]
           y == asks[w.ai]
           B == BidsOf(b, p)
           A == AsksOf(b, p)
           q == Lesser(w.left[x], w.left[y])
           fill == [maker |-> y, taker |-> x, price |-> p, qty |-> q]
<1>0. /\ w.left[x] > 0 /\ w.left[y] > 0
      /\ r.left = [w.left EXCEPT ![x] = @ - q, ![y] = @ - q]
      /\ r.bi = w.bi /\ r.ai = w.ai /\ DOMAIN r = {"left", "bi", "ai", "fills"}
      /\ r.fills = Append(w.fills, fill)
  BY DEF Trades
<1>1. x \in B /\ y \in A /\ Queued(b, B, bids) /\ Queued(b, A, asks)
  BY DEF Queues, Queued
<1>2. /\ B \in SUBSET DOMAIN b /\ A \in SUBSET DOMAIN b
      /\ OneSided(b, B) /\ OneSided(b, A)
      /\ \A o \in A : o \notin B
  <2>1. OneSided(b, B) /\ OneSided(b, A)
    BY DEF BidsOf, AsksOf, Bids, Asks, OneSided
  <2> QED
    BY <2>1, QueuesOfBook
<1>3. /\ w.left \in [DOMAIN b -> Nat] /\ \A o \in DOMAIN b : w.left[o] <= b[o].qty
      /\ w.fills \in Seq(FillOf(b, p))
  BY DEF SweepInv, SweepTypes
<1>4. /\ x # y /\ x \in DOMAIN b /\ y \in DOMAIN b
      /\ w.left[x] \in Nat /\ w.left[y] \in Nat /\ w.left[x] > 0 /\ w.left[y] > 0
  BY <1>0, <1>1, <1>2, <1>3
<1>5. /\ q \in Nat \ {0} /\ q <= w.left[x] /\ q <= w.left[y]
      /\ q = w.left[x] \/ q = w.left[y]
  BY <1>4 DEF Lesser
<1>6. /\ DOMAIN r.left = DOMAIN b
      /\ r.left[x] = w.left[x] - q /\ r.left[y] = w.left[y] - q
      /\ \A o \in DOMAIN b : o # x /\ o # y => r.left[o] = w.left[o]
  <2> DEFINE l == w.left
  <2>1. r.left = [l EXCEPT ![x] = @ - q, ![y] = @ - q]
    BY <1>0
  <2>2. l \in [DOMAIN b -> Nat]
    BY <1>3
  <2> HIDE DEF x, y, l, q
  <2>3. /\ DOMAIN r.left = DOMAIN b
        /\ r.left[x] = l[x] - q /\ r.left[y] = l[y] - q
        /\ \A o \in DOMAIN b : o # x /\ o # y => r.left[o] = l[o]
    BY <2>1, <2>2, <1>4
  <2> QED
    BY <2>3 DEF l
<1>7. r.left \in [DOMAIN b -> Nat]
  <2>1. r.left = [o \in DOMAIN b |-> r.left[o]]
    <3>1. r.left = [[w.left EXCEPT ![x] = @ - q] EXCEPT ![y] = @ - q]
      BY <1>0
    <3> HIDE DEF x, y, q
    <3> QED
      BY <3>1, <1>3
  <2>2. \A o \in DOMAIN b : r.left[o] \in Nat
    <3> SUFFICES ASSUME NEW o \in DOMAIN b PROVE r.left[o] \in Nat
      OBVIOUS
    <3> HIDE DEF x, y, q
    <3>1. CASE o = x \/ o = y
      <4>1. r.left[o] = w.left[o] - q
        BY <1>6, <3>1
      <4>2. w.left[o] \in Nat /\ q \in Nat /\ q <= w.left[o]
        BY <1>4, <1>5, <3>1
      <4> QED
        BY <4>1, <4>2
    <3>2. CASE o # x /\ o # y
      BY <1>3, <1>6, <3>2
    <3> QED
      BY <3>1, <3>2
  <2> QED
    BY <2>1, <2>2
<1>8. \A o \in DOMAIN b : r.left[o] <= b[o].qty
  <2> SUFFICES ASSUME NEW o \in DOMAIN b PROVE r.left[o] <= b[o].qty
    OBVIOUS
  <2>1. w.left[o] <= b[o].qty /\ b[o].qty \in Nat /\ w.left[o] \in Nat
    BY <1>3 DEF Book
  <2> HIDE DEF x, y, q
  <2>2. CASE o = x \/ o = y
    <3>1. r.left[o] = w.left[o] - q
      BY <1>6, <2>2
    <3> QED
      BY <1>5, <2>1, <3>1
  <2>3. CASE o # x /\ o # y
    BY <1>6, <2>1, <2>3
  <2> QED
    BY <2>2, <2>3
<1>9. /\ Walked(b, r.left, bids, w.bi) /\ Sum(w.left, B) \in Int
      /\ Sum(r.left, B) = Sum(w.left, B) - q
  <2>1. Walked(b, w.left, bids, w.bi)
    BY DEF SweepInv
  <2>2. Less(w.left, r.left, B, bids[w.bi], q)
    BY <1>1, <1>2, <1>6 DEF Less
  <2>3. q \in Nat /\ Queued(b, B, bids) /\ B \in SUBSET DOMAIN b /\ OneSided(b, B)
    BY <1>1, <1>2, <1>5
  <2> DEFINE f == w.left
             g == r.left
             i == w.bi
  <2>4. /\ f \in [DOMAIN b -> Nat] /\ i \in 1..Len(bids)
        /\ Walked(b, f, bids, i) /\ Less(f, g, B, bids[i], q)
    BY <1>3, <2>1, <2>2
  <2> HIDE DEF x, y, q, A, B, f, g, i
  <2>5. Walked(b, g, bids, i) /\ Sum(f, B) \in Int /\ Sum(g, B) = Sum(f, B) - q
    BY <2>3, <2>4, TradeOnOneSide
  <2> QED
    BY <2>5 DEF f, g, i
<1>10. /\ Walked(b, r.left, asks, w.ai) /\ Sum(w.left, A) \in Int
       /\ Sum(r.left, A) = Sum(w.left, A) - q
  <2>1. Walked(b, w.left, asks, w.ai)
    BY DEF SweepInv
  <2>2. Less(w.left, r.left, A, asks[w.ai], q)
    BY <1>1, <1>2, <1>6 DEF Less
  <2>3. q \in Nat /\ Queued(b, A, asks) /\ A \in SUBSET DOMAIN b /\ OneSided(b, A)
    BY <1>1, <1>2, <1>5
  <2> DEFINE f == w.left
             g == r.left
             i == w.ai
  <2>4. /\ f \in [DOMAIN b -> Nat] /\ i \in 1..Len(asks)
        /\ Walked(b, f, asks, i) /\ Less(f, g, A, asks[i], q)
    BY <1>3, <2>1, <2>2
  <2> HIDE DEF x, y, q, A, B, f, g, i
  <2>5. Walked(b, g, asks, i) /\ Sum(f, A) \in Int /\ Sum(g, A) = Sum(f, A) - q
    BY <2>3, <2>4, TradeOnOneSide
  <2> QED
    BY <2>5 DEF f, g, i
<1>11. fill \in FillOf(b, p)
  BY <1>1, <1>5 DEF FillOf
<1>12. /\ Executed(w) \in Nat /\ Executed(r) = Executed(w) + q
       /\ r.fills \in Seq(FillOf(b, p))
  <2> DEFINE F == FillOf(b, p)
             fs == w.fills
  <2>1. fs \in Seq(F) /\ fill \in F /\ fill.qty = q /\ \A z \in F : z.qty \in Nat \ {0}
    BY <1>3, <1>11 DEF FillOf
  <2>2. r.fills = Append(fs, fill)
    BY <1>0
  <2> HIDE DEF fill, F, fs, q
  <2>3. Append(fs, fill) \in Seq(F)
    BY <2>1, AppendProperties
  <2>4. QtyOf(fs) \in Nat /\ QtyOf(Append(fs, fill)) = QtyOf(fs) + q
    BY <2>1, ExecutedMore
  <2>5. Executed(w) = QtyOf(fs) /\ Executed(r) = QtyOf(Append(fs, fill))
    BY <2>2 DEF Executed, fs
  <2> QED
    BY <2>2, <2>3, <2>4, <2>5 DEF F
<1>13. Balanced(b, p, r)
  <2> DEFINE sb == Sum(w.left, B)
             sa == Sum(w.left, A)
             e == Executed(w)
  <2>1. e + sb = Volume(b, B) /\ e + sa = Volume(b, A)
    BY DEF SweepInv, Balanced
  <2>2. Executed(r) = e + q /\ e \in Nat /\ q \in Nat /\ sb \in Int /\ sa \in Int
        /\ Sum(r.left, B) = sb - q /\ Sum(r.left, A) = sa - q
    BY <1>5, <1>9, <1>10, <1>12
  <2> HIDE DEF sb, sa, e, B, A, q
  <2>3. Executed(r) + Sum(r.left, B) = Volume(b, B) /\ Executed(r) + Sum(r.left, A) = Volume(b, A)
    BY <2>1, <2>2
  <2> QED
    BY <2>3 DEF Balanced, B, A
<1>14. SweepTypes(b, p, bids, asks, r)
  BY <1>0, <1>7, <1>8, <1>12 DEF SweepInv, SweepTypes
<1>15. \A o \in DOMAIN b \ (B \cup A) : r.left[o] = b[o].qty
  BY <1>1, <1>6 DEF SweepInv
<1>16. SweepInv(b, p, bids, asks, r)
  BY <1>0, <1>9, <1>10, <1>13, <1>14, <1>15 DEF SweepInv
<1>17. /\ Used(w, bids, w.bi) = 0 /\ Used(w, asks, w.ai) = 0
       /\ Used(r, bids, w.bi) \in 0..1 /\ Used(r, asks, w.ai) \in 0..1
       /\ Used(r, bids, w.bi) = 1 \/ Used(r, asks, w.ai) = 1
  <2>1. w.bi <= Len(bids) /\ w.ai <= Len(asks)
    BY <1>1 DEF Queued
  <2>2. r.left[x] = 0 \/ r.left[y] = 0
    <3>1. /\ r.left[x] = w.left[x] - q /\ w.left[x] \in Nat
          /\ r.left[y] = w.left[y] - q /\ w.left[y] \in Nat
      BY <1>4, <1>6
    <3>2. q = w.left[x] \/ q = w.left[y]
      BY <1>5
    <3> HIDE DEF x, y, q
    <3> QED
      BY <3>1, <3>2
  <2>3. w.left[x] # 0 /\ w.left[y] # 0
    BY <1>4
  <2> QED
    BY <2>1, <2>2, <2>3 DEF Used
<1>18. /\ StepsLeft(w, bids, asks) \in Int /\ StepsLeft(r, bids, asks) \in Int
       /\ StepsLeft(r, bids, asks) <= StepsLeft(w, bids, asks) - 1
  <2> DEFINE m == 2 * (Len(bids) + 1 - w.bi)
             n == 2 * (Len(asks) + 1 - w.ai)
             u == Used(r, bids, w.bi)
             v == Used(r, asks, w.ai)
  <2>1. m \in Int /\ n \in Int
    <3>1. w.bi \in Int /\ w.ai \in Int /\ Len(bids) \in Int /\ Len(asks) \in Int
      BY <1>1 DEF Queued
    <3> QED
      BY <3>1
  <2>2. StepsLeft(w, bids, asks) = (m - 0) + (n - 0)
    BY <1>17 DEF StepsLeft, StepsFor
  <2>3. StepsLeft(r, bids, asks) = (m - u) + (n - v)
    BY <1>0 DEF StepsLeft, StepsFor
  <2>4. u \in 0..1 /\ v \in 0..1 /\ (u = 1 \/ v = 1)
    BY <1>17
  <2> HIDE DEF m, n, u, v
  <2> QED
    BY <2>1, <2>2, <2>3, <2>4
<1> QED
  BY <1>16, <1>18

\* An iteration keeps the invariant and comes nearer to the end.
LEMMA SweepStepKeeps ==
    ASSUME NEW b, Book(b), NEW p, NEW bids, NEW asks, Queues(b, p, bids, asks),
           NEW w, SweepInv(b, p, bids, asks, w), ~SweepEnds(bids, asks, w)
    PROVE  LET r == SweepStep(p, bids, asks, w) IN
           /\ SweepInv(b, p, bids, asks, r)
           /\ StepsLeft(w, bids, asks) \in Int /\ StepsLeft(r, bids, asks) \in Int
           /\ StepsLeft(r, bids, asks) <= StepsLeft(w, bids, asks) - 1
<1> DEFINE r == SweepStep(p, bids, asks, w)
           bid == bids[w.bi]
           ask == asks[w.ai]
<1>1. /\ w.bi \in 1..Len(bids) /\ w.ai \in 1..Len(asks)
      /\ DOMAIN r = {"left", "bi", "ai", "fills"}
      /\ \/ /\ w.left[bid] = 0
            /\ r.left = w.left /\ r.bi = w.bi + 1 /\ r.ai = w.ai /\ r.fills = w.fills
         \/ /\ w.left[ask] = 0
            /\ r.left = w.left /\ r.bi = w.bi /\ r.ai = w.ai + 1 /\ r.fills = w.fills
         \/ Trades(p, bids, asks, w, r)
  <2>1. SweepTypes(b, p, bids, asks, w)
    BY DEF SweepInv
  <2> QED
    BY <2>1, StepCases
<1>2. Len(bids) \in Nat /\ Len(asks) \in Nat
  BY DEF Queues, Queued
<1> HIDE DEF r
<1>3. SweepTypes(b, p, bids, asks, w) /\ Walked(b, w.left, bids, w.bi) /\ Walked(b, w.left, asks, w.ai)
  BY DEF SweepInv
<1>4. ASSUME r.left = w.left, r.fills = w.fills
      PROVE  /\ Balanced(b, p, r)
             /\ \A o \in DOMAIN b \ (BidsOf(b, p) \cup AsksOf(b, p)) : r.left[o] = b[o].qty
  BY <1>4 DEF SweepInv, Balanced, Executed
<1>5. ASSUME r.left = w.left
      PROVE  /\ StepsLeft(r, bids, asks) = StepsFor(w, bids, r.bi) + StepsFor(w, asks, r.ai)
             /\ \A i \in Nat : StepsFor(w, bids, i) \in Int /\ StepsFor(w, asks, i) \in Int
  <2>1. /\ \A i \in Nat : Used(w, bids, i) \in 0..1 /\ Used(w, asks, i) \in 0..1
    BY DEF Used
  <2>2. \A i \in Nat : StepsFor(w, bids, i) \in Int /\ StepsFor(w, asks, i) \in Int
    BY <1>2, <2>1 DEF StepsFor
  <2>3. StepsLeft(r, bids, asks) = StepsFor(w, bids, r.bi) + StepsFor(w, asks, r.ai)
    BY <1>5 DEF StepsLeft, StepsFor, Used
  <2> QED
    BY <2>2, <2>3
<1>6. w.bi \in Nat /\ w.ai \in Nat /\ w.bi <= Len(bids) /\ w.ai <= Len(asks)
  BY <1>1, <1>2
<1>7. CASE /\ w.left[bid] = 0
           /\ r.left = w.left /\ r.bi = w.bi + 1 /\ r.ai = w.ai /\ r.fills = w.fills
  <2>1. /\ Walked(b, w.left, bids, w.bi + 1)
        /\ StepsFor(w, bids, w.bi + 1) <= StepsFor(w, bids, w.bi) - 1
        /\ StepsFor(w, bids, w.bi) \in Int /\ StepsFor(w, bids, w.bi + 1) \in Int
    BY <1>1, <1>2, <1>3, <1>7, CursorMoves
  <2>2. SweepTypes(b, p, bids, asks, r)
    BY <1>1, <1>2, <1>3, <1>6, <1>7 DEF SweepTypes
  <2>3. SweepInv(b, p, bids, asks, r)
    BY <1>3, <1>4, <1>7, <2>1, <2>2 DEF SweepInv
  <2>4. StepsFor(w, asks, w.ai) \in Int
    BY <1>5, <1>6, <1>7
  <2>5. /\ StepsLeft(r, bids, asks) = StepsFor(w, bids, w.bi + 1) + StepsFor(w, asks, w.ai)
        /\ StepsLeft(w, bids, asks) = StepsFor(w, bids, w.bi) + StepsFor(w, asks, w.ai)
    BY <1>5, <1>7 DEF StepsLeft
  <2>6. /\ StepsLeft(w, bids, asks) \in Int /\ StepsLeft(r, bids, asks) \in Int
        /\ StepsLeft(r, bids, asks) <= StepsLeft(w, bids, asks) - 1
    BY <2>1, <2>4, <2>5
  <2> QED
    BY <2>3, <2>6 DEF r
<1>8. CASE /\ w.left[ask] = 0
           /\ r.left = w.left /\ r.bi = w.bi /\ r.ai = w.ai + 1 /\ r.fills = w.fills
  <2>1. /\ Walked(b, w.left, asks, w.ai + 1)
        /\ StepsFor(w, asks, w.ai + 1) <= StepsFor(w, asks, w.ai) - 1
        /\ StepsFor(w, asks, w.ai) \in Int /\ StepsFor(w, asks, w.ai + 1) \in Int
    BY <1>1, <1>2, <1>3, <1>8, CursorMoves
  <2>2. SweepTypes(b, p, bids, asks, r)
    BY <1>1, <1>2, <1>3, <1>6, <1>8 DEF SweepTypes
  <2>3. SweepInv(b, p, bids, asks, r)
    BY <1>3, <1>4, <1>8, <2>1, <2>2 DEF SweepInv
  <2>4. StepsFor(w, bids, w.bi) \in Int
    BY <1>5, <1>6, <1>8
  <2>5. /\ StepsLeft(r, bids, asks) = StepsFor(w, bids, w.bi) + StepsFor(w, asks, w.ai + 1)
        /\ StepsLeft(w, bids, asks) = StepsFor(w, bids, w.bi) + StepsFor(w, asks, w.ai)
    BY <1>5, <1>8 DEF StepsLeft
  <2>6. /\ StepsLeft(w, bids, asks) \in Int /\ StepsLeft(r, bids, asks) \in Int
        /\ StepsLeft(r, bids, asks) <= StepsLeft(w, bids, asks) - 1
    BY <2>1, <2>4, <2>5
  <2> QED
    BY <2>3, <2>6 DEF r
<1>9. CASE Trades(p, bids, asks, w, r)
  <2>1. /\ SweepInv(b, p, bids, asks, r)
        /\ StepsLeft(w, bids, asks) \in Int /\ StepsLeft(r, bids, asks) \in Int
        /\ StepsLeft(r, bids, asks) <= StepsLeft(w, bids, asks) - 1
    BY <1>1, <1>9, TradeKeeps
  <2> QED
    BY <2>1 DEF r
<1> QED
  BY <1>1, <1>7, <1>8, <1>9

\* Until the sweep ends both cursors stand on an order.
LEMMA NotEndedYet ==
    ASSUME NEW b, NEW p, NEW bids, NEW asks, Queues(b, p, bids, asks),
           NEW w, SweepInv(b, p, bids, asks, w), ~SweepEnds(bids, asks, w)
    PROVE  StepsLeft(w, bids, asks) >= 2
<1>1. /\ w.bi \in Nat /\ w.ai \in Nat /\ w.bi <= Len(bids) /\ w.ai <= Len(asks)
      /\ Len(bids) \in Nat /\ Len(asks) \in Nat
  <2>1. w.bi \in Nat /\ w.ai \in Nat
    BY DEF SweepInv, SweepTypes
  <2>2. Len(bids) \in Nat /\ Len(asks) \in Nat
    BY DEF Queues, Queued
  <2>3. ~(w.bi > Len(bids)) /\ ~(w.ai > Len(asks))
    BY DEF SweepEnds
  <2> QED
    BY <2>1, <2>2, <2>3
<1> DEFINE m == Len(bids)
           n == Len(asks)
           u == Used(w, bids, w.bi)
           v == Used(w, asks, w.ai)
<1>2. u \in {0, 1} /\ v \in {0, 1}
  BY DEF Used
<1>3. /\ StepsFor(w, bids, w.bi) = 2 * (m + 1 - w.bi) - u
      /\ StepsFor(w, asks, w.ai) = 2 * (n + 1 - w.ai) - v
  BY DEF StepsFor
<1> HIDE DEF m, n, u, v
<1>4. /\ StepsFor(w, bids, w.bi) \in Int /\ StepsFor(w, bids, w.bi) >= 1
      /\ StepsFor(w, asks, w.ai) \in Int /\ StepsFor(w, asks, w.ai) >= 1
  <2>1. w.bi \in Nat /\ w.bi <= m /\ m \in Nat /\ w.ai \in Nat /\ w.ai <= n /\ n \in Nat
    BY <1>1 DEF m, n
  <2> QED
    BY <2>1, <1>2, <1>3
<1> QED
  BY <1>4 DEF StepsLeft

\* The loop of Sweep, its first n iterations.
NextSweep(p, bids, asks, w) ==
    IF SweepEnds(bids, asks, w) THEN w ELSE SweepStep(p, bids, asks, w)
Sweeps(f, n, b, p, bids, asks) ==
    f = [i \in 0..n |-> IF i = 0 THEN SweepStart(b) ELSE NextSweep(p, bids, asks, f[i - 1])]

LEMMA SweepsExist ==
    ASSUME NEW n \in Nat, NEW b, NEW p, NEW bids, NEW asks
    PROVE  \E f : Sweeps(f, n, b, p, bids, asks)
<1> DEFINE T == {i \in Nat : ~\E f : Sweeps(f, i, b, p, bids, asks)}
           a == SweepStart(b)
           N(w) == NextSweep(p, bids, asks, w)
<1> SUFFICES ASSUME T # {} PROVE FALSE
  OBVIOUS
<1>1. PICK x \in T : \A y \in T : x <= y
  <2>1. T \subseteq Nat
    OBVIOUS
  <2> HIDE DEF T
  <2> QED
    BY <2>1, Least
<1>2. x \in Nat /\ ~\E f : Sweeps(f, x, b, p, bids, asks)
  OBVIOUS
<1>3. CASE x = 0
  <2> HIDE DEF T, a, N
  <2> DEFINE f == [i \in 0..0 |-> a]
  <2>1. f = [i \in 0..0 |-> IF i = 0 THEN a ELSE N(f[i - 1])]
    OBVIOUS
  <2> QED
    BY <2>1, <1>2, <1>3 DEF Sweeps, a, N
<1>4. CASE x # 0
  <2>1. x - 1 \in Nat /\ x - 1 \notin T
    BY <1>1, <1>2, <1>4
  <2>2. PICK g : Sweeps(g, x - 1, b, p, bids, asks)
    BY <2>1
  <2>3. \A i \in 0..(x - 1) : g[i] = IF i = 0 THEN a ELSE N(g[i - 1])
    BY <2>2 DEF Sweeps
  <2> HIDE DEF T, a, N
  <2> DEFINE f == [i \in 0..x |-> IF i = x THEN N(g[x - 1]) ELSE g[i]]
             u == [i \in 0..x |-> IF i = 0 THEN a ELSE N(f[i - 1])]
  <2>4. \A i \in 0..(x - 1) : f[i] = g[i]
    BY <1>2
  <2>5. ASSUME NEW i \in 0..x
        PROVE  f[i] = IF i = 0 THEN a ELSE N(f[i - 1])
    <3>1. CASE i = x
      <4>1. x - 1 \in 0..(x - 1) /\ f[x] = N(g[x - 1])
        BY <1>2, <1>4
      <4> HIDE DEF f
      <4> QED
        BY <4>1, <3>1, <2>4, <1>4
    <3>2. CASE i # x
      <4>1. i \in 0..(x - 1) /\ (i # 0 => i - 1 \in 0..(x - 1))
        BY <3>2, <1>2
      <4> HIDE DEF f
      <4> QED
        BY <4>1, <2>3, <2>4
    <3> QED
      BY <3>1, <3>2
  <2>6. f = u
    <3>1. DOMAIN f = 0..x /\ f = [i \in 0..x |-> f[i]]
      OBVIOUS
    <3> HIDE DEF f
    <3> QED
      BY <3>1, <2>5
  <2>7. Sweeps(f, x, b, p, bids, asks)
    BY <2>6 DEF Sweeps, a, N
  <2> QED
    BY <2>7, <1>2
<1> QED
  BY <1>3, <1>4

\* Twice as many iterations as there are orders are enough.
LEMMA SweepTerminates ==
    ASSUME NEW b, Book(b), NEW p, NEW bids, NEW asks, Queues(b, p, bids, asks)
    PROVE  LET w == SweepResult(b, p) IN
           SweepInv(b, p, bids, asks, w) /\ SweepEnds(bids, asks, w)
<1> DEFINE n == 2 * (Len(bids) + Len(asks))
           F == CHOOSE f : Sweeps(f, n, b, p, bids, asks)
<1>1. Len(bids) \in Nat /\ Len(asks) \in Nat /\ n \in Nat
  BY DEF Queues, Queued
<1>2. Sweeps(F, n, b, p, bids, asks)
  <2>1. \E f : Sweeps(f, n, b, p, bids, asks)
    <3> HIDE DEF n
    <3> QED
      BY <1>1, SweepsExist
  <2> QED
    BY <2>1
<1>3. SweepResult(b, p) = F[n]
  <2>1. bids = EligibleBids(b, p) /\ asks = EligibleAsks(b, p)
    BY DEF Queues
  <2> QED
    BY <2>1 DEF SweepResult, Sweeps, NextSweep
<1> HIDE DEF F, n
<1>4. F[0] = SweepStart(b) /\ \A i \in 1..n : F[i] = NextSweep(p, bids, asks, F[i - 1])
  <2>1. \A i \in 0..n : F[i] = IF i = 0 THEN SweepStart(b) ELSE NextSweep(p, bids, asks, F[i - 1])
    BY <1>2 DEF Sweeps
  <2>2. 0 \in 0..n /\ \A i \in 1..n : i \in 0..n /\ i # 0
    BY <1>1
  <2> QED
    BY <2>1, <2>2
<1> DEFINE Good(i) == /\ SweepInv(b, p, bids, asks, F[i])
                      /\ \/ SweepEnds(bids, asks, F[i])
                         \/ /\ StepsLeft(F[i], bids, asks) \in Int
                            /\ StepsLeft(F[i], bids, asks) <= n - i
           T == {i \in Nat : i <= n /\ ~Good(i)}
<1>5. Good(0)
  <2>1. /\ SweepInv(b, p, bids, asks, F[0])
        /\ StepsLeft(F[0], bids, asks) \in Int
        /\ StepsLeft(F[0], bids, asks) <= n
    BY <1>4, SweepStarts DEF n
  <2> QED
    BY <2>1, <1>1
<1>6. ASSUME NEW i \in 1..n, Good(i - 1) PROVE Good(i)
  <2>1. CASE SweepEnds(bids, asks, F[i - 1])
    <3>1. F[i] = F[i - 1]
      BY <1>4, <2>1 DEF NextSweep
    <3> QED
      BY <1>6, <2>1, <3>1
  <2>2. CASE ~SweepEnds(bids, asks, F[i - 1])
    <3>1. F[i] = SweepStep(p, bids, asks, F[i - 1])
      BY <1>4, <2>2 DEF NextSweep
    <3>2. /\ SweepInv(b, p, bids, asks, F[i])
          /\ StepsLeft(F[i - 1], bids, asks) \in Int /\ StepsLeft(F[i], bids, asks) \in Int
          /\ StepsLeft(F[i], bids, asks) <= StepsLeft(F[i - 1], bids, asks) - 1
      BY <1>6, <2>2, <3>1, SweepStepKeeps
    <3> DEFINE u == StepsLeft(F[i - 1], bids, asks)
               v == StepsLeft(F[i], bids, asks)
    <3>3. u <= n - (i - 1) /\ u \in Int /\ v \in Int /\ v <= u - 1
      BY <1>6, <2>2, <3>2
    <3>4. v <= n - i
      <4> HIDE DEF u, v
      <4>1. i \in Int
        OBVIOUS
      <4> QED
        BY <1>1, <3>3, <4>1
    <3> QED
      BY <3>2, <3>4
  <2> QED
    BY <2>1, <2>2
<1>7. T = {}
  <2> SUFFICES ASSUME T # {} PROVE FALSE
    OBVIOUS
  <2>1. PICK x \in T : \A y \in T : x <= y
    <3>1. T \subseteq Nat
      OBVIOUS
    <3> HIDE DEF T
    <3> QED
      BY <3>1, Least
  <2> HIDE DEF Good
  <2>2. x \in Nat /\ x <= n /\ ~Good(x)
    OBVIOUS
  <2>3. x # 0
    BY <1>5, <2>2
  <2>4. x - 1 \in Nat /\ x - 1 <= n /\ x - 1 \notin T /\ x \in 1..n
    BY <1>1, <2>1, <2>2, <2>3
  <2>5. Good(x - 1)
    BY <2>4
  <2> QED
    BY <1>6, <2>2, <2>4, <2>5
<1>8. Good(n)
  <2> HIDE DEF Good
  <2>1. n \notin T
    BY <1>7
  <2> QED
    BY <2>1, <1>1
<1>9. SweepEnds(bids, asks, F[n])
  <2> SUFFICES ASSUME ~SweepEnds(bids, asks, F[n]) PROVE FALSE
    OBVIOUS
  <2>1. StepsLeft(F[n], bids, asks) >= 2
    BY <1>8, NotEndedYet
  <2>2. StepsLeft(F[n], bids, asks) \in Int /\ StepsLeft(F[n], bids, asks) <= n - n
    BY <1>8
  <2> QED
    BY <1>1, <2>1, <2>2
<1> QED
  BY <1>3, <1>8, <1>9

------------------------------------------------------------------------------
(* What the sweep has done.                                                  *)

\* Everything executed, on one side nothing left, the rest untouched, nobody overtaken.
SweptWell(b, p, w) ==
    /\ w.left \in [DOMAIN b -> Nat] /\ \A o \in DOMAIN b : w.left[o] <= b[o].qty
    /\ w.fills \in Seq(FillOf(b, p))
    /\ Executed(w) = ExecQty(b, p)
    /\ Balanced(b, p, w)
    /\ \/ \A o \in BidsOf(b, p) : w.left[o] = 0
       \/ \A o \in AsksOf(b, p) : w.left[o] = 0
    /\ \A o \in DOMAIN b \ (BidsOf(b, p) \cup AsksOf(b, p)) : w.left[o] = b[o].qty
    /\ \A o, a \in DOMAIN b : b[a].side = b[o].side /\ Ahead(b, a, o) /\ w.left[o] < b[o].qty
                                  => w.left[a] = 0

\* In a queue that is used up to the cursor and untouched after it, nobody is overtaken.
LEMMA NobodyOvertaken ==
    ASSUME NEW b, Book(b), NEW S \in SUBSET DOMAIN b, OneSided(b, S), NEW q, Queued(b, S, q),
           NEW i \in Nat, NEW left, Walked(b, left, q, i),
           NEW a \in S, NEW o \in S, Ahead(b, a, o), left[o] < b[o].qty
    PROVE  left[a] = 0
<1>1. Len(q) \in Nat /\ \A x \in S : \E k \in 1..Len(q) : q[k] = x
  BY DEF Queued
<1>2. PICK k \in 1..Len(q) : q[k] = a
  BY <1>1
<1>3. PICK l \in 1..Len(q) : q[l] = o
  BY <1>1
<1>4. PICK s : \A x \in S : b[x].side = s
  BY DEF OneSided
<1>5. ~Ahead(b, o, a) /\ a # o
  <2>1. a \in DOMAIN b /\ o \in DOMAIN b /\ b[a].side = b[o].side
    BY <1>4
  <2> QED
    BY <2>1, AheadOnce
<1>6. ~(l < k) /\ l # k /\ l \in Nat /\ k \in Nat
  <2>1. \A m, n \in 1..Len(q) : m < n => Ahead(b, q[m], q[n])
    BY DEF Queued
  <2>2. ~(l < k)
    BY <2>1, <1>2, <1>3, <1>5
  <2> QED
    BY <2>2, <1>2, <1>3, <1>5
<1>7. ~(l > i)
  <2>1. l > i => left[o] = b[o].qty
    BY <1>3 DEF Walked
  <2>2. b[o].qty \in Nat
    BY DEF Book
  <2> QED
    BY <2>1, <2>2
<1>8. k < i
  BY <1>6, <1>7
<1> QED
  BY <1>2, <1>8 DEF Walked

LEMMA SweepIsWell ==
    ASSUME NEW b, Book(b), NEW p \in Nat
    PROVE  SweptWell(b, p, SweepResult(b, p))
<1> DEFINE bids == EligibleBids(b, p)
           asks == EligibleAsks(b, p)
           w == SweepResult(b, p)
           B == BidsOf(b, p)
           A == AsksOf(b, p)
<1>1. /\ Queues(b, p, bids, asks)
      /\ B \in SUBSET DOMAIN b /\ A \in SUBSET DOMAIN b /\ IsFiniteSet(B) /\ IsFiniteSet(A)
  BY QueuesOfBook
<1> HIDE DEF bids, asks
<1>2. SweepInv(b, p, bids, asks, w) /\ SweepEnds(bids, asks, w)
  BY <1>1, SweepTerminates
<1> HIDE DEF w
<1>3. /\ w.left \in [DOMAIN b -> Nat] /\ w.fills \in Seq(FillOf(b, p))
      /\ \A o \in DOMAIN b : w.left[o] <= b[o].qty
      /\ w.bi \in Nat /\ w.ai \in Nat
  BY <1>2 DEF SweepInv, SweepTypes
<1>4. Walked(b, w.left, bids, w.bi) /\ Walked(b, w.left, asks, w.ai) /\ Balanced(b, p, w)
  BY <1>2 DEF SweepInv
<1>5. Queued(b, B, bids) /\ Queued(b, A, asks)
  BY <1>1 DEF Queues
<1>6. (\A o \in B : w.left[o] = 0) \/ (\A o \in A : w.left[o] = 0)
  <2>1. CASE w.bi > Len(bids)
    <3>1. ASSUME NEW o \in B PROVE w.left[o] = 0
      <4>1. PICK k \in 1..Len(bids) : bids[k] = o
        BY <1>5 DEF Queued
      <4>2. Len(bids) \in Nat
        BY <1>5 DEF Queued
      <4>3. k < w.bi
        BY <1>3, <2>1, <4>2
      <4> QED
        BY <1>4, <4>1, <4>3 DEF Walked
    <3> QED
      BY <3>1
  <2>2. CASE w.ai > Len(asks)
    <3>1. ASSUME NEW o \in A PROVE w.left[o] = 0
      <4>1. PICK k \in 1..Len(asks) : asks[k] = o
        BY <1>5 DEF Queued
      <4>2. Len(asks) \in Nat
        BY <1>5 DEF Queued
      <4>3. k < w.ai
        BY <1>3, <2>2, <4>2
      <4> QED
        BY <1>4, <4>1, <4>3 DEF Walked
    <3> QED
      BY <3>1
  <2> QED
    BY <1>2, <2>1, <2>2 DEF SweepEnds
<1>7. Executed(w) = ExecQty(b, p)
  <2> DEFINE sb == Sum(w.left, B)
             sa == Sum(w.left, A)
             e == Executed(w)
             vb == Volume(b, B)
             va == Volume(b, A)
  <2>1. sb \in Nat /\ sa \in Nat /\ (sb = 0 \/ sa = 0)
    <3> DEFINE f == w.left
    <3>1. (\A o \in B : f[o] \in Nat) /\ (\A o \in A : f[o] \in Nat)
      BY <1>1, <1>3
    <3>2. (\A o \in B : f[o] = 0) \/ (\A o \in A : f[o] = 0)
      BY <1>6
    <3> HIDE DEF f, A, B
    <3>3. Sum(f, B) \in Nat /\ Sum(f, A) \in Nat
      BY <1>1, <3>1, SumNat
    <3>4. Sum(f, B) = 0 \/ Sum(f, A) = 0
      BY <1>1, <3>2, SumZero
    <3> QED
      BY <3>3, <3>4 DEF f
  <2>2. e + sb = vb /\ e + sa = va
    BY <1>4 DEF Balanced
  <2>3. vb \in Nat /\ va \in Nat
    <3>1. B \in SUBSET B /\ A \in SUBSET A
      OBVIOUS
    <3> HIDE DEF A, B
    <3> QED
      BY <1>1, <3>1, MoreVolume
  <2>4. e \in Nat
    <3> DEFINE fs == w.fills
               g == [i \in DOMAIN fs |-> fs[i].qty]
    <3>1. Len(fs) \in Nat /\ DOMAIN fs = 1..Len(fs) /\ \A i \in 1..Len(fs) : fs[i] \in FillOf(b, p)
      BY <1>3, LenProperties, ElementOfSeq
    <3>2. IsFiniteSet(DOMAIN fs)
      BY <3>1, FS_Interval
    <3>3. \A i \in DOMAIN fs : g[i] \in Nat
      BY <3>1 DEF FillOf
    <3> HIDE DEF g, fs
    <3>4. Sum(g, DOMAIN fs) \in Nat
      BY <3>2, <3>3, SumNat
    <3> QED
      BY <3>4 DEF Executed, QtyOf, g, fs
  <2>5. ExecQty(b, p) = Lesser(vb, va)
    BY DEF ExecQty, CumBid, CumAsk, BidsOf, AsksOf
  <2> HIDE DEF sb, sa, e, vb, va
  <2>6. e = Lesser(vb, va)
    BY <2>1, <2>2, <2>3, <2>4 DEF Lesser
  <2> QED
    BY <2>5, <2>6 DEF e
<1>8. \A o \in DOMAIN b \ (B \cup A) : w.left[o] = b[o].qty
  BY <1>2 DEF SweepInv
<1>9. ASSUME NEW o \in DOMAIN b, NEW a \in DOMAIN b, b[a].side = b[o].side, Ahead(b, a, o),
             w.left[o] < b[o].qty
      PROVE  w.left[a] = 0
  <2>1. o \in B \/ o \in A
    <3>1. b[o].qty \in Nat
      BY DEF Book
    <3>2. w.left[o] # b[o].qty
      BY <1>9, <3>1
    <3> QED
      BY <1>8, <3>2
  <2>2. CASE o \in B
    <3>1. a \in B
      <4>1. b[o].side = "Bid" /\ b[o].price >= p
        BY <2>2 DEF BidsOf, Bids
      <4>2. b[a].side = "Bid" /\ (b[a].price = b[o].price \/ b[a].price > b[o].price)
        BY <1>9, <4>1 DEF Ahead
      <4>3. b[a].price \in Nat /\ b[o].price \in Nat
        BY DEF Book
      <4>4. b[a].price >= p
        BY <4>1, <4>2, <4>3
      <4> QED
        BY <4>2, <4>4 DEF BidsOf, Bids
    <3>2. OneSided(b, B)
      BY DEF BidsOf, Bids, OneSided
    <3> HIDE DEF A, B
    <3> QED
      BY <1>1, <1>3, <1>4, <1>5, <1>9, <2>2, <3>1, <3>2, NobodyOvertaken
  <2>3. CASE o \in A
    <3>1. a \in A
      <4>1. b[o].side = "Ask" /\ b[o].price <= p
        BY <2>3 DEF AsksOf, Asks
      <4>2. b[a].side = "Ask" /\ (b[a].price = b[o].price \/ b[a].price < b[o].price)
        BY <1>9, <4>1 DEF Ahead
      <4>3. b[a].price \in Nat /\ b[o].price \in Nat
        BY DEF Book
      <4>4. b[a].price <= p
        BY <4>1, <4>2, <4>3
      <4> QED
        BY <4>2, <4>4 DEF AsksOf, Asks
    <3>2. OneSided(b, A)
      BY DEF AsksOf, Asks, OneSided
    <3> HIDE DEF A, B
    <3> QED
      BY <1>1, <1>3, <1>4, <1>5, <1>9, <2>3, <3>1, <3>2, NobodyOvertaken
  <2> QED
    BY <2>1, <2>2, <2>3
<1>10. SweptWell(b, p, w)
  BY <1>3, <1>4, <1>6, <1>7, <1>8, <1>9 DEF SweptWell
<1> QED
  BY <1>10 DEF w

\* When the orders of X outside Y are untouched and one of Y has something left, less was
\* executed than the volume of Y.
LEMMA LessThanVolume ==
    ASSUME NEW b, Book(b), NEW X \in SUBSET DOMAIN b, NEW Y \in SUBSET X,
           NEW left \in [DOMAIN b -> Nat], \A o \in X \ Y : left[o] = b[o].qty,
           NEW e \in Nat, e + Sum(left, X) = Volume(b, X),
           NEW z \in Y, left[z] > 0
    PROVE  e < Volume(b, Y)
<1> DEFINE g == [o \in DOMAIN b |-> b[o].qty]
           R == X \ Y
<1>1. /\ IsFiniteSet(X) /\ IsFiniteSet(Y) /\ IsFiniteSet(R)
      /\ (\A o \in X : left[o] \in Nat) /\ (\A o \in Y : left[o] \in Nat)
      /\ (\A o \in X : g[o] \in Nat) /\ (\A o \in R : left[o] = g[o])
      /\ left[z] \in Nat
  <2>1. IsFiniteSet(X) /\ IsFiniteSet(Y) /\ IsFiniteSet(R)
    <3>1. IsFiniteSet(DOMAIN b)
      BY DEF Book
    <3>2. X \in SUBSET DOMAIN b /\ Y \in SUBSET DOMAIN b /\ R \in SUBSET DOMAIN b
      OBVIOUS
    <3> HIDE DEF R
    <3> QED
      BY <3>1, <3>2, FS_Subset
  <2>2. \A o \in X : left[o] \in Nat /\ g[o] = b[o].qty /\ g[o] \in Nat
    BY DEF Book
  <2>3. \A o \in R : left[o] = g[o]
    OBVIOUS
  <2> HIDE DEF g, R
  <2> QED
    BY <2>1, <2>2, <2>3
<1>2. Volume(b, X) = Sum(g, X) /\ Volume(b, Y) = Sum(g, Y)
  BY SumUnfolded DEF Volume
<1> HIDE DEF g
<1>3. Sum(left, X) = Sum(left, Y) + Sum(left, R) /\ Sum(left, Y) \in Nat
  <2> HIDE DEF R
  <2>1. /\ Sum(left, Y) \in Nat /\ Sum(left, X) = Sum(left, Y) + Sum(left, X \ Y)
    BY <1>1, SumSubset
  <2> QED
    BY <2>1 DEF R
<1>4. Sum(g, X) = Sum(g, Y) + Sum(g, R) /\ Sum(g, Y) \in Nat /\ Sum(g, X) \in Nat
  <2> HIDE DEF R
  <2>1. /\ Sum(g, Y) \in Nat /\ Sum(g, X) \in Nat /\ Sum(g, X) = Sum(g, Y) + Sum(g, X \ Y)
    BY <1>1, SumSubset
  <2> QED
    BY <2>1 DEF R
<1> HIDE DEF R
<1>5. Sum(left, R) = Sum(g, R) /\ Sum(g, R) \in Nat
  <2>1. \A o \in R : g[o] \in Nat
    BY <1>1 DEF R
  <2> QED
    BY <1>1, <2>1, SumSame, SumNat
<1>6. Sum(left, Y) >= left[z]
  BY <1>1, SumTerm
<1> DEFINE sy == Sum(left, Y)
           sr == Sum(g, R)
           gy == Sum(g, Y)
<1>7. e + (sy + sr) = gy + sr /\ sy \in Nat /\ sr \in Nat /\ gy \in Nat /\ sy > 0
  <2>1. sy >= left[z] /\ left[z] \in Nat /\ sy \in Nat
    BY <1>1, <1>3, <1>6
  <2> QED
    BY <1>2, <1>3, <1>4, <1>5, <2>1
<1>8. e < gy
  <2> HIDE DEF sy, sr, gy
  <2> QED
    BY <1>7
<1> QED
  BY <1>2, <1>8

LEMMA LeftoversDoNotCross ==
    ASSUME NEW b, Book(b), NEW p \in Nat, NEW w, SweptWell(b, p, w),
           p = 0 => \A k \in Quoted(b) : ExecQty(b, k) = 0,
           p # 0 => \A k \in Quoted(b) : ExecQty(b, k) <= ExecQty(b, p),
           NEW x \in Bids(b), NEW y \in Asks(b), w.left[x] > 0, w.left[y] > 0
    PROVE  b[x].price < b[y].price
<1> SUFFICES ASSUME b[x].price >= b[y].price PROVE FALSE
  <2>1. b[x].price \in Nat /\ b[y].price \in Nat
    BY DEF Book, Bids, Asks
  <2> QED
    BY <2>1
<1>1. /\ x \in DOMAIN b /\ y \in DOMAIN b /\ b[x].side = "Bid" /\ b[y].side = "Ask"
      /\ b[x].price \in Nat \ {0} /\ b[y].price \in Nat \ {0}
      /\ b[x].price \in Quoted(b) /\ b[y].price \in Quoted(b)
  BY DEF Book, Bids, Asks, Quoted
<1>2. \A k \in Nat : /\ BidsOf(b, k) \in SUBSET DOMAIN b /\ AsksOf(b, k) \in SUBSET DOMAIN b
                     /\ CumBid(b, k) = Volume(b, BidsOf(b, k))
                     /\ CumAsk(b, k) = Volume(b, AsksOf(b, k))
                     /\ CumBid(b, k) \in Nat /\ CumAsk(b, k) \in Nat
                     /\ ExecQty(b, k) \in Nat
                     /\ ExecQty(b, k) = CumBid(b, k) \/ ExecQty(b, k) = CumAsk(b, k)
  <2> SUFFICES ASSUME NEW k \in Nat
               PROVE  /\ BidsOf(b, k) \in SUBSET DOMAIN b /\ AsksOf(b, k) \in SUBSET DOMAIN b
                      /\ CumBid(b, k) = Volume(b, BidsOf(b, k))
                      /\ CumAsk(b, k) = Volume(b, AsksOf(b, k))
                      /\ CumBid(b, k) \in Nat /\ CumAsk(b, k) \in Nat
                      /\ ExecQty(b, k) \in Nat
                      /\ ExecQty(b, k) = CumBid(b, k) \/ ExecQty(b, k) = CumAsk(b, k)
    OBVIOUS
  <2>1. BidsOf(b, k) \in SUBSET DOMAIN b /\ AsksOf(b, k) \in SUBSET DOMAIN b
    BY DEF BidsOf, AsksOf, Bids, Asks
  <2>2. /\ CumBid(b, k) = Volume(b, BidsOf(b, k))
        /\ CumAsk(b, k) = Volume(b, AsksOf(b, k))
    BY DEF CumBid, CumAsk, BidsOf, AsksOf
  <2>3. /\ CumBid(b, k) \in Nat /\ CumAsk(b, k) \in Nat /\ ExecQty(b, k) \in Nat
        /\ ExecQty(b, k) = CumBid(b, k) \/ ExecQty(b, k) = CumAsk(b, k)
    BY PriceFigures
  <2> QED
    BY <2>1, <2>2, <2>3
<1>3. CASE p = 0
  <2> DEFINE k == b[x].price
  <2>1. x \in BidsOf(b, k) /\ y \in AsksOf(b, k) /\ k \in Nat
    BY <1>1 DEF BidsOf, AsksOf
  <2> HIDE DEF k
  <2>2. CumBid(b, k) > 0 /\ CumAsk(b, k) > 0
    <3>1. \A T \in SUBSET DOMAIN b : \A z \in T : Volume(b, T) > 0
      <4> SUFFICES ASSUME NEW T \in SUBSET DOMAIN b, NEW z \in T PROVE Volume(b, T) > 0
        OBVIOUS
      <4>1. {} \in SUBSET T /\ z \in T \ {}
        OBVIOUS
      <4>2. Volume(b, {}) < Volume(b, T)
        BY <4>1, MoreVolume
      <4>3. Volume(b, T) \in Nat
        BY <4>1, MoreVolume
      <4> QED
        BY <4>2, <4>3, VolumeOfNone
    <3> QED
      BY <1>2, <2>1, <3>1
  <2>3. ExecQty(b, k) = 0
    BY <1>1, <1>3 DEF k
  <2> QED
    BY <1>2, <2>1, <2>2, <2>3
<1>4. CASE p # 0
  <2> DEFINE B == BidsOf(b, p)
             A == AsksOf(b, p)
             e == Executed(w)
  <2>1. /\ e = ExecQty(b, p) /\ e \in Nat
        /\ e + Sum(w.left, B) = Volume(b, B) /\ e + Sum(w.left, A) = Volume(b, A)
        /\ w.left \in [DOMAIN b -> Nat]
        /\ (\A o \in B : w.left[o] = 0) \/ (\A o \in A : w.left[o] = 0)
    BY <1>2 DEF SweptWell, Balanced
  <2>2. \A o, a \in DOMAIN b : b[a].side = b[o].side /\ Ahead(b, a, o) /\ w.left[o] < b[o].qty
                                   => w.left[a] = 0
    BY DEF SweptWell
  <2>3. \A o \in DOMAIN b : w.left[o] \in Nat /\ b[o].qty \in Nat /\ b[o].price \in Nat
                             /\ w.left[o] <= b[o].qty
    <3>1. \A o \in DOMAIN b : w.left[o] \in Nat /\ b[o].qty \in Nat /\ b[o].price \in Nat
      BY <2>1 DEF Book
    <3>2. \A o \in DOMAIN b : w.left[o] <= b[o].qty
      BY DEF SweptWell
    <3> QED
      BY <3>1, <3>2
  <2>4. IsFiniteSet(B) /\ IsFiniteSet(A) /\ B \in SUBSET DOMAIN b /\ A \in SUBSET DOMAIN b
    BY QueuesOfBook
  <2>5. w.left[x] # 0 /\ w.left[y] # 0
    BY <1>1, <2>3
  <2>6. ~(x \in B /\ y \in A)
    BY <2>1, <2>5
  <2>7. CASE x \notin B
    <3> DEFINE k == b[x].price
               Y == AsksOf(b, k)
    <3>1. b[x].price < p /\ b[y].price < p /\ b[y].price <= k /\ k \in Nat
      BY <1>1, <2>7 DEF BidsOf
    <3>2. y \in A /\ y \in Y /\ Y \in SUBSET A
      BY <1>1, <3>1, <2>3 DEF AsksOf, Asks
    <3>3. \A o \in B : w.left[o] = 0
      BY <2>1, <2>5, <3>2
    <3>4. Volume(b, B) = e /\ Volume(b, B) < CumBid(b, k)
      <4>1. Sum(w.left, B) = 0
        <5> HIDE DEF B
        <5> QED
          BY <2>4, <3>3, SumZero
      <4>2. x \in BidsOf(b, k) \ B /\ B \in SUBSET BidsOf(b, k)
        BY <1>1, <2>3, <2>7, <3>1 DEF BidsOf, Bids
      <4>3. Volume(b, B) < Volume(b, BidsOf(b, k))
        BY <1>2, <3>1, <4>2, MoreVolume
      <4> QED
        BY <1>2, <2>1, <3>1, <4>1, <4>3
    <3>5. e < CumAsk(b, k)
      <4>1. ASSUME NEW o \in A \ Y PROVE w.left[o] = b[o].qty
        <5>1. o \in DOMAIN b /\ b[o].side = "Ask" /\ b[o].price > k
          BY <2>3, <3>1 DEF AsksOf, Asks
        <5>2. Ahead(b, y, o) /\ b[y].side = b[o].side
          BY <1>1, <2>3, <3>1, <5>1 DEF Ahead
        <5>3. ~(w.left[o] < b[o].qty)
          BY <1>1, <2>2, <2>5, <5>1, <5>2
        <5> QED
          BY <2>3, <5>1, <5>3
      <4> HIDE DEF A, B, e, Y, k
      <4>2. e < Volume(b, Y)
        BY <2>1, <2>4, <3>2, <4>1, LessThanVolume
      <4> QED
        BY <1>2, <3>1, <4>2 DEF Y
    <3>6. e < CumBid(b, k)
      BY <3>4
    <3>7. ExecQty(b, k) <= ExecQty(b, p)
      BY <1>1, <1>4
    <3> QED
      BY <1>2, <2>1, <3>1, <3>5, <3>6, <3>7
  <2>8. CASE y \notin A
    <3> DEFINE k == b[y].price
               Y == BidsOf(b, k)
    <3>1. b[y].price > p /\ b[x].price > p /\ b[x].price >= k /\ k \in Nat
      BY <1>1, <2>8 DEF AsksOf
    <3>2. x \in B /\ x \in Y /\ Y \in SUBSET B
      BY <1>1, <3>1, <2>3 DEF BidsOf, Bids
    <3>3. \A o \in A : w.left[o] = 0
      BY <2>1, <2>5, <3>2
    <3>4. Volume(b, A) = e /\ Volume(b, A) < CumAsk(b, k)
      <4>1. Sum(w.left, A) = 0
        <5> HIDE DEF A
        <5> QED
          BY <2>4, <3>3, SumZero
      <4>2. y \in AsksOf(b, k) \ A /\ A \in SUBSET AsksOf(b, k)
        BY <1>1, <2>3, <2>8, <3>1 DEF AsksOf, Asks
      <4>3. Volume(b, A) < Volume(b, AsksOf(b, k))
        BY <1>2, <3>1, <4>2, MoreVolume
      <4> QED
        BY <1>2, <2>1, <3>1, <4>1, <4>3
    <3>5. e < CumBid(b, k)
      <4>1. ASSUME NEW o \in B \ Y PROVE w.left[o] = b[o].qty
        <5>1. o \in DOMAIN b /\ b[o].side = "Bid" /\ b[o].price < k
          BY <2>3, <3>1 DEF BidsOf, Bids
        <5>2. Ahead(b, x, o) /\ b[x].side = b[o].side
          BY <1>1, <2>3, <3>1, <5>1 DEF Ahead
        <5>3. ~(w.left[o] < b[o].qty)
          BY <1>1, <2>2, <2>5, <5>1, <5>2
        <5> QED
          BY <2>3, <5>1, <5>3
      <4> HIDE DEF A, B, e, Y, k
      <4>2. e < Volume(b, Y)
        BY <2>1, <2>4, <3>2, <4>1, LessThanVolume
      <4> QED
        BY <1>2, <3>1, <4>2 DEF Y
    <3>6. e < CumAsk(b, k)
      BY <3>4
    <3>7. ExecQty(b, k) <= ExecQty(b, p)
      BY <1>1, <1>4
    <3> QED
      BY <1>2, <2>1, <3>1, <3>5, <3>6, <3>7
  <2> QED
    BY <2>6, <2>7, <2>8
<1> QED
  BY <1>3, <1>4

------------------------------------------------------------------------------
(* The sweep at the clearing price.                                          *)

LEMMA ClearingFacts ==
    ASSUME Filled
    PROVE  /\ Book(ab) /\ ClearingPrice \in Nat
           /\ ClearingPrice = 0 => \A k \in Quoted(ab) : ExecQty(ab, k) = 0
           /\ ClearingPrice # 0 => \A k \in Quoted(ab) :
                                       ExecQty(ab, k) <= ExecQty(ab, ClearingPrice)
           /\ SweptWell(ab, ClearingPrice, Swept)
<1> DEFINE p == ClearingPrice
<1>1. Book(ab) /\ ReferencePrice \in Nat
  BY FilledIsBook
<1>2. Quoted(ab) \subseteq Nat \ {0} /\ IsFiniteSet(Quoted(ab))
  BY <1>1, QuotedPrices
<1>3. p = ComputeClearingPrice(ab, ReferencePrice)
  BY DEF ClearingPrice
<1>4. /\ p \in Nat
      /\ p = 0 => \A k \in Quoted(ab) : ExecQty(ab, k) = 0
      /\ p # 0 => \A k \in Quoted(ab) : ExecQty(ab, k) <= ExecQty(ab, p)
  <2>1. CASE DOMAIN ab = {}
    <3>1. p = 0
      BY <1>3, <2>1 DEF ComputeClearingPrice, Bids
    <3>2. Quoted(ab) = {}
      BY <2>1 DEF Quoted
    <3> QED
      BY <3>1, <3>2
  <2>2. CASE DOMAIN ab # {}
    <3>1. Quoted(ab) # {}
      BY <2>2 DEF Quoted
    <3>2. BestUpTo(ab, ReferencePrice, Max(Quoted(ab)), p)
      BY <1>1, <1>3, <2>2, ClearingPriceIsBest
    <3>3. \A k \in Quoted(ab) : k <= Max(Quoted(ab))
      BY <1>2, <3>1, Greatest
    <3> HIDE DEF p
    <3>4. \A k \in Quoted(ab) : ExecQty(ab, k) \in Nat
      BY <1>1, <1>2, PriceFigures
    <3>5. p # 0 => p \in Quoted(ab) /\ \A k \in Quoted(ab) : NoBetter(ab, ReferencePrice, k, p)
      BY <3>2, <3>3 DEF BestUpTo
    <3>6. p = 0 => \A k \in Quoted(ab) : ExecQty(ab, k) = 0
      BY <3>2, <3>3 DEF BestUpTo
    <3>7. p # 0 => \A k \in Quoted(ab) : ExecQty(ab, k) <= ExecQty(ab, p)
      BY <3>4, <3>5 DEF NoBetter
    <3> QED
      BY <1>2, <3>5, <3>6, <3>7
  <2> QED
    BY <2>1, <2>2
<1>5. SweptWell(ab, p, Swept)
  <2> HIDE DEF p
  <2>1. SweptWell(ab, p, SweepResult(ab, p))
    BY <1>1, <1>4, SweepIsWell
  <2>2. Swept = SweepResult(ab, p)
    BY DEF Swept, p
  <2> QED
    BY <2>1, <2>2
<1> QED
  BY <1>1, <1>4, <1>5

\* The sweep (Sweep) executes the whole executable volume between orders that accept the
\* price and overtakes nobody, for every sequence of orders.
LEMMA BookIsSweptFairly ==
    ASSUME Filled
    PROVE  SweepIsFair
<1> DEFINE p == ClearingPrice
           w == Swept
           touched == {o \in DOMAIN ab : w.left[o] < ab[o].qty}
<1>1. SweptWell(ab, p, w) /\ p \in Nat
  BY ClearingFacts
<1> HIDE DEF p, w
<1>2. SumFunction([i \in DOMAIN w.fills |-> w.fills[i].qty]) = ExecQty(ab, p)
  <2> DEFINE g == [i \in DOMAIN w.fills |-> w.fills[i].qty]
  <2>1. DOMAIN g = DOMAIN w.fills
    OBVIOUS
  <2>2. SumFunction(g) = Sum(g, DOMAIN w.fills)
    BY <2>1, SumUnfolded DEF SumFunction
  <2>3. Executed(w) = Sum(g, DOMAIN w.fills)
    BY DEF Executed, QtyOf
  <2>4. Executed(w) = ExecQty(ab, p)
    BY <1>1 DEF SweptWell
  <2> QED
    BY <2>2, <2>3, <2>4
<1>3. ASSUME NEW i \in DOMAIN w.fills
      PROVE  /\ w.fills[i].qty > 0
             /\ ab[w.fills[i].maker].price <= p
             /\ ab[w.fills[i].taker].price >= p
  <2>1. w.fills[i] \in FillOf(ab, p)
    <3> DEFINE fs == w.fills
    <3>1. fs \in Seq(FillOf(ab, p)) /\ i \in DOMAIN fs
      BY <1>1 DEF SweptWell
    <3> HIDE DEF fs
    <3>2. DOMAIN fs = 1..Len(fs)
      BY <3>1, LenProperties
    <3>3. fs[i] \in FillOf(ab, p)
      BY <3>1, <3>2, ElementOfSeq
    <3> QED
      BY <3>3 DEF fs
  <2> QED
    BY <2>1 DEF FillOf, BidsOf, AsksOf
<1>4. ASSUME NEW o \in touched, NEW a \in DOMAIN ab, ab[a].side = ab[o].side, Ahead(ab, a, o)
      PROVE  w.left[a] = 0
  BY <1>1, <1>4 DEF SweptWell
<1> QED
  BY <1>2, <1>3, <1>4 DEF SweepIsFair, p, w

\* No bid that the auction leaves over crosses an ask that it leaves over: what Sweep hands
\* to the continuous book cannot trade with itself.
LEMMA BookIsLeftUncrossed ==
    ASSUME Filled
    PROVE  NothingLeftCrosses
<1> SUFFICES ASSUME NEW x \in Bids(ab), NEW y \in Asks(ab), Swept.left[x] > 0, Swept.left[y] > 0
             PROVE  ab[x].price < ab[y].price
  BY DEF NothingLeftCrosses
<1> QED
  BY ClearingFacts, LeftoversDoNotCross

------------------------------------------------------------------------------
(* The theorems.                                                             *)

\* The clearing price maximises the executable volume, leaves the smallest imbalance among
\* the quoted prices of that volume and is then nearest to the reference price, for every
\* sequence of orders that AddOrder has collected (ComputeClearingPrice).
THEOREM ClearingPriceIsRight == Spec => []ClearingIsBest
<1>1. Filled => ClearingIsBest
  BY BookIsCleared
<1> QED
  BY <1>1, InitFilled, StepFilled, PTL DEF Spec

\* Sweep executes exactly the executable volume, only between orders that accept the price,
\* and touches nobody while an order of his side with priority has quantity left.
THEOREM SweepsAreFair == Spec => []SweepIsFair
<1>1. Filled => SweepIsFair
  BY BookIsSweptFairly
<1> QED
  BY <1>1, InitFilled, StepFilled, PTL DEF Spec

\* What the auction leaves over does not cross: ComputeClearingPrice and Sweep together.
THEOREM LeftoversRest == Spec => []NothingLeftCrosses
<1>1. Filled => NothingLeftCrosses
  BY BookIsLeftUncrossed
<1> QED
  BY <1>1, InitFilled, StepFilled, PTL DEF Spec
=============================================================================

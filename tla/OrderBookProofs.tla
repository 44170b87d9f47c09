-------------------------- MODULE OrderBookProofs --------------------------
(***************************************************************************)
(* Proofs about OrderBook, for every set of orders, users and commands and *)
(* every capacity: its types, the agreement of its data structures, and    *)
(* that no emptied level is left behind.                                   *)
(***************************************************************************)
EXTENDS OrderBook, SequenceTheorems, FiniteSetTheorems, TLAPS

------------------------------------------------------------------------------
(* Lemmas about queues.                                                      *)

\* Removing the element at position i from a queue: the element before and after it
\* keep their order, and nothing else is lost.
LEMMA RemoveAtShift ==
    ASSUME NEW S, NEW q \in Seq(S), NEW i \in 1..Len(q)
    PROVE  /\ RemoveAt(q, i) \in Seq(S)
           /\ Len(RemoveAt(q, i)) = Len(q) - 1
           /\ \A k \in 1..(Len(q) - 1) :
                 RemoveAt(q, i)[k] = IF k < i THEN q[k] ELSE q[k + 1]
<1> DEFINE a == SubSeq(q, 1, i - 1)
           b == SubSeq(q, i + 1, Len(q))
<1>0. Len(q) \in Nat /\ \A k \in 1..Len(q) : q[k] \in S
  BY LenProperties, ElementOfSeq
<1>1. /\ a \in Seq(S) /\ Len(a) = i - 1
      /\ \A k \in 1..(i - 1) : a[k] = q[k]
  <2>1. \A k \in 1..(i - 1) : q[k] \in S
    BY <1>0
  <2>2. i - 1 \in Int /\ 1 \in Int
    BY <1>0
  <2> QED
    BY <2>1, <2>2, <1>0, SubSeqProperties, SMT
<1>2. /\ b \in Seq(S) /\ Len(b) = Len(q) - i
      /\ \A k \in 1..(Len(q) - i) : b[k] = q[i + k]
  <2>1. \A k \in (i + 1)..Len(q) : q[k] \in S
    BY <1>0
  <2>2. i + 1 \in Int /\ Len(q) \in Int
    BY <1>0
  <2>3. /\ b \in Seq(S)
        /\ Len(b) = IF i + 1 <= Len(q) THEN Len(q) - (i + 1) + 1 ELSE 0
        /\ \A k \in 1..(Len(q) - (i + 1) + 1) : b[k] = q[(i + 1) + k - 1]
    BY <2>1, <2>2, SubSeqProperties
  <2> QED
    BY <2>3, <1>0
<1> HIDE DEF a, b
<1>3. /\ a \o b \in Seq(S)
      /\ Len(a \o b) = Len(a) + Len(b)
      /\ \A k \in 1..(Len(a) + Len(b)) :
            (a \o b)[k] = IF k <= Len(a) THEN a[k] ELSE b[k - Len(a)]
  BY <1>1, <1>2, ConcatProperties
<1>4. RemoveAt(q, i) = a \o b
  BY DEF RemoveAt, a, b
<1>5. Len(a) + Len(b) = Len(q) - 1
  BY <1>0, <1>1, <1>2
<1>6. ASSUME NEW k \in 1..(Len(q) - 1)
      PROVE  (a \o b)[k] = IF k < i THEN q[k] ELSE q[k + 1]
  <2>1. CASE k < i
    <3>1. k <= Len(a) /\ k \in 1..(Len(a) + Len(b)) /\ k \in 1..(i - 1)
      BY <2>1, <1>0, <1>1, <1>5
    <3> QED
      BY <3>1, <1>1, <1>3, <2>1
  <2>2. CASE ~(k < i)
    <3>1. ~(k <= Len(a)) /\ k \in 1..(Len(a) + Len(b))
      BY <2>2, <1>0, <1>1, <1>5
    <3>2. k - Len(a) = k - i + 1 /\ k - i + 1 \in 1..(Len(q) - i)
      BY <2>2, <1>0, <1>1
    <3>3. i + (k - i + 1) = k + 1
      BY <1>0
    <3> QED
      BY <3>1, <3>2, <3>3, <1>2, <1>3, <2>2
  <2> QED
    BY <2>1, <2>2
<1> QED
  BY <1>3, <1>4, <1>5, <1>6

\* Where an order stands in a queue that holds it.
LEMMA PositionInQueue ==
    ASSUME NEW S, NEW q \in Seq(S), NEW o \in Range(q)
    PROVE  PositionIn(q, o) \in 1..Len(q) /\ q[PositionIn(q, o)] = o
<1>1. \E i \in DOMAIN q : q[i] = o
  BY DEF Range
<1>2. DOMAIN q = 1..Len(q)
  BY LenProperties
<1> QED
  BY <1>1, <1>2 DEF PositionIn

\* Taking an order out of a queue without repetitions.
LEMMA RemoveFromQueue ==
    ASSUME NEW S, NEW q \in Seq(S), IsInjective(q), NEW o \in Range(q)
    PROVE  LET r == RemoveAt(q, PositionIn(q, o)) IN
           /\ r \in Seq(S)
           /\ IsInjective(r)
           /\ Range(r) = Range(q) \ {o}
           /\ Len(r) = Len(q) - 1
<1> DEFINE i == PositionIn(q, o)
           r == RemoveAt(q, i)
<1>1. i \in 1..Len(q) /\ q[i] = o
  BY PositionInQueue
<1>2. /\ Len(q) \in Nat /\ DOMAIN q = 1..Len(q)
  BY LenProperties
<1> HIDE DEF i
<1>3. /\ r \in Seq(S)
      /\ Len(r) = Len(q) - 1
      /\ \A k \in 1..(Len(q) - 1) : r[k] = IF k < i THEN q[k] ELSE q[k + 1]
  BY <1>1, RemoveAtShift
<1>4. DOMAIN r = 1..(Len(q) - 1)
  BY <1>3, LenProperties
<1> HIDE DEF r
<1>5. \A j, k \in 1..Len(q) : q[j] = q[k] => j = k
  BY <1>2 DEF IsInjective
<1>6. IsInjective(r)
  <2> SUFFICES ASSUME NEW j \in 1..(Len(q) - 1), NEW k \in 1..(Len(q) - 1), r[j] = r[k]
               PROVE  j = k
    BY <1>4 DEF IsInjective
  <2> QED
    BY <1>1, <1>2, <1>3, <1>5
<1>7. ASSUME NEW x \in Range(r) PROVE x \in Range(q) \ {o}
  <2>1. PICK k \in 1..(Len(q) - 1) : x = r[k]
    BY <1>4, <1>7 DEF Range
  <2>2. \E j \in 1..Len(q) : j # i /\ x = q[j]
    BY <2>1, <1>1, <1>2, <1>3
  <2> QED
    BY <2>2, <1>1, <1>2, <1>5 DEF Range
<1>8. ASSUME NEW x \in Range(q) \ {o} PROVE x \in Range(r)
  <2>1. PICK j \in 1..Len(q) : x = q[j]
    BY <1>2, <1>8 DEF Range
  <2>2. j # i
    BY <2>1, <1>1, <1>8
  <2>3. \E k \in 1..(Len(q) - 1) : x = r[k]
    <3>1. CASE j < i
      <4>1. j \in 1..(Len(q) - 1)
        BY <3>1, <1>1, <1>2
      <4> QED
        BY <4>1, <3>1, <2>1, <1>3
    <3>2. CASE j > i
      <4>1. j - 1 \in 1..(Len(q) - 1) /\ ~(j - 1 < i) /\ (j - 1) + 1 = j
        BY <3>2, <1>1, <1>2
      <4> QED
        BY <4>1, <2>1, <1>3
    <3> QED
      BY <3>1, <3>2, <2>2, <1>1, <1>2
  <2> QED
    BY <2>3, <1>4 DEF Range
<1> QED
  BY <1>3, <1>6, <1>7, <1>8 DEF i, r

\* Appending an order that a queue does not hold.
LEMMA AppendToQueue ==
    ASSUME NEW S, NEW q \in Seq(S), IsInjective(q), NEW o \in S, o \notin Range(q)
    PROVE  /\ Append(q, o) \in Seq(S)
           /\ Append(q, o) # <<>>
           /\ IsInjective(Append(q, o))
           /\ Range(Append(q, o)) = Range(q) \cup {o}
           /\ Len(Append(q, o)) = Len(q) + 1
           /\ \A k \in 1..Len(q) : Append(q, o)[k] = q[k]
           /\ Append(q, o)[Len(q) + 1] = o
<1> DEFINE r == Append(q, o)
<1>1. /\ r \in Seq(S) /\ r # <<>> /\ Len(r) = Len(q) + 1
      /\ \A k \in 1..Len(q) : r[k] = q[k]
      /\ r[Len(q) + 1] = o
  BY AppendProperties
<1>2. Len(q) \in Nat /\ DOMAIN q = 1..Len(q)
  BY LenProperties
<1>3. DOMAIN r = 1..(Len(q) + 1)
  BY <1>1, LenProperties
<1> HIDE DEF r
<1>4. \A k \in 1..Len(q) : q[k] # o
  BY <1>2 DEF Range
<1>5. IsInjective(r)
  <2>1. \A j, k \in 1..Len(q) : q[j] = q[k] => j = k
    BY <1>2 DEF IsInjective
  <2> SUFFICES ASSUME NEW j \in 1..(Len(q) + 1), NEW k \in 1..(Len(q) + 1), r[j] = r[k]
               PROVE  j = k
    BY <1>3 DEF IsInjective
  <2> QED
    BY <2>1, <1>1, <1>2, <1>4
<1>6. Range(r) = Range(q) \cup {o}
  <2>1. ASSUME NEW x \in Range(r) PROVE x \in Range(q) \cup {o}
    <3>1. PICK k \in 1..(Len(q) + 1) : x = r[k]
      BY <2>1, <1>3 DEF Range
    <3> QED
      BY <3>1, <1>1, <1>2 DEF Range
  <2>2. ASSUME NEW x \in Range(q) \cup {o} PROVE x \in Range(r)
    <3>1. CASE x = o
      <4>1. Len(q) + 1 \in 1..(Len(q) + 1)
        BY <1>2
      <4> QED
        BY <4>1, <3>1, <1>1, <1>3 DEF Range
    <3>2. CASE x \in Range(q)
      <4>1. PICK k \in 1..Len(q) : x = q[k]
        BY <3>2, <1>2 DEF Range
      <4>2. k \in 1..(Len(q) + 1)
        BY <1>2
      <4> QED
        BY <4>1, <4>2, <1>1, <1>3 DEF Range
    <3> QED
      BY <3>1, <3>2, <2>2
  <2> QED
    BY <2>1, <2>2
<1> QED
  BY <1>1, <1>5, <1>6 DEF r

\* The head of a queue is its first position; removing it makes its successor the head.
LEMMA HeadOfQueue ==
    ASSUME NEW S, NEW q \in Seq(S), IsInjective(q), q # <<>>
    PROVE  /\ Head(q) = q[1]
           /\ Head(q) \in Range(q)
           /\ Head(q) \in S
           /\ PositionIn(q, Head(q)) = 1
           /\ LET r == RemoveAt(q, PositionIn(q, Head(q))) IN
              NextAfter(q, Head(q)) = IF r = <<>> THEN Nil ELSE Head(r)
<1>1. Len(q) \in Nat /\ Len(q) >= 1 /\ DOMAIN q = 1..Len(q)
  BY LenProperties, EmptySeq
<1>2. Head(q) = q[1] /\ Head(q) \in S
  BY <1>1, ElementOfSeq
<1>3. Head(q) \in Range(q)
  BY <1>1, <1>2 DEF Range
<1>4. PositionIn(q, Head(q)) = 1
  <2>1. PositionIn(q, Head(q)) \in 1..Len(q) /\ q[PositionIn(q, Head(q))] = q[1]
    BY <1>2, <1>3, PositionInQueue
  <2> QED
    BY <2>1, <1>1 DEF IsInjective
<1>5. 1 \in 1..Len(q)
  BY <1>1
<1> DEFINE r == RemoveAt(q, 1)
<1>6. /\ r \in Seq(S) /\ Len(r) = Len(q) - 1
      /\ \A k \in 1..(Len(q) - 1) : r[k] = IF k < 1 THEN q[k] ELSE q[k + 1]
  BY <1>5, RemoveAtShift
<1> HIDE DEF r
<1>7. NextAfter(q, Head(q)) = IF 1 < Len(q) THEN q[2] ELSE Nil
  BY <1>4 DEF NextAfter
<1>8. CASE Len(q) = 1
  <2>1. r = <<>>
    BY <1>6, <1>8, EmptySeq
  <2> QED
    BY <2>1, <1>2, <1>3, <1>4, <1>7, <1>8 DEF r
<1>9. CASE Len(q) > 1
  <2>1. r # <<>> /\ Len(r) >= 1 /\ r[1] = q[2]
    BY <1>1, <1>6, <1>9, EmptySeq
  <2>2. Head(r) = r[1]
    BY <2>1, <1>6
  <2> QED
    BY <2>1, <2>2, <1>2, <1>3, <1>4, <1>7, <1>9 DEF r
<1> QED
  BY <1>1, <1>8, <1>9

------------------------------------------------------------------------------
(* Lemmas about the trees and the index, whatever action changes them.       *)

OrdersAt(ix, s, p) == {o \in DOMAIN ix : ix[o].side = s /\ ix[o].price = p}

IndexShape(ix) == DOMAIN ix \subseteq OrderIds /\ \A o \in DOMAIN ix : ix[o] \in Node

\* The types of both structures and the agreement QueuesMatchIndex states.
Shape(tr, ix) ==
    /\ IndexShape(ix)
    /\ DOMAIN tr = Side
    /\ \A s \in Side : DOMAIN tr[s] \subseteq Price
    /\ \A s \in Side : \A p \in DOMAIN tr[s] :
          /\ tr[s][p] \in Level
          /\ IsInjective(tr[s][p].queue)
          /\ Range(tr[s][p].queue) = OrdersAt(ix, s, p)
    /\ \A o \in DOMAIN ix : ix[o].price \in DOMAIN tr[ix[o].side]

PutLevel(tr, s, p, l) == [tr EXCEPT ![s] = Put(tr[s], p, l)]
DeleteLevel(tr, s, p) == [tr EXCEPT ![s] = Delete(tr[s], p)]

\* What reading a tree gives after one level is put into it.
LEMMA ReadPutLevel ==
    ASSUME NEW tr, DOMAIN tr = Side, NEW s \in Side, NEW p, NEW l
    PROVE  /\ DOMAIN PutLevel(tr, s, p, l) = Side
           /\ DOMAIN PutLevel(tr, s, p, l)[s] = DOMAIN tr[s] \cup {p}
           /\ PutLevel(tr, s, p, l)[s][p] = l
           /\ \A r \in DOMAIN tr[s] \ {p} : PutLevel(tr, s, p, l)[s][r] = tr[s][r]
           /\ \A t \in Side \ {s} : PutLevel(tr, s, p, l)[t] = tr[t]
BY DEF PutLevel, Put

\* And after one level is deleted from it.
LEMMA ReadDeleteLevel ==
    ASSUME NEW tr, DOMAIN tr = Side, NEW s \in Side, NEW p
    PROVE  /\ DOMAIN DeleteLevel(tr, s, p) = Side
           /\ DOMAIN DeleteLevel(tr, s, p)[s] = DOMAIN tr[s] \ {p}
           /\ \A r \in DOMAIN tr[s] \ {p} : DeleteLevel(tr, s, p)[s][r] = tr[s][r]
           /\ \A t \in Side \ {s} : DeleteLevel(tr, s, p)[t] = tr[t]
BY DEF DeleteLevel, Delete

\* Replacing the level at (s, p) by one that holds exactly the orders the new index has
\* there keeps the agreement, if the other places are as before.
LEMMA PutLevelShape ==
    ASSUME NEW tr, NEW ix, Shape(tr, ix), NEW jx, IndexShape(jx),
           NEW s \in Side, NEW p \in Price, NEW l \in Level,
           IsInjective(l.queue), Range(l.queue) = OrdersAt(jx, s, p),
           \A t \in Side, r \in Price : <<t, r>> # <<s, p>> =>
               OrdersAt(jx, t, r) = OrdersAt(ix, t, r)
    PROVE  Shape(PutLevel(tr, s, p, l), jx)
<1> DEFINE t2 == PutLevel(tr, s, p, l)
<1>1. /\ DOMAIN t2 = Side
      /\ DOMAIN t2[s] = DOMAIN tr[s] \cup {p}
      /\ t2[s][p] = l
      /\ \A r \in DOMAIN tr[s] \ {p} : t2[s][r] = tr[s][r]
      /\ \A t \in Side \ {s} : t2[t] = tr[t]
  BY ReadPutLevel DEF Shape
<1> HIDE DEF t2
<1>2. \A t \in Side : DOMAIN t2[t] \subseteq Price
  BY <1>1 DEF Shape
<1>3. ASSUME NEW t \in Side, NEW r \in DOMAIN t2[t]
      PROVE  /\ t2[t][r] \in Level
             /\ IsInjective(t2[t][r].queue)
             /\ Range(t2[t][r].queue) = OrdersAt(jx, t, r)
  <2>1. CASE t = s /\ r = p
    BY <2>1, <1>1
  <2>2. CASE ~(t = s /\ r = p)
    <3>1. r \in DOMAIN tr[t] /\ t2[t][r] = tr[t][r]
      BY <2>2, <1>1
    <3>2. OrdersAt(jx, t, r) = OrdersAt(ix, t, r)
      BY <2>2, <3>1 DEF Shape
    <3> QED
      BY <3>1, <3>2 DEF Shape
  <2> QED
    BY <2>1, <2>2
<1>4. ASSUME NEW o \in DOMAIN jx
      PROVE  jx[o].price \in DOMAIN t2[jx[o].side]
  <2>1. jx[o].side \in Side /\ jx[o].price \in Price
    BY DEF IndexShape, Node
  <2>2. CASE jx[o].side = s /\ jx[o].price = p
    BY <2>2, <1>1
  <2>3. CASE ~(jx[o].side = s /\ jx[o].price = p)
    <3>1. o \in OrdersAt(ix, jx[o].side, jx[o].price)
      BY <2>1, <2>3 DEF OrdersAt
    <3>2. jx[o].price \in DOMAIN tr[jx[o].side]
      BY <3>1 DEF OrdersAt, Shape
    <3> QED
      BY <3>2, <2>1, <1>1
  <2> QED
    BY <2>2, <2>3
<1> QED
  BY <1>1, <1>2, <1>3, <1>4 DEF Shape, t2

\* Deleting the level at (s, p) keeps the agreement if the new index has no order there
\* and the other places are as before.
LEMMA DeleteLevelShape ==
    ASSUME NEW tr, NEW ix, Shape(tr, ix), NEW jx, IndexShape(jx),
           NEW s \in Side, NEW p \in Price, OrdersAt(jx, s, p) = {},
           \A t \in Side, r \in Price : <<t, r>> # <<s, p>> =>
               OrdersAt(jx, t, r) = OrdersAt(ix, t, r)
    PROVE  Shape(DeleteLevel(tr, s, p), jx)
<1> DEFINE t2 == DeleteLevel(tr, s, p)
<1>1. /\ DOMAIN t2 = Side
      /\ DOMAIN t2[s] = DOMAIN tr[s] \ {p}
      /\ \A r \in DOMAIN tr[s] \ {p} : t2[s][r] = tr[s][r]
      /\ \A t \in Side \ {s} : t2[t] = tr[t]
  BY ReadDeleteLevel DEF Shape
<1> HIDE DEF t2
<1>2. \A t \in Side : DOMAIN t2[t] \subseteq Price
  BY <1>1 DEF Shape
<1>3. ASSUME NEW t \in Side, NEW r \in DOMAIN t2[t]
      PROVE  /\ t2[t][r] \in Level
             /\ IsInjective(t2[t][r].queue)
             /\ Range(t2[t][r].queue) = OrdersAt(jx, t, r)
  <2>1. r \in DOMAIN tr[t] /\ t2[t][r] = tr[t][r] /\ <<t, r>> # <<s, p>>
    BY <1>1
  <2>2. OrdersAt(jx, t, r) = OrdersAt(ix, t, r)
    BY <2>1 DEF Shape
  <2> QED
    BY <2>1, <2>2 DEF Shape
<1>4. ASSUME NEW o \in DOMAIN jx
      PROVE  jx[o].price \in DOMAIN t2[jx[o].side]
  <2>1. jx[o].side \in Side /\ jx[o].price \in Price
    BY DEF IndexShape, Node
  <2>2. <<jx[o].side, jx[o].price>> # <<s, p>>
    BY DEF OrdersAt
  <2>3. o \in OrdersAt(ix, jx[o].side, jx[o].price)
    BY <2>1, <2>2 DEF OrdersAt
  <2>4. jx[o].price \in DOMAIN tr[jx[o].side]
    BY <2>3 DEF OrdersAt, Shape
  <2> QED
    BY <2>1, <2>2, <2>4, <1>1
<1> QED
  BY <1>1, <1>2, <1>3, <1>4 DEF Shape, t2

\* A new order in the index: it is at its own place and nowhere else.
LEMMA PutOrder ==
    ASSUME NEW ix, IndexShape(ix), NEW o \in OrderIds, o \notin DOMAIN ix, NEW n \in Node
    PROVE  /\ IndexShape(Put(ix, o, n))
           /\ OrdersAt(Put(ix, o, n), n.side, n.price)
                 = OrdersAt(ix, n.side, n.price) \cup {o}
           /\ \A t \in Side, r \in Price : <<t, r>> # <<n.side, n.price>> =>
                 OrdersAt(Put(ix, o, n), t, r) = OrdersAt(ix, t, r)
<1> DEFINE jx == Put(ix, o, n)
<1>1. /\ DOMAIN jx = DOMAIN ix \cup {o}
      /\ jx[o] = n
      /\ \A x \in DOMAIN ix : jx[x] = ix[x]
  BY DEF Put
<1> HIDE DEF jx
<1> QED
  BY <1>1 DEF IndexShape, OrdersAt, jx

\* An order taken out of the index is missing at its own place only.
LEMMA DeleteOrder ==
    ASSUME NEW ix, IndexShape(ix), NEW o \in DOMAIN ix
    PROVE  /\ IndexShape(Delete(ix, o))
           /\ OrdersAt(Delete(ix, o), ix[o].side, ix[o].price)
                 = OrdersAt(ix, ix[o].side, ix[o].price) \ {o}
           /\ \A t \in Side, r \in Price : <<t, r>> # <<ix[o].side, ix[o].price>> =>
                 OrdersAt(Delete(ix, o), t, r) = OrdersAt(ix, t, r)
<1> DEFINE jx == Delete(ix, o)
<1>1. /\ DOMAIN jx = DOMAIN ix \ {o}
      /\ \A x \in DOMAIN ix \ {o} : jx[x] = ix[x]
  BY DEF Delete
<1> HIDE DEF jx
<1> QED
  BY <1>1 DEF IndexShape, OrdersAt, jx

\* An order rewritten without a change of side or price stays where it is.
LEMMA RewriteOrder ==
    ASSUME NEW ix, IndexShape(ix), NEW o \in DOMAIN ix, NEW n \in Node,
           n.side = ix[o].side, n.price = ix[o].price
    PROVE  /\ IndexShape([ix EXCEPT ![o] = n])
           /\ \A t \in Side, r \in Price :
                 OrdersAt([ix EXCEPT ![o] = n], t, r) = OrdersAt(ix, t, r)
<1> DEFINE jx == [ix EXCEPT ![o] = n]
<1>1. /\ DOMAIN jx = DOMAIN ix
      /\ jx[o] = n
      /\ \A x \in DOMAIN ix \ {o} : jx[x] = ix[x]
  OBVIOUS
<1> HIDE DEF jx
<1> QED
  BY <1>1 DEF IndexShape, OrdersAt, jx

\* restNode keeps the agreement.
LEMMA RestShape ==
    ASSUME NEW tr, NEW ix, Shape(tr, ix),
           NEW o \in OrderIds, o \notin DOMAIN ix, NEW n \in Node,
           NEW l, l \in Level,
           \/ n.price \in DOMAIN tr[n.side] /\ l = tr[n.side][n.price]
           \/ n.price \notin DOMAIN tr[n.side] /\ l = EmptyLevel
    PROVE  /\ Shape(PutLevel(tr, n.side, n.price, Enqueue(l, o, n)), Put(ix, o, n))
           /\ Enqueue(l, o, n).queue = Append(l.queue, o)
<1> DEFINE k == Enqueue(l, o, n)
<1>1. n.side \in Side /\ n.price \in Price /\ n.remain \in Nat /\ n.display \in Nat
  BY DEF Node
<1>2. /\ l.queue \in Seq(OrderIds)
      /\ l.total \in Int /\ l.display \in Int /\ l.count \in Int
  BY DEF Level
<1>3. IsInjective(l.queue) /\ Range(l.queue) = OrdersAt(ix, n.side, n.price)
  <2>1. CASE n.price \in DOMAIN tr[n.side] /\ l = tr[n.side][n.price]
    BY <2>1, <1>1 DEF Shape
  <2>2. CASE n.price \notin DOMAIN tr[n.side] /\ l = EmptyLevel
    <3>1. l.queue = <<>>
      BY <2>2 DEF EmptyLevel
    <3>2. OrdersAt(ix, n.side, n.price) = {}
      BY <2>2 DEF Shape, OrdersAt
    <3>3. DOMAIN l.queue = {}
      BY <3>1
    <3> QED
      BY <3>2, <3>3 DEF IsInjective, Range
  <2> QED
    BY <2>1, <2>2
<1>4. o \notin Range(l.queue)
  BY <1>3 DEF OrdersAt
<1>5. /\ Append(l.queue, o) \in Seq(OrderIds)
      /\ IsInjective(Append(l.queue, o))
      /\ Range(Append(l.queue, o)) = Range(l.queue) \cup {o}
  BY <1>2, <1>3, <1>4, AppendToQueue
<1>6. k.queue = Append(l.queue, o)
  BY DEF Enqueue
<1>7. k \in Level
  BY <1>1, <1>2, <1>5 DEF Enqueue, Level
<1>8. IndexShape(ix)
  BY DEF Shape
<1> DEFINE jx == Put(ix, o, n)
<1>9. /\ IndexShape(jx)
      /\ OrdersAt(jx, n.side, n.price) = OrdersAt(ix, n.side, n.price) \cup {o}
      /\ \A t \in Side, r \in Price : <<t, r>> # <<n.side, n.price>> =>
            OrdersAt(jx, t, r) = OrdersAt(ix, t, r)
  BY <1>8, PutOrder
<1>10. IsInjective(k.queue) /\ Range(k.queue) = OrdersAt(jx, n.side, n.price)
  BY <1>3, <1>5, <1>6, <1>9
<1> DEFINE s == n.side
           p == n.price
<1>11. /\ s \in Side /\ p \in Price /\ k \in Level
       /\ IsInjective(k.queue) /\ Range(k.queue) = OrdersAt(jx, s, p)
       /\ \A t \in Side, r \in Price : <<t, r>> # <<s, p>> =>
             OrdersAt(jx, t, r) = OrdersAt(ix, t, r)
       /\ IndexShape(jx)
  BY <1>1, <1>7, <1>9, <1>10
<1> HIDE DEF k, jx, s, p
<1>12. Shape(PutLevel(tr, s, p, k), jx)
  BY <1>11, PutLevelShape
<1> QED
  BY <1>6, <1>12 DEF k, jx, s, p

\* An order taken out of the level it is queued at.
LEMMA UnlinkLevel ==
    ASSUME NEW tr, NEW ix, Shape(tr, ix), NEW o \in DOMAIN ix, NEW m \in Node,
           NEW l \in Level, l.queue = tr[ix[o].side][ix[o].price].queue
    PROVE  /\ Unlink(l, o, m) \in Level
           /\ Unlink(l, o, m).queue = RemoveAt(l.queue, PositionIn(l.queue, o))
           /\ IsInjective(Unlink(l, o, m).queue)
           /\ Range(Unlink(l, o, m).queue) = OrdersAt(ix, ix[o].side, ix[o].price) \ {o}
           /\ o \in Range(l.queue)
<1>1. /\ ix[o].side \in Side
      /\ ix[o].price \in DOMAIN tr[ix[o].side]
  BY DEF Shape, IndexShape, Node
<1>2. /\ l.queue \in Seq(OrderIds)
      /\ l.total \in Int /\ l.display \in Int /\ l.count \in Int
  BY DEF Level
<1>3. /\ IsInjective(l.queue)
      /\ Range(l.queue) = OrdersAt(ix, ix[o].side, ix[o].price)
  BY <1>1 DEF Shape
<1>4. o \in Range(l.queue)
  BY <1>3 DEF OrdersAt
<1> DEFINE r == RemoveAt(l.queue, PositionIn(l.queue, o))
<1>5. r \in Seq(OrderIds) /\ IsInjective(r) /\ Range(r) = Range(l.queue) \ {o}
  BY <1>2, <1>3, <1>4, RemoveFromQueue
<1>6. Unlink(l, o, m).queue = r
  BY DEF Unlink
<1> HIDE DEF r
<1>7. m.remain \in Nat /\ m.display \in Nat
  BY DEF Node
<1>8. Unlink(l, o, m) \in Level
  BY <1>2, <1>5, <1>7 DEF Unlink, Level, r
<1> QED
  BY <1>3, <1>4, <1>5, <1>6, <1>8 DEF r

\* Removing an order keeps the agreement, with its level or, once that is empty,
\* without it.
LEMMA RemoveShape ==
    ASSUME NEW tr, NEW ix, Shape(tr, ix), NEW o \in DOMAIN ix, NEW m \in Node,
           NEW l \in Level, l.queue = tr[ix[o].side][ix[o].price].queue
    PROVE  LET s == ix[o].side
               p == ix[o].price
           IN  /\ Shape(PutLevel(tr, s, p, Unlink(l, o, m)), Delete(ix, o))
               /\ Unlink(l, o, m).queue = <<>> =>
                     Shape(DeleteLevel(tr, s, p), Delete(ix, o))
<1> DEFINE s == ix[o].side
           p == ix[o].price
           u == Unlink(l, o, m)
<1>1. s \in Side /\ p \in Price /\ IndexShape(ix)
  BY DEF Shape, IndexShape, Node
<1>2. u \in Level /\ IsInjective(u.queue) /\ Range(u.queue) = OrdersAt(ix, s, p) \ {o}
  BY UnlinkLevel
<1> DEFINE jx == Delete(ix, o)
<1>3. /\ IndexShape(jx)
      /\ OrdersAt(jx, s, p) = OrdersAt(ix, s, p) \ {o}
      /\ \A t \in Side, r \in Price : <<t, r>> # <<s, p>> =>
            OrdersAt(jx, t, r) = OrdersAt(ix, t, r)
  BY <1>1, DeleteOrder
<1> HIDE DEF u, s, p, jx
<1>4. Range(u.queue) = OrdersAt(jx, s, p)
  BY <1>2, <1>3
<1>5. Shape(PutLevel(tr, s, p, u), jx)
  <2>1. /\ s \in Side /\ p \in Price /\ u \in Level /\ IndexShape(jx)
        /\ IsInjective(u.queue) /\ Range(u.queue) = OrdersAt(jx, s, p)
        /\ \A t \in Side, r \in Price : <<t, r>> # <<s, p>> =>
              OrdersAt(jx, t, r) = OrdersAt(ix, t, r)
    BY <1>1, <1>2, <1>3, <1>4
  <2> QED
    BY <2>1, PutLevelShape
<1>6. ASSUME u.queue = <<>> PROVE Shape(DeleteLevel(tr, s, p), jx)
  <2>1. DOMAIN u.queue = {}
    BY <1>6
  <2>2. OrdersAt(jx, s, p) = {}
    BY <2>1, <1>4 DEF Range
  <2> QED
    BY <2>2, <1>1, <1>3, DeleteLevelShape
<1> QED
  BY <1>5, <1>6 DEF u, s, p, jx

\* Rewriting an order in place keeps the agreement, whether its queue stays as it is or
\* the order moves to the tail.
LEMMA RewriteShape ==
    ASSUME NEW tr, NEW ix, Shape(tr, ix), NEW o \in DOMAIN ix, NEW n \in Node,
           n.side = ix[o].side, n.price = ix[o].price, NEW l \in Level,
           IsInjective(l.queue),
           Range(l.queue) = Range(tr[n.side][n.price].queue)
    PROVE  Shape(PutLevel(tr, n.side, n.price, l), [ix EXCEPT ![o] = n])
<1>1. n.side \in Side /\ n.price \in Price /\ IndexShape(ix)
  BY DEF Shape, IndexShape, Node
<1>2. n.price \in DOMAIN tr[n.side]
  BY DEF Shape
<1>3. Range(l.queue) = OrdersAt(ix, n.side, n.price)
  BY <1>1, <1>2 DEF Shape
<1> QED
  BY <1>1, <1>3, RewriteOrder, PutLevelShape

\* An emptied level leaves the tree; the index stays as it is.
LEMMA LeaveShape ==
    ASSUME NEW tr, NEW ix, Shape(tr, ix), NEW s \in Side, NEW p \in DOMAIN tr[s],
           tr[s][p].queue = <<>>
    PROVE  Shape(DeleteLevel(tr, s, p), ix)
<1>1. p \in Price /\ IndexShape(ix)
  BY DEF Shape
<1>2. OrdersAt(ix, s, p) = {}
  <2>1. DOMAIN tr[s][p].queue = {}
    OBVIOUS
  <2> QED
    BY <2>1 DEF Shape, Range
<1> QED
  BY <1>1, <1>2, DeleteLevelShape

------------------------------------------------------------------------------
(* The best level.                                                           *)

\* A set of natural numbers with a member has a least one.
LEMMA LeastNat ==
    ASSUME NEW T, T \subseteq Nat, T # {}
    PROVE  \E x \in T : \A y \in T : x <= y
<1> DEFINE R == {ss \in Nat \X Nat : ss[1] < ss[2]}
<1>1. IsWellFoundedOn(R, Nat)
  BY NatLessThanWellFounded DEF OpToRel
<1> HIDE DEF R
<1>2. PICK x \in T : \A y \in T : <<y, x>> \notin R
  BY <1>1, WFMin
<1>3. \A y \in T : ~(y < x)
  <2> SUFFICES ASSUME NEW y \in T, y < x PROVE FALSE
    OBVIOUS
  <2>1. <<y, x>> \in Nat \X Nat /\ <<y, x>>[1] = y /\ <<y, x>>[2] = x
    OBVIOUS
  <2> QED
    BY <2>1, <1>2 DEF R
<1> QED
  BY <1>2, <1>3

\* A side with levels has a best one: prices are bounded, so bids have a highest.
LEMMA BestLevel ==
    ASSUME NEW s \in Side, DOMAIN tree[s] \subseteq Price, DOMAIN tree[s] # {}
    PROVE  /\ Best(s) \in DOMAIN tree[s]
           /\ \A q \in DOMAIN tree[s] : ~Better(s, q, Best(s))
<1> DEFINE P == DOMAIN tree[s]
<1>0. MaxPrice \in Nat
  BY CapacityAssumption
<1>1. \E p \in P : \A q \in P : ~Better(s, q, p)
  <2>1. CASE s = "Ask"
    <3>1. P \subseteq Nat
      BY <1>0 DEF Price
    <3>2. PICK p \in P : \A q \in P : p <= q
      BY <3>1, LeastNat
    <3>3. \A q \in P : ~(q < p)
      BY <3>1, <3>2
    <3> QED
      BY <3>3, <2>1 DEF Better
  <2>2. CASE s = "Bid"
    <3> DEFINE D == {MaxPrice - p : p \in P}
    <3>1. \A p \in P : p \in Int /\ MaxPrice - p \in Nat
      BY <1>0 DEF Price
    <3>2. D \subseteq Nat /\ D # {}
      BY <3>1
    <3>3. PICK d \in D : \A e \in D : d <= e
      BY <3>2, LeastNat
    <3>4. PICK p \in P : d = MaxPrice - p
      BY <3>3
    <3>5. \A q \in P : MaxPrice - p <= MaxPrice - q
      BY <3>3, <3>4
    <3>6. \A q \in P : ~(q > p)
      BY <3>1, <3>5, <1>0
    <3> QED
      BY <3>6, <2>2 DEF Better
  <2> QED
    BY <2>1, <2>2 DEF Side
<1> QED
  BY <1>1 DEF Best

------------------------------------------------------------------------------
(* The inductive invariant behind the types and the agreement of the data    *)
(* structures.                                                               *)

\* The types of everything but the tree and the index.
ScalarTypes ==
    /\ nodesInUse \in Int
    /\ levelsInUse \in Int
    /\ orderSeq \in Nat
    /\ pc \in Matching \cup {"idle", "reply", "expire"}
    /\ pc \in Matching \cup {"reply"} => taker \in OrderIds /\ incoming \in Node
    /\ at \in Price
    /\ cursor \in OrderIds \cup {Nil}
    /\ fills \in Seq(Fill)
    /\ stpCancels \in Seq(OrderIds)
    /\ outcome \in Outcome \cup {"none"}
    /\ now \in Nat
    /\ haltQueued \subseteq DOMAIN index

\* The order being matched rests nowhere, so it never meets itself.
TakerApart == pc \in Matching => taker \notin DOMAIN index

\* The inner loop works on the best level, which the taker crosses, and stands at the
\* head of its queue, or at its end when nothing is left in it.
ScanAtBest ==
    pc = "inner" =>
        /\ at \in DOMAIN tree[OppSide]
        /\ \A q \in DOMAIN tree[OppSide] : ~Better(OppSide, q, at)
        /\ Crosses(at)
        /\ cursor = IF tree[OppSide][at].queue = <<>> THEN Nil
                    ELSE Head(tree[OppSide][at].queue)

Inv ==
    /\ Shape(tree, index)
    /\ ScalarTypes
    /\ NoEmptyLevel
    /\ TakerApart
    /\ ScanAtBest

\* Init establishes the invariant.
LEMMA InitInv == Init => Inv
<1> SUFFICES ASSUME Init PROVE Inv
  OBVIOUS
<1> USE DEF Init
<1>1. DOMAIN index = {}
  BY DEF NoMap
<1>2. DOMAIN tree = Side /\ \A s \in Side : DOMAIN tree[s] = {}
  BY DEF NoMap
<1>3. Shape(tree, index)
  BY <1>1, <1>2 DEF Shape, IndexShape
<1>4. MaxPrice \in Nat
  BY CapacityAssumption
<1>5. fills \in Seq(Fill) /\ stpCancels \in Seq(OrderIds)
  OBVIOUS
<1>6. ScalarTypes
  BY <1>4, <1>5 DEF ScalarTypes, Matching, Price
<1>7. NoEmptyLevel /\ TakerApart /\ ScanAtBest
  BY <1>2 DEF NoEmptyLevel, TakerApart, ScanAtBest, Matching
<1> QED
  BY <1>3, <1>6, <1>7 DEF Inv

\* A new node is well typed.
LEMMA NewNodeType ==
    ASSUME NEW c \in Commands, NEW seq \in Nat
    PROVE  /\ NewNode(c, seq) \in Node
           /\ NewNode(c, seq).side = c.side /\ NewNode(c, seq).price = c.price
           /\ NewNode(c, seq).type = c.type /\ NewNode(c, seq).tif = c.tif
<1>1. c \in Command /\ c.display <= c.qty
  BY CommandsAssumption
<1>2. /\ c.qty \in Nat /\ c.display \in Nat /\ c.expireAt \in Nat
      /\ c.user \in Users /\ c.side \in Side /\ c.type \in {"Limit", "Market"}
      /\ c.tif \in TIF /\ c.price \in Price /\ c.stp \in STPMode
  BY <1>1 DEF Command
<1>3. c.qty - c.display \in Nat
  BY <1>1, <1>2
<1> QED
  BY <1>2, <1>3 DEF NewNode, Node

\* A step that leaves the book alone and does not stand in a level afterwards keeps the
\* invariant if it keeps the types.
LEMMA QuietStep ==
    ASSUME Inv, UNCHANGED <<tree, index>>, pc' # "inner", ScalarTypes', TakerApart',
           \A s \in Side : \A p \in DOMAIN tree[s] : tree[s][p].queue # <<>>
    PROVE  Inv'
<1>1. Shape(tree, index)'
  BY DEF Inv
<1>2. NoEmptyLevel'
  BY DEF NoEmptyLevel
<1>3. ScanAtBest'
  BY DEF ScanAtBest
<1> QED
  BY <1>1, <1>2, <1>3 DEF Inv

\* Outside the inner loop no level is empty, and at a maker none is either.
LEMMA NoneEmpty ==
    ASSUME Inv, pc # "inner" \/ cursor # Nil
    PROVE  \A s \in Side : \A p \in DOMAIN tree[s] : tree[s][p].queue # <<>>
BY DEF Inv, NoEmptyLevel, ScanAtBest

\* An order enters match().
LEMMA PlaceInv ==
    ASSUME Inv, NEW o \in OrderIds, NEW c \in Commands, Place(o, c)
    PROVE  Inv'
<1>1. orderSeq + 1 \in Nat
  BY DEF Inv, ScalarTypes
<1>2. NewNode(c, orderSeq + 1) \in Node
  BY <1>1, NewNodeType
<1>3. UNCHANGED <<tree, index>> /\ pc' \in {"dryRun", "outer"}
  BY DEF Place, structure
<1>4. ScalarTypes'
  BY <1>1, <1>2 DEF Inv, ScalarTypes, Place, Admit, structure, scan, result, Matching
<1>5. TakerApart'
  BY DEF TakerApart, Place, Admit, structure
<1>6. \A s \in Side : \A p \in DOMAIN tree[s] : tree[s][p].queue # <<>>
  BY NoneEmpty DEF Place, Admit
<1> QED
  BY <1>3, <1>4, <1>5, <1>6, QuietStep

\* A disposition that releases the taker's node.
LEMMA ReleaseInv ==
    ASSUME Inv, NEW d \in Outcome, Release(d), pc \in Matching, pc # "inner"
    PROVE  Inv'
<1>1. UNCHANGED <<tree, index>> /\ pc' = "reply"
  BY DEF Release, Return, structure
<1>2. ScalarTypes'
  BY DEF Inv, ScalarTypes, Release, Return, structure, scan
<1>3. TakerApart'
  BY <1>1 DEF TakerApart, Matching
<1> QED
  BY <1>1, <1>2, <1>3, NoneEmpty, QuietStep

\* The steps of match() that only decide.
LEMMA DecideInv ==
    ASSUME Inv,
           \/ DryRunFails \/ DryRunSucceeds
           \/ FinishSTP \/ FinishFilled \/ FinishIOC \/ FinishMarket \/ FinishNoLevel
           \/ Reply
    PROVE  Inv'
<1>1. CASE DryRunSucceeds
  <2>1. UNCHANGED <<tree, index>> /\ pc' = "outer" /\ pc = "dryRun"
    BY <1>1 DEF DryRunSucceeds, structure
  <2>2. ScalarTypes'
    BY <1>1 DEF Inv, ScalarTypes, DryRunSucceeds, structure, scan, result, Matching
  <2>3. TakerApart'
    BY <1>1 DEF Inv, TakerApart, DryRunSucceeds, structure, Matching
  <2> QED
    BY <2>1, <2>2, <2>3, NoneEmpty, QuietStep
<1>2. CASE Reply
  <2>1. UNCHANGED <<tree, index>> /\ pc' = "idle" /\ pc = "reply"
    BY <1>2 DEF Reply, structure
  <2>2. <<>> \in Seq(Fill) /\ <<>> \in Seq(OrderIds)
    OBVIOUS
  <2>3. ScalarTypes'
    BY <1>2, <2>2 DEF Inv, ScalarTypes, Reply, structure, scan, result, Matching
  <2>4. TakerApart'
    BY <2>1 DEF TakerApart, Matching
  <2> QED
    BY <2>1, <2>3, <2>4, NoneEmpty, QuietStep
<1>3. CASE DryRunFails
  BY <1>3, ReleaseInv DEF DryRunFails, Matching, Outcome
<1>4. CASE FinishSTP
  BY <1>4, ReleaseInv DEF FinishSTP, Matching, Outcome
<1>5. CASE FinishFilled
  BY <1>5, ReleaseInv DEF FinishFilled, LoopEnds, Matching, Outcome
<1>6. CASE FinishIOC
  BY <1>6, ReleaseInv DEF FinishIOC, LoopEnds, IfFilled, Matching, Outcome
<1>7. CASE FinishMarket
  BY <1>7, ReleaseInv DEF FinishMarket, LoopEnds, Matching, Outcome
<1>8. CASE FinishNoLevel
  BY <1>8, ReleaseInv DEF FinishNoLevel, MayRest, LoopEnds, IfFilled, Matching, Outcome
<1> QED
  BY <1>1, <1>2, <1>3, <1>4, <1>5, <1>6, <1>7, <1>8

\* Self-trade prevention against the taker leaves the book alone.
LEMMA PreventTakerInv ==
    ASSUME Inv, PreventTaker
    PROVE  Inv'
<1>1. /\ UNCHANGED <<tree, index, nodesInUse, levelsInUse, orderSeq, taker, fills,
                     stpCancels, outcome, now, haltQueued>>
      /\ pc = "inner" /\ pc' = "stpDone" /\ cursor # Nil
      /\ at' = 0 /\ cursor' = Nil /\ incoming' = [incoming EXCEPT !.remain = 0]
  BY DEF PreventTaker, Prevents, AtMaker, ZeroTaker, structure, result
<1>2. incoming \in Node /\ taker \in OrderIds
  BY <1>1 DEF Inv, ScalarTypes, Matching
<1>3. incoming' \in Node
  BY <1>1, <1>2 DEF Node
<1>4. 0 \in Price
  BY CapacityAssumption DEF Price
<1>5. ScalarTypes'
  BY <1>1, <1>2, <1>3, <1>4 DEF Inv, ScalarTypes, Matching
<1>6. TakerApart'
  BY <1>1 DEF Inv, TakerApart, Matching
<1> QED
  BY <1>1, <1>5, <1>6, NoneEmpty, QuietStep

\* The outer loop turns to the best level.
LEMMA EnterLevelInv ==
    ASSUME Inv, EnterLevel
    PROVE  Inv'
<1> DEFINE b == Best(OppSide)
<1>1. /\ UNCHANGED <<tree, index, nodesInUse, levelsInUse, orderSeq, taker, incoming,
                     fills, stpCancels, outcome, now, haltQueued>>
      /\ pc = "outer" /\ pc' = "inner" /\ BestCrosses
      /\ at' = b /\ cursor' = Head(tree[OppSide][b].queue)
  BY DEF EnterLevel, structure, result
<1>2. incoming \in Node /\ OppSide \in Side
  BY <1>1 DEF Inv, ScalarTypes, Matching, Node, OppSide, Opposite, Side
<1>3. /\ b \in DOMAIN tree[OppSide] /\ b \in Price
      /\ \A q \in DOMAIN tree[OppSide] : ~Better(OppSide, q, b)
      /\ Crosses(b)
  BY <1>1, <1>2, BestLevel DEF Inv, Shape, BestCrosses
<1> HIDE DEF b
<1>4. tree[OppSide][b].queue # <<>>
  BY <1>1, <1>2, <1>3, NoneEmpty
<1>5. cursor' \in OrderIds
  <2>1. tree[OppSide][b].queue \in Seq(OrderIds) /\ IsInjective(tree[OppSide][b].queue)
    BY <1>2, <1>3 DEF Inv, Shape, Level
  <2> QED
    BY <2>1, <1>1, <1>4, HeadOfQueue
<1>6. ScalarTypes'
  BY <1>1, <1>3, <1>5 DEF Inv, ScalarTypes, Matching
<1>7. Shape(tree, index)' /\ TakerApart'
  BY <1>1 DEF Inv, TakerApart, Matching
<1>8. NoEmptyLevel'
  BY <1>1, NoneEmpty DEF NoEmptyLevel
<1>9. OppSide' = OppSide
  BY <1>1 DEF OppSide
<1>10. ScanAtBest'
  BY <1>1, <1>3, <1>4, <1>9 DEF ScanAtBest, Crosses, Better
<1> QED
  BY <1>6, <1>7, <1>8, <1>10 DEF Inv

\* An order joins the book: the structures agree afterwards and no level is empty.
LEMMA RestNodeInv ==
    ASSUME Inv, pc # "inner", NEW o \in OrderIds, o \notin DOMAIN index, NEW n \in Node,
           RestNode(o, n)
    PROVE  /\ Shape(tree, index)'
           /\ levelsInUse' \in Int
           /\ DOMAIN index' = DOMAIN index \cup {o}
           /\ \A s \in Side : \A p \in DOMAIN tree'[s] : tree'[s][p].queue # <<>>
<1> DEFINE l == IF HasLevel(n.side, n.price) THEN tree[n.side][n.price] ELSE EmptyLevel
           k == Enqueue(l, o, n)
<1>1. /\ tree' = PutLevel(tree, n.side, n.price, k)
      /\ index' = Put(index, o, n)
      /\ levelsInUse' = levelsInUse + (IF HasLevel(n.side, n.price) THEN 0 ELSE 1)
  BY DEF RestNode, WithLevel, PutLevel
<1>2. n.side \in Side
  BY DEF Node
<1>3. Shape(tree, index)
  BY DEF Inv
<1>4. /\ l \in Level
      /\ \/ n.price \in DOMAIN tree[n.side] /\ l = tree[n.side][n.price]
         \/ n.price \notin DOMAIN tree[n.side] /\ l = EmptyLevel
  BY <1>2, <1>3 DEF Shape, HasLevel, EmptyLevel, Level
<1> HIDE DEF l
<1>5. Shape(PutLevel(tree, n.side, n.price, k), Put(index, o, n)) /\ k.queue = Append(l.queue, o)
  BY <1>3, <1>4, RestShape
<1>6. l.queue \in Seq(OrderIds)
  BY <1>4 DEF Level
<1>7. k.queue # <<>>
  BY <1>5, <1>6, AppendProperties
<1> HIDE DEF k
<1>8. DOMAIN tree = Side
  BY <1>3 DEF Shape
<1>9. ASSUME NEW s \in Side, NEW p \in DOMAIN tree'[s] PROVE tree'[s][p].queue # <<>>
  <2>1. CASE s = n.side /\ p = n.price
    BY <2>1, <1>1, <1>2, <1>7, <1>8, ReadPutLevel
  <2>2. CASE ~(s = n.side /\ p = n.price)
    <3>1. p \in DOMAIN tree[s] /\ tree'[s][p] = tree[s][p]
      BY <2>2, <1>1, <1>2, <1>8, ReadPutLevel
    <3> QED
      BY <3>1, NoneEmpty
  <2> QED
    BY <2>1, <2>2
<1>10. levelsInUse' \in Int
  BY <1>1 DEF Inv, ScalarTypes
<1> QED
  BY <1>1, <1>5, <1>9, <1>10 DEF Put

\* PlaceResting queues the order or turns it away.
LEMMA PlaceRestingInv ==
    ASSUME Inv, NEW o \in OrderIds, NEW c \in Commands, PlaceResting(o, c)
    PROVE  Inv'
<1> DEFINE n == NewNode(c, orderSeq + 1)
<1>1. /\ pc = "idle" /\ pc' = "reply" /\ o \notin DOMAIN index
      /\ orderSeq' = orderSeq + 1 /\ taker' = o /\ incoming' = n
      /\ UNCHANGED <<at, cursor, fills, stpCancels, now>>
      /\ \/ /\ RestNode(o, n) /\ nodesInUse' = nodesInUse + 1
            /\ outcome' = "Rested" /\ haltQueued' = haltQueued \cup {o}
         \/ outcome' = "Canceled" /\ UNCHANGED <<structure, nodesInUse, haltQueued>>
  BY DEF PlaceResting, Admit, scan
<1>2. orderSeq + 1 \in Nat
  BY DEF Inv, ScalarTypes
<1>3. n \in Node
  BY <1>2, NewNodeType
<1> HIDE DEF n
<1>4. /\ Shape(tree, index)' /\ levelsInUse' \in Int /\ nodesInUse' \in Int
      /\ haltQueued' \subseteq DOMAIN index' /\ outcome' \in Outcome
      /\ \A s \in Side : \A p \in DOMAIN tree'[s] : tree'[s][p].queue # <<>>
  <2>1. CASE RestNode(o, n) /\ nodesInUse' = nodesInUse + 1
             /\ outcome' = "Rested" /\ haltQueued' = haltQueued \cup {o}
    <3>1. /\ Shape(tree, index)' /\ levelsInUse' \in Int
          /\ DOMAIN index' = DOMAIN index \cup {o}
          /\ \A s \in Side : \A p \in DOMAIN tree'[s] : tree'[s][p].queue # <<>>
      BY <2>1, <1>1, <1>3, RestNodeInv
    <3> QED
      BY <3>1, <2>1 DEF Inv, ScalarTypes, Outcome
  <2>2. CASE outcome' = "Canceled" /\ UNCHANGED <<structure, nodesInUse, haltQueued>>
    BY <2>2, <1>1, NoneEmpty DEF Inv, ScalarTypes, Outcome, structure
  <2> QED
    BY <2>1, <2>2, <1>1
<1>5. ScalarTypes'
  BY <1>1, <1>2, <1>3, <1>4 DEF Inv, ScalarTypes
<1>6. TakerApart' /\ ScanAtBest' /\ NoEmptyLevel'
  BY <1>1, <1>4 DEF TakerApart, ScanAtBest, NoEmptyLevel, Matching
<1> QED
  BY <1>4, <1>5, <1>6 DEF Inv

\* What is left of the taker rests.
LEMMA FinishRestedInv ==
    ASSUME Inv, FinishRested
    PROVE  Inv'
<1>1. /\ pc = "outer" /\ pc' = "reply" /\ RestNode(taker, incoming)
      /\ outcome' = IfFilled("PartialFill_Rested", "Rested")
      /\ UNCHANGED <<taker, incoming, at, cursor, fills, stpCancels, now, orderSeq,
                     nodesInUse, haltQueued>>
  BY DEF FinishRested, MayRest, LoopEnds, Return, scan
<1>2. taker \in OrderIds /\ incoming \in Node /\ taker \notin DOMAIN index
  BY <1>1 DEF Inv, ScalarTypes, TakerApart, Matching
<1>3. /\ Shape(tree, index)' /\ levelsInUse' \in Int
      /\ DOMAIN index' = DOMAIN index \cup {taker}
      /\ \A s \in Side : \A p \in DOMAIN tree'[s] : tree'[s][p].queue # <<>>
  BY <1>1, <1>2, RestNodeInv
<1>4. outcome' \in Outcome
  BY <1>1 DEF IfFilled, Outcome
<1>5. ScalarTypes'
  BY <1>1, <1>2, <1>3, <1>4 DEF Inv, ScalarTypes
<1>6. TakerApart' /\ ScanAtBest' /\ NoEmptyLevel'
  BY <1>1, <1>3 DEF TakerApart, ScanAtBest, NoEmptyLevel, Matching
<1> QED
  BY <1>3, <1>5, <1>6 DEF Inv

\* A resting order leaves the book.
LEMMA RemoveRestingInv ==
    ASSUME Inv, pc # "inner", NEW o \in DOMAIN index, RemoveResting(o)
    PROVE  /\ Shape(tree, index)'
           /\ nodesInUse' \in Int /\ levelsInUse' \in Int
           /\ DOMAIN index' = DOMAIN index \ {o}
           /\ haltQueued' \subseteq DOMAIN index'
           /\ \A s \in Side : \A p \in DOMAIN tree'[s] : tree'[s][p].queue # <<>>
<1> DEFINE n == index[o]
           s == n.side
           p == n.price
           u == Unlink(tree[s][p], o, n)
<1>1. Shape(tree, index) /\ n \in Node /\ s \in Side /\ p \in DOMAIN tree[s]
  BY DEF Inv, Shape, IndexShape, Node
<1>2. tree[s][p] \in Level /\ DOMAIN tree = Side
  BY <1>1 DEF Shape
<1>3. /\ index' = Delete(index, o)
      /\ nodesInUse' = nodesInUse - 1
      /\ haltQueued' = haltQueued \ {o}
      /\ \/ /\ u.queue = <<>> /\ tree' = DeleteLevel(tree, s, p)
            /\ levelsInUse' = levelsInUse - 1
         \/ u.queue # <<>> /\ tree' = PutLevel(tree, s, p, u) /\ levelsInUse' = levelsInUse
  BY DEF RemoveResting, WithLevel, WithoutLevel, PutLevel, DeleteLevel
<1>4. /\ Shape(PutLevel(tree, s, p, u), Delete(index, o))
      /\ u.queue = <<>> => Shape(DeleteLevel(tree, s, p), Delete(index, o))
  BY <1>1, <1>2, RemoveShape
<1> HIDE DEF n, s, p, u
<1>5. Shape(tree, index)'
  BY <1>3, <1>4
<1>6. DOMAIN index' = DOMAIN index \ {o}
  BY <1>3 DEF Delete
<1>7. nodesInUse' \in Int /\ levelsInUse' \in Int /\ haltQueued' \subseteq DOMAIN index'
  BY <1>3, <1>6 DEF Inv, ScalarTypes
<1>8. ASSUME NEW t \in Side, NEW r \in DOMAIN tree'[t] PROVE tree'[t][r].queue # <<>>
  <2>1. CASE t = s /\ r = p
    <3>1. tree' = PutLevel(tree, s, p, u) /\ u.queue # <<>>
      BY <2>1, <1>1, <1>2, <1>3, ReadDeleteLevel
    <3> QED
      BY <3>1, <2>1, <1>1, <1>2, ReadPutLevel
  <2>2. CASE ~(t = s /\ r = p)
    <3>1. r \in DOMAIN tree[t] /\ tree'[t][r] = tree[t][r]
      <4>1. CASE tree' = PutLevel(tree, s, p, u)
        BY <4>1, <2>2, <1>1, <1>2, ReadPutLevel
      <4>2. CASE tree' = DeleteLevel(tree, s, p)
        BY <4>2, <2>2, <1>1, <1>2, ReadDeleteLevel
      <4> QED
        BY <4>1, <4>2, <1>3
    <3> QED
      BY <3>1, NoneEmpty
  <2> QED
    BY <2>1, <2>2
<1> QED
  BY <1>5, <1>6, <1>7, <1>8

\* Cancellation and the steps of an expiry scan.
LEMMA CancelInv ==
    ASSUME Inv, NEW o \in OrderIds, (\E u \in Users : Cancel(o, u)) \/ ExpireOne(o)
    PROVE  Inv'
<1>1. /\ pc \in {"idle", "expire"} /\ o \in DOMAIN index /\ RemoveResting(o)
      /\ UNCHANGED <<orderSeq, pc, taker, incoming, at, cursor, fills, stpCancels, outcome,
                     now>>
  BY DEF Cancel, ExpireOne, scan, result
<1>2. /\ Shape(tree, index)'
      /\ nodesInUse' \in Int /\ levelsInUse' \in Int
      /\ haltQueued' \subseteq DOMAIN index'
      /\ \A s \in Side : \A p \in DOMAIN tree'[s] : tree'[s][p].queue # <<>>
  BY <1>1, RemoveRestingInv
<1>3. ScalarTypes'
  BY <1>1, <1>2 DEF Inv, ScalarTypes
<1>4. TakerApart' /\ ScanAtBest' /\ NoEmptyLevel'
  BY <1>1, <1>2 DEF TakerApart, ScanAtBest, NoEmptyLevel, Matching
<1> QED
  BY <1>2, <1>3, <1>4 DEF Inv

\* The start and the end of an expiry scan.
LEMMA ScanInv ==
    ASSUME Inv, (\E t \in ScanTimes : ExpireGTD(t)) \/ ExpireEnds
    PROVE  Inv'
<1>1. /\ pc' \in {"idle", "expire"} /\ pc \in {"idle", "expire"}
      /\ now' \in {0} \cup ScanTimes
      /\ UNCHANGED <<tree, index, nodesInUse, levelsInUse, orderSeq, taker, incoming, at,
                     cursor, fills, stpCancels, outcome, haltQueued>>
  BY DEF ExpireGTD, ExpireEnds, structure, scan, result
<1>2. ScanTimes \subseteq Nat
  BY CommandsAssumption DEF ScanTimes, Command
<1>3. ScalarTypes'
  BY <1>1, <1>2 DEF Inv, ScalarTypes, Matching
<1>4. TakerApart'
  BY <1>1 DEF TakerApart, Matching
<1> QED
  BY <1>1, <1>3, <1>4, NoneEmpty, QuietStep

\* The outer loop ends an iteration: the level goes if nothing is left in it.
LEMMA LeaveLevelInv ==
    ASSUME Inv, LeaveLevel
    PROVE  Inv'
<1>1. /\ pc = "inner" /\ pc' = "outer" /\ at' = 0 /\ cursor' = Nil
      /\ UNCHANGED <<index, nodesInUse, orderSeq, taker, incoming, fills, stpCancels, outcome,
                     now, haltQueued>>
      /\ \/ /\ tree[OppSide][at].queue = <<>>
            /\ tree' = DeleteLevel(tree, OppSide, at) /\ levelsInUse' = levelsInUse - 1
         \/ /\ tree[OppSide][at].queue # <<>>
            /\ tree' = tree /\ levelsInUse' = levelsInUse
  BY DEF LeaveLevel, WithoutLevel, DeleteLevel, result
<1>2. /\ Shape(tree, index) /\ at \in DOMAIN tree[OppSide]
      /\ incoming \in Node /\ OppSide \in Side /\ DOMAIN tree = Side
  BY <1>1 DEF Inv, Shape, ScanAtBest, ScalarTypes, Matching, Node, OppSide, Opposite, Side
<1>3. Shape(tree, index)'
  BY <1>1, <1>2, LeaveShape
<1>4. ASSUME NEW t \in Side, NEW r \in DOMAIN tree'[t] PROVE tree'[t][r].queue # <<>>
  <2>1. CASE t = OppSide /\ r = at
    BY <2>1, <1>1, <1>2, ReadDeleteLevel
  <2>2. CASE ~(t = OppSide /\ r = at)
    <3>1. r \in DOMAIN tree[t] /\ tree'[t][r] = tree[t][r]
      BY <2>2, <1>1, <1>2, ReadDeleteLevel
    <3> QED
      BY <3>1, <2>2 DEF Inv, NoEmptyLevel
  <2> QED
    BY <2>1, <2>2
<1>5. 0 \in Price
  BY CapacityAssumption DEF Price
<1>6. ScalarTypes'
  BY <1>1, <1>5 DEF Inv, ScalarTypes, Matching
<1>7. TakerApart' /\ ScanAtBest' /\ NoEmptyLevel'
  BY <1>1, <1>4 DEF Inv, TakerApart, ScanAtBest, NoEmptyLevel, Matching
<1> QED
  BY <1>3, <1>6, <1>7 DEF Inv

------------------------------------------------------------------------------
(* Steps of the inner loop at a maker.                                       *)

\* What holds when the inner loop looks at a maker: it is the head of its level.
LEMMA MakerFacts ==
    ASSUME Inv, AtMaker
    PROVE  /\ Shape(tree, index) /\ DOMAIN tree = Side
           /\ incoming \in Node /\ taker \in OrderIds /\ taker \notin DOMAIN index
           /\ OppSide \in Side /\ at \in Price /\ at \in DOMAIN tree[OppSide]
           /\ level \in Level /\ level = tree[OppSide][at]
           /\ level.queue \in Seq(OrderIds) /\ IsInjective(level.queue)
           /\ level.queue # <<>> /\ cursor = Head(level.queue)
           /\ Range(level.queue) = OrdersAt(index, OppSide, at)
           /\ cursor \in DOMAIN index /\ cursor \in OrderIds
           /\ maker \in Node /\ maker.side = OppSide /\ maker.price = at
<1>1. pc = "inner" /\ cursor # Nil
  BY DEF AtMaker
<1>2. /\ Shape(tree, index) /\ DOMAIN tree = Side
      /\ incoming \in Node /\ taker \in OrderIds /\ taker \notin DOMAIN index
      /\ OppSide \in Side
  BY <1>1 DEF Inv, Shape, ScalarTypes, TakerApart, Matching, Node, OppSide, Opposite, Side
<1>3. /\ at \in DOMAIN tree[OppSide] /\ tree[OppSide][at].queue # <<>>
      /\ cursor = Head(tree[OppSide][at].queue)
  BY <1>1 DEF Inv, ScanAtBest
<1>4. /\ at \in Price /\ level \in Level /\ level = tree[OppSide][at]
      /\ IsInjective(level.queue)
      /\ Range(level.queue) = OrdersAt(index, OppSide, at)
  BY <1>2, <1>3 DEF Shape, level
<1>5. level.queue \in Seq(OrderIds)
  BY <1>4 DEF Level
<1>6. cursor \in Range(level.queue)
  BY <1>3, <1>4, <1>5, HeadOfQueue
<1>7. /\ cursor \in DOMAIN index /\ index[cursor].side = OppSide
      /\ index[cursor].price = at
  BY <1>4, <1>6 DEF OrdersAt
<1>8. maker \in Node /\ cursor \in OrderIds
  BY <1>2, <1>7 DEF Shape, IndexShape, maker
<1> QED
  BY <1>1, <1>2, <1>3, <1>4, <1>5, <1>7, <1>8 DEF maker

\* The inner loop goes on at the head of the level it has changed.
LEMMA InnerGoesOn ==
    ASSUME Inv, AtMaker, NEW l \in Level, tree' = PutLevel(tree, OppSide, at, l),
           Shape(tree, index)', ScalarTypes', TakerApart',
           pc' = "inner", at' = at, incoming'.side = incoming.side,
           incoming'.type = incoming.type, incoming'.price = incoming.price,
           cursor' = IF l.queue = <<>> THEN Nil ELSE Head(l.queue)
    PROVE  Inv'
<1>1. /\ DOMAIN tree = Side /\ OppSide \in Side /\ at \in DOMAIN tree[OppSide]
      /\ pc = "inner"
  BY MakerFacts DEF AtMaker
<1>2. OppSide' = OppSide
  BY DEF OppSide
<1>3. /\ DOMAIN tree'[OppSide] = DOMAIN tree[OppSide] /\ tree'[OppSide][at] = l
      /\ \A t \in Side : \A r \in DOMAIN tree'[t] : ~(t = OppSide /\ r = at) =>
            r \in DOMAIN tree[t] /\ tree'[t][r] = tree[t][r]
  <2>1. /\ DOMAIN tree'[OppSide] = DOMAIN tree[OppSide] \cup {at}
        /\ tree'[OppSide][at] = l
        /\ \A r \in DOMAIN tree[OppSide] \ {at} : tree'[OppSide][r] = tree[OppSide][r]
        /\ \A t \in Side \ {OppSide} : tree'[t] = tree[t]
    BY <1>1, ReadPutLevel
  <2> QED
    BY <2>1, <1>1
<1>4. NoEmptyLevel'
  BY <1>1, <1>2, <1>3, NoneEmpty DEF NoEmptyLevel, AtMaker
<1>5. Crosses(at)'
  BY <1>1 DEF Inv, ScanAtBest, Crosses
<1>6. ScanAtBest'
  BY <1>1, <1>2, <1>3, <1>5 DEF Inv, ScanAtBest, Better
<1> QED
  BY <1>4, <1>6 DEF Inv

\* cancelMakerNode and its likes: the maker is gone and the loop stands at the new head.
LEMMA DropMakerFacts ==
    ASSUME Inv, AtMaker, NEW l \in Level, l.queue = level.queue, NEW m \in Node,
           DropMaker(l, m)
    PROVE  /\ Shape(tree, index)'
           /\ Unlink(l, cursor, m) \in Level
           /\ tree' = PutLevel(tree, OppSide, at, Unlink(l, cursor, m))
           /\ DOMAIN index' = DOMAIN index \ {cursor}
           /\ nodesInUse' \in Int
           /\ haltQueued' \subseteq DOMAIN index'
           /\ cursor' \in OrderIds \cup {Nil}
           /\ cursor' = LET q == Unlink(l, cursor, m).queue
                        IN  IF q = <<>> THEN Nil ELSE Head(q)
<1> DEFINE u == Unlink(l, cursor, m)
<1>1. /\ tree' = PutLevel(tree, OppSide, at, u) /\ index' = Delete(index, cursor)
      /\ nodesInUse' = nodesInUse - 1 /\ haltQueued' = haltQueued \ {cursor}
      /\ cursor' = NextAfter(l.queue, cursor)
  BY DEF DropMaker, WithLevel, PutLevel
<1>2. /\ Shape(tree, index) /\ cursor \in DOMAIN index
      /\ index[cursor].side = OppSide /\ index[cursor].price = at
      /\ l.queue = tree[index[cursor].side][index[cursor].price].queue
      /\ l.queue \in Seq(OrderIds) /\ IsInjective(l.queue) /\ l.queue # <<>>
      /\ cursor = Head(l.queue)
  BY MakerFacts DEF maker
<1>3. Shape(PutLevel(tree, OppSide, at, u), Delete(index, cursor))
  BY <1>2, RemoveShape
<1>4. u \in Level /\ u.queue = RemoveAt(l.queue, PositionIn(l.queue, cursor))
  BY <1>2, UnlinkLevel
<1> HIDE DEF u
<1>5. cursor' = IF u.queue = <<>> THEN Nil ELSE Head(u.queue)
  BY <1>1, <1>2, <1>4, HeadOfQueue
<1>6. u.queue \in Seq(OrderIds)
  BY <1>4 DEF Level
<1>7. cursor' \in OrderIds \cup {Nil}
  BY <1>5, <1>6
<1>8. DOMAIN index' = DOMAIN index \ {cursor}
  BY <1>1 DEF Delete
<1> QED
  BY <1>1, <1>3, <1>4, <1>5, <1>7, <1>8 DEF Inv, ScalarTypes, u

\* Taking a quantity off an order or off its level keeps the types and the queue.
LEMMA DecrementTypes ==
    ASSUME NEW n \in Node, NEW q \in Nat, q <= n.remain, NEW l \in Level
    PROVE  /\ DecrementNode(n, q) \in Node
           /\ DecrementNode(n, q).side = n.side /\ DecrementNode(n, q).price = n.price
           /\ DecrementLevel(l, n, q) \in Level
           /\ DecrementLevel(l, n, q).queue = l.queue
<1>1. n.remain \in Nat /\ n.filled \in Nat /\ n.display \in Nat
  BY DEF Node
<1>2. /\ n.remain - q \in Nat /\ n.filled + q \in Nat
      /\ n.display - Smaller(q, n.display) \in Nat /\ Smaller(q, n.display) \in Nat
  BY <1>1 DEF Smaller
<1>3. DecrementNode(n, q) \in Node
  BY <1>2 DEF DecrementNode, Node
<1>4. DecrementNode(n, q).side = n.side /\ DecrementNode(n, q).price = n.price
  BY DEF DecrementNode, Node
<1>5. l.total \in Int /\ l.display \in Int
  BY DEF Level
<1>6. l.total - q \in Int /\ l.display - Smaller(q, n.display) \in Int
  BY <1>2, <1>5
<1>7. DecrementLevel(l, n, q) \in Level
  BY <1>6 DEF DecrementLevel, Level
<1>8. DecrementLevel(l, n, q).queue = l.queue
  BY DEF DecrementLevel, Level
<1> QED
  BY <1>3, <1>4, <1>7, <1>8

\* CancelMaker: the maker is dropped and the loop goes on.
LEMMA PreventMakerInv ==
    ASSUME Inv, PreventMaker
    PROVE  Inv'
<1>1. /\ AtMaker /\ DropMaker(level, maker)
      /\ stpCancels' = Append(stpCancels, cursor)
      /\ UNCHANGED <<levelsInUse, orderSeq, pc, taker, incoming, at, fills, outcome, now>>
  BY DEF PreventMaker, Prevents
<1> DEFINE u == Unlink(level, cursor, maker)
<1>2. /\ level \in Level /\ maker \in Node /\ cursor \in OrderIds
      /\ taker \notin DOMAIN index
  BY <1>1, MakerFacts
<1>3. /\ Shape(tree, index)' /\ u \in Level
      /\ tree' = PutLevel(tree, OppSide, at, u)
      /\ DOMAIN index' = DOMAIN index \ {cursor}
      /\ nodesInUse' \in Int /\ haltQueued' \subseteq DOMAIN index'
      /\ cursor' \in OrderIds \cup {Nil}
      /\ cursor' = IF u.queue = <<>> THEN Nil ELSE Head(u.queue)
  BY <1>1, <1>2, DropMakerFacts
<1> HIDE DEF u
<1>4. stpCancels' \in Seq(OrderIds)
  BY <1>1, <1>2 DEF Inv, ScalarTypes
<1>5. ScalarTypes'
  BY <1>1, <1>3, <1>4 DEF Inv, ScalarTypes
<1>6. TakerApart'
  BY <1>1, <1>2, <1>3 DEF TakerApart
<1>7. pc' = "inner"
  BY <1>1 DEF AtMaker
<1> QED
  BY <1>1, <1>3, <1>5, <1>6, <1>7, InnerGoesOn

\* DecrementCancel with the maker as the smaller side: the taker pays with its quantity.
LEMMA DecrementTakerInv ==
    ASSUME Inv, DecrementTaker
    PROVE  Inv'
<1>1. /\ AtMaker /\ DropMaker(level, maker) /\ maker.remain <= incoming.remain
      /\ incoming' = [incoming EXCEPT !.remain = @ - maker.remain,
                                      !.filled = @ + maker.remain]
      /\ stpCancels' = Append(stpCancels, cursor)
      /\ UNCHANGED <<levelsInUse, orderSeq, pc, taker, at, fills, outcome, now>>
  BY DEF DecrementTaker, Prevents
<1> DEFINE u == Unlink(level, cursor, maker)
<1>2. /\ level \in Level /\ maker \in Node /\ cursor \in OrderIds
      /\ taker \notin DOMAIN index /\ incoming \in Node
  BY <1>1, MakerFacts
<1>3. /\ Shape(tree, index)' /\ u \in Level
      /\ tree' = PutLevel(tree, OppSide, at, u)
      /\ DOMAIN index' = DOMAIN index \ {cursor}
      /\ nodesInUse' \in Int /\ haltQueued' \subseteq DOMAIN index'
      /\ cursor' \in OrderIds \cup {Nil}
      /\ cursor' = IF u.queue = <<>> THEN Nil ELSE Head(u.queue)
  BY <1>1, <1>2, DropMakerFacts
<1> HIDE DEF u
<1>4. stpCancels' \in Seq(OrderIds)
  BY <1>1, <1>2 DEF Inv, ScalarTypes
<1>5. maker.remain \in Nat /\ incoming.remain \in Nat /\ incoming.filled \in Nat
  BY <1>2 DEF Node
<1>6. incoming.remain - maker.remain \in Nat /\ incoming.filled + maker.remain \in Nat
  BY <1>1, <1>5
<1>7. /\ incoming' \in Node /\ incoming'.side = incoming.side
      /\ incoming'.type = incoming.type /\ incoming'.price = incoming.price
  BY <1>1, <1>2, <1>6 DEF Node
<1>8. ScalarTypes'
  BY <1>1, <1>3, <1>4, <1>7 DEF Inv, ScalarTypes
<1>9. TakerApart'
  BY <1>1, <1>2, <1>3 DEF TakerApart
<1>10. pc' = "inner"
  BY <1>1 DEF AtMaker
<1> QED
  BY <1>1, <1>3, <1>7, <1>8, <1>9, <1>10, InnerGoesOn

\* What a trade does to the taker and to the list of fills.
LEMMA TradeFacts ==
    ASSUME Inv, Trade
    PROVE  /\ AtMaker /\ pc' = "inner" /\ pc = "inner"
           /\ UNCHANGED <<levelsInUse, pc, taker, at, stpCancels, outcome, now>>
           /\ FillQty \in Nat /\ FillQty <= maker.remain
           /\ incoming' \in Node /\ incoming'.side = incoming.side
           /\ incoming'.type = incoming.type /\ incoming'.price = incoming.price
           /\ fills' \in Seq(Fill)
<1>1. /\ AtMaker /\ pc = "inner" /\ pc' = "inner"
      /\ UNCHANGED <<levelsInUse, pc, taker, at, stpCancels, outcome, now>>
      /\ incoming' = [incoming EXCEPT !.remain = @ - FillQty, !.filled = @ + FillQty]
      /\ fills' = Append(fills, [maker |-> cursor, price |-> at, qty |-> FillQty])
  BY DEF Trade, Trades, AtMaker
<1>2. maker \in Node /\ incoming \in Node /\ cursor \in OrderIds /\ at \in Price
  BY <1>1, MakerFacts
<1>3. maker.remain \in Nat /\ incoming.remain \in Nat /\ incoming.filled \in Nat
  BY <1>2 DEF Node
<1>4. /\ FillQty \in Nat /\ FillQty <= maker.remain
      /\ incoming.remain - FillQty \in Nat /\ incoming.filled + FillQty \in Nat
  BY <1>3 DEF FillQty, Smaller
<1>5. /\ incoming' \in Node /\ incoming'.side = incoming.side
      /\ incoming'.type = incoming.type /\ incoming'.price = incoming.price
  BY <1>1, <1>2, <1>4 DEF Node
<1>6. [maker |-> cursor, price |-> at, qty |-> FillQty] \in Fill
  BY <1>2, <1>4 DEF Fill
<1>7. fills' \in Seq(Fill)
  BY <1>1, <1>6 DEF Inv, ScalarTypes
<1> QED
  BY <1>1, <1>4, <1>5, <1>7

\* A trade that exhausts an order without a reserve removes it.
LEMMA FillAndRemoveInv ==
    ASSUME Inv, FillAndRemove
    PROVE  Inv'
<1> DEFINE l == DecrementLevel(level, maker, FillQty)
           m == DecrementNode(maker, FillQty)
           u == Unlink(l, cursor, m)
<1>1. Trade /\ DropMaker(l, m) /\ UNCHANGED orderSeq
  BY DEF FillAndRemove
<1>2. /\ AtMaker /\ pc' = "inner"
      /\ UNCHANGED <<levelsInUse, pc, taker, at, stpCancels, outcome, now>>
      /\ FillQty \in Nat /\ FillQty <= maker.remain
      /\ incoming' \in Node /\ incoming'.side = incoming.side
      /\ incoming'.type = incoming.type /\ incoming'.price = incoming.price
      /\ fills' \in Seq(Fill)
  BY <1>1, TradeFacts
<1>3. level \in Level /\ maker \in Node /\ taker \notin DOMAIN index
  BY <1>2, MakerFacts
<1>4. l \in Level /\ l.queue = level.queue /\ m \in Node
  BY <1>2, <1>3, DecrementTypes
<1> HIDE DEF l, m
<1>5. /\ Shape(tree, index)' /\ u \in Level
      /\ tree' = PutLevel(tree, OppSide, at, u)
      /\ DOMAIN index' = DOMAIN index \ {cursor}
      /\ nodesInUse' \in Int /\ haltQueued' \subseteq DOMAIN index'
      /\ cursor' \in OrderIds \cup {Nil}
      /\ cursor' = IF u.queue = <<>> THEN Nil ELSE Head(u.queue)
  BY <1>1, <1>2, <1>4, DropMakerFacts
<1> HIDE DEF u
<1>6. ScalarTypes'
  BY <1>1, <1>2, <1>5 DEF Inv, ScalarTypes
<1>7. TakerApart'
  BY <1>2, <1>3, <1>5 DEF TakerApart
<1> QED
  BY <1>2, <1>5, <1>6, <1>7, InnerGoesOn

\* A maker rewritten where it stands: the structures agree and the queue is unchanged.
LEMMA RewriteMaker ==
    ASSUME Inv, AtMaker, NEW q \in Nat, q <= maker.remain,
           tree' = WithLevel(OppSide, at, DecrementLevel(level, maker, q)),
           index' = [index EXCEPT ![cursor] = DecrementNode(@, q)]
    PROVE  LET l == DecrementLevel(level, maker, q) IN
           /\ Shape(tree, index)'
           /\ l \in Level /\ l.queue # <<>> /\ cursor = Head(l.queue)
           /\ tree' = PutLevel(tree, OppSide, at, l)
           /\ DOMAIN index' = DOMAIN index
<1> DEFINE l == DecrementLevel(level, maker, q)
           n == DecrementNode(maker, q)
<1>1. /\ Shape(tree, index) /\ cursor \in DOMAIN index
      /\ maker \in Node /\ level \in Level /\ level = tree[OppSide][at]
      /\ maker.side = OppSide /\ maker.price = at /\ maker = index[cursor]
      /\ IsInjective(level.queue) /\ level.queue # <<>> /\ cursor = Head(level.queue)
  BY MakerFacts DEF maker
<1>2. /\ n \in Node /\ n.side = OppSide /\ n.price = at
      /\ l \in Level /\ l.queue = level.queue
  BY <1>1, DecrementTypes
<1>3. tree' = PutLevel(tree, OppSide, at, l) /\ index' = [index EXCEPT ![cursor] = n]
  BY DEF WithLevel, PutLevel, maker
<1> HIDE DEF l, n
<1>4. /\ n.side = index[cursor].side /\ n.price = index[cursor].price
      /\ IsInjective(l.queue) /\ Range(l.queue) = Range(tree[n.side][n.price].queue)
  BY <1>1, <1>2
<1>5. Shape(PutLevel(tree, n.side, n.price, l), [index EXCEPT ![cursor] = n])
  BY <1>1, <1>2, <1>4, RewriteShape
<1>6. Shape(tree, index)'
  BY <1>2, <1>3, <1>5
<1> QED
  BY <1>1, <1>2, <1>3, <1>6 DEF l

\* A trade that leaves something of the maker.
LEMMA FillPartlyInv ==
    ASSUME Inv, FillPartly
    PROVE  Inv'
<1> DEFINE l == DecrementLevel(level, maker, FillQty)
<1>1. /\ Trade /\ tree' = WithLevel(OppSide, at, l)
      /\ index' = [index EXCEPT ![cursor] = DecrementNode(@, FillQty)]
      /\ UNCHANGED <<nodesInUse, orderSeq, cursor, haltQueued>>
  BY DEF FillPartly
<1>2. /\ AtMaker /\ pc' = "inner"
      /\ UNCHANGED <<levelsInUse, pc, taker, at, stpCancels, outcome, now>>
      /\ FillQty \in Nat /\ FillQty <= maker.remain
      /\ incoming' \in Node /\ incoming'.side = incoming.side
      /\ incoming'.type = incoming.type /\ incoming'.price = incoming.price
      /\ fills' \in Seq(Fill)
  BY <1>1, TradeFacts
<1>3. /\ Shape(tree, index)' /\ l \in Level /\ l.queue # <<>> /\ cursor = Head(l.queue)
      /\ tree' = PutLevel(tree, OppSide, at, l) /\ DOMAIN index' = DOMAIN index
  BY <1>1, <1>2, RewriteMaker
<1> HIDE DEF l
<1>4. ScalarTypes'
  BY <1>1, <1>2, <1>3 DEF Inv, ScalarTypes
<1>5. TakerApart'
  BY <1>2, <1>3 DEF Inv, TakerApart
<1>6. cursor' = IF l.queue = <<>> THEN Nil ELSE Head(l.queue)
  BY <1>1, <1>3
<1> QED
  BY <1>2, <1>3, <1>4, <1>5, <1>6, InnerGoesOn

\* A step that zeroes the taker leaves the loops with no empty level behind.
LEMMA ZeroTakerInv ==
    ASSUME Inv, AtMaker, ZeroTaker, UNCHANGED <<orderSeq, taker, fills, outcome, now>>,
           Shape(tree, index)', nodesInUse' \in Int, levelsInUse' \in Int,
           stpCancels' \in Seq(OrderIds), haltQueued' \subseteq DOMAIN index',
           DOMAIN index' \subseteq DOMAIN index,
           \A s \in Side : \A p \in DOMAIN tree'[s] : tree'[s][p].queue # <<>>
    PROVE  Inv'
<1>1. /\ pc = "inner" /\ pc' = "stpDone" /\ at' = 0 /\ cursor' = Nil
      /\ incoming' = [incoming EXCEPT !.remain = 0]
  BY DEF AtMaker, ZeroTaker
<1>2. incoming' \in Node /\ taker \notin DOMAIN index
  BY <1>1, MakerFacts DEF Node
<1>3. 0 \in Price
  BY CapacityAssumption DEF Price
<1>4. ScalarTypes'
  BY <1>1, <1>2, <1>3 DEF Inv, ScalarTypes, Matching
<1>5. TakerApart'
  BY <1>2 DEF TakerApart
<1>6. NoEmptyLevel' /\ ScanAtBest'
  BY <1>1 DEF NoEmptyLevel, ScanAtBest
<1> QED
  BY <1>4, <1>5, <1>6 DEF Inv

\* DecrementCancel with the taker as the smaller side.
LEMMA DecrementMakerInv ==
    ASSUME Inv, DecrementMaker
    PROVE  Inv'
<1> DEFINE l == DecrementLevel(level, maker, incoming.remain)
<1>1. /\ AtMaker /\ maker.remain > incoming.remain /\ ZeroTaker
      /\ tree' = WithLevel(OppSide, at, l)
      /\ index' = [index EXCEPT ![cursor] = DecrementNode(@, incoming.remain)]
      /\ UNCHANGED <<levelsInUse, nodesInUse, orderSeq, taker, fills, stpCancels, outcome,
                     now, haltQueued>>
  BY DEF DecrementMaker, Prevents, result
<1>2. /\ incoming \in Node /\ maker \in Node
      /\ DOMAIN tree = Side /\ OppSide \in Side /\ at \in DOMAIN tree[OppSide]
  BY <1>1, MakerFacts
<1>3. incoming.remain \in Nat /\ incoming.remain <= maker.remain
  BY <1>1, <1>2 DEF Node
<1>4. /\ Shape(tree, index)' /\ l \in Level /\ l.queue # <<>>
      /\ tree' = PutLevel(tree, OppSide, at, l) /\ DOMAIN index' = DOMAIN index
  BY <1>1, <1>3, RewriteMaker
<1> HIDE DEF l
<1>5. \A s \in Side : \A p \in DOMAIN tree'[s] : tree'[s][p].queue # <<>>
  <2>1. /\ DOMAIN tree'[OppSide] = DOMAIN tree[OppSide] \cup {at}
        /\ tree'[OppSide][at] = l
        /\ \A r \in DOMAIN tree[OppSide] \ {at} : tree'[OppSide][r] = tree[OppSide][r]
        /\ \A t \in Side \ {OppSide} : tree'[t] = tree[t]
    BY <1>2, <1>4, ReadPutLevel
  <2>2. \A s \in Side : \A p \in DOMAIN tree[s] : tree[s][p].queue # <<>>
    BY <1>1, NoneEmpty DEF AtMaker
  <2> QED
    BY <2>1, <2>2, <1>4
<1>6. /\ nodesInUse' \in Int /\ levelsInUse' \in Int /\ stpCancels' \in Seq(OrderIds)
      /\ haltQueued' \subseteq DOMAIN index'
  BY <1>1, <1>4 DEF Inv, ScalarTypes
<1> QED
  BY <1>1, <1>4, <1>5, <1>6, ZeroTakerInv

\* CancelBoth: the maker goes, and its level with it if it was the last there.
LEMMA PreventBothInv ==
    ASSUME Inv, PreventBoth
    PROVE  Inv'
<1> DEFINE u == Unlink(level, cursor, maker)
<1>1. /\ AtMaker /\ ZeroTaker
      /\ \/ /\ u.queue = <<>> /\ tree' = DeleteLevel(tree, OppSide, at)
            /\ levelsInUse' = levelsInUse - 1
         \/ /\ u.queue # <<>> /\ tree' = PutLevel(tree, OppSide, at, u)
            /\ levelsInUse' = levelsInUse
      /\ index' = Delete(index, cursor)
      /\ nodesInUse' = nodesInUse - 1 /\ haltQueued' = haltQueued \ {cursor}
      /\ stpCancels' = Append(stpCancels, cursor)
      /\ UNCHANGED <<orderSeq, taker, fills, outcome, now>>
  BY DEF PreventBoth, Prevents, WithLevel, WithoutLevel, PutLevel, DeleteLevel
<1>2. /\ Shape(tree, index) /\ cursor \in DOMAIN index /\ cursor \in OrderIds
      /\ index[cursor].side = OppSide /\ index[cursor].price = at
      /\ level \in Level /\ maker \in Node
      /\ level.queue = tree[index[cursor].side][index[cursor].price].queue
      /\ DOMAIN tree = Side /\ OppSide \in Side /\ at \in DOMAIN tree[OppSide]
  BY <1>1, MakerFacts DEF maker
<1>3. /\ Shape(PutLevel(tree, OppSide, at, u), Delete(index, cursor))
      /\ u.queue = <<>> => Shape(DeleteLevel(tree, OppSide, at), Delete(index, cursor))
  BY <1>2, RemoveShape
<1> HIDE DEF u
<1>4. Shape(tree, index)'
  BY <1>1, <1>3
<1>5. \A s \in Side : \A p \in DOMAIN tree[s] : tree[s][p].queue # <<>>
  BY <1>1, NoneEmpty DEF AtMaker
<1>6. \A s \in Side : \A p \in DOMAIN tree'[s] : tree'[s][p].queue # <<>>
  <2>1. CASE u.queue = <<>> /\ tree' = DeleteLevel(tree, OppSide, at)
    <3>1. /\ DOMAIN tree'[OppSide] = DOMAIN tree[OppSide] \ {at}
          /\ \A r \in DOMAIN tree[OppSide] \ {at} : tree'[OppSide][r] = tree[OppSide][r]
          /\ \A t \in Side \ {OppSide} : tree'[t] = tree[t]
      BY <2>1, <1>2, ReadDeleteLevel
    <3> QED
      BY <3>1, <1>5
  <2>2. CASE u.queue # <<>> /\ tree' = PutLevel(tree, OppSide, at, u)
    <3>1. /\ DOMAIN tree'[OppSide] = DOMAIN tree[OppSide] \cup {at}
          /\ tree'[OppSide][at] = u
          /\ \A r \in DOMAIN tree[OppSide] \ {at} : tree'[OppSide][r] = tree[OppSide][r]
          /\ \A t \in Side \ {OppSide} : tree'[t] = tree[t]
      BY <2>2, <1>2, ReadPutLevel
    <3> QED
      BY <3>1, <2>2, <1>5
  <2> QED
    BY <2>1, <2>2, <1>1
<1>7. DOMAIN index' = DOMAIN index \ {cursor}
  BY <1>1 DEF Delete
<1>8. /\ nodesInUse' \in Int /\ levelsInUse' \in Int /\ stpCancels' \in Seq(OrderIds)
      /\ haltQueued' \subseteq DOMAIN index'
  BY <1>1, <1>2, <1>7 DEF Inv, ScalarTypes
<1> QED
  BY <1>1, <1>4, <1>6, <1>7, <1>8, ZeroTakerInv

\* An iceberg's next slice keeps the types.
LEMMA ReplenishType ==
    ASSUME NEW n \in Node, NEW seq \in Nat
    PROVE  /\ Replenish(n, seq) \in Node
           /\ Replenish(n, seq).side = n.side /\ Replenish(n, seq).price = n.price
           /\ Replenish(n, seq).seq = seq
<1> DEFINE slice == Smaller(n.hidden, n.lot)
<1>1. n.hidden \in Nat /\ n.lot \in Nat
  BY DEF Node
<1>2. slice \in Nat /\ n.hidden - slice \in Nat
  BY <1>1 DEF Smaller
<1>3. Replenish(n, seq)
        = [n EXCEPT !.hidden = @ - slice, !.remain = slice, !.display = slice, !.seq = seq]
  BY DEF Replenish
<1> HIDE DEF slice
<1> QED
  BY <1>2, <1>3 DEF Node

\* A trade that exhausts the slice of an iceberg: the order moves to the tail.
LEMMA FillAndReplenishInv ==
    ASSUME Inv, FillAndReplenish
    PROVE  Inv'
<1> DEFINE d == DecrementLevel(level, maker, FillQty)
           left == DecrementNode(maker, FillQty)
           renewed == Replenish(left, orderSeq + 1)
           u == Unlink(d, cursor, left)
           l == Enqueue(u, cursor, renewed)
<1>1. /\ Trade /\ tree' = PutLevel(tree, OppSide, at, l)
      /\ index' = [index EXCEPT ![cursor] = renewed] /\ cursor' = Head(l.queue)
      /\ orderSeq' = orderSeq + 1 /\ UNCHANGED <<nodesInUse, haltQueued>>
  BY DEF FillAndReplenish, WithLevel, PutLevel
<1>2. /\ AtMaker /\ pc' = "inner"
      /\ UNCHANGED <<levelsInUse, pc, taker, at, stpCancels, outcome, now>>
      /\ FillQty \in Nat /\ FillQty <= maker.remain
      /\ incoming' \in Node /\ incoming'.side = incoming.side
      /\ incoming'.type = incoming.type /\ incoming'.price = incoming.price
      /\ fills' \in Seq(Fill)
  BY <1>1, TradeFacts
<1>3. /\ Shape(tree, index) /\ cursor \in DOMAIN index /\ cursor \in OrderIds
      /\ maker \in Node /\ level \in Level /\ level = tree[OppSide][at]
      /\ index[cursor].side = OppSide /\ index[cursor].price = at
      /\ maker.side = OppSide /\ maker.price = at
      /\ Range(level.queue) = OrdersAt(index, OppSide, at)
      /\ OppSide \in Side /\ at \in Price /\ taker \notin DOMAIN index
  BY <1>2, MakerFacts DEF maker
<1>4. /\ left \in Node /\ left.side = OppSide /\ left.price = at
      /\ d \in Level /\ d.queue = level.queue
  BY <1>2, <1>3, DecrementTypes
<1>5. orderSeq + 1 \in Nat
  BY DEF Inv, ScalarTypes
<1> HIDE DEF d, left
<1>6. renewed \in Node /\ renewed.side = OppSide /\ renewed.price = at
  BY <1>4, <1>5, ReplenishType
<1>7. /\ u \in Level /\ IsInjective(u.queue)
      /\ Range(u.queue) = OrdersAt(index, OppSide, at) \ {cursor}
      /\ cursor \in OrdersAt(index, OppSide, at)
  <2>1. d.queue = tree[index[cursor].side][index[cursor].price].queue
    BY <1>3, <1>4
  <2>2. /\ u \in Level /\ IsInjective(u.queue)
        /\ Range(u.queue) = OrdersAt(index, index[cursor].side, index[cursor].price)
                               \ {cursor}
        /\ cursor \in Range(d.queue)
    BY <2>1, <1>3, <1>4, UnlinkLevel
  <2> QED
    BY <2>2, <1>3, <1>4
<1> HIDE DEF u, renewed
<1>8. u.queue \in Seq(OrderIds) /\ u.total \in Int /\ u.display \in Int /\ u.count \in Int
  BY <1>7 DEF Level
<1>9. l.queue = Append(u.queue, cursor)
  BY DEF Enqueue
<1>10. /\ l.queue \in Seq(OrderIds) /\ l.queue # <<>> /\ IsInjective(l.queue)
       /\ Range(l.queue) = Range(u.queue) \cup {cursor}
  BY <1>3, <1>7, <1>8, <1>9, AppendToQueue
<1>11. l \in Level
  <2>1. renewed.remain \in Nat /\ renewed.display \in Nat
    BY <1>6 DEF Node
  <2> QED
    BY <2>1, <1>8, <1>9, <1>10 DEF Enqueue, Level
<1> HIDE DEF l
<1>12. Range(l.queue) = Range(tree[renewed.side][renewed.price].queue)
  BY <1>3, <1>6, <1>7, <1>10
<1>13. Shape(PutLevel(tree, renewed.side, renewed.price, l),
             [index EXCEPT ![cursor] = renewed])
  BY <1>3, <1>6, <1>10, <1>11, <1>12, RewriteShape
<1>14. Shape(tree, index)' /\ DOMAIN index' = DOMAIN index
  BY <1>1, <1>6, <1>13
<1>15. cursor' \in OrderIds
  BY <1>1, <1>10, HeadOfQueue
<1>16. ScalarTypes'
  BY <1>1, <1>2, <1>5, <1>14, <1>15 DEF Inv, ScalarTypes
<1>17. TakerApart'
  BY <1>2, <1>3, <1>14 DEF TakerApart
<1>18. cursor' = IF l.queue = <<>> THEN Nil ELSE Head(l.queue)
  BY <1>1, <1>10
<1> QED
  BY <1>1, <1>2, <1>11, <1>14, <1>16, <1>17, <1>18, InnerGoesOn

------------------------------------------------------------------------------
(* The theorems.                                                             *)

\* A step that changes nothing keeps the invariant.
LEMMA StutterInv ==
    ASSUME Inv, UNCHANGED vars
    PROVE  Inv'
<1>1. Shape(tree, index)'
  BY DEF Inv, vars
<1>2. ScalarTypes'
  BY DEF Inv, ScalarTypes, vars
<1>3. NoEmptyLevel' /\ TakerApart'
  BY DEF Inv, NoEmptyLevel, TakerApart, OppSide, vars
<1>4. ScanAtBest'
  BY DEF Inv, ScanAtBest, OppSide, Crosses, Better, vars
<1> QED
  BY <1>1, <1>2, <1>3, <1>4 DEF Inv

\* Every step keeps the invariant.
LEMMA NextInv == Inv /\ [Next]_vars => Inv'
<1> SUFFICES ASSUME Inv, [Next]_vars PROVE Inv'
  OBVIOUS
<1>1. CASE \E o \in OrderIds, c \in Commands : Place(o, c) \/ PlaceResting(o, c)
  BY <1>1, PlaceInv, PlaceRestingInv
<1>2. CASE \E o \in OrderIds, u \in Users : Cancel(o, u)
  BY <1>2, CancelInv
<1>3. CASE \E t \in ScanTimes : ExpireGTD(t)
  BY <1>3, ScanInv
<1>4. CASE MatchStep
  BY <1>4, DecideInv, EnterLevelInv, LeaveLevelInv, PreventBothInv, PreventMakerInv,
     PreventTakerInv, DecrementMakerInv, DecrementTakerInv, FillPartlyInv, FillAndRemoveInv,
     FillAndReplenishInv, FinishRestedInv
     DEF MatchStep
<1>5. CASE ExpireStep
  BY <1>5, CancelInv, ScanInv DEF ExpireStep
<1>6. CASE UNCHANGED vars
  BY <1>6, StutterInv
<1> QED
  BY <1>1, <1>2, <1>3, <1>4, <1>5, <1>6 DEF Next

\* The invariant holds in every state of every run of the book.
THEOREM Invariant == Spec => []Inv
<1>1. Init => Inv
  BY InitInv
<1>2. Inv /\ [Next]_vars => Inv'
  BY NextInv
<1> QED
  BY <1>1, <1>2, PTL DEF Spec

\* All variables keep their types: no quantity of an order and no reserve goes negative,
\* the cursor is a submitted order or nil, and halted-in orders are orders of the book.
THEOREM TypeCorrect == Spec => []TypeOK
<1>1. Inv => TypeOK
  BY DEF Inv, Shape, IndexShape, ScalarTypes, TypeOK
<1> QED
  BY <1>1, Invariant, PTL

\* Index, tree and queues always agree: an order found by its id is in the queue of the
\* level its side and price name, once, and no queue holds anything else.
THEOREM QueuesAgree == Spec => []QueuesMatchIndex
<1>1. Inv => QueuesMatchIndex
  BY DEF Inv, Shape, OrdersAt, QueuesMatchIndex
<1> QED
  BY <1>1, Invariant, PTL

\* A level without orders is in a tree only while the match loop works on it.
THEOREM EmptyLevelsLeave == Spec => []NoEmptyLevel
<1>1. Inv => NoEmptyLevel
  BY DEF Inv
<1> QED
  BY <1>1, Invariant, PTL
=============================================================================

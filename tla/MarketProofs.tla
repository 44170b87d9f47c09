---------------------------- MODULE MarketProofs ----------------------------
(***************************************************************************)
(* Proofs about Market, for every set of commands and every capacity: that *)
(* a halt stops trading, that no order is live twice, that a restart keeps *)
(* the order of every queue, that reduce-only orders reduce, and that the  *)
(* events tell a client which orders are open and what is left of each.    *)
(***************************************************************************)
EXTENDS Market, FiniteLemmas

------------------------------------------------------------------------------
(* The calls in progress, for any sequence of frames.                        *)

Triggering == [id : OrderIds, stop : Stop]
Frame == [price : Nat, todo : Seq(Triggering)]

TodoIn(F) == UNION {Range(F[i].todo) : i \in DOMAIN F}
IdsIn(F) == {t.id : t \in TodoIn(F)}
Once(F) ==
    \A i, j \in DOMAIN F : \A k \in DOMAIN F[i].todo, l \in DOMAIN F[j].todo :
        F[i].todo[k].id = F[j].todo[l].id => i = j /\ k = l

LEMMA SequenceDomain ==
    ASSUME NEW S, NEW q \in Seq(S)
    PROVE  /\ DOMAIN q = 1..Len(q) /\ Len(q) \in Nat
           /\ \A i \in 1..Len(q) : q[i] \in S
BY LenProperties

LEMMA InTodo ==
    ASSUME NEW F, NEW i \in DOMAIN F, NEW k \in DOMAIN F[i].todo
    PROVE  F[i].todo[k] \in TodoIn(F)
BY DEF TodoIn, Range

LEMMA TodoTypes ==
    ASSUME NEW F \in Seq(Frame)
    PROVE  \A t \in TodoIn(F) : t \in Triggering
<1> SUFFICES ASSUME NEW t \in TodoIn(F) PROVE t \in Triggering
  OBVIOUS
<1>1. PICK i \in DOMAIN F : t \in Range(F[i].todo)
  BY DEF TodoIn
<1>2. F[i] \in Frame
  BY SequenceDomain
<1>3. F[i].todo \in Seq(Triggering)
  BY <1>2 DEF Frame
<1> QED
  BY <1>1, <1>3, SequenceDomain DEF Range

\* Nothing is to do where there are no calls.
LEMMA NothingToDo == TodoIn(<<>>) = {} /\ Once(<<>>) /\ <<>> \in Seq(Frame)
<1>1. DOMAIN <<>> = {}
  OBVIOUS
<1> QED
  BY <1>1, EmptySeq DEF TodoIn, Once

\* The frames before the innermost.
LEMMA FrontOf ==
    ASSUME NEW F \in Seq(Frame), F # <<>>
    PROVE  LET n == Len(F)
               G == Front(F)
           IN  /\ n \in Nat \ {0} /\ Last(F) = F[n] /\ F[n] \in Frame
               /\ G \in Seq(Frame) /\ Len(G) = n - 1
               /\ DOMAIN G = 1..(n - 1) /\ DOMAIN F = 1..n
               /\ \A i \in 1..(n - 1) : G[i] = F[i]
<1> DEFINE n == Len(F)
           G == Front(F)
<1>1. n \in Nat /\ DOMAIN F = 1..n /\ \A i \in 1..n : F[i] \in Frame
  BY SequenceDomain
<1>2. n # 0
  BY EmptySeq
<1>3. \A i \in 1..(n - 1) : F[i] \in Frame
  BY <1>1
<1>4. /\ G \in Seq(Frame)
      /\ Len(G) = IF 1 <= n - 1 THEN (n - 1) - 1 + 1 ELSE 0
      /\ \A i \in 1..((n - 1) - 1 + 1) : G[i] = F[1 + i - 1]
  <2> HIDE DEF n
  <2>1. 1 \in Int /\ n - 1 \in Int
    BY <1>1
  <2>2. G = SubSeq(F, 1, n - 1)
    BY DEF Front, n
  <2> HIDE DEF G
  <2> QED
    BY <2>1, <2>2, <1>3, SubSeqProperties
<1>5. Len(G) = n - 1 /\ \A i \in 1..(n - 1) : G[i] = F[i]
  <2> HIDE DEF G, n
  <2>1. Len(G) = n - 1
    BY <1>1, <1>2, <1>4
  <2>2. ASSUME NEW i \in 1..(n - 1) PROVE G[i] = F[i]
    <3>1. i \in 1..((n - 1) - 1 + 1) /\ 1 + i - 1 = i
      BY <1>1, <2>2
    <3> QED
      BY <1>4, <3>1
  <2> QED
    BY <2>1, <2>2
<1>6. DOMAIN G = 1..(n - 1)
  <2> HIDE DEF G, n
  <2> QED
    BY <1>4, <1>5, SequenceDomain
<1>7. F[n] \in Frame
  BY <1>1, <1>2
<1>8. Last(F) = F[n]
  BY DEF Last
<1> QED
  BY <1>1, <1>2, <1>4, <1>5, <1>6, <1>7, <1>8

\* A frame is put on top.
LEMMA FramePushed ==
    ASSUME NEW F \in Seq(Frame), NEW f \in Frame
    PROVE  LET G == Append(F, f)
               n == Len(F) + 1
           IN  /\ G \in Seq(Frame) /\ n \in Nat /\ DOMAIN G = 1..n /\ DOMAIN F = 1..(n - 1)
               /\ \A i \in 1..(n - 1) : G[i] = F[i]
               /\ G[n] = f
               /\ TodoIn(G) = TodoIn(F) \cup Range(f.todo)
<1> DEFINE G == Append(F, f)
           n == Len(F) + 1
<1>1. /\ G \in Seq(Frame) /\ Len(G) = n /\ n \in Nat /\ n >= 1
      /\ \A i \in 1..Len(F) : G[i] = F[i]
      /\ G[n] = f
      /\ Len(F) = n - 1
  BY AppendProperties, SequenceDomain
<1>2. DOMAIN G = 1..n /\ DOMAIN F = 1..(n - 1)
  <2> HIDE DEF G, n
  <2> QED
    BY <1>1, SequenceDomain
<1>3. TodoIn(G) = TodoIn(F) \cup Range(f.todo)
  <2>1. \A i \in 1..n : i = n \/ i \in 1..(n - 1)
    <3> HIDE DEF n
    <3> QED
      BY <1>1
  <2>2. \A i \in 1..(n - 1) : i \in 1..n /\ G[i] = F[i]
    <3> HIDE DEF n, G
    <3> QED
      BY <1>1
  <2>3. n \in 1..n
    <3> HIDE DEF n
    <3> QED
      BY <1>1
  <2> HIDE DEF n, G
  <2>4. ASSUME NEW t \in TodoIn(G) PROVE t \in TodoIn(F) \cup Range(f.todo)
    <3>1. PICK i \in 1..n : t \in Range(G[i].todo)
      BY <1>2 DEF TodoIn
    <3>2. CASE i = n
      BY <3>1, <3>2, <1>1
    <3>3. CASE i \in 1..(n - 1)
      BY <3>1, <3>3, <2>2, <1>2 DEF TodoIn
    <3> QED
      BY <2>1, <3>2, <3>3
  <2>5. ASSUME NEW t \in TodoIn(F) PROVE t \in TodoIn(G)
    <3>1. PICK i \in 1..(n - 1) : t \in Range(F[i].todo)
      BY <1>2 DEF TodoIn
    <3> QED
      BY <3>1, <2>2, <1>2 DEF TodoIn
  <2>6. Range(f.todo) \subseteq TodoIn(G)
    BY <2>3, <1>1, <1>2 DEF TodoIn
  <2> QED
    BY <2>4, <2>5, <2>6
<1> QED
  BY <1>1, <1>2, <1>3

\* ... with orders that are different from each other and from all the others.
LEMMA PushedOnce ==
    ASSUME NEW F \in Seq(Frame), NEW f \in Frame, Once(F),
           \A k, l \in DOMAIN f.todo : f.todo[k].id = f.todo[l].id => k = l,
           \A k \in DOMAIN f.todo : f.todo[k].id \notin IdsIn(F)
    PROVE  Once(Append(F, f))
<1> DEFINE G == Append(F, f)
           n == Len(F) + 1
<1>1. /\ n \in Nat /\ DOMAIN G = 1..n /\ DOMAIN F = 1..(n - 1)
      /\ \A i \in 1..(n - 1) : G[i] = F[i]
      /\ G[n] = f
  BY FramePushed
<1> HIDE DEF G, n
<1>2. \A i \in 1..n : i = n \/ i \in 1..(n - 1)
  BY <1>1
<1>3. ASSUME NEW i \in DOMAIN F, NEW k \in DOMAIN F[i].todo
      PROVE  F[i].todo[k].id \in IdsIn(F)
  BY InTodo DEF IdsIn
<1>4. ASSUME NEW i \in DOMAIN G, NEW j \in DOMAIN G, NEW k \in DOMAIN G[i].todo,
             NEW l \in DOMAIN G[j].todo, G[i].todo[k].id = G[j].todo[l].id
      PROVE  i = j /\ k = l
  <2>1. CASE i = n /\ j = n
    BY <2>1, <1>4, <1>1
  <2>2. CASE i = n /\ j \in 1..(n - 1)
    BY <2>2, <1>4, <1>1, <1>3
  <2>3. CASE i \in 1..(n - 1) /\ j = n
    BY <2>3, <1>4, <1>1, <1>3
  <2>4. CASE i \in 1..(n - 1) /\ j \in 1..(n - 1)
    <3>1. /\ i \in DOMAIN F /\ j \in DOMAIN F /\ k \in DOMAIN F[i].todo /\ l \in DOMAIN F[j].todo
          /\ F[i].todo[k].id = F[j].todo[l].id
      BY <2>4, <1>1, <1>4
    <3> QED
      BY <3>1 DEF Once
  <2> QED
    BY <2>1, <2>2, <2>3, <2>4, <1>1, <1>2
<1>5. Once(G)
  BY <1>4 DEF Once
<1> QED
  BY <1>5 DEF G

\* The innermost call returns.
LEMMA FramePopped ==
    ASSUME NEW F \in Seq(Frame), F # <<>>, Once(F)
    PROVE  /\ Front(F) \in Seq(Frame) /\ Once(Front(F))
           /\ TodoIn(F) = TodoIn(Front(F)) \cup Range(Last(F).todo)
           /\ \A k \in DOMAIN Last(F).todo : Last(F).todo[k].id \notin IdsIn(Front(F))
<1> DEFINE n == Len(F)
           G == Front(F)
           f == Last(F)
<1>1. /\ n \in Nat \ {0} /\ f = F[n] /\ F[n] \in Frame
      /\ G \in Seq(Frame) /\ Len(G) = n - 1 /\ DOMAIN G = 1..(n - 1) /\ DOMAIN F = 1..n
      /\ \A i \in 1..(n - 1) : G[i] = F[i]
  BY FrontOf
<1> HIDE DEF n, G, f
<1>2. /\ \A i \in 1..n : i = n \/ i \in 1..(n - 1)
      /\ \A i \in 1..(n - 1) : i \in 1..n /\ i # n
      /\ n \in 1..n
  BY <1>1
<1>3. Once(G)
  <2>1. ASSUME NEW i \in DOMAIN G, NEW j \in DOMAIN G, NEW k \in DOMAIN G[i].todo,
               NEW l \in DOMAIN G[j].todo, G[i].todo[k].id = G[j].todo[l].id
        PROVE  i = j /\ k = l
    <3>1. /\ i \in DOMAIN F /\ j \in DOMAIN F /\ k \in DOMAIN F[i].todo /\ l \in DOMAIN F[j].todo
          /\ F[i].todo[k].id = F[j].todo[l].id
      BY <2>1, <1>1, <1>2
    <3> QED
      BY <3>1 DEF Once
  <2> QED
    BY <2>1 DEF Once
<1>4. TodoIn(F) = TodoIn(G) \cup Range(f.todo)
  <2>1. ASSUME NEW t \in TodoIn(F) PROVE t \in TodoIn(G) \cup Range(f.todo)
    <3>1. PICK i \in 1..n : t \in Range(F[i].todo)
      BY <1>1 DEF TodoIn
    <3>2. CASE i = n
      BY <3>1, <3>2, <1>1
    <3>3. CASE i \in 1..(n - 1)
      BY <3>1, <3>3, <1>1 DEF TodoIn
    <3> QED
      BY <1>2, <3>2, <3>3
  <2>2. ASSUME NEW t \in TodoIn(G) PROVE t \in TodoIn(F)
    <3>1. PICK i \in 1..(n - 1) : t \in Range(G[i].todo)
      BY <1>1 DEF TodoIn
    <3> QED
      BY <3>1, <1>1, <1>2 DEF TodoIn
  <2>3. Range(f.todo) \subseteq TodoIn(F)
    BY <1>1, <1>2 DEF TodoIn
  <2> QED
    BY <2>1, <2>2, <2>3
<1>5. ASSUME NEW k \in DOMAIN f.todo, f.todo[k].id \in IdsIn(G) PROVE FALSE
  <2>1. PICK t \in TodoIn(G) : t.id = f.todo[k].id
    BY <1>5 DEF IdsIn
  <2>2. PICK i \in 1..(n - 1) : t \in Range(G[i].todo)
    BY <1>1 DEF TodoIn
  <2>3. PICK l \in DOMAIN G[i].todo : t = G[i].todo[l]
    BY <2>2 DEF Range
  <2>4. /\ i \in DOMAIN F /\ n \in DOMAIN F /\ i # n /\ l \in DOMAIN F[i].todo
        /\ k \in DOMAIN F[n].todo /\ F[i].todo[l].id = F[n].todo[k].id
    BY <2>1, <2>2, <2>3, <1>1, <1>2
  <2> QED
    BY <2>4 DEF Once
<1> QED
  BY <1>1, <1>3, <1>4, <1>5 DEF G, f

\* The first order of the innermost call is taken.
LEMMA OrderTaken ==
    ASSUME NEW F \in Seq(Frame), F # <<>>, Once(F), Last(F).todo # <<>>
    PROVE  LET G == Append(Front(F), [Last(F) EXCEPT !.todo = Tail(@)])
               t == Head(Last(F).todo)
           IN  /\ G \in Seq(Frame) /\ Once(G)
               /\ t \in TodoIn(F) /\ t \in Triggering
               /\ TodoIn(F) = TodoIn(G) \cup {t}
               /\ t.id \notin IdsIn(G)
<1> DEFINE f == Last(F)
           q == f.todo
           t == Head(q)
           r == Tail(q)
           g == [f EXCEPT !.todo = Tail(@)]
           H == Front(F)
           G == Append(H, g)
<1>1. /\ H \in Seq(Frame) /\ Once(H) /\ TodoIn(F) = TodoIn(H) \cup Range(q)
      /\ \A k \in DOMAIN q : q[k].id \notin IdsIn(H)
  BY FramePopped
<1>2. f \in Frame /\ Len(F) \in DOMAIN F /\ f = F[Len(F)]
  BY FrontOf
<1>3. q \in Seq(Triggering) /\ q # <<>>
  BY <1>2 DEF Frame
<1> HIDE DEF q
<1>4. /\ r \in Seq(Triggering) /\ Len(r) = Len(q) - 1
      /\ \A i \in 1..Len(r) : r[i] = q[i + 1]
      /\ DOMAIN q = 1..Len(q) /\ Len(q) \in Nat \ {0} /\ DOMAIN r = 1..Len(r)
      /\ t \in Triggering /\ t = q[1]
  <2>1. /\ r \in Seq(Triggering) /\ Len(r) = Len(q) - 1
        /\ \A i \in 1..Len(r) : r[i] = q[i + 1]
        /\ t \in Triggering
    BY <1>3, HeadTailProperties
  <2>2. Len(q) \in Nat \ {0} /\ DOMAIN q = 1..Len(q)
    BY <1>3, EmptySeq, SequenceDomain
  <2>3. DOMAIN r = 1..Len(r)
    BY <2>1, SequenceDomain
  <2>4. t = q[1]
    BY <1>3
  <2> QED
    BY <2>1, <2>2, <2>3, <2>4
<1>5. g \in Frame /\ g.todo = r
  BY <1>2, <1>4 DEF q, Frame
<1> HIDE DEF f, g, r, t, H
<1>6. ASSUME NEW k \in DOMAIN q, NEW l \in DOMAIN q, q[k].id = q[l].id PROVE k = l
  BY <1>2, <1>6 DEF Once, q
<1>7. ASSUME NEW k \in DOMAIN r PROVE k + 1 \in DOMAIN q /\ r[k] = q[k + 1] /\ k + 1 # 1 /\ k \in Nat
  BY <1>4
<1>8. /\ \A k, l \in DOMAIN r : r[k].id = r[l].id => k = l
      /\ \A k \in DOMAIN r : r[k].id \notin IdsIn(H) /\ r[k].id # t.id
      /\ 1 \in DOMAIN q
  <2>1. 1 \in DOMAIN q
    BY <1>4
  <2>2. ASSUME NEW k \in DOMAIN r, NEW l \in DOMAIN r, r[k].id = r[l].id PROVE k = l
    <3>1. k + 1 = l + 1
      BY <2>2, <1>6, <1>7
    <3> QED
      BY <3>1, <1>7
  <2>3. ASSUME NEW k \in DOMAIN r PROVE r[k].id \notin IdsIn(H) /\ r[k].id # t.id
    BY <1>1, <1>4, <1>6, <1>7, <2>1
  <2> QED
    BY <2>1, <2>2, <2>3
<1>9. /\ G \in Seq(Frame) /\ Once(G) /\ TodoIn(G) = TodoIn(H) \cup Range(r)
  BY <1>1, <1>5, <1>8, FramePushed, PushedOnce
<1>10. Range(q) = Range(r) \cup {t}
  <2>1. \A k \in DOMAIN q : k = 1 \/ (k - 1 \in DOMAIN r /\ r[k - 1] = q[k])
    BY <1>4
  <2>2. Range(q) \subseteq Range(r) \cup {t}
    BY <2>1, <1>4 DEF Range
  <2>3. Range(r) \subseteq Range(q) /\ t \in Range(q)
    BY <1>7, <1>8, <1>4 DEF Range
  <2> QED
    BY <2>2, <2>3
<1>11. t.id \notin IdsIn(G)
  <2>1. \A x \in Range(r) : x.id # t.id
    BY <1>8 DEF Range
  <2>2. t.id \notin IdsIn(H)
    BY <1>1, <1>4, <1>8
  <2> QED
    BY <2>1, <2>2, <1>9 DEF IdsIn
<1> QED
  BY <1>1, <1>4, <1>9, <1>10, <1>11 DEF f, q, g, r, t, H, G

------------------------------------------------------------------------------
(* Books: the queues stay in an order, whatever trades and enters.           *)

Fields == {"side", "price", "qty", "place", "seq"}
OrderLike(r) ==
    /\ Fields \subseteq DOMAIN r
    /\ r.side \in Side /\ r.price \in Nat /\ r.place \in Nat /\ r.seq \in Nat

GoodBook(b) ==
    /\ IsFiniteSet(DOMAIN b)
    /\ \A o \in DOMAIN b : OrderLike(b[o])
    /\ \A o, p \in DOMAIN b : b[o].place = b[p].place => o = p

LEMMA Requantified ==
    ASSUME NEW r, OrderLike(r), NEW q
    PROVE  LET s == [r EXCEPT !.qty = q]
           IN  OrderLike(s) /\ s.side = r.side /\ s.price = r.price /\ s.place = r.place
BY DEF OrderLike, Fields

LEMMA Replaced ==
    ASSUME NEW r, OrderLike(r), NEW p \in Nat
    PROVE  LET s == [r EXCEPT !.place = p]
           IN  OrderLike(s) /\ s.side = r.side /\ s.price = r.price /\ s.place = p
BY DEF OrderLike, Fields

LEMMA MakersKeepOrder ==
    ASSUME NEW b, GoodBook(b), NEW n
    PROVE  LET c == MakersAfter(b, n) IN
           /\ GoodBook(c) /\ DOMAIN c \subseteq DOMAIN b
           /\ \A o \in DOMAIN c : c[o].place = b[o].place
<1> DEFINE c == MakersAfter(b, n)
<1>1. /\ DOMAIN c \subseteq DOMAIN b
      /\ \A m \in DOMAIN c : c[m] = [b[m] EXCEPT !.qty = @ - Traded(b, n, m)]
  BY DEF MakersAfter
<1> HIDE DEF c
<1>2. ASSUME NEW m \in DOMAIN c
      PROVE  OrderLike(c[m]) /\ c[m].place = b[m].place
  <2> DEFINE r == b[m]
             q == b[m].qty - Traded(b, n, m)
  <2>1. OrderLike(r) /\ c[m] = [r EXCEPT !.qty = q]
    BY <1>1 DEF GoodBook
  <2> HIDE DEF r, q
  <2>2. OrderLike(c[m]) /\ c[m].place = r.place
    BY <2>1, Requantified
  <2> QED
    BY <2>2 DEF r
<1>3. IsFiniteSet(DOMAIN c)
  BY <1>1, FS_Subset DEF GoodBook
<1>4. ASSUME NEW o \in DOMAIN c, NEW p \in DOMAIN c, c[o].place = c[p].place PROVE o = p
  BY <1>1, <1>2, <1>4 DEF GoodBook
<1> QED
  BY <1>1, <1>2, <1>3, <1>4 DEF GoodBook, c

\* Who enters stands behind all others.
LEMMA EnteredLast ==
    ASSUME NEW b, GoodBook(b), NEW o, NEW n, OrderLike(n)
    PROVE  LET c == Enter(b, o, n) IN
           /\ GoodBook(c) /\ DOMAIN c = DOMAIN b \cup {o}
           /\ \A m \in DOMAIN b \ {o} : c[m] = b[m]
<1> DEFINE S == {n.seq} \cup {b[m].place + 1 : m \in DOMAIN b}
           p == Max(S)
           c == Enter(b, o, n)
           e == [n EXCEPT !.place = p]
<1>1. IsFiniteSet(S) /\ S \subseteq Nat /\ S # {}
  <2> DEFINE g == [m \in DOMAIN b |-> b[m].place + 1]
             T == {b[m].place + 1 : m \in DOMAIN b}
  <2>1. T = {g[m] : m \in DOMAIN b}
    OBVIOUS
  <2>2. IsFiniteSet(DOMAIN b) /\ \A m \in DOMAIN b : b[m].place \in Nat
    BY DEF GoodBook, OrderLike
  <2>3. IsFiniteSet(T)
    <3>1. g \in Surjection(DOMAIN b, T)
      BY DEF Surjection
    <3> HIDE DEF g, T
    <3> QED
      BY <2>2, <3>1, FS_Surjection
  <2>4. T \subseteq Nat
    BY <2>2
  <2>5. n.seq \in Nat
    BY DEF OrderLike
  <2> HIDE DEF T
  <2>6. IsFiniteSet({n.seq} \cup T)
    BY <2>3, FS_Singleton, FS_Union
  <2> QED
    BY <2>4, <2>5, <2>6 DEF T
<1>2. p \in Nat /\ \A y \in S : y <= p
  <2> HIDE DEF S
  <2> QED
    BY <1>1, Greatest
<1>3. \A m \in DOMAIN b : b[m].place \in Nat /\ b[m].place < p
  <2>1. ASSUME NEW m \in DOMAIN b PROVE b[m].place \in Nat /\ b[m].place < p
    <3>1. b[m].place \in Nat
      BY DEF GoodBook, OrderLike
    <3>2. b[m].place + 1 \in S
      OBVIOUS
    <3> HIDE DEF S, p
    <3>3. b[m].place + 1 <= p
      BY <1>2, <3>2
    <3> QED
      BY <1>2, <3>1, <3>3
  <2> QED
    BY <2>1
<1>4. c = [x \in DOMAIN b \cup {o} |-> IF x = o THEN e ELSE b[x]]
  BY DEF Enter, Put
<1> HIDE DEF c, p, e, S
<1>5. OrderLike(e) /\ e.place = p
  BY <1>2, Replaced DEF e
<1>6. DOMAIN c = DOMAIN b \cup {o} /\ c[o] = e /\ \A m \in DOMAIN b \ {o} : c[m] = b[m]
  BY <1>4
<1>7. IsFiniteSet(DOMAIN c)
  <2>1. IsFiniteSet(DOMAIN b)
    BY DEF GoodBook
  <2> QED
    BY <2>1, <1>6, FS_AddElement
<1>8. ASSUME NEW m \in DOMAIN c PROVE OrderLike(c[m])
  BY <1>5, <1>6 DEF GoodBook
<1>9. ASSUME NEW x \in DOMAIN c, NEW y \in DOMAIN c, c[x].place = c[y].place PROVE x = y
  <2>1. CASE x = o /\ y # o
    BY <2>1, <1>3, <1>5, <1>6, <1>9, <1>2
  <2>2. CASE x # o /\ y = o
    BY <2>2, <1>3, <1>5, <1>6, <1>9, <1>2
  <2>3. CASE x # o /\ y # o
    BY <2>3, <1>6, <1>9 DEF GoodBook
  <2> QED
    BY <2>1, <2>2, <2>3
<1> QED
  BY <1>6, <1>7, <1>8, <1>9 DEF GoodBook, c

\* The price of the last fill is one of a maker: the makers are in an order.
\* Orders that one order trades with stand in one queue.
LEMMA MakersInOrder ==
    ASSUME NEW b, GoodBook(b), NEW n, n.side \in Side, NEW M \in SUBSET Makers(b, n)
    PROVE  /\ IsFiniteSet(M) /\ M \subseteq DOMAIN b
           /\ StrictOrder(M, {x \in M \X M : Precedes(b, x[1], x[2])})
           /\ \A x, y \in M : <<x, y>> \in {z \in M \X M : Precedes(b, z[1], z[2])}
                              <=> Precedes(b, x, y)
<1> DEFINE R == {x \in M \X M : Precedes(b, x[1], x[2])}
<1>1. M \subseteq DOMAIN b /\ \A m \in M : b[m].side # n.side
  BY DEF Makers, Marketable
<1>2. \A x, y \in M : <<x, y>> \in R <=> Precedes(b, x, y)
  OBVIOUS
<1>3. \A m \in M : b[m].price \in Nat /\ b[m].place \in Nat /\ b[m].side \in Side
  BY <1>1 DEF GoodBook, OrderLike
<1>4. \A x, y \in M : b[x].side = b[y].side /\ (b[x].place = b[y].place => x = y)
  BY <1>1, <1>3 DEF GoodBook, Side
<1>5. IsFiniteSet(M)
  BY <1>1, FS_Subset DEF GoodBook
<1> HIDE DEF R
<1>6. \A x \in M : <<x, x>> \notin R
  BY <1>2, <1>3 DEF Precedes
<1>7. \A x, y, z \in M : <<x, y>> \in R /\ <<y, z>> \in R => <<x, z>> \in R
  <2>1. ASSUME NEW x \in M, NEW y \in M, NEW z \in M, Precedes(b, x, y), Precedes(b, y, z)
        PROVE  Precedes(b, x, z)
    BY <2>1, <1>3, <1>4 DEF Precedes, Side
  <2> QED
    BY <2>1, <1>2
<1>8. \A x, y \in M : x = y \/ <<x, y>> \in R \/ <<y, x>> \in R
  <2>1. ASSUME NEW x \in M, NEW y \in M, x # y
        PROVE  Precedes(b, x, y) \/ Precedes(b, y, x)
    BY <2>1, <1>3, <1>4 DEF Precedes, Side
  <2> QED
    BY <2>1, <1>2
<1>9. StrictOrder(M, R)
  BY <1>6, <1>7, <1>8 DEF StrictOrder
<1> QED
  BY <1>1, <1>2, <1>5, <1>9 DEF R

LEMMA LastPriceIsPrice ==
    ASSUME NEW b, GoodBook(b), NEW o, NEW n, n.side \in Side
    PROVE  LastPrice(b, Fills(b, o, n)) \in Nat
<1> DEFINE F == Fills(b, o, n)
           M == {f.maker : f \in F}
           R == {x \in M \X M : Precedes(b, x[1], x[2])}
<1>1. CASE F = {}
  BY <1>1 DEF LastPrice
<1>2. CASE F # {}
  <2>1. M # {} /\ \A m \in M : Traded(b, n, m) > 0
    BY <1>2 DEF Fills
  <2> HIDE DEF M
  <2>2. M \in SUBSET Makers(b, n)
    <3>1. ASSUME NEW m \in M, m \notin Makers(b, n) PROVE FALSE
      <4>1. Traded(b, n, m) = 0
        BY <3>1 DEF Traded
      <4> QED
        BY <4>1, <2>1
    <3> QED
      BY <3>1
  <2>3. /\ IsFiniteSet(M) /\ M \subseteq DOMAIN b /\ StrictOrder(M, R)
        /\ \A x, y \in M : <<x, y>> \in R <=> Precedes(b, x, y)
    BY <2>2, MakersInOrder
  <2> HIDE DEF R
  <2>4. \E x \in M : \A y \in M \ {x} : Precedes(b, y, x)
    <3>1. PICK x \in M : \A y \in M : y = x \/ <<y, x>> \in R
      BY <2>1, <2>3, LastOne
    <3> QED
      BY <3>1, <2>3
  <2> DEFINE c == CHOOSE m \in M : \A j \in M \ {m} : Precedes(b, j, m)
  <2>5. c \in M
    BY <2>4
  <2>6. LastPrice(b, F) = b[c].price
    BY <1>2 DEF LastPrice, M
  <2> HIDE DEF c, F
  <2>7. LastPrice(b, F) \in Nat
    BY <2>3, <2>5, <2>6 DEF GoodBook, OrderLike
  <2> QED
    BY <2>7 DEF F
<1> QED
  BY <1>1, <1>2

\* A match: the book stays in order, and only the order that is matched may enter.
LEMMA MatchKeepsBook ==
    ASSUME NEW b, GoodBook(b), NEW o, NEW n, OrderLike(n)
    PROVE  LET r == Match(b, o, n) IN
           /\ GoodBook(r.book) /\ DOMAIN r.book \subseteq DOMAIN b \cup {o}
           /\ r.price \in Nat
           /\ n.price = 0 => DOMAIN r.book \subseteq DOMAIN b
<1> DEFINE r == Match(b, o, n)
           c == MakersAfter(b, n)
           left == n.qty - Lesser(n.qty, Available(b, n))
           e == [n EXCEPT !.qty = left]
<1>1. GoodBook(c) /\ DOMAIN c \subseteq DOMAIN b
  BY MakersKeepOrder
<1>2. GoodBook(Enter(c, o, e)) /\ DOMAIN Enter(c, o, e) = DOMAIN c \cup {o}
  <2>1. OrderLike(e)
    BY Requantified
  <2> HIDE DEF c, e
  <2> QED
    BY <1>1, <2>1, EnteredLast
<1>3. LastPrice(b, Fills(b, o, n)) \in Nat
  BY LastPriceIsPrice DEF OrderLike
<1>4. \/ r.book = b /\ r.price = 0
      \/ r.book = c /\ r.price = LastPrice(b, Fills(b, o, n))
      \/ r.book = Enter(c, o, e) /\ r.price = LastPrice(b, Fills(b, o, n)) /\ n.price > 0
  BY DEF Match
<1> HIDE DEF r, c, e
<1>5. /\ GoodBook(r.book) /\ DOMAIN r.book \subseteq DOMAIN b \cup {o}
      /\ r.price \in Nat
      /\ n.price = 0 => DOMAIN r.book \subseteq DOMAIN b
  BY <1>1, <1>2, <1>3, <1>4
<1> QED
  BY <1>5 DEF r

------------------------------------------------------------------------------
(* Stops, pending in f or triggered in S, with numbers up to n.              *)

Pending(f, S, n) ==
    /\ IsFiniteSet(DOMAIN f) /\ DOMAIN f \subseteq OrderIds
    /\ IsFiniteSet(S) /\ S \subseteq Triggering
    /\ \A o \in DOMAIN f : f[o] \in Stop /\ f[o].seq <= n
    /\ \A t \in S : t.stop.seq <= n
    /\ \A o, p \in DOMAIN f : f[o].seq = f[p].seq => o = p
    /\ \A t, u \in S : t.stop.seq = u.stop.seq \/ t.id = u.id => t = u
    /\ \A o \in DOMAIN f, t \in S : f[o].seq # t.stop.seq /\ o # t.id

LEMMA FewerPending ==
    ASSUME NEW f, NEW S, NEW n \in Nat, Pending(f, S, n), NEW T \in SUBSET S, NEW D,
           NEW m \in Nat, n <= m
    PROVE  Pending(Drop(f, D), T, m)
<1> DEFINE g == Drop(f, D)
<1>1. DOMAIN g \subseteq DOMAIN f /\ \A o \in DOMAIN g : g[o] = f[o]
  BY DEF Drop, Restrict
<1> HIDE DEF g
<1>2. IsFiniteSet(DOMAIN g) /\ IsFiniteSet(T)
  BY <1>1, FS_Subset DEF Pending
<1>3. \A o \in DOMAIN g : g[o] \in Stop /\ g[o].seq <= m
  <2>1. ASSUME NEW o \in DOMAIN g PROVE g[o] \in Stop /\ g[o].seq <= m
    <3>1. g[o] \in Stop /\ g[o].seq <= n
      BY <1>1 DEF Pending
    <3>2. g[o].seq \in Nat
      BY <3>1 DEF Stop
    <3> QED
      BY <3>1, <3>2
  <2> QED
    BY <2>1
<1>4. \A t \in T : t.stop.seq <= m
  <2>1. ASSUME NEW t \in T PROVE t.stop.seq <= m
    <3>1. t \in Triggering /\ t.stop.seq <= n
      BY DEF Pending
    <3>2. t.stop.seq \in Nat
      BY <3>1 DEF Triggering, Stop
    <3> QED
      BY <3>1, <3>2
  <2> QED
    BY <2>1
<1>5. /\ DOMAIN g \subseteq OrderIds /\ T \subseteq Triggering
      /\ \A o, p \in DOMAIN g : g[o].seq = g[p].seq => o = p
      /\ \A t, u \in T : t.stop.seq = u.stop.seq \/ t.id = u.id => t = u
      /\ \A o \in DOMAIN g, t \in T : g[o].seq # t.stop.seq /\ o # t.id
  BY <1>1 DEF Pending
<1> QED
  BY <1>2, <1>3, <1>4, <1>5 DEF Pending, g

\* Stops that fire keep their numbers.
LEMMA StopsFire ==
    ASSUME NEW f, NEW S, NEW n \in Nat, Pending(f, S, n), NEW D \in SUBSET DOMAIN f
    PROVE  Pending(Drop(f, D), S \cup {[id |-> o, stop |-> f[o]] : o \in D}, n)
<1> DEFINE g == Drop(f, D)
           New == {[id |-> o, stop |-> f[o]] : o \in D}
           T == S \cup New
<1>1. DOMAIN g = DOMAIN f \ D /\ \A o \in DOMAIN g : g[o] = f[o]
  BY DEF Drop, Restrict
<1>2. IsFiniteSet(DOMAIN g) /\ IsFiniteSet(D)
  BY <1>1, FS_Subset DEF Pending
<1>3. \A t \in New : t.id \in D /\ t.stop = f[t.id] /\ t = [id |-> t.id, stop |-> f[t.id]]
  OBVIOUS
<1>4. IsFiniteSet(New)
  <2> DEFINE h == [o \in D |-> [id |-> o, stop |-> f[o]]]
  <2>1. h \in Surjection(D, New)
    BY DEF Surjection
  <2> HIDE DEF h, New
  <2> QED
    BY <2>1, <1>2, FS_Surjection
<1> HIDE DEF g, New
<1>5. New \subseteq Triggering /\ \A t \in New : t.stop.seq <= n
  <2>1. ASSUME NEW t \in New PROVE t \in Triggering /\ t.stop.seq <= n
    <3>1. t.id \in OrderIds /\ f[t.id] \in Stop /\ f[t.id].seq <= n
      BY <1>3 DEF Pending
    <3> QED
      BY <3>1, <1>3 DEF Triggering
  <2> QED
    BY <2>1
<1>6. IsFiniteSet(T)
  BY <1>4, FS_Union DEF Pending
<1>7. ASSUME NEW t \in T, NEW u \in T, t.stop.seq = u.stop.seq \/ t.id = u.id PROVE t = u
  <2>1. CASE t \in S /\ u \in S
    BY <2>1, <1>7 DEF Pending
  <2>2. CASE t \in New /\ u \in New
    <3>1. t.id = u.id
      BY <2>2, <1>3, <1>7 DEF Pending
    <3> QED
      BY <3>1, <2>2, <1>3
  <2>3. CASE t \in New /\ u \in S
    BY <2>3, <1>3, <1>7 DEF Pending
  <2>4. CASE t \in S /\ u \in New
    BY <2>4, <1>3, <1>7 DEF Pending
  <2> QED
    BY <2>1, <2>2, <2>3, <2>4
<1>8. ASSUME NEW o \in DOMAIN g, NEW t \in T PROVE g[o].seq # t.stop.seq /\ o # t.id
  <2>1. CASE t \in S
    BY <2>1, <1>1 DEF Pending
  <2>2. CASE t \in New
    BY <2>2, <1>1, <1>3 DEF Pending
  <2> QED
    BY <2>1, <2>2
<1>9. \A o \in DOMAIN g : g[o] \in Stop /\ g[o].seq <= n
  BY <1>1 DEF Pending
<1>10. \A o, p \in DOMAIN g : g[o].seq = g[p].seq => o = p
  BY <1>1 DEF Pending
<1>11. DOMAIN g \subseteq OrderIds /\ T \subseteq Triggering /\ \A t \in T : t.stop.seq <= n
  BY <1>1, <1>5 DEF Pending
<1> HIDE DEF T
<1>12. Pending(g, T, n)
  BY <1>2, <1>6, <1>7, <1>8, <1>9, <1>10, <1>11 DEF Pending
<1> QED
  BY <1>12 DEF g, T, New

\* What the price reaches is put in a sequence, each order once.
LEMMA TriggeredOnce ==
    ASSUME NEW S, NEW n \in Nat, Pending(stops, S, n), NEW p
    PROVE  /\ Triggered(p) \in Seq(Triggering)
           /\ Range(Triggered(p)) = {Convert(o) : o \in Fired(p)}
           /\ \A k, l \in DOMAIN Triggered(p) :
                 Triggered(p)[k].id = Triggered(p)[l].id => k = l
<1> DEFINE D == Fired(p)
           R == {x \in D \X D : FiresBefore(x[1], x[2])}
           q == Ranked(D, R)
           c == Triggered(p)
<1>1. D \subseteq DOMAIN stops
  BY DEF Fired
<1>2. c = [i \in DOMAIN q |-> Convert(q[i])]
  BY DEF Triggered
<1> HIDE DEF D
<1>3. \A x, y \in D : <<x, y>> \in R <=> FiresBefore(x, y)
  OBVIOUS
<1>4. \A o \in D : /\ stops[o].seq \in Nat /\ stops[o].trigger \in Nat
                   /\ stops[o].side \in Side /\ stops[o] \in Stop /\ o \in OrderIds
  BY <1>1 DEF Pending, Stop
<1>5. StrictOrder(D, R)
  <2> HIDE DEF R
  <2>1. \A x \in D : <<x, x>> \notin R
    BY <1>3, <1>4 DEF FiresBefore
  <2>2. \A x, y, z \in D : <<x, y>> \in R /\ <<y, z>> \in R => <<x, z>> \in R
    <3>1. ASSUME NEW x \in D, NEW y \in D, NEW z \in D, FiresBefore(x, y), FiresBefore(y, z)
          PROVE  FiresBefore(x, z)
      BY <3>1, <1>4 DEF FiresBefore, Side
    <3> QED
      BY <3>1, <1>3
  <2>3. \A x, y \in D : x = y \/ <<x, y>> \in R \/ <<y, x>> \in R
    <3>1. ASSUME NEW x \in D, NEW y \in D, x # y
          PROVE  FiresBefore(x, y) \/ FiresBefore(y, x)
      <4>1. stops[x].seq # stops[y].seq
        BY <3>1, <1>1 DEF Pending
      <4> QED
        BY <4>1, <1>4 DEF FiresBefore, Side
    <3> QED
      BY <3>1, <1>3
  <2> QED
    BY <2>1, <2>2, <2>3 DEF StrictOrder
<1>6. IsFiniteSet(D)
  <2>1. IsFiniteSet(DOMAIN stops)
    BY DEF Pending
  <2> QED
    BY <1>1, <2>1, FS_Subset
<1> HIDE DEF R
<1>7. Sorted(D, R, q)
  <2>1. q = RankSequence(D, R)
    BY DEF Ranked, RankSequence
  <2> HIDE DEF q
  <2> QED
    BY <1>5, <1>6, <2>1, RanksSort
<1> HIDE DEF q, c
<1>8. /\ q \in Seq(D) /\ Len(q) \in Nat /\ DOMAIN q = 1..Len(q) /\ \A i \in 1..Len(q) : q[i] \in D
      /\ \A i, j \in 1..Len(q) : i < j => <<q[i], q[j]>> \in R
      /\ \A o \in D : \E i \in 1..Len(q) : q[i] = o
  BY <1>7, SequenceDomain DEF Sorted
<1>9. DOMAIN c = 1..Len(q) /\ \A i \in 1..Len(q) : c[i] = [id |-> q[i], stop |-> stops[q[i]]]
  BY <1>2, <1>8 DEF Convert
<1>10. c \in Seq(Triggering)
  <2>1. \A i \in 1..Len(q) : c[i] \in Triggering
    BY <1>9, <1>8, <1>4 DEF Triggering
  <2>2. c = [i \in 1..Len(q) |-> c[i]]
    BY <1>2, <1>8
  <2>3. c \in [1..Len(q) -> Triggering]
    BY <2>1, <2>2
  <2> QED
    BY <2>3, <1>8, IsSequence
<1>11. Range(c) = {Convert(o) : o \in D}
  <2>1. ASSUME NEW o \in D PROVE Convert(o) \in Range(c)
    <3>1. PICK i \in 1..Len(q) : q[i] = o
      BY <1>8
    <3> QED
      BY <3>1, <1>9 DEF Range, Convert
  <2>2. ASSUME NEW t \in Range(c) PROVE t \in {Convert(o) : o \in D}
    <3>1. PICK i \in DOMAIN c : t = c[i]
      BY DEF Range
    <3> QED
      BY <3>1, <1>8, <1>9 DEF Convert
  <2> QED
    BY <2>1, <2>2
<1>12. ASSUME NEW k \in DOMAIN c, NEW l \in DOMAIN c, c[k].id = c[l].id PROVE k = l
  <2>1. k \in 1..Len(q) /\ l \in 1..Len(q) /\ q[k] = q[l]
    BY <1>9, <1>12
  <2>2. ~(k < l) /\ ~(l < k)
    BY <2>1, <1>8, <1>5 DEF StrictOrder
  <2> QED
    BY <2>1, <2>2, <1>8
<1> QED
  BY <1>10, <1>11, <1>12 DEF c, D

\* checkStopsAndBreaker up to its loop: what was pending is pending or triggered.
LEMMA StopsChecked ==
    ASSUME NEW F \in Seq(Frame), Once(F), NEW n \in Nat, Pending(stops, TodoIn(F), n),
           NEW p \in Nat, CheckStops(F, p)
    PROVE  /\ cascade' \in Seq(Frame) /\ Once(cascade')
           /\ Pending(stops', TodoIn(cascade'), n)
           /\ DOMAIN stops' \cup IdsIn(cascade') = DOMAIN stops \cup IdsIn(F)
           /\ DOMAIN stops' \subseteq DOMAIN stops
<1>1. CASE cascade' = F /\ stops' = stops
  BY <1>1
<1>2. CASE /\ cascade' = Append(F, [price |-> p, todo |-> Triggered(p)])
           /\ stops' = Drop(stops, Fired(p))
  <2> DEFINE f == [price |-> p, todo |-> Triggered(p)]
             New == {Convert(o) : o \in Fired(p)}
  <2>1. /\ Triggered(p) \in Seq(Triggering) /\ Range(Triggered(p)) = New
        /\ \A k, l \in DOMAIN Triggered(p) : Triggered(p)[k].id = Triggered(p)[l].id => k = l
    BY TriggeredOnce
  <2>2. f \in Frame /\ f.todo = Triggered(p)
    BY <2>1 DEF Frame
  <2>3. Fired(p) \subseteq DOMAIN stops
    BY DEF Fired
  <2>4. \A t \in New : t.id \in Fired(p)
    BY DEF Convert
  <2>5. \A k \in DOMAIN f.todo : f.todo[k].id \notin IdsIn(F)
    <3>1. ASSUME NEW k \in DOMAIN Triggered(p), Triggered(p)[k].id \in IdsIn(F) PROVE FALSE
      <4>1. Triggered(p)[k] \in New
        BY <2>1 DEF Range
      <4>2. Triggered(p)[k].id \in DOMAIN stops
        BY <4>1, <2>3, <2>4
      <4>3. PICK t \in TodoIn(F) : t.id = Triggered(p)[k].id
        BY <3>1 DEF IdsIn
      <4> QED
        BY <4>2, <4>3 DEF Pending
    <3> QED
      BY <3>1, <2>2
  <2>6. New = {[id |-> o, stop |-> stops[o]] : o \in Fired(p)}
    BY DEF Convert
  <2>7. Pending(stops', TodoIn(F) \cup New, n)
    <3> DEFINE Fresh == {[id |-> o, stop |-> stops[o]] : o \in Fired(p)}
    <3>1. Fired(p) \in SUBSET DOMAIN stops
      BY <2>3
    <3>2. Pending(Drop(stops, Fired(p)), TodoIn(F) \cup Fresh, n)
      BY <3>1, StopsFire
    <3>3. New = Fresh
      BY <2>6
    <3> HIDE DEF New, Fresh
    <3> QED
      BY <1>2, <3>2, <3>3
  <2>8. {t.id : t \in New} = Fired(p)
    <3>1. \A o \in Fired(p) : Convert(o) \in New /\ Convert(o).id = o
      BY DEF Convert
    <3> HIDE DEF New
    <3> QED
      BY <2>4, <3>1
  <2>9. DOMAIN stops' = DOMAIN stops \ Fired(p)
    BY <1>2 DEF Drop, Restrict
  <2> HIDE DEF New, f
  <2>10. cascade' = Append(F, f) /\ TodoIn(cascade') = TodoIn(F) \cup New
    BY <1>2, <2>1, <2>2, FramePushed DEF f
  <2>11. cascade' \in Seq(Frame) /\ Once(cascade')
    BY <2>1, <2>2, <2>5, <2>10, FramePushed, PushedOnce
  <2>12. IdsIn(cascade') = IdsIn(F) \cup Fired(p)
    BY <2>8, <2>10 DEF IdsIn
  <2> QED
    BY <2>3, <2>7, <2>9, <2>10, <2>11, <2>12
<1> QED
  BY <1>1, <1>2 DEF CheckStops

\* Numbers that grow leave the pending stops as they are.
LEMMA LaterPending ==
    ASSUME NEW f, NEW S, NEW n \in Nat, Pending(f, S, n), NEW m \in Nat, n <= m
    PROVE  Pending(f, S, m)
<1>1. ASSUME NEW o \in DOMAIN f PROVE f[o] \in Stop /\ f[o].seq <= m
  <2>1. f[o] \in Stop /\ f[o].seq <= n
    BY DEF Pending
  <2>2. f[o].seq \in Nat
    BY <2>1 DEF Stop
  <2> QED
    BY <2>1, <2>2
<1>2. ASSUME NEW t \in S PROVE t.stop.seq <= m
  <2>1. t \in Triggering /\ t.stop.seq <= n
    BY DEF Pending
  <2>2. t.stop.seq \in Nat
    BY <2>1 DEF Triggering, Stop
  <2> QED
    BY <2>1, <2>2
<1> QED
  BY <1>1, <1>2 DEF Pending

\* A new stop has a new number.
LEMMA StopAdded ==
    ASSUME NEW f, NEW S, NEW n \in Nat, Pending(f, S, n), NEW o \in OrderIds,
           o \notin DOMAIN f, \A t \in S : t.id # o, NEW s \in Stop, s.seq = n + 1
    PROVE  Pending(Put(f, o, s), S, n + 1)
<1> DEFINE g == Put(f, o, s)
<1>1. /\ DOMAIN g = DOMAIN f \cup {o} /\ g[o] = s
      /\ \A p \in DOMAIN f : g[p] = f[p] /\ p # o
  BY DEF Put
<1> HIDE DEF g
<1>2. IsFiniteSet(DOMAIN g)
  <2>1. IsFiniteSet(DOMAIN f)
    BY DEF Pending
  <2> QED
    BY <1>1, <2>1, FS_AddElement
<1>3. ASSUME NEW p \in DOMAIN f
      PROVE  g[p] \in Stop /\ g[p].seq \in Nat /\ g[p].seq <= n /\ g[p] = f[p] /\ p # o
  <2>1. f[p] \in Stop /\ f[p].seq <= n
    BY DEF Pending
  <2>2. f[p].seq \in Nat
    BY <2>1 DEF Stop
  <2> QED
    BY <1>1, <2>1, <2>2
<1>4. ASSUME NEW t \in S PROVE t \in Triggering /\ t.stop.seq \in Nat /\ t.stop.seq <= n
  <2>1. t \in Triggering /\ t.stop.seq <= n
    BY DEF Pending
  <2> QED
    BY <2>1 DEF Triggering, Stop
<1>5. ASSUME NEW p \in DOMAIN g PROVE g[p] \in Stop /\ g[p].seq <= n + 1
  <2>1. CASE p = o
    BY <2>1, <1>1
  <2>2. CASE p # o
    BY <2>2, <1>1, <1>3
  <2> QED
    BY <2>1, <2>2
<1>6. ASSUME NEW p \in DOMAIN g, NEW q \in DOMAIN g, g[p].seq = g[q].seq PROVE p = q
  <2>1. CASE p = o /\ q # o
    BY <2>1, <1>1, <1>3, <1>6
  <2>2. CASE p # o /\ q = o
    BY <2>2, <1>1, <1>3, <1>6
  <2>3. CASE p # o /\ q # o
    BY <2>3, <1>1, <1>6 DEF Pending
  <2> QED
    BY <2>1, <2>2, <2>3
<1>7. ASSUME NEW p \in DOMAIN g, NEW t \in S PROVE g[p].seq # t.stop.seq /\ p # t.id
  <2>1. CASE p = o
    BY <2>1, <1>1, <1>4
  <2>2. CASE p # o
    BY <2>2, <1>1 DEF Pending
  <2> QED
    BY <2>1, <2>2
<1>8. \A t \in S : t.stop.seq <= n + 1
  BY <1>4
<1>9. DOMAIN g \subseteq OrderIds
  BY <1>1 DEF Pending
<1>10. Pending(g, S, n + 1)
  BY <1>2, <1>5, <1>6, <1>7, <1>8, <1>9 DEF Pending
<1> QED
  BY <1>10 DEF g

------------------------------------------------------------------------------
(* What every state keeps, whatever the commands.                            *)

\* Orders of an auction, with numbers of their own up to n.
Numbered(ab, n) ==
    /\ IsFiniteSet(DOMAIN ab)
    /\ \A o \in DOMAIN ab : OrderLike(ab[o]) /\ ab[o].seq <= n
    /\ \A o, p \in DOMAIN ab : ab[o].seq = ab[p].seq => o = p

\* The inductive invariant: the queues, the pending stops and the auction orders each have
\* an order, and no call in progress holds an order twice.
Structure ==
    /\ orderSeq \in Nat /\ restarts \in Nat
    /\ GoodBook(book)
    /\ cascade \in Seq(Frame) /\ Once(cascade)
    /\ Pending(stops, TodoIn(cascade), orderSeq)
    /\ Numbered(auctionBook, orderSeq)

LEMMA BookDropped ==
    ASSUME NEW b, GoodBook(b), NEW D
    PROVE  GoodBook(Drop(b, D))
<1> DEFINE c == Drop(b, D)
<1>1. DOMAIN c \subseteq DOMAIN b /\ \A o \in DOMAIN c : c[o] = b[o]
  BY DEF Drop, Restrict
<1> HIDE DEF c
<1>2. IsFiniteSet(DOMAIN b)
  BY DEF GoodBook
<1>3. IsFiniteSet(DOMAIN c)
  BY <1>1, <1>2, FS_Subset
<1>4. GoodBook(c)
  BY <1>1, <1>3 DEF GoodBook
<1> QED
  BY <1>4 DEF c

LEMMA LaterNumbered ==
    ASSUME NEW ab, NEW n \in Nat, Numbered(ab, n), NEW m \in Nat, n <= m
    PROVE  Numbered(ab, m)
BY DEF Numbered, OrderLike

LEMMA AuctionJoined ==
    ASSUME NEW ab, NEW n \in Nat, Numbered(ab, n), NEW o, NEW r, OrderLike(r), r.seq = n + 1
    PROVE  Numbered(Put(ab, o, r), n + 1)
<1> DEFINE c == Put(ab, o, r)
<1>1. /\ DOMAIN c = DOMAIN ab \cup {o} /\ c[o] = r
      /\ \A p \in DOMAIN ab \ {o} : c[p] = ab[p]
  BY DEF Put
<1> HIDE DEF c
<1>2. IsFiniteSet(DOMAIN c)
  <2>1. IsFiniteSet(DOMAIN ab)
    BY DEF Numbered
  <2> QED
    BY <1>1, <2>1, FS_AddElement
<1>3. \A p \in DOMAIN ab \ {o} : OrderLike(c[p]) /\ c[p].seq \in Nat /\ c[p].seq <= n
  BY <1>1 DEF Numbered, OrderLike
<1>4. \A p \in DOMAIN c : OrderLike(c[p]) /\ c[p].seq <= n + 1
  BY <1>1, <1>3
<1>5. ASSUME NEW p \in DOMAIN c, NEW q \in DOMAIN c, c[p].seq = c[q].seq PROVE p = q
  <2>1. CASE p = o \/ q = o
    BY <2>1, <1>1, <1>3, <1>5
  <2>2. CASE p # o /\ q # o
    BY <2>2, <1>1, <1>5 DEF Numbered
  <2> QED
    BY <2>1, <2>2
<1>6. Numbered(c, n + 1)
  BY <1>2, <1>4, <1>5 DEF Numbered
<1> QED
  BY <1>6 DEF c

\* A match: what may rest afterwards, and what is pending.
LEMMA Executed ==
    ASSUME GoodBook(book), NEW F \in Seq(Frame), Once(F), NEW m \in Nat,
           Pending(stops, TodoIn(F), m), NEW o, NEW n, OrderLike(n), Execute(F, o, n)
    PROVE  /\ GoodBook(book') /\ DOMAIN book' \subseteq DOMAIN book \cup {o}
           /\ n.price = 0 => DOMAIN book' \subseteq DOMAIN book
           /\ cascade' \in Seq(Frame) /\ Once(cascade')
           /\ Pending(stops', TodoIn(cascade'), m)
           /\ DOMAIN stops' \cup IdsIn(cascade') = DOMAIN stops \cup IdsIn(F)
<1> DEFINE r == Match(book, o, n)
<1>1. /\ GoodBook(r.book) /\ DOMAIN r.book \subseteq DOMAIN book \cup {o}
      /\ r.price \in Nat
      /\ n.price = 0 => DOMAIN r.book \subseteq DOMAIN book
  BY MatchKeepsBook
<1>2. book' = r.book /\ CheckStops(F, r.price)
  BY DEF Execute
<1> HIDE DEF r
<1>3. /\ cascade' \in Seq(Frame) /\ Once(cascade')
      /\ Pending(stops', TodoIn(cascade'), m)
      /\ DOMAIN stops' \cup IdsIn(cascade') = DOMAIN stops \cup IdsIn(F)
  BY <1>1, <1>2, StopsChecked
<1> QED
  BY <1>1, <1>2, <1>3

LEMMA NewOrderLike ==
    ASSUME NEW c \in Commands, NEW n \in Nat
    PROVE  /\ OrderLike(NewOrder(c, n)) /\ NewOrder(c, n).seq = n
           /\ NewOrder(c, n).price = c.price
<1>1. c \in Command
  BY CommandAssumption
<1> QED
  BY <1>1 DEF Command, NewOrder, OrderLike, Fields

LEMMA TriggeredOrderLike ==
    ASSUME orderSeq \in Nat, NextTriggered \in Triggering
    PROVE  OrderLike(TriggeredOrder)
<1>1. NextTriggered.stop \in Stop
  BY DEF Triggering
<1> QED
  BY <1>1 DEF TriggeredOrder, OrderLike, Fields, Stop

\* Nobody takes a number without the next being larger.
LEMMA NextNumber ==
    ASSUME Structure, orderSeq' = orderSeq + 1
    PROVE  /\ orderSeq' \in Nat
           /\ Pending(stops, TodoIn(cascade), orderSeq')
           /\ Numbered(auctionBook, orderSeq')
<1>1. orderSeq \in Nat /\ orderSeq' \in Nat /\ orderSeq <= orderSeq'
  BY DEF Structure
<1>2. Pending(stops, TodoIn(cascade), orderSeq')
  BY <1>1, LaterPending DEF Structure
<1>3. Numbered(auctionBook, orderSeq')
  BY <1>1, LaterNumbered DEF Structure
<1> QED
  BY <1>1, <1>2, <1>3

LEMMA JoinKeeps ==
    ASSUME Structure, NEW c \in Commands, JoinAuction(c)
    PROVE  Structure'
<1>1. orderSeq' = orderSeq + 1 /\ orderSeq \in Nat
  BY DEF Structure, JoinAuction, AcceptsLimit, Accepts
<1>2. Pending(stops, TodoIn(cascade), orderSeq')
  BY <1>1, NextNumber
<1>3. Numbered(auctionBook', orderSeq')
  <2> DEFINE r == NewOrder(c, orderSeq + 1)
  <2>1. auctionBook' = Put(auctionBook, c.id, r)
    BY DEF JoinAuction
  <2>2. OrderLike(r) /\ r.seq = orderSeq + 1
    BY <1>1, NewOrderLike
  <2> HIDE DEF r
  <2>3. Numbered(Put(auctionBook, c.id, r), orderSeq + 1)
    BY <1>1, <2>2, AuctionJoined DEF Structure
  <2> QED
    BY <1>1, <2>1, <2>3
<1>4. /\ book' = book /\ stops' = stops /\ cascade' = cascade /\ restarts' = restarts
  BY DEF JoinAuction, world
<1> QED
  BY <1>1, <1>2, <1>3, <1>4 DEF Structure

LEMMA QueueKeeps ==
    ASSUME Structure, NEW c \in Commands, QueueLimit(c)
    PROVE  Structure'
<1>1. orderSeq' = orderSeq + 1 /\ orderSeq \in Nat
  BY DEF Structure, QueueLimit, AcceptsLimit, Accepts
<1>2. Pending(stops, TodoIn(cascade), orderSeq') /\ Numbered(auctionBook, orderSeq')
  BY <1>1, NextNumber
<1>3. GoodBook(book')
  <2> DEFINE r == NewOrder(c, orderSeq + 1)
  <2>1. book' = Enter(book, c.id, r)
    BY DEF QueueLimit
  <2>2. OrderLike(r)
    BY <1>1, NewOrderLike
  <2> HIDE DEF r
  <2> QED
    BY <2>1, <2>2, EnteredLast DEF Structure
<1>4. /\ auctionBook' = auctionBook /\ stops' = stops /\ cascade' = cascade
      /\ restarts' = restarts
  BY DEF QueueLimit, world, auction
<1> QED
  BY <1>1, <1>2, <1>3, <1>4 DEF Structure

\* A command that matches at once, between cascades.
LEMMA MatchKeeps ==
    ASSUME Structure, NEW c \in Commands, Idle, orderSeq' = orderSeq + 1,
           Execute(<<>>, c.id, NewOrder(c, orderSeq + 1)),
           auctionBook' = auctionBook, restarts' = restarts
    PROVE  /\ Structure'
           /\ DOMAIN book' \subseteq DOMAIN book \cup {c.id}
           /\ c.price = 0 => DOMAIN book' \subseteq DOMAIN book
           /\ DOMAIN stops' \cup IdsIn(cascade') = DOMAIN stops
<1> DEFINE r == NewOrder(c, orderSeq + 1)
           F == <<>>
<1>1. orderSeq \in Nat /\ orderSeq' \in Nat
  BY DEF Structure
<1>2. OrderLike(r) /\ r.price = c.price
  BY <1>1, NewOrderLike
<1>3. cascade = F /\ TodoIn(F) = {} /\ Once(F) /\ F \in Seq(Frame)
  BY NothingToDo DEF Idle
<1>4. IdsIn(F) = {}
  BY <1>3 DEF IdsIn
<1>5. Pending(stops, TodoIn(F), orderSeq') /\ Numbered(auctionBook, orderSeq')
  BY <1>3, NextNumber
<1>6. GoodBook(book) /\ Execute(F, c.id, r)
  BY DEF Structure
<1> HIDE DEF r, F
<1>7. /\ GoodBook(book') /\ DOMAIN book' \subseteq DOMAIN book \cup {c.id}
      /\ r.price = 0 => DOMAIN book' \subseteq DOMAIN book
      /\ cascade' \in Seq(Frame) /\ Once(cascade')
      /\ Pending(stops', TodoIn(cascade'), orderSeq')
      /\ DOMAIN stops' \cup IdsIn(cascade') = DOMAIN stops \cup IdsIn(F)
  BY <1>1, <1>2, <1>3, <1>5, <1>6, Executed
<1>8. Structure'
  BY <1>1, <1>5, <1>7 DEF Structure
<1> QED
  BY <1>2, <1>4, <1>7, <1>8

LEMMA LimitKeeps ==
    ASSUME Structure, NEW c \in Commands, MatchLimit(c)
    PROVE  /\ Structure'
           /\ DOMAIN book' \subseteq DOMAIN book \cup {c.id}
           /\ DOMAIN stops' \cup IdsIn(cascade') = DOMAIN stops
<1>1. /\ Idle /\ orderSeq' = orderSeq + 1
      /\ Execute(<<>>, c.id, NewOrder(c, orderSeq + 1))
      /\ auctionBook' = auctionBook /\ restarts' = restarts
  BY DEF MatchLimit, AcceptsLimit, Accepts, auction, world
<1> QED
  BY <1>1, MatchKeeps

LEMMA MarketOrderKeeps ==
    ASSUME Structure, NEW c \in Commands, MatchMarket(c)
    PROVE  /\ Structure'
           /\ DOMAIN book' \subseteq DOMAIN book
           /\ DOMAIN stops' \cup IdsIn(cascade') = DOMAIN stops
<1>1. /\ Idle /\ orderSeq' = orderSeq + 1
      /\ Execute(<<>>, c.id, NewOrder(c, orderSeq + 1))
      /\ auctionBook' = auctionBook /\ restarts' = restarts /\ c.price = 0
  BY DEF MatchMarket, Accepts, auction, world
<1> QED
  BY <1>1, MatchKeeps

LEMMA AddStopKeeps ==
    ASSUME Structure, NEW c \in Commands, AddStop(c)
    PROVE  Structure'
<1>1. /\ Idle /\ orderSeq' = orderSeq + 1 /\ orderSeq \in Nat /\ c.id \notin DOMAIN stops
  BY DEF Structure, AddStop, Accepts
<1>2. Numbered(auctionBook, orderSeq')
  BY <1>1, NextNumber
<1>3. TodoIn(cascade) = {}
  BY <1>1, NothingToDo DEF Idle
<1>4. Pending(stops', TodoIn(cascade), orderSeq')
  <2> DEFINE s == [user |-> c.user, side |-> c.side, price |-> c.price,
                   trigger |-> c.trigger, qty |-> c.qty, tif |-> c.tif,
                   seq |-> orderSeq + 1, expireAt |-> c.expireAt]
  <2>1. stops' = Put(stops, c.id, s)
    BY DEF AddStop
  <2>2. c \in Command
    BY CommandAssumption
  <2>3. s \in Stop /\ s.seq = orderSeq + 1 /\ c.id \in OrderIds
    BY <1>1, <2>2 DEF Command, Stop
  <2> HIDE DEF s
  <2>4. Pending(Put(stops, c.id, s), TodoIn(cascade), orderSeq + 1)
    BY <1>1, <1>3, <2>3, StopAdded DEF Structure
  <2> QED
    BY <1>1, <2>1, <2>4
<1>5. /\ auctionBook' = auctionBook /\ book' = book /\ cascade' = cascade
      /\ restarts' = restarts
  BY DEF AddStop, world, auction
<1>6. orderSeq' \in Nat
  BY <1>1
<1> QED
  BY <1>2, <1>4, <1>5, <1>6 DEF Structure

\* Orders and stops that leave: cancelled or expired.
LEMMA LeaveKeeps ==
    ASSUME Structure, NEW D, NEW E, book' = Drop(book, D) \/ book' = book,
           stops' = Drop(stops, E) \/ stops' = stops,
           UNCHANGED <<auctionBook, cascade, orderSeq, restarts>>
    PROVE  Structure'
<1>1. GoodBook(book')
  BY BookDropped DEF Structure
<1>2. Pending(stops', TodoIn(cascade), orderSeq)
  <2>1. orderSeq \in Nat /\ orderSeq <= orderSeq /\ Pending(stops, TodoIn(cascade), orderSeq)
    BY DEF Structure
  <2>2. TodoIn(cascade) \in SUBSET TodoIn(cascade)
    OBVIOUS
  <2> QED
    BY <2>1, <2>2, FewerPending
<1> QED
  BY <1>1, <1>2 DEF Structure

\* The next triggered stop, and the calls in progress without it.
LEMMA NextTaken ==
    ASSUME Structure, ~Idle, Current.todo # <<>>
    PROVE  /\ Rest \in Seq(Frame) /\ Once(Rest)
           /\ NextTriggered \in TodoIn(cascade) /\ NextTriggered \in Triggering
           /\ TodoIn(cascade) = TodoIn(Rest) \cup {NextTriggered}
           /\ IdsIn(cascade) = IdsIn(Rest) \cup {NextTriggered.id}
           /\ NextTriggered.id \notin IdsIn(Rest)
           /\ Pending(stops, TodoIn(Rest), orderSeq)
<1>1. /\ cascade \in Seq(Frame) /\ cascade # <<>> /\ Once(cascade)
      /\ Last(cascade).todo # <<>>
  BY DEF Structure, Idle, Current
<1>2. /\ Rest \in Seq(Frame) /\ Once(Rest)
      /\ NextTriggered \in TodoIn(cascade) /\ NextTriggered \in Triggering
      /\ TodoIn(cascade) = TodoIn(Rest) \cup {NextTriggered}
      /\ NextTriggered.id \notin IdsIn(Rest)
  BY <1>1, OrderTaken DEF Rest, NextTriggered, Current
<1>3. IdsIn(cascade) = IdsIn(Rest) \cup {NextTriggered.id}
  BY <1>2 DEF IdsIn
<1>4. Pending(stops, TodoIn(Rest), orderSeq)
  <2>1. TodoIn(Rest) \subseteq TodoIn(cascade)
    BY <1>2
  <2>2. Pending(stops, TodoIn(cascade), orderSeq)
    BY DEF Structure
  <2> QED
    BY <2>1, <2>2, FS_Subset DEF Pending
<1> QED
  BY <1>2, <1>3, <1>4

LEMMA RunKeeps ==
    ASSUME Structure, RunTriggered
    PROVE  /\ Structure'
           /\ NextTriggered.id \in IdsIn(cascade)
           /\ DOMAIN book' \subseteq DOMAIN book \cup {NextTriggered.id}
           /\ DOMAIN stops' \cup IdsIn(cascade')
              = DOMAIN stops \cup (IdsIn(cascade) \ {NextTriggered.id})
<1> DEFINE F == Rest
           o == NextTriggered.id
           r == TriggeredOrder
<1>1. /\ F \in Seq(Frame) /\ Once(F) /\ Pending(stops, TodoIn(F), orderSeq)
      /\ IdsIn(cascade) = IdsIn(F) \cup {o} /\ o \notin IdsIn(F)
  BY NextTaken DEF RunTriggered
<1>2. orderSeq \in Nat /\ orderSeq' = orderSeq + 1 /\ orderSeq' \in Nat
  BY DEF Structure, RunTriggered
<1>3. OrderLike(r)
  BY <1>2, NextTaken, TriggeredOrderLike DEF RunTriggered
<1>4. Pending(stops, TodoIn(F), orderSeq')
  <2> HIDE DEF F
  <2>1. orderSeq <= orderSeq'
    BY <1>2
  <2> QED
    BY <1>1, <1>2, <2>1, LaterPending
<1>5. GoodBook(book) /\ Execute(F, o, r) /\ auctionBook' = auctionBook /\ restarts' = restarts
  BY DEF Structure, RunTriggered, auction, world
<1>6. Numbered(auctionBook, orderSeq')
  BY <1>2, NextNumber
<1> HIDE DEF F, o, r
<1>7. /\ GoodBook(book') /\ DOMAIN book' \subseteq DOMAIN book \cup {o}
      /\ cascade' \in Seq(Frame) /\ Once(cascade')
      /\ Pending(stops', TodoIn(cascade'), orderSeq')
      /\ DOMAIN stops' \cup IdsIn(cascade') = DOMAIN stops \cup IdsIn(F)
  BY <1>1, <1>2, <1>3, <1>4, <1>5, Executed
<1>8. Structure'
  BY <1>2, <1>5, <1>6, <1>7 DEF Structure
<1>9. IdsIn(F) = IdsIn(cascade) \ {o} /\ o \in IdsIn(cascade)
  BY <1>1
<1> QED
  BY <1>7, <1>8, <1>9 DEF o

LEMMA RejectKeeps ==
    ASSUME Structure, RejectTriggered
    PROVE  Structure' /\ IdsIn(cascade') \subseteq IdsIn(cascade)
<1>1. /\ Rest \in Seq(Frame) /\ Once(Rest) /\ Pending(stops, TodoIn(Rest), orderSeq)
      /\ IdsIn(Rest) \subseteq IdsIn(cascade)
  BY NextTaken DEF RejectTriggered
<1>2. cascade' = Rest /\ UNCHANGED <<book, stops, auctionBook, orderSeq, restarts>>
  BY DEF RejectTriggered, auction, world
<1> QED
  BY <1>1, <1>2 DEF Structure

LEMMA ReturnKeeps ==
    ASSUME Structure, CheckReturns
    PROVE  Structure' /\ IdsIn(cascade') \subseteq IdsIn(cascade)
<1> DEFINE F == Front(cascade)
<1>1. cascade \in Seq(Frame) /\ cascade # <<>> /\ Once(cascade)
  BY DEF Structure, CheckReturns, Idle
<1>2. F \in Seq(Frame) /\ Once(F) /\ TodoIn(F) \subseteq TodoIn(cascade)
  BY <1>1, FramePopped
<1>3. cascade' = F /\ UNCHANGED <<book, stops, auctionBook, orderSeq, restarts>>
  BY DEF CheckReturns, auction, world
<1> HIDE DEF F
<1>4. Pending(stops, TodoIn(F), orderSeq)
  <2>1. Pending(stops, TodoIn(cascade), orderSeq)
    BY DEF Structure
  <2> QED
    BY <1>2, <2>1, FS_Subset DEF Pending
<1>5. IdsIn(F) \subseteq IdsIn(cascade)
  BY <1>2 DEF IdsIn
<1> QED
  BY <1>2, <1>3, <1>4, <1>5 DEF Structure

------------------------------------------------------------------------------
(* The clearing of the auction: what it puts into the book.                  *)

\* A queue of one side, as a sequence.
LEMMA QueueOfSide ==
    ASSUME NEW ab, NEW n, Numbered(ab, n), NEW S \in SUBSET DOMAIN ab, NEW side \in Side,
           \A o \in S : ab[o].side = side
    PROVE  LET R == {x \in S \X S : Ahead(ab, x[1], x[2])} IN
           /\ InPriority(ab, S) \in Seq(S)
           /\ Sorted(S, R, InPriority(ab, S)) /\ \A x \in S : <<x, x>> \notin R
<1> DEFINE R == {x \in S \X S : Ahead(ab, x[1], x[2])}
           q == InPriority(ab, S)
<1>1. \A x, y \in S : <<x, y>> \in R <=> Ahead(ab, x, y)
  OBVIOUS
<1>2. q = RankSequence(S, R)
  BY DEF InPriority, Ranked, RankSequence
<1>3. IsFiniteSet(S)
  <2>1. IsFiniteSet(DOMAIN ab)
    BY DEF Numbered
  <2> QED
    BY <2>1, FS_Subset
<1>4. \A o \in S : ab[o].price \in Nat /\ ab[o].seq \in Nat /\ ab[o].side = side
  BY DEF Numbered, OrderLike
<1>5. \A o, p \in S : ab[o].seq = ab[p].seq => o = p
  BY DEF Numbered
<1> HIDE DEF R, q
<1>6. StrictOrder(S, R)
  <2>1. \A x \in S : <<x, x>> \notin R
    BY <1>1, <1>4 DEF Ahead
  <2>2. \A x, y, z \in S : <<x, y>> \in R /\ <<y, z>> \in R => <<x, z>> \in R
    <3>1. ASSUME NEW x \in S, NEW y \in S, NEW z \in S, Ahead(ab, x, y), Ahead(ab, y, z)
          PROVE  Ahead(ab, x, z)
      BY <3>1, <1>4 DEF Ahead, Side
    <3> QED
      BY <3>1, <1>1
  <2>3. \A x, y \in S : x = y \/ <<x, y>> \in R \/ <<y, x>> \in R
    <3>1. ASSUME NEW x \in S, NEW y \in S, x # y
          PROVE  Ahead(ab, x, y) \/ Ahead(ab, y, x)
      BY <3>1, <1>4, <1>5 DEF Ahead, Side
    <3> QED
      BY <3>1, <1>1
  <2> QED
    BY <2>1, <2>2, <2>3 DEF StrictOrder
<1>7. Sorted(S, R, q)
  BY <1>2, <1>3, <1>6, RanksSort
<1>8. q \in Seq(S) /\ \A x \in S : <<x, x>> \notin R
  BY <1>6, <1>7 DEF Sorted, StrictOrder
<1> QED
  BY <1>7, <1>8 DEF q, R

LEMMA UnmatchedWaited ==
    ASSUME NEW ab, NEW n, Numbered(ab, n), NEW p
    PROVE  Unmatched(ab, p) \in Seq(DOMAIN ab)
<1> DEFINE kept == {o \in Leftover(ab, p) : ab[o].tif = "GTC"}
           bids == kept \cap Bids(ab)
           asks == kept \cap Asks(ab)
           A == {o \in bids : ab[o].price >= p}
           B == {o \in asks : ab[o].price <= p}
           C == {o \in bids : ab[o].price < p}
           D == {o \in asks : ab[o].price > p}
<1>1. /\ A \in SUBSET DOMAIN ab /\ C \in SUBSET DOMAIN ab
      /\ \A o \in A \cup C : ab[o].side = "Bid"
  BY DEF Bids
<1>2. /\ B \in SUBSET DOMAIN ab /\ D \in SUBSET DOMAIN ab
      /\ \A o \in B \cup D : ab[o].side = "Ask"
  BY DEF Asks
<1>3. Unmatched(ab, p) = InPriority(ab, A) \o InPriority(ab, B) \o InPriority(ab, C) \o InPriority(ab, D)
  BY DEF Unmatched
<1> HIDE DEF A, B, C, D
<1>4. "Bid" \in Side /\ "Ask" \in Side
  BY DEF Side
<1>5. InPriority(ab, A) \in Seq(A) /\ InPriority(ab, C) \in Seq(C)
  BY <1>1, <1>4, QueueOfSide
<1>6. InPriority(ab, B) \in Seq(B) /\ InPriority(ab, D) \in Seq(D)
  BY <1>2, <1>4, QueueOfSide
<1> DEFINE a == InPriority(ab, A)
           b == InPriority(ab, B)
           c == InPriority(ab, C)
           d == InPriority(ab, D)
           X == DOMAIN ab
<1>7. a \in Seq(X) /\ b \in Seq(X) /\ c \in Seq(X) /\ d \in Seq(X)
  <2>1. \A S \in SUBSET X : Seq(S) \subseteq Seq(X)
    OBVIOUS
  <2> HIDE DEF a, b, c, d, X
  <2> QED
    BY <1>1, <1>2, <1>5, <1>6, <2>1 DEF a, b, c, d, X
<1> HIDE DEF a, b, c, d, X
<1>8. a \o b \o c \o d \in Seq(X)
  BY <1>7
<1> QED
  BY <1>3, <1>8 DEF a, b, c, d, X

\* The carry-over, as the recursion that Cleared chooses.
Carrying(f, n, start, orders) ==
    f = [i \in 0..n |-> IF i = 0 THEN start ELSE CarryOver(f[i - 1], orders[i])]

LEMMA CarryingExists ==
    ASSUME NEW n \in Nat, NEW start, NEW orders
    PROVE  \E f : Carrying(f, n, start, orders)
<1> DEFINE T == {i \in Nat : ~\E f : Carrying(f, i, start, orders)}
           N(w, i) == CarryOver(w, orders[i])
<1> SUFFICES ASSUME T # {} PROVE FALSE
  OBVIOUS
<1>1. PICK x \in T : \A y \in T : x <= y
  <2>1. T \subseteq Nat
    OBVIOUS
  <2> HIDE DEF T
  <2> QED
    BY <2>1, Least
<1>2. x \in Nat /\ ~\E f : Carrying(f, x, start, orders)
  OBVIOUS
<1>3. CASE x = 0
  <2> HIDE DEF T, N
  <2> DEFINE f == [i \in 0..0 |-> start]
  <2>1. f = [i \in 0..0 |-> IF i = 0 THEN start ELSE N(f[i - 1], i)]
    OBVIOUS
  <2> QED
    BY <2>1, <1>2, <1>3 DEF Carrying, N
<1>4. CASE x # 0
  <2>1. x - 1 \in Nat /\ x - 1 \notin T
    BY <1>1, <1>2, <1>4
  <2>2. PICK g : Carrying(g, x - 1, start, orders)
    BY <2>1
  <2>3. \A i \in 0..(x - 1) : g[i] = IF i = 0 THEN start ELSE N(g[i - 1], i)
    BY <2>2 DEF Carrying
  <2> HIDE DEF T, N
  <2> DEFINE f == [i \in 0..x |-> IF i = x THEN N(g[x - 1], x) ELSE g[i]]
             u == [i \in 0..x |-> IF i = 0 THEN start ELSE N(f[i - 1], i)]
  <2>4. \A i \in 0..(x - 1) : f[i] = g[i]
    BY <1>2
  <2>5. ASSUME NEW i \in 0..x
        PROVE  f[i] = IF i = 0 THEN start ELSE N(f[i - 1], i)
    <3>1. CASE i = x
      <4>1. x - 1 \in 0..(x - 1) /\ f[x] = N(g[x - 1], x)
        BY <1>2, <1>4
      <4> HIDE DEF f
      <4> QED
        BY <4>1, <3>1, <2>4, <1>4
    <3>2. CASE i # x
      <4>1. i \in 0..(x - 1) /\ (i # 0 => i - 1 \in 0..(x - 1))
        BY <3>2, <1>2
      <4> HIDE DEF f
      <4> QED
        BY <4>1, <2>3, <2>4
    <3> QED
      BY <3>1, <3>2
  <2>6. f = u
    <3>1. DOMAIN f = 0..x /\ f = [i \in 0..x |-> f[i]]
      OBVIOUS
    <3> HIDE DEF f
    <3> QED
      BY <3>1, <2>5
  <2>7. Carrying(f, x, start, orders)
    BY <2>6 DEF Carrying, N
  <2> QED
    BY <2>7, <1>2
<1> QED
  BY <1>3, <1>4

\* A state of the carry-over: the book is in order and holds old and carried orders only.
CarryState(acc) ==
    /\ {"book", "ledger"} \subseteq DOMAIN acc
    /\ GoodBook(acc.book)
    /\ DOMAIN acc.book \subseteq DOMAIN book \cup DOMAIN auctionBook

LEMMA CarryOverKeeps ==
    ASSUME NEW n, Numbered(auctionBook, n), NEW acc, CarryState(acc),
           NEW o \in DOMAIN auctionBook
    PROVE  CarryState(CarryOver(acc, o))
<1> DEFINE c == CarriedOrder(o, SweepResult(auctionBook, ClearingPrice).left[o])
           r == Match(acc.book, o, c)
           res == CarryOver(acc, o)
<1>1. OrderLike(c)
  BY DEF Numbered, OrderLike, Fields, CarriedOrder
<1>2. GoodBook(acc.book)
  BY DEF CarryState
<1> HIDE DEF c
<1>3. GoodBook(r.book) /\ DOMAIN r.book \subseteq DOMAIN acc.book \cup {o}
  BY <1>1, <1>2, MatchKeepsBook
<1>4. \/ res = [acc EXCEPT !.ledger = Drop(@, {o})]
      \/ res = [book |-> r.book,
                positions |-> Settled(acc.positions, r.fills),
                ledger |-> Disposed(Filled(acc.ledger, r.fills), r, o)]
  BY DEF CarryOver, CarryInto, c
<1> HIDE DEF r, res
<1>5. CASE res = [acc EXCEPT !.ledger = Drop(@, {o})]
  <2>1. {"book", "ledger"} \subseteq DOMAIN res /\ res.book = acc.book
    BY <1>5 DEF CarryState
  <2>2. CarryState(res)
    BY <2>1 DEF CarryState
  <2> QED
    BY <2>2 DEF res
<1>6. CASE res = [book |-> r.book,
                  positions |-> Settled(acc.positions, r.fills),
                  ledger |-> Disposed(Filled(acc.ledger, r.fills), r, o)]
  <2>1. {"book", "ledger"} \subseteq DOMAIN res /\ res.book = r.book
    BY <1>6
  <2>2. CarryState(res)
    BY <1>3, <2>1 DEF CarryState
  <2> QED
    BY <2>2 DEF res
<1> QED
  BY <1>4, <1>5, <1>6

\* The steps of the clearing: after the sweep one unmatched order after the other is carried
\* over, and the rest is cancelled.
SweptStart == [book |-> book, positions |-> Settled(positions, SweepFills),
               ledger |-> Filled(ledger, SweepFills)]
ToCarry == Unmatched(auctionBook, ClearingPrice)
Gone == Canceled(auctionBook, ClearingPrice)
ClearingRun(C) ==
    /\ C[0] = SweptStart
    /\ \A i \in 1..Len(ToCarry) : C[i] = CarryOver(C[i - 1], ToCarry[i])
    /\ Cleared = [C[Len(ToCarry)] EXCEPT !.ledger = Drop(@, Gone)]

LEMMA ClearingRuns ==
    ASSUME NEW n, Numbered(auctionBook, n)
    PROVE  /\ Len(ToCarry) \in Nat
           /\ \A i \in 1..Len(ToCarry) : ToCarry[i] \in DOMAIN auctionBook
           /\ \E C : ClearingRun(C)
<1> DEFINE m == Len(ToCarry)
           C == CHOOSE f : Carrying(f, m, SweptStart, ToCarry)
<1>1. ToCarry \in Seq(DOMAIN auctionBook)
  BY UnmatchedWaited DEF ToCarry
<1>2. Cleared = [C[m] EXCEPT !.ledger = Drop(@, Gone)]
  BY DEF Cleared, Carrying, SweptStart, ToCarry, Gone
<1>3. m \in Nat /\ \A i \in 1..m : ToCarry[i] \in DOMAIN auctionBook
  BY <1>1, SequenceDomain
<1> HIDE DEF m
<1>4. Carrying(C, m, SweptStart, ToCarry)
  <2>1. \E f : Carrying(f, m, SweptStart, ToCarry)
    BY <1>3, CarryingExists
  <2> QED
    BY <2>1
<1> HIDE DEF C
<1>5. C[0] = SweptStart /\ \A i \in 1..m : C[i] = CarryOver(C[i - 1], ToCarry[i])
  <2>1. \A i \in 0..m : C[i] = IF i = 0 THEN SweptStart ELSE CarryOver(C[i - 1], ToCarry[i])
    BY <1>4 DEF Carrying
  <2>2. 0 \in 0..m /\ \A i \in 1..m : i \in 0..m /\ i # 0
    BY <1>3
  <2> QED
    BY <2>1, <2>2
<1>6. ClearingRun(C)
  BY <1>2, <1>5 DEF ClearingRun, m
<1> QED
  BY <1>3, <1>6 DEF m

LEMMA ClearedBook ==
    ASSUME GoodBook(book), NEW n, Numbered(auctionBook, n)
    PROVE  /\ GoodBook(Cleared.book)
           /\ DOMAIN Cleared.book \subseteq DOMAIN book \cup DOMAIN auctionBook
<1> DEFINE m == Len(ToCarry)
<1>1. m \in Nat /\ \A i \in 1..m : ToCarry[i] \in DOMAIN auctionBook
  BY ClearingRuns
<1>2. PICK C : ClearingRun(C)
  BY ClearingRuns
<1> HIDE DEF m
<1>3. C[0] = SweptStart /\ \A i \in 1..m : C[i] = CarryOver(C[i - 1], ToCarry[i])
  BY <1>2 DEF ClearingRun, m
<1>4. CarryState(SweptStart)
  BY DEF CarryState, SweptStart
<1> DEFINE T == {i \in Nat : i <= m /\ ~CarryState(C[i])}
<1>5. T = {}
  <2> SUFFICES ASSUME T # {} PROVE FALSE
    OBVIOUS
  <2>1. PICK x \in T : \A y \in T : x <= y
    <3>1. T \subseteq Nat
      OBVIOUS
    <3> HIDE DEF T
    <3> QED
      BY <3>1, Least
  <2>2. x \in Nat /\ x <= m /\ ~CarryState(C[x])
    OBVIOUS
  <2>3. x # 0
    BY <2>2, <1>3, <1>4
  <2>4. x - 1 \in Nat /\ x - 1 <= m /\ x \in 1..m
    BY <2>2, <2>3, <1>1
  <2>5. CarryState(C[x - 1])
    BY <2>1, <2>2, <2>4
  <2>6. CarryState(C[x])
    BY <2>4, <2>5, <1>1, <1>3, CarryOverKeeps
  <2> QED
    BY <2>2, <2>6
<1>6. CarryState(C[m])
  BY <1>1, <1>5
<1>7. Cleared.book = C[m].book
  <2> DEFINE acc == C[m]
  <2> HIDE DEF acc
  <2>1. [acc EXCEPT !.ledger = Drop(@, Gone)].book = acc.book
    BY <1>6 DEF CarryState, acc
  <2> QED
    BY <1>2, <2>1 DEF acc, m, ClearingRun
<1> QED
  BY <1>6, <1>7 DEF CarryState

LEMMA ClearKeeps ==
    ASSUME Structure, ClearAuction
    PROVE  /\ Structure'
           /\ DOMAIN book' \subseteq DOMAIN book \cup DOMAIN auctionBook
<1>1. /\ GoodBook(Cleared.book)
      /\ DOMAIN Cleared.book \subseteq DOMAIN book \cup DOMAIN auctionBook
  BY ClearedBook DEF Structure
<1>2. book' = Cleared.book \/ book' = book
  BY DEF ClearAuction
<1>3. UNCHANGED <<stops, auctionBook, cascade, orderSeq, restarts>>
  BY DEF ClearAuction, world
<1>4. GoodBook(book') /\ DOMAIN book' \subseteq DOMAIN book \cup DOMAIN auctionBook
  BY <1>1, <1>2 DEF Structure
<1> QED
  BY <1>3, <1>4 DEF Structure

------------------------------------------------------------------------------
(* A restart: the open orders and stops are numbered afresh.                 *)

LEMMA OpenStopsAre ==
    ASSUME Structure
    PROVE  /\ \A o \in DOMAIN OpenStops : OpenStops[o] \in Stop /\ o \in OrderIds
           /\ \A o, p \in DOMAIN OpenStops : OpenStops[o].seq = OpenStops[p].seq => o = p
           /\ IsFiniteSet(DOMAIN OpenStops)
<1> DEFINE S == TodoIn(cascade)
           Of(o) == CHOOSE t \in S : t.id = o
<1>1. Todo = S /\ TriggeredIds = {t.id : t \in S}
  BY DEF Todo, TodoIn, TriggeredIds
<1>2. /\ DOMAIN OpenStops = DOMAIN stops \cup TriggeredIds
      /\ \A o \in DOMAIN stops : OpenStops[o] = stops[o]
      /\ \A o \in TriggeredIds \ DOMAIN stops : OpenStops[o] = Of(o).stop
  BY <1>1 DEF OpenStops
<1>3. Pending(stops, S, orderSeq)
  BY DEF Structure
<1> HIDE DEF S
<1>4. \A o \in TriggeredIds : Of(o) \in S /\ Of(o).id = o
  BY <1>1
<1> HIDE DEF Of
<1>5. ASSUME NEW o \in DOMAIN OpenStops PROVE OpenStops[o] \in Stop /\ o \in OrderIds
  <2>1. CASE o \in DOMAIN stops
    BY <2>1, <1>2, <1>3 DEF Pending
  <2>2. CASE o \notin DOMAIN stops
    <3>1. Of(o) \in Triggering /\ OpenStops[o] = Of(o).stop /\ Of(o).id = o
      BY <2>2, <1>2, <1>3, <1>4 DEF Pending
    <3> QED
      BY <3>1 DEF Triggering
  <2> QED
    BY <2>1, <2>2
<1>6. ASSUME NEW o \in DOMAIN OpenStops, NEW p \in DOMAIN OpenStops,
             OpenStops[o].seq = OpenStops[p].seq
      PROVE  o = p
  <2>1. CASE o \in DOMAIN stops /\ p \in DOMAIN stops
    BY <2>1, <1>2, <1>3, <1>6 DEF Pending
  <2>2. CASE o \in DOMAIN stops /\ p \notin DOMAIN stops
    BY <2>2, <1>2, <1>3, <1>4, <1>6 DEF Pending
  <2>3. CASE o \notin DOMAIN stops /\ p \in DOMAIN stops
    BY <2>3, <1>2, <1>3, <1>4, <1>6 DEF Pending
  <2>4. CASE o \notin DOMAIN stops /\ p \notin DOMAIN stops
    <3>1. Of(o) \in S /\ Of(p) \in S /\ Of(o).stop.seq = Of(p).stop.seq
      BY <2>4, <1>2, <1>4, <1>6
    <3>2. Of(o) = Of(p)
      BY <3>1, <1>3 DEF Pending
    <3> QED
      BY <3>2, <2>4, <1>2, <1>4
  <2> QED
    BY <2>1, <2>2, <2>3, <2>4
<1>7. IsFiniteSet(DOMAIN OpenStops)
  <2> DEFINE g == [t \in S |-> t.id]
  <2>1. IsFiniteSet(S) /\ IsFiniteSet(DOMAIN stops)
    BY <1>3 DEF Pending
  <2>2. g \in Surjection(S, TriggeredIds)
    BY <1>1 DEF Surjection
  <2> HIDE DEF g
  <2>3. IsFiniteSet(TriggeredIds)
    BY <2>1, <2>2, FS_Surjection
  <2> QED
    BY <1>2, <2>1, <2>3, FS_Union
<1> QED
  BY <1>5, <1>6, <1>7

LEMMA OpenOrdersAre ==
    ASSUME Structure
    PROVE  /\ DOMAIN OpenOrders = DOMAIN book \cup Waiting
           /\ Waiting \subseteq DOMAIN auctionBook
           /\ IsFiniteSet(DOMAIN OpenOrders)
           /\ \A o \in DOMAIN OpenOrders : OrderLike(OpenOrders[o])
<1>1. /\ DOMAIN OpenOrders = DOMAIN book \cup Waiting /\ Waiting \subseteq DOMAIN auctionBook
      /\ \A o \in DOMAIN OpenOrders :
            OpenOrders[o] = IF o \in Waiting THEN auctionBook[o] ELSE book[o]
  BY DEF OpenOrders, Waiting
<1>2. IsFiniteSet(DOMAIN book) /\ IsFiniteSet(DOMAIN auctionBook)
  BY DEF Structure, GoodBook, Numbered
<1>3. IsFiniteSet(Waiting)
  BY <1>1, <1>2, FS_Subset
<1>4. IsFiniteSet(DOMAIN OpenOrders)
  BY <1>1, <1>2, <1>3, FS_Union
<1>5. \A o \in DOMAIN OpenOrders : OrderLike(OpenOrders[o])
  BY <1>1 DEF Structure, GoodBook, Numbered
<1> QED
  BY <1>1, <1>4, <1>5

\* Within a section of the log no two have the same rank.
LEMMA RanksDiffer ==
    ASSUME Structure
    PROVE  /\ \A o \in Open : Section(o) \in 1..3 /\ Rank(o) \in Nat
           /\ \A o, p \in Open : Section(o) = Section(p) /\ Rank(o) = Rank(p) => o = p
<1>1. Open = (DOMAIN book \cup Waiting) \cup DOMAIN OpenStops
  BY OpenOrdersAre DEF Open
<1>2. Waiting \subseteq DOMAIN auctionBook
  BY OpenOrdersAre
<1>3. \A o \in Open :
        \/ Section(o) = 2 /\ o \in DOMAIN auctionBook /\ Rank(o) = auctionBook[o].seq
        \/ Section(o) = 1 /\ o \in DOMAIN book /\ Rank(o) = book[o].place
        \/ Section(o) = 3 /\ o \in DOMAIN OpenStops /\ Rank(o) = OpenStops[o].seq
  BY <1>1, <1>2 DEF Section, Rank
<1>4. /\ \A o \in DOMAIN auctionBook : auctionBook[o].seq \in Nat
      /\ \A o, p \in DOMAIN auctionBook : auctionBook[o].seq = auctionBook[p].seq => o = p
  BY DEF Structure, Numbered, OrderLike
<1>5. /\ \A o \in DOMAIN book : book[o].place \in Nat
      /\ \A o, p \in DOMAIN book : book[o].place = book[p].place => o = p
  BY DEF Structure, GoodBook, OrderLike
<1>6. /\ \A o \in DOMAIN OpenStops : OpenStops[o].seq \in Nat
      /\ \A o, p \in DOMAIN OpenStops : OpenStops[o].seq = OpenStops[p].seq => o = p
  BY OpenStopsAre DEF Stop
<1>7. \A o \in Open : Section(o) \in 1..3 /\ Rank(o) \in Nat
  BY <1>3, <1>4, <1>5, <1>6
<1>8. \A o, p \in Open : Section(o) = Section(p) /\ Rank(o) = Rank(p) => o = p
  BY <1>3, <1>4, <1>5, <1>6
<1> QED
  BY <1>7, <1>8

\* The fresh numbers follow the log.
LEMMA FreshNumbers ==
    ASSUME Structure
    PROVE  /\ orderSeq + Cardinality(Open) \in Nat
           /\ \A o \in Open : /\ FreshSeq(o) \in Nat
                              /\ FreshSeq(o) <= orderSeq + Cardinality(Open)
           /\ \A o, p \in Open : SeededBefore(o, p) => FreshSeq(o) < FreshSeq(p)
           /\ \A o, p \in Open : FreshSeq(o) = FreshSeq(p) => o = p
<1> DEFINE R == {x \in Open \X Open : SeededBefore(x[1], x[2])}
           n == Cardinality(Open)
<1>1. \A x, y \in Open : <<x, y>> \in R <=> SeededBefore(x, y)
  OBVIOUS
<1>2. IsFiniteSet(Open)
  BY OpenStopsAre, OpenOrdersAre, FS_Union DEF Open
<1>3. \A o \in Open : BeforeIn(Open, R, o) = {p \in Open : SeededBefore(p, o)}
  BY <1>1 DEF BeforeIn
<1> HIDE DEF R
<1>4. StrictOrder(Open, R)
  <2>1. \A o \in Open : Section(o) \in 1..3 /\ Rank(o) \in Nat
    BY RanksDiffer
  <2>2. \A x \in Open : <<x, x>> \notin R
    BY <1>1, <2>1 DEF SeededBefore
  <2>3. \A x, y, z \in Open : <<x, y>> \in R /\ <<y, z>> \in R => <<x, z>> \in R
    <3>1. ASSUME NEW x \in Open, NEW y \in Open, NEW z \in Open,
                 SeededBefore(x, y), SeededBefore(y, z)
          PROVE  SeededBefore(x, z)
      BY <3>1, <2>1 DEF SeededBefore
    <3> QED
      BY <3>1, <1>1
  <2>4. \A x, y \in Open : x = y \/ <<x, y>> \in R \/ <<y, x>> \in R
    <3>1. ASSUME NEW x \in Open, NEW y \in Open, x # y
          PROVE  SeededBefore(x, y) \/ SeededBefore(y, x)
      <4>1. Section(x) # Section(y) \/ Rank(x) # Rank(y)
        BY <3>1, RanksDiffer
      <4> QED
        BY <4>1, <2>1 DEF SeededBefore
    <3> QED
      BY <3>1, <1>1
  <2> QED
    BY <2>2, <2>3, <2>4 DEF StrictOrder
<1> DEFINE k(o) == Cardinality(BeforeIn(Open, R, o))
<1>5. n \in Nat /\ orderSeq \in Nat
  BY <1>2, FS_CardinalityType DEF Structure
<1>6. \A o \in Open : k(o) \in 0..(n - 1)
  BY <1>2, <1>4, SomeBefore
<1>7. \A o, p \in Open : SeededBefore(o, p) => k(o) < k(p)
  BY <1>1, <1>2, <1>4, FewerBefore
<1>8. \A o \in Open : FreshSeq(o) = orderSeq + k(o) + 1
  BY <1>3 DEF FreshSeq
<1> HIDE DEF k, n
<1>9. \A o, p \in Open : o # p => SeededBefore(o, p) \/ SeededBefore(p, o)
  BY <1>1, <1>4 DEF StrictOrder
<1>10. \A o \in Open : FreshSeq(o) \in Nat /\ FreshSeq(o) <= orderSeq + n /\ k(o) \in Nat
  BY <1>5, <1>6, <1>8
<1>11. \A o, p \in Open : SeededBefore(o, p) => FreshSeq(o) < FreshSeq(p)
  BY <1>5, <1>7, <1>8, <1>10
<1>12. \A o, p \in Open : FreshSeq(o) = FreshSeq(p) => o = p
  BY <1>9, <1>10, <1>11
<1> QED
  BY <1>5, <1>10, <1>11, <1>12 DEF n

LEMMA Renumbered ==
    ASSUME NEW r, OrderLike(r), NEW n \in Nat
    PROVE  LET s == [r EXCEPT !.seq = n, !.place = n]
           IN  OrderLike(s) /\ s.side = r.side /\ s.price = r.price /\ s.place = n
BY DEF OrderLike, Fields

LEMMA RestartKeeps ==
    ASSUME Structure, Restart
    PROVE  /\ Structure'
           /\ DOMAIN book' = DOMAIN book \cup Waiting
           /\ DOMAIN stops' = DOMAIN stops \cup TriggeredIds
           /\ cascade' = <<>>
           /\ \A o \in DOMAIN book' : LET s == book'[o] IN
                 /\ s.place = FreshSeq(o)
                 /\ o \notin Waiting => s.side = book[o].side /\ s.price = book[o].price
<1> DEFINE n == orderSeq + Cardinality(Open)
<1>1. /\ n \in Nat
      /\ \A o \in Open : FreshSeq(o) \in Nat /\ FreshSeq(o) <= n
      /\ \A o, p \in Open : FreshSeq(o) = FreshSeq(p) => o = p
  BY FreshNumbers
<1>2. /\ cascade' = <<>> /\ orderSeq' = n /\ restarts' = restarts + 1 /\ auctionBook' = NoMap
  BY DEF Restart
<1>3. restarts' \in Nat
  BY <1>2 DEF Structure
<1> HIDE DEF n
<1>4. DOMAIN OpenOrders \subseteq Open /\ DOMAIN OpenStops \subseteq Open
  BY DEF Open
<1>5. /\ DOMAIN book' = DOMAIN OpenOrders
      /\ \A o \in DOMAIN book' :
            book'[o] = [OpenOrders[o] EXCEPT !.seq = FreshSeq(o), !.place = FreshSeq(o)]
  BY DEF Restart
<1>6. ASSUME NEW o \in DOMAIN book'
      PROVE  LET s == book'[o] IN
             /\ OrderLike(s) /\ s.place = FreshSeq(o)
             /\ s.side = OpenOrders[o].side /\ s.price = OpenOrders[o].price
  <2> DEFINE r == OpenOrders[o]
             k == FreshSeq(o)
             s == [r EXCEPT !.seq = k, !.place = k]
  <2>1. OrderLike(r) /\ k \in Nat
    BY <1>1, <1>4, <1>5, OpenOrdersAre
  <2>2. book'[o] = s
    BY <1>5
  <2> HIDE DEF r, k
  <2>3. OrderLike(s) /\ s.side = r.side /\ s.price = r.price /\ s.place = k
    BY <2>1, Renumbered
  <2> HIDE DEF s
  <2> QED
    BY <2>2, <2>3 DEF r, k
<1>7. GoodBook(book')
  <2>1. IsFiniteSet(DOMAIN book')
    BY <1>5, OpenOrdersAre
  <2>2. ASSUME NEW o \in DOMAIN book', NEW p \in DOMAIN book', book'[o].place = book'[p].place
        PROVE  o = p
    <3>1. o \in Open /\ p \in Open
      BY <1>4, <1>5
    <3>2. book'[o].place = FreshSeq(o) /\ book'[p].place = FreshSeq(p)
      BY <1>6
    <3> QED
      BY <3>1, <3>2, <2>2, <1>1
  <2> QED
    BY <2>1, <2>2, <1>6 DEF GoodBook
<1>8. /\ DOMAIN stops' = DOMAIN OpenStops
      /\ \A o \in DOMAIN stops' : stops'[o] = [OpenStops[o] EXCEPT !.seq = FreshSeq(o)]
  BY DEF Restart
<1>9. ASSUME NEW o \in DOMAIN stops'
      PROVE  stops'[o] \in Stop /\ stops'[o].seq = FreshSeq(o) /\ o \in OrderIds
  <2> DEFINE r == OpenStops[o]
             k == FreshSeq(o)
             s == [r EXCEPT !.seq = k]
  <2>1. r \in Stop /\ k \in Nat /\ o \in OrderIds
    BY <1>1, <1>4, <1>8, OpenStopsAre
  <2>2. stops'[o] = s
    BY <1>8
  <2> HIDE DEF r, k
  <2>3. s \in Stop /\ s.seq = k
    BY <2>1 DEF Stop
  <2> HIDE DEF s
  <2> QED
    BY <2>1, <2>2, <2>3 DEF k
<1>10. TodoIn(cascade') = {} /\ Once(cascade') /\ cascade' \in Seq(Frame)
  BY <1>2, NothingToDo
<1>11. Pending(stops', TodoIn(cascade'), orderSeq')
  <2> DEFINE S == TodoIn(cascade')
  <2>1. S = {} /\ IsFiniteSet(S)
    BY <1>10, FS_EmptySet
  <2> HIDE DEF S
  <2>2. IsFiniteSet(DOMAIN stops')
    BY <1>8, OpenStopsAre
  <2>3. \A o \in DOMAIN stops' : stops'[o] \in Stop /\ stops'[o].seq <= orderSeq' /\ o \in OrderIds
    BY <1>1, <1>2, <1>4, <1>8, <1>9
  <2>4. \A o, p \in DOMAIN stops' : stops'[o].seq = stops'[p].seq => o = p
    BY <1>1, <1>4, <1>8, <1>9
  <2>5. Pending(stops', S, orderSeq')
    BY <2>1, <2>2, <2>3, <2>4 DEF Pending
  <2> QED
    BY <2>5 DEF S
<1>12. Numbered(auctionBook', orderSeq')
  <2>1. DOMAIN auctionBook' = {}
    BY <1>2 DEF NoMap
  <2> QED
    BY <2>1, FS_EmptySet DEF Numbered
<1>13. Structure'
  BY <1>1, <1>2, <1>3, <1>7, <1>10, <1>11, <1>12 DEF Structure
<1>14. /\ DOMAIN OpenOrders = DOMAIN book \cup Waiting
       /\ DOMAIN OpenStops = DOMAIN stops \cup TriggeredIds
       /\ \A o \in DOMAIN OpenOrders \ Waiting : OpenOrders[o] = book[o]
  BY DEF OpenOrders, OpenStops
<1> QED
  BY <1>2, <1>5, <1>6, <1>8, <1>13, <1>14

------------------------------------------------------------------------------
(* The invariant of every behaviour, and what a halt means.                  *)

LEMMA StructureStarts == Init => Structure
<1> SUFFICES ASSUME Init PROVE Structure
  OBVIOUS
<1>1. DOMAIN book = {} /\ DOMAIN stops = {} /\ DOMAIN auctionBook = {}
  BY DEF Init, NoMap
<1>2. orderSeq \in Nat /\ restarts \in Nat /\ cascade = <<>>
  BY DEF Init
<1>3. TodoIn(cascade) = {} /\ Once(cascade) /\ cascade \in Seq(Frame)
  BY <1>2, NothingToDo
<1>4. GoodBook(book)
  BY <1>1, FS_EmptySet DEF GoodBook
<1>5. Pending(stops, TodoIn(cascade), orderSeq)
  <2> DEFINE S == TodoIn(cascade)
  <2>1. S = {}
    BY <1>3
  <2> HIDE DEF S
  <2>2. Pending(stops, S, orderSeq)
    BY <1>1, <2>1, FS_EmptySet DEF Pending
  <2> QED
    BY <2>2 DEF S
<1>6. Numbered(auctionBook, orderSeq)
  BY <1>1, FS_EmptySet DEF Numbered
<1> QED
  BY <1>2, <1>3, <1>4, <1>5, <1>6 DEF Structure

LEMMA StructureStays == Structure /\ [Next]_vars => Structure'
<1> SUFFICES ASSUME Structure, [Next]_vars PROVE Structure'
  OBVIOUS
<1>1. ASSUME NEW c \in Commands, JoinAuction(c) PROVE Structure'
  BY <1>1, JoinKeeps
<1>2. ASSUME NEW c \in Commands, QueueLimit(c) PROVE Structure'
  BY <1>2, QueueKeeps
<1>3. ASSUME NEW c \in Commands, MatchLimit(c) PROVE Structure'
  BY <1>3, LimitKeeps
<1>4. ASSUME NEW c \in Commands, MatchMarket(c) PROVE Structure'
  BY <1>4, MarketOrderKeeps
<1>5. ASSUME NEW c \in Commands, AddStop(c) PROVE Structure'
  BY <1>5, AddStopKeeps
<1>6. ASSUME NEW o \in OrderIds, NEW u \in Users, CancelOrder(o, u) PROVE Structure'
  <2>1. /\ book' = Drop(book, {o}) \/ book' = book
        /\ stops' = Drop(stops, {o}) \/ stops' = stops
        /\ UNCHANGED <<auctionBook, cascade, orderSeq, restarts>>
    BY <1>6 DEF CancelOrder, auction, world
  <2> QED
    BY <2>1, LeaveKeeps
<1>7. CASE \/ AdminHalt \/ AdminResume \/ TimePasses \/ OpenAuction \/ UNCHANGED vars
  <2>1. UNCHANGED <<book, stops, auctionBook, cascade, orderSeq, restarts>>
    BY <1>7 DEF AdminHalt, AdminResume, TimePasses, OpenAuction, auction, world, vars
  <2> QED
    BY <2>1 DEF Structure
<1>8. CASE RunTriggered
  BY <1>8, RunKeeps
<1>9. CASE RejectTriggered
  BY <1>9, RejectKeeps
<1>10. CASE CheckReturns
  BY <1>10, ReturnKeeps
<1>11. CASE RunExpiryCheck
  <2>1. /\ book' = Drop(book, Overdue(book)) /\ stops' = Drop(stops, Overdue(stops))
        /\ UNCHANGED <<auctionBook, cascade, orderSeq, restarts>>
    BY <1>11 DEF RunExpiryCheck, auction, world
  <2> QED
    BY <2>1, LeaveKeeps
<1>12. CASE ClearAuction
  BY <1>12, ClearKeeps
<1>13. CASE Restart
  BY <1>13, RestartKeeps
<1> QED
  BY <1>1, <1>2, <1>3, <1>4, <1>5, <1>6, <1>7, <1>8, <1>9, <1>10, <1>11, <1>12, <1>13
  DEF Next, CascadeStep

\* The queues, the pending stops, the auction orders and the calls in progress stay in
\* order in every behaviour (book, stopbook and auction packages, checkStopsAndBreaker).
THEOREM StructureHolds == Spec => []Structure
<1> QED
  BY StructureStarts, StructureStays, PTL DEF Spec

\* A halted market trades nothing but the stops of the cascade that still runs: nothing
\* else that changes a position runs while the market is halted.
LEMMA HaltedStep ==
    ASSUME Structure, [Next]_vars, state = "Halted", restarts' = restarts,
           positions' # positions
    PROVE  TriggeredIds # {}
<1>1. ASSUME NEW c \in Commands
      PROVE  ~(JoinAuction(c) \/ QueueLimit(c) \/ MatchLimit(c) \/ MatchMarket(c) \/ AddStop(c))
  BY DEF JoinAuction, QueueLimit, MatchLimit, MatchMarket, AddStop, CanAcceptMarketOrder
<1>2. \A o \in OrderIds, u \in Users : ~CancelOrder(o, u)
  BY DEF CancelOrder
<1>3. ~(AdminHalt \/ AdminResume \/ RejectTriggered \/ CheckReturns \/ TimePasses
        \/ RunExpiryCheck \/ OpenAuction \/ UNCHANGED vars)
  BY DEF AdminHalt, AdminResume, RejectTriggered, CheckReturns, TimePasses, RunExpiryCheck,
         OpenAuction, vars
<1>4. ~ClearAuction
  BY DEF ClearAuction
<1>5. ~Restart
  <2>1. restarts \in Nat
    BY DEF Structure
  <2>2. Restart => restarts' = restarts + 1
    BY DEF Restart
  <2> QED
    BY <2>1, <2>2
<1>6. RunTriggered
  BY <1>1, <1>2, <1>3, <1>4, <1>5 DEF Next, CascadeStep
<1>7. NextTriggered.id \in IdsIn(cascade)
  BY <1>6, RunKeeps
<1> QED
  BY <1>7 DEF TriggeredIds, Todo, IdsIn, TodoIn

\* HaltHolds: an administrator's or the breaker's halt stops all trading, except for the
\* stops a running cascade has already triggered.
THEOREM HaltStopsTrading == Spec => HaltHolds
<1> DEFINE A == state = "Halted" /\ restarts' = restarts /\ positions' # positions
                => TriggeredIds # {}
<1>1. Structure /\ [Next]_vars => [A]_vars
  BY HaltedStep
<1> HIDE DEF A
<1>2. Spec => [][A]_vars
  BY <1>1, StructureHolds, PTL DEF Spec
<1> QED
  BY <1>2 DEF HaltHolds, A

------------------------------------------------------------------------------
(* No id is live twice.                                                      *)

\* The check AddStop lacks, asked of the clients instead: no stop is sent under the id of an
\* order that waits in the auction.
StopsApart == \A c \in Commands : AddStop(c) => c.id \notin Waiting

\* The inductive invariant: LiveOnce, and that nothing is swept before the clearing.
Apart ==
    /\ DOMAIN book \cap DOMAIN stops = {}
    /\ IdsIn(cascade) \cap (DOMAIN book \cup DOMAIN stops) = {}
    /\ Waiting \cap (DOMAIN book \cup DOMAIN stops \cup IdsIn(cascade)) = {}
    /\ swept \subseteq DOMAIN auctionBook
    /\ clearTimer => swept = {}

LEMMA TodoNotPending ==
    ASSUME NEW f, NEW F, NEW n, Pending(f, TodoIn(F), n)
    PROVE  IdsIn(F) \cap DOMAIN f = {}
<1>1. ASSUME NEW o \in IdsIn(F), o \in DOMAIN f PROVE FALSE
  <2>1. PICK t \in TodoIn(F) : t.id = o
    BY DEF IdsIn
  <2> QED
    BY <1>1, <2>1 DEF Pending
<1> QED
  BY <1>1

LEMMA IdleHasNoIds == Idle => IdsIn(cascade) = {}
BY NothingToDo DEF Idle, IdsIn

\* What is matched may rest, what is triggered comes from the stops.
LEMMA ApartAfter ==
    ASSUME Structure', Apart, NEW o,
           DOMAIN book' \subseteq DOMAIN book \cup {o},
           o \notin Waiting, o \notin DOMAIN stops' \cup IdsIn(cascade'),
           DOMAIN stops' \cup IdsIn(cascade') \subseteq DOMAIN stops \cup IdsIn(cascade),
           auctionBook' = auctionBook, swept' = swept, clearTimer' = clearTimer
    PROVE  Apart'
<1>1. IdsIn(cascade') \cap DOMAIN stops' = {}
  BY TodoNotPending DEF Structure
<1>2. Waiting' = Waiting
  BY DEF Waiting
<1> QED
  BY <1>1, <1>2 DEF Apart

\* Orders and stops that leave, and calls that return.
LEMMA ApartWithFewer ==
    ASSUME Apart, DOMAIN book' \subseteq DOMAIN book, DOMAIN stops' \subseteq DOMAIN stops,
           IdsIn(cascade') \subseteq IdsIn(cascade),
           auctionBook' = auctionBook, swept' = swept, clearTimer' = clearTimer
    PROVE  Apart'
<1>1. Waiting' = Waiting
  BY DEF Waiting
<1> QED
  BY <1>1 DEF Apart

LEMMA JoinApart ==
    ASSUME Structure, Apart, NEW c \in Commands, JoinAuction(c)
    PROVE  Apart'
<1>1. /\ Idle /\ c.id \notin DOMAIN book \cup DOMAIN stops \cup DOMAIN auctionBook
      /\ UNCHANGED <<book, stops, swept, clearTimer, cascade>>
  BY DEF JoinAuction, AcceptsLimit, Accepts, timers
<1>2. DOMAIN auctionBook' = DOMAIN auctionBook \cup {c.id}
  BY DEF JoinAuction, Put
<1>3. Waiting' = DOMAIN auctionBook' \ swept' /\ Waiting = DOMAIN auctionBook \ swept
  BY DEF Waiting
<1>4. IdsIn(cascade) = {}
  BY <1>1, IdleHasNoIds
<1> QED
  BY <1>1, <1>2, <1>3, <1>4 DEF Apart

LEMMA QueueApart ==
    ASSUME Structure, Apart, NEW c \in Commands, QueueLimit(c)
    PROVE  Apart'
<1>1. /\ Idle /\ c.id \notin DOMAIN book \cup DOMAIN stops \cup DOMAIN auctionBook
      /\ UNCHANGED <<auctionBook, stops, swept, clearTimer, cascade>>
  BY DEF QueueLimit, AcceptsLimit, Accepts, timers, auction
<1>2. DOMAIN book' = DOMAIN book \cup {c.id}
  BY DEF QueueLimit, Enter, Put
<1>3. Waiting' = Waiting /\ Waiting \subseteq DOMAIN auctionBook
  BY <1>1 DEF Waiting
<1>4. IdsIn(cascade) = {}
  BY <1>1, IdleHasNoIds
<1> QED
  BY <1>1, <1>2, <1>3, <1>4 DEF Apart

LEMMA LimitApart ==
    ASSUME Structure, Apart, NEW c \in Commands, MatchLimit(c)
    PROVE  Apart'
<1>1. /\ Idle /\ c.id \notin DOMAIN book \cup DOMAIN stops \cup DOMAIN auctionBook
      /\ UNCHANGED <<auctionBook, swept, clearTimer>>
  BY DEF MatchLimit, AcceptsLimit, Accepts, timers, auction
<1>2. /\ Structure' /\ DOMAIN book' \subseteq DOMAIN book \cup {c.id}
      /\ DOMAIN stops' \cup IdsIn(cascade') = DOMAIN stops
  BY LimitKeeps
<1>3. c.id \notin Waiting
  BY <1>1 DEF Waiting
<1> QED
  BY <1>1, <1>2, <1>3, ApartAfter

\* A market order never rests, whatever its id.
LEMMA MarketOrderApart ==
    ASSUME Structure, Apart, NEW c \in Commands, MatchMarket(c)
    PROVE  Apart'
<1>1. UNCHANGED <<auctionBook, swept, clearTimer>>
  BY DEF MatchMarket, timers, auction
<1>2. /\ Structure' /\ DOMAIN book' \subseteq DOMAIN book
      /\ DOMAIN stops' \cup IdsIn(cascade') = DOMAIN stops
  BY MarketOrderKeeps
<1>3. IdsIn(cascade') \cap DOMAIN stops' = {}
  BY <1>2, TodoNotPending DEF Structure
<1>4. Waiting' = Waiting
  BY <1>1 DEF Waiting
<1> QED
  BY <1>1, <1>2, <1>3, <1>4 DEF Apart

LEMMA AddStopApart ==
    ASSUME Structure, Apart, NEW c \in Commands, AddStop(c), c.id \notin Waiting
    PROVE  Apart'
<1>1. /\ Idle /\ c.id \notin DOMAIN book \cup DOMAIN stops
      /\ UNCHANGED <<book, auctionBook, swept, clearTimer, cascade>>
  BY DEF AddStop, Accepts, timers, auction
<1>2. DOMAIN stops' = DOMAIN stops \cup {c.id}
  BY DEF AddStop, Put
<1>3. Waiting' = Waiting
  BY <1>1 DEF Waiting
<1>4. IdsIn(cascade) = {}
  BY <1>1, IdleHasNoIds
<1> QED
  BY <1>1, <1>2, <1>3, <1>4 DEF Apart

LEMMA RunApart ==
    ASSUME Structure, Apart, RunTriggered
    PROVE  Apart'
<1> DEFINE o == NextTriggered.id
<1>1. /\ Structure' /\ o \in IdsIn(cascade) /\ DOMAIN book' \subseteq DOMAIN book \cup {o}
      /\ DOMAIN stops' \cup IdsIn(cascade') = DOMAIN stops \cup (IdsIn(cascade) \ {o})
  BY RunKeeps
<1>2. UNCHANGED <<auctionBook, swept, clearTimer>>
  BY DEF RunTriggered, timers, auction
<1> HIDE DEF o
<1>3. o \notin Waiting /\ o \notin DOMAIN stops
  BY <1>1 DEF Apart
<1> QED
  BY <1>1, <1>2, <1>3, ApartAfter

LEMMA ClearApart ==
    ASSUME Structure, Apart, ClearAuction
    PROVE  Apart'
<1>1. DOMAIN book' \subseteq DOMAIN book \cup DOMAIN auctionBook
  BY ClearKeeps
<1>2. clearTimer /\ ~clearTimer' /\ UNCHANGED <<stops, auctionBook, cascade>>
  BY DEF ClearAuction
<1>3. Waiting = DOMAIN auctionBook
  BY <1>2 DEF Apart, Waiting
<1>4. Waiting' = DOMAIN auctionBook' \ swept'
  BY DEF Waiting
<1>5. CASE swept' = DOMAIN auctionBook
  BY <1>1, <1>2, <1>3, <1>4, <1>5 DEF Apart
<1>6. CASE book' = book /\ swept' = swept
  BY <1>2, <1>3, <1>4, <1>6 DEF Apart
<1>7. swept' = DOMAIN auctionBook \/ (book' = book /\ swept' = swept)
  BY DEF ClearAuction
<1> QED
  BY <1>5, <1>6, <1>7

LEMMA RestartApart ==
    ASSUME Structure, Apart, Restart
    PROVE  Apart'
<1>1. /\ DOMAIN book' = DOMAIN book \cup Waiting
      /\ DOMAIN stops' = DOMAIN stops \cup TriggeredIds
      /\ cascade' = <<>>
  BY RestartKeeps
<1>2. TriggeredIds = IdsIn(cascade)
  BY DEF TriggeredIds, Todo, IdsIn, TodoIn
<1>3. IdsIn(cascade') = {}
  BY <1>1, NothingToDo DEF IdsIn
<1>4. swept' = {} /\ DOMAIN auctionBook' = {}
  BY DEF Restart, NoMap
<1>5. Waiting' = {}
  BY <1>4 DEF Waiting
<1> QED
  BY <1>1, <1>2, <1>3, <1>4, <1>5 DEF Apart

LEMMA ApartStays == Structure /\ Apart /\ [Next]_vars /\ [StopsApart]_vars => Apart'
<1> SUFFICES ASSUME Structure, Apart, [Next]_vars, [StopsApart]_vars PROVE Apart'
  OBVIOUS
<1>1. ASSUME NEW c \in Commands, JoinAuction(c) PROVE Apart'
  BY <1>1, JoinApart
<1>2. ASSUME NEW c \in Commands, QueueLimit(c) PROVE Apart'
  BY <1>2, QueueApart
<1>3. ASSUME NEW c \in Commands, MatchLimit(c) PROVE Apart'
  BY <1>3, LimitApart
<1>4. ASSUME NEW c \in Commands, MatchMarket(c) PROVE Apart'
  BY <1>4, MarketOrderApart
<1>5. CASE /\ DOMAIN book' \subseteq DOMAIN book /\ DOMAIN stops' \subseteq DOMAIN stops
           /\ UNCHANGED <<cascade, auctionBook, swept, clearTimer>>
  BY <1>5, ApartWithFewer
<1>6. ASSUME NEW c \in Commands, AddStop(c) PROVE Apart'
  <2>1. CASE StopsApart
    BY <1>6, <2>1, AddStopApart DEF StopsApart
  <2>2. CASE UNCHANGED vars
    BY <2>2, <1>5 DEF vars
  <2> QED
    BY <2>1, <2>2
<1>7. ASSUME NEW o \in OrderIds, NEW u \in Users, CancelOrder(o, u) PROVE Apart'
  <2>1. DOMAIN book' \subseteq DOMAIN book /\ DOMAIN stops' \subseteq DOMAIN stops
    BY <1>7 DEF CancelOrder, Drop, Restrict
  <2>2. UNCHANGED <<cascade, auctionBook, swept, clearTimer>>
    BY <1>7 DEF CancelOrder, auction, timers
  <2> QED
    BY <2>1, <2>2, <1>5
<1>8. CASE AdminHalt \/ AdminResume \/ TimePasses \/ OpenAuction \/ UNCHANGED vars
  <2>1. UNCHANGED <<book, stops, cascade, auctionBook, swept, clearTimer>>
    BY <1>8 DEF AdminHalt, AdminResume, TimePasses, OpenAuction, auction, timers, vars
  <2> QED
    BY <2>1, <1>5
<1>9. CASE RunTriggered
  BY <1>9, RunApart
<1>10. CASE RejectTriggered \/ CheckReturns
  <2>1. IdsIn(cascade') \subseteq IdsIn(cascade)
    BY <1>10, RejectKeeps, ReturnKeeps
  <2>2. UNCHANGED <<book, stops, auctionBook, swept, clearTimer>>
    BY <1>10 DEF RejectTriggered, CheckReturns, auction, timers
  <2> QED
    BY <2>1, <2>2, ApartWithFewer
<1>11. CASE RunExpiryCheck
  <2>1. DOMAIN book' \subseteq DOMAIN book /\ DOMAIN stops' \subseteq DOMAIN stops
    BY <1>11 DEF RunExpiryCheck, Drop, Restrict
  <2>2. UNCHANGED <<cascade, auctionBook, swept, clearTimer>>
    BY <1>11 DEF RunExpiryCheck, auction, timers
  <2> QED
    BY <2>1, <2>2, <1>5
<1>12. CASE ClearAuction
  BY <1>12, ClearApart
<1>13. CASE Restart
  BY <1>13, RestartApart
<1> QED
  BY <1>1, <1>2, <1>3, <1>4, <1>6, <1>7, <1>8, <1>9, <1>10, <1>11, <1>12, <1>13
  DEF Next, CascadeStep

LEMMA ApartStarts == Init => Apart
<1> SUFFICES ASSUME Init PROVE Apart
  OBVIOUS
<1>1. /\ DOMAIN book = {} /\ DOMAIN stops = {} /\ DOMAIN auctionBook = {} /\ swept = {}
      /\ Idle
  BY DEF Init, NoMap, Idle
<1> QED
  BY <1>1, IdleHasNoIds DEF Apart, Waiting

LEMMA ApartMeansOnce == Structure /\ Apart => LiveOnce
<1>1. TriggeredIds = IdsIn(cascade)
  BY DEF TriggeredIds, Todo, IdsIn, TodoIn
<1> QED
  BY <1>1 DEF Structure, Apart, Once, LiveOnce

\* LiveOnce, as far as the duplicate checks go: as long as no stop is sent under the id of an
\* order that waits in the auction, no id rests, is pending, has triggered or waits twice.
THEOREM NoIdLivesTwice == Spec /\ [][StopsApart]_vars => []LiveOnce
<1>1. Spec /\ [][StopsApart]_vars => []Apart
  BY ApartStarts, ApartStays, StructureHolds, PTL DEF Spec
<1> QED
  BY <1>1, ApartMeansOnce, StructureHolds, PTL

------------------------------------------------------------------------------
(* A restart keeps the order of every queue.                                 *)

LEMMA OnlyRestartRestarts ==
    ASSUME [Next]_vars, restarts' # restarts
    PROVE  Restart
BY DEF Next, CascadeStep, JoinAuction, QueueLimit, MatchLimit, MatchMarket, AddStop,
       CancelOrder, AdminHalt, AdminResume, RunTriggered, RejectTriggered, CheckReturns,
       TimePasses, RunExpiryCheck, OpenAuction, ClearAuction, world, vars

\* A resting order is numbered by its place, so that the places keep their order.
LEMMA PlacesKeepOrder ==
    ASSUME Structure, Apart, Restart, NEW o \in DOMAIN book, NEW p \in DOMAIN book
    PROVE  /\ o \in DOMAIN book' /\ p \in DOMAIN book'
           /\ book'[o].side = book[o].side /\ book'[o].price = book[o].price
           /\ book[o].place < book[p].place <=> book'[o].place < book'[p].place
<1>1. /\ o \in DOMAIN book' /\ p \in DOMAIN book' /\ o \notin Waiting /\ p \notin Waiting
  BY RestartKeeps DEF Apart
<1>2. /\ book'[o].place = FreshSeq(o) /\ book'[p].place = FreshSeq(p)
      /\ book'[o].side = book[o].side /\ book'[o].price = book[o].price
  BY <1>1, RestartKeeps
<1>3. /\ Section(o) = 1 /\ Rank(o) = book[o].place
      /\ Section(p) = 1 /\ Rank(p) = book[p].place
  BY <1>1 DEF Section, Rank
<1>4. o \in Open /\ p \in Open
  BY OpenOrdersAre DEF Open
<1>5. /\ FreshSeq(o) \in Nat /\ FreshSeq(p) \in Nat
      /\ SeededBefore(o, p) => FreshSeq(o) < FreshSeq(p)
      /\ SeededBefore(p, o) => FreshSeq(p) < FreshSeq(o)
  BY <1>4, FreshNumbers
<1>6. /\ book[o].place \in Nat /\ book[p].place \in Nat
      /\ book[o].place = book[p].place => o = p
  BY DEF Structure, GoodBook, OrderLike
<1>7. /\ SeededBefore(o, p) <=> book[o].place < book[p].place
      /\ SeededBefore(p, o) <=> book[p].place < book[o].place
  BY <1>3, <1>6 DEF SeededBefore
<1>8. book[o].place < book[p].place <=> FreshSeq(o) < FreshSeq(p)
  BY <1>5, <1>6, <1>7
<1> QED
  BY <1>1, <1>2, <1>8

LEMMA PriorityKept ==
    ASSUME Structure, Apart, [Next]_vars, restarts' # restarts
    PROVE  \A o, p \in DOMAIN book :
              o \in DOMAIN book' /\ p \in DOMAIN book'
              /\ (Precedes(book, o, p) <=> Precedes(book', o, p))
<1>1. Restart
  BY OnlyRestartRestarts
<1>2. ASSUME NEW o \in DOMAIN book, NEW p \in DOMAIN book
      PROVE  /\ o \in DOMAIN book' /\ p \in DOMAIN book'
             /\ (Precedes(book, o, p) <=> Precedes(book', o, p))
  <2>1. /\ o \in DOMAIN book' /\ p \in DOMAIN book'
        /\ book'[o].side = book[o].side /\ book'[o].price = book[o].price
        /\ book'[p].side = book[p].side /\ book'[p].price = book[p].price
        /\ book[o].place < book[p].place <=> book'[o].place < book'[p].place
    BY <1>1, PlacesKeepOrder
  <2> QED
    BY <2>1 DEF Precedes
<1> QED
  BY <1>2

\* RestartKeepsPriority: a restart that is given the open orders by their places, then those
\* that wait in the auction, leaves every resting order where it stood.
THEOREM RestartKeepsEveryQueue == Spec /\ [][StopsApart]_vars => RestartKeepsPriority
<1> DEFINE A == restarts' # restarts =>
                  \A o, p \in DOMAIN book :
                     o \in DOMAIN book' /\ p \in DOMAIN book'
                     /\ (Precedes(book, o, p) <=> Precedes(book', o, p))
<1>1. Structure /\ Apart /\ [Next]_vars => [A]_vars
  BY PriorityKept
<1> HIDE DEF A
<1>2. Spec /\ [][StopsApart]_vars => [][A]_vars
  BY <1>1, ApartStarts, ApartStays, StructureHolds, PTL DEF Spec
<1> QED
  BY <1>2 DEF RestartKeepsPriority, A

------------------------------------------------------------------------------
(* Clients that never reuse the id of a limit order for a stop.              *)

\* The ids of the auction are those of limit orders; without auctions there are none.
LimitsOnly ==
    /\ \A o \in DOMAIN auctionBook : \E c \in Commands : c.id = o /\ c.price > 0 /\ c.trigger = 0
    /\ \/ AuctionsEnabled
       \/ /\ DOMAIN auctionBook = {} /\ ~openTimer
          /\ state # "Auction" /\ preHaltState # "Auction"

LEMMA LimitsOnlyStays == LimitsOnly /\ [Next]_vars => LimitsOnly'
<1> SUFFICES ASSUME LimitsOnly, [Next]_vars PROVE LimitsOnly'
  OBVIOUS
<1>1. ASSUME NEW c \in Commands, JoinAuction(c) PROVE LimitsOnly'
  <2>1. /\ c.price > 0 /\ c.trigger = 0 /\ state = "Auction"
        /\ DOMAIN auctionBook' = DOMAIN auctionBook \cup {c.id}
    BY <1>1 DEF JoinAuction, AcceptsLimit, Put
  <2> QED
    BY <2>1 DEF LimitsOnly
<1>2. CASE /\ auctionBook' = auctionBook /\ openTimer' = openTimer
           /\ \/ UNCHANGED lifecycle
              \/ Halt
  BY <1>2 DEF LimitsOnly, Halt, lifecycle
<1>3. ASSUME NEW F, NEW o, NEW n, Execute(F, o, n) PROVE UNCHANGED lifecycle \/ Halt
  BY <1>3 DEF Execute, CheckStops
<1>4. ASSUME NEW c \in Commands, QueueLimit(c) \/ AddStop(c) PROVE LimitsOnly'
  BY <1>2, <1>4 DEF QueueLimit, AddStop, auction, timers
<1>5. ASSUME NEW c \in Commands, MatchLimit(c) \/ MatchMarket(c) PROVE LimitsOnly'
  BY <1>2, <1>3, <1>5 DEF MatchLimit, MatchMarket, auction, timers
<1>6. CASE RunTriggered
  BY <1>2, <1>3, <1>6 DEF RunTriggered, auction, timers
<1>7. ASSUME NEW o \in OrderIds, NEW u \in Users, CancelOrder(o, u) PROVE LimitsOnly'
  BY <1>2, <1>7 DEF CancelOrder, auction, timers
<1>8. CASE \/ AdminHalt \/ RejectTriggered \/ CheckReturns \/ TimePasses \/ RunExpiryCheck
           \/ UNCHANGED vars
  BY <1>2, <1>8 DEF AdminHalt, RejectTriggered, CheckReturns, TimePasses, RunExpiryCheck,
                    vars, auction, timers, lifecycle
<1>9. CASE AdminResume
  BY <1>9 DEF AdminResume, ResumeTarget, LimitsOnly, auction, timers
<1>10. CASE OpenAuction
  BY <1>10 DEF OpenAuction, LimitsOnly, auction
<1>11. CASE ClearAuction
  BY <1>11 DEF ClearAuction, LimitsOnly
<1>12. CASE Restart
  BY <1>12, FeatureAssumption DEF Restart, LimitsOnly, NoMap
<1> QED
  BY <1>1, <1>4, <1>5, <1>6, <1>7, <1>8, <1>9, <1>10, <1>11, <1>12 DEF Next, CascadeStep

\* Where auctions run and no stop is ever sent under the id of a limit order, the check that
\* AddStop lacks is not missed: LiveOnce and RestartKeepsPriority hold.
THEOREM SeparateIdsSuffice ==
    ASSUME StopIdsApart
    PROVE  Spec => []LiveOnce /\ RestartKeepsPriority
<1>1. Init => LimitsOnly
  BY FeatureAssumption DEF Init, LimitsOnly, NoMap
<1>2. LimitsOnly => [StopsApart]_vars
  BY CommandAssumption DEF LimitsOnly, StopsApart, StopIdsApart, Waiting, AddStop, Command
<1>3. Spec => [][StopsApart]_vars
  BY <1>1, <1>2, LimitsOnlyStays, PTL DEF Spec
<1> QED
  BY <1>3, NoIdLivesTwice, RestartKeepsEveryQueue

------------------------------------------------------------------------------
(* Quantities: what a match trades.                                          *)

\* A book in order, with natural quantities.
Quantified(b) ==
    /\ GoodBook(b)
    /\ \A o \in DOMAIN b : b[o].qty \in Nat

Offered(b) == [o \in DOMAIN b |-> b[o].qty]
TradedOf(b, n) == [o \in DOMAIN b |-> Traded(b, n, o)]

LEMMA VolumeIsSum ==
    ASSUME NEW b, Quantified(b), NEW S \in SUBSET DOMAIN b
    PROVE  /\ Volume(b, S) = Sum(Offered(b), S) /\ Volume(b, S) \in Nat
           /\ IsFiniteSet(S)
<1> DEFINE g == Offered(b)
<1>1. Volume(b, S) = Sum(g, S)
  BY SumUnfolded DEF Volume, Offered
<1>2. IsFiniteSet(S)
  BY FS_Subset DEF Quantified, GoodBook
<1>3. \A x \in S : g[x] \in Nat
  BY DEF Offered, Quantified
<1> HIDE DEF g
<1>4. Sum(g, S) \in Nat
  BY <1>2, <1>3, SumNat
<1> QED
  BY <1>1, <1>2, <1>4 DEF g

LEMMA TradedWithin ==
    ASSUME NEW b, Quantified(b), NEW n, n.qty \in Nat, NEW m \in DOMAIN b
    PROVE  /\ Traded(b, n, m) \in Nat /\ Traded(b, n, m) <= b[m].qty
           /\ Traded(b, n, m) > 0 => m \in Makers(b, n)
<1> DEFINE S == {k \in Makers(b, n) : Precedes(b, k, m)}
           v == Volume(b, S)
<1>1. S \in SUBSET DOMAIN b
  BY DEF Makers
<1>2. v \in Nat
  <2> HIDE DEF S
  <2> QED
    BY <1>1, VolumeIsSum
<1>3. Traded(b, n, m) = IF m \notin Makers(b, n) \/ v >= n.qty THEN 0 ELSE Lesser(b[m].qty, n.qty - v)
  BY DEF Traded
<1> HIDE DEF v
<1>4. b[m].qty \in Nat
  BY DEF Quantified
<1> QED
  BY <1>2, <1>3, <1>4 DEF Lesser

\* The first in the queue trade what the order has, or all they have.
LEMMA PrefixTrades ==
    ASSUME NEW b, Quantified(b), NEW n, n.qty \in Nat, n.side \in Side, NEW P,
           P \subseteq Makers(b, n),
           \A x \in P, y \in Makers(b, n) : Precedes(b, y, x) => y \in P
    PROVE  Sum(TradedOf(b, n), P) = Lesser(n.qty, Sum(Offered(b), P))
<1> DEFINE M == Makers(b, n)
           T == TradedOf(b, n)
           V == Offered(b)
           Closed(s) == \A x \in s, y \in M : Precedes(b, y, x) => y \in s
           B == {s \in SUBSET M : Closed(s) /\ Sum(T, s) # Lesser(n.qty, Sum(V, s))}
<1> SUFFICES ASSUME B # {} PROVE FALSE
  OBVIOUS
<1>1. IsFiniteSet(M) /\ M \in SUBSET DOMAIN b
  <2>1. M \in SUBSET DOMAIN b
    BY DEF Makers
  <2>2. IsFiniteSet(DOMAIN b)
    BY DEF Quantified, GoodBook
  <2> QED
    BY <2>1, <2>2, FS_Subset
<1>2. PICK s \in B : \A t \in B : t \subseteq s => t = s
  <2>1. B \subseteq SUBSET M
    OBVIOUS
  <2> HIDE DEF B, M
  <2> QED
    BY <1>1, <2>1, MinimalSubset
<1>3. s \in SUBSET M /\ Closed(s) /\ Sum(T, s) # Lesser(n.qty, Sum(V, s))
  OBVIOUS
<1>4. \A m \in s : T[m] = Traded(b, n, m) /\ T[m] \in Nat /\ V[m] = b[m].qty /\ V[m] \in Nat
  <2>1. \A m \in s : Traded(b, n, m) \in Nat
    BY <1>1, <1>3, TradedWithin
  <2> QED
    BY <1>1, <1>3, <2>1 DEF TradedOf, Offered, Quantified
<1>5. \A m \in s : Traded(b, n, m) =
        LET v == Volume(b, {k \in M : Precedes(b, k, m)})
        IN  IF v >= n.qty THEN 0 ELSE Lesser(b[m].qty, n.qty - v)
  BY <1>3 DEF Traded
<1> HIDE DEF T, V
<1>6. s # {}
  <2>1. Sum(T, {}) = 0 /\ Sum(V, {}) = 0
    BY SumEmpty
  <2> QED
    BY <1>3, <2>1 DEF Lesser
<1> DEFINE R == {x \in s \X s : Precedes(b, x[1], x[2])}
<1>7. /\ IsFiniteSet(s) /\ s \subseteq DOMAIN b /\ StrictOrder(s, R)
      /\ \A x, y \in s : <<x, y>> \in R <=> Precedes(b, x, y)
  BY <1>3, MakersInOrder DEF Quantified
<1> HIDE DEF R
<1>8. PICK x \in s : \A y \in s : y = x \/ <<y, x>> \in R
  BY <1>6, <1>7, LastOne
<1> DEFINE t == s \ {x}
<1>9. t = {k \in M : Precedes(b, k, x)}
  <2>1. ~Precedes(b, x, x)
    BY <1>7 DEF StrictOrder
  <2>2. \A y \in t : y \in M /\ Precedes(b, y, x)
    BY <1>3, <1>7, <1>8
  <2>3. \A y \in M : Precedes(b, y, x) => y \in t
    BY <1>3, <2>1
  <2> HIDE DEF t, M
  <2> QED
    BY <2>2, <2>3
<1>10. Closed(t)
  <2>1. ASSUME NEW y \in t, NEW z \in M, Precedes(b, z, y) PROVE z \in t
    <3>1. z \in s
      BY <1>3, <2>1
    <3>2. z # x
      <4>1. Precedes(b, y, x) /\ x \in s /\ y \in s
        BY <1>7, <1>8
      <4> QED
        BY <4>1, <1>7, <2>1 DEF StrictOrder
    <3> QED
      BY <3>1, <3>2
  <2> QED
    BY <2>1
<1>11. t \in SUBSET M /\ t \subseteq s /\ t # s
  BY <1>3
<1>12. Sum(T, t) = Lesser(n.qty, Sum(V, t))
  BY <1>2, <1>10, <1>11
<1>13. Sum(T, s) = T[x] + Sum(T, t) /\ Sum(V, s) = V[x] + Sum(V, t)
  BY <1>4, <1>7, SumRemove
<1>14. Volume(b, {k \in M : Precedes(b, k, x)}) = Sum(V, t) /\ Sum(V, t) \in Nat
  BY <1>1, <1>9, <1>11, VolumeIsSum DEF V
<1>15. T[x] = IF Sum(V, t) >= n.qty THEN 0 ELSE Lesser(V[x], n.qty - Sum(V, t))
  BY <1>4, <1>5, <1>14
<1> HIDE DEF t, M, Closed
<1>16. V[x] \in Nat
  BY <1>4
<1>17. Sum(T, s) = Lesser(n.qty, Sum(V, s))
  BY <1>12, <1>13, <1>14, <1>15, <1>16 DEF Lesser
<1> QED
  BY <1>3, <1>17

\* All that trade together trade what the order has, or all there is.
LEMMA AllTrade ==
    ASSUME NEW b, Quantified(b), NEW n, n.qty \in Nat, n.side \in Side
    PROVE  /\ Available(b, n) \in Nat
           /\ Sum(TradedOf(b, n), DOMAIN b) = Lesser(n.qty, Available(b, n))
<1> DEFINE M == Makers(b, n)
           T == TradedOf(b, n)
<1>1. M \in SUBSET DOMAIN b
  BY DEF Makers
<1>2. Sum(T, M) = Lesser(n.qty, Sum(Offered(b), M))
  BY PrefixTrades
<1>3. Available(b, n) = Sum(Offered(b), M) /\ Available(b, n) \in Nat
  BY <1>1, VolumeIsSum DEF Available
<1>4. \A m \in DOMAIN b : T[m] \in Nat /\ (m \notin M => T[m] = 0)
  BY TradedWithin DEF TradedOf, Traded
<1>5. IsFiniteSet(DOMAIN b)
  BY DEF Quantified, GoodBook
<1> HIDE DEF T, M
<1>6. Sum(T, DOMAIN b) = Sum(T, M) + Sum(T, DOMAIN b \ M)
  BY <1>1, <1>4, <1>5, SumSplit
<1>7. Sum(T, DOMAIN b \ M) = 0
  <2>1. IsFiniteSet(DOMAIN b \ M)
    BY <1>5, FS_Difference
  <2> QED
    BY <1>4, <2>1, SumZero
<1>8. Sum(T, M) \in Int
  BY <1>2, <1>3 DEF Lesser
<1>9. Sum(T, DOMAIN b) = Lesser(n.qty, Available(b, n))
  BY <1>2, <1>3, <1>6, <1>7, <1>8
<1> QED
  BY <1>3, <1>9 DEF T

\* What some of the fills add up to, and the rest of them.
LEMMA FillsAddUp ==
    ASSUME NEW F, IsFiniteSet(F), \A f \in F : f.qty \in Nat, NEW G \in SUBSET F
    PROVE  /\ TotalQty(F) \in Nat /\ TotalQty(G) \in Nat
           /\ TotalQty(F) = TotalQty(G) + TotalQty(F \ G)
           /\ TotalQty(G) <= TotalQty(F)
<1> DEFINE g == [f \in F |-> f.qty]
           v(H) == [f \in H |-> f.qty]
<1>1. ASSUME NEW H \in SUBSET F PROVE TotalQty(H) = Sum(g, H)
  <2>1. TotalQty(H) = Sum(v(H), H)
    BY SumUnfolded DEF TotalQty
  <2>2. IsFiniteSet(H) /\ \A f \in H : v(H)[f] = g[f]
    BY FS_Subset
  <2>3. Sum(v(H), H) = Sum(g, H)
    BY <2>2, SumSame
  <2> QED
    BY <2>1, <2>3
<1>2. \A f \in F : g[f] \in Nat
  OBVIOUS
<1> HIDE DEF g
<1>3. /\ Sum(g, G) \in Nat /\ Sum(g, F) \in Nat
      /\ Sum(g, F) - Sum(g, G) \in Nat
      /\ Sum(g, F) = Sum(g, G) + Sum(g, F \ G)
  BY <1>2, SumSubset
<1>4. /\ TotalQty(F) = Sum(g, F) /\ TotalQty(G) = Sum(g, G)
      /\ TotalQty(F \ G) = Sum(g, F \ G)
  BY <1>1
<1> QED
  BY <1>3, <1>4

LEMMA OneFill ==
    ASSUME NEW f, f.qty \in Int
    PROVE  TotalQty({f}) = f.qty
<1> DEFINE F == {f}
           g == [x \in F |-> x.qty]
<1>1. TotalQty(F) = Sum(g, F)
  BY SumUnfolded DEF TotalQty
<1>2. IsFiniteSet(F) /\ F \ {f} = {} /\ f \in F
  BY FS_Singleton
<1>3. g[f] = f.qty /\ \A x \in F : g[x] \in Int
  OBVIOUS
<1> HIDE DEF g, F
<1>4. Sum(g, F) = g[f] + Sum(g, {})
  <2>1. Sum(g, F) = g[f] + Sum(g, F \ {f})
    BY <1>2, <1>3, SumRemove
  <2> QED
    BY <1>2, <2>1
<1>5. TotalQty(F) = f.qty
  <2>1. Sum(g, {}) = 0
    BY SumEmpty
  <2> QED
    BY <1>1, <1>3, <1>4, <2>1
<1> QED
  BY <1>5 DEF F

LEMMA NoFills == TotalQty({}) = 0
BY SumUnfolded, SumEmpty DEF TotalQty

\* Fills that are numbered, each once.
LEMMA NumberedFills ==
    ASSUME NEW D, IsFiniteSet(D), NEW h, NEW f, NEW F, F = {h[x] : x \in D},
           \A x, y \in D : h[x] = h[y] => x = y,
           \A x \in D : h[x].qty = f[x] /\ f[x] \in Int
    PROVE  IsFiniteSet(F) /\ TotalQty(F) = Sum(f, D)
<1> DEFINE I == {h[x] : x \in D}
           g == [x \in I |-> x.qty]
<1>1. \A x \in D : h[x] \in I
  OBVIOUS
<1>2. \A y \in I : g[y] = y.qty
  OBVIOUS
<1>3. TotalQty(I) = Sum(g, I)
  BY SumUnfolded DEF TotalQty
<1> HIDE DEF g
<1>4. \A x \in D : g[h[x]] = f[x] /\ f[x] \in Int
  BY <1>1, <1>2
<1> HIDE DEF I
<1>5. IsFiniteSet(I) /\ Sum(g, I) = Sum(f, D)
  BY <1>4, SumImage DEF I
<1> QED
  BY <1>3, <1>5 DEF I

\* The fills of a match: each maker trades once, all together what the order trades.
LEMMA FillsOfMatch ==
    ASSUME NEW b, Quantified(b), NEW o, NEW n, n.qty \in Nat, n.side \in Side
    PROVE  LET F == Fills(b, o, n) IN
           /\ IsFiniteSet(F)
           /\ \A f \in F : /\ f.qty \in Nat \ {0} /\ f.taker = o
                           /\ f.maker \in DOMAIN b /\ f.qty = Traded(b, n, f.maker)
                           /\ n.side = "Bid" => f.buyer = n.user
                           /\ n.side = "Ask" => f.seller = n.user
           /\ \A m \in DOMAIN b : Traded(b, n, m) > 0 => \E f \in F : f.maker = m
           /\ \A f, g \in F : f.maker = g.maker => f = g
           /\ TotalQty(F) = Lesser(n.qty, Available(b, n))
           /\ TotalQty(F) \in Nat /\ TotalQty(F) <= n.qty
<1> DEFINE F == Fills(b, o, n)
           T == TradedOf(b, n)
           X == DOMAIN b
           D == {k \in X : Traded(b, n, k) > 0}
           rec(m) == [maker |-> m, taker |-> o, qty |-> Traded(b, n, m),
                      buyer |-> IF n.side = "Bid" THEN n.user ELSE b[m].user,
                      seller |-> IF n.side = "Ask" THEN n.user ELSE b[m].user]
           h == [m \in D |-> rec(m)]
<1>1. \A m \in X : T[m] = Traded(b, n, m) /\ T[m] \in Nat
  BY TradedWithin DEF TradedOf
<1>2. IsFiniteSet(X)
  BY DEF Quantified, GoodBook
<1>3. D \in SUBSET X /\ IsFiniteSet(D)
  BY <1>2, FS_Subset
<1>4. F = {h[m] : m \in D} /\ \A m \in D : h[m] = rec(m)
  <2>1. F = {rec(m) : m \in D}
    BY DEF Fills
  <2>2. \A m \in D : h[m] = rec(m)
    OBVIOUS
  <2> HIDE DEF h, D, rec
  <2>3. \A y : y \in {rec(m) : m \in D} <=> y \in {h[m] : m \in D}
    BY <2>2
  <2> HIDE DEF F
  <2> QED
    BY <2>1, <2>2, <2>3
<1>5. \A m \in D : h[m].maker = m /\ h[m].qty = T[m] /\ T[m] \in Int
  BY <1>1, <1>4
<1> HIDE DEF h, F, T
<1>6. IsFiniteSet(F) /\ TotalQty(F) = Sum(T, D)
  <2>1. \A x, y \in D : h[x] = h[y] => x = y
    BY <1>5
  <2>2. F = {h[m] : m \in D}
    BY <1>4
  <2>3. \A x \in D : h[x].qty = T[x] /\ T[x] \in Int
    BY <1>5
  <2> HIDE DEF D
  <2> QED
    BY <1>3, <2>1, <2>2, <2>3, NumberedFills
<1>7. ASSUME NEW f \in F
      PROVE  /\ f.qty \in Nat \ {0} /\ f.taker = o /\ f.maker \in D
             /\ f.qty = Traded(b, n, f.maker)
             /\ n.side = "Bid" => f.buyer = n.user
             /\ n.side = "Ask" => f.seller = n.user
             /\ f = h[f.maker]
  <2>1. PICK m \in D : f = h[m]
    BY <1>4
  <2>2. f = rec(m)
    BY <2>1, <1>4
  <2>3. f.maker = m /\ f.taker = o /\ f.qty = Traded(b, n, m)
    BY <2>2
  <2>4. Traded(b, n, m) \in Nat \ {0}
    BY <1>1
  <2>5. (n.side = "Bid" => f.buyer = n.user) /\ (n.side = "Ask" => f.seller = n.user)
    BY <2>2
  <2> QED
    BY <2>1, <2>3, <2>4, <2>5
<1>8. \A m \in X : Traded(b, n, m) > 0 => \E f \in F : f.maker = m
  BY <1>4, <1>5
<1>9. \A f, g \in F : f.maker = g.maker => f = g
  BY <1>7
<1>10. Sum(T, X) = Sum(T, D) /\ Sum(T, D) \in Nat
  <2>1. \A x \in X \ D : T[x] = 0
    BY <1>1
  <2> HIDE DEF D, X
  <2>2. IsFiniteSet(X \ D)
    BY <1>2, FS_Difference
  <2>3. Sum(T, X \ D) = 0
    BY <2>1, <2>2, SumZero
  <2>4. Sum(T, X) = Sum(T, D) + Sum(T, X \ D) /\ Sum(T, D) \in Nat
    BY <1>1, <1>2, <1>3, SumSubset
  <2> QED
    BY <2>3, <2>4
<1>11. Sum(T, X) = Lesser(n.qty, Available(b, n)) /\ Available(b, n) \in Nat
  BY AllTrade DEF T
<1>12. TotalQty(F) = Lesser(n.qty, Available(b, n)) /\ TotalQty(F) \in Nat /\ TotalQty(F) <= n.qty
  BY <1>6, <1>10, <1>11 DEF Lesser
<1>13. \A f \in F : f.maker \in X
  BY <1>3, <1>7
<1> QED
  BY <1>6, <1>7, <1>8, <1>9, <1>12, <1>13 DEF F

LEMMA Settlement ==
    ASSUME NEW pos \in [Users -> Int], NEW F, IsFiniteSet(F), \A f \in F : f.qty \in Nat
    PROVE  Settled(pos, F) \in [Users -> Int]
<1> SUFFICES ASSUME NEW u \in Users
             PROVE  pos[u] + TotalQty({f \in F : f.buyer = u})
                    - TotalQty({f \in F : f.seller = u}) \in Int
  BY DEF Settled
<1>1. {f \in F : f.buyer = u} \in SUBSET F /\ {f \in F : f.seller = u} \in SUBSET F
  OBVIOUS
<1>2. /\ TotalQty({f \in F : f.buyer = u}) \in Nat
      /\ TotalQty({f \in F : f.seller = u}) \in Nat
  BY <1>1, FillsAddUp
<1> QED
  BY <1>2

\* The fills of an order move its user by no more than its quantity, and to its side.
LEMMA MovesOneWay ==
    ASSUME NEW b, Quantified(b), NEW o, NEW n, n.qty \in Nat, n.side \in Side,
           n.user \in Users, NEW pos \in [Users -> Int]
    PROVE  LET d == Settled(pos, Fills(b, o, n))[n.user] - pos[n.user] IN
           /\ d \in Int
           /\ n.side = "Bid" => 0 <= d /\ d <= n.qty
           /\ n.side = "Ask" => -n.qty <= d /\ d <= 0
<1> DEFINE F == Fills(b, o, n)
           u == n.user
           B == {f \in F : f.buyer = u}
           S == {f \in F : f.seller = u}
<1>1. /\ IsFiniteSet(F) /\ \A f \in F : f.qty \in Nat
      /\ n.side = "Bid" => \A f \in F : f.buyer = u
      /\ n.side = "Ask" => \A f \in F : f.seller = u
      /\ TotalQty(F) \in Nat /\ TotalQty(F) <= n.qty
  BY FillsOfMatch
<1>2. Settled(pos, F)[u] = pos[u] + TotalQty(B) - TotalQty(S)
  BY DEF Settled
<1> HIDE DEF F
<1>3. /\ B \in SUBSET F /\ S \in SUBSET F
      /\ n.side = "Bid" => B = F
      /\ n.side = "Ask" => S = F
  BY <1>1
<1> HIDE DEF B, S
<1>4. /\ TotalQty(B) \in Nat /\ TotalQty(B) <= TotalQty(F)
      /\ TotalQty(S) \in Nat /\ TotalQty(S) <= TotalQty(F)
  BY <1>1, <1>3, FillsAddUp
<1>5. n.side = "Bid" \/ n.side = "Ask"
  BY DEF Side
<1> QED
  BY <1>1, <1>2, <1>3, <1>4, <1>5 DEF F

------------------------------------------------------------------------------
(* The sweep accounts for what every order has lost.                         *)

\* What the fills of a sequence took from order o.
Share(fs, o, i) == IF o \in {fs[i].maker, fs[i].taker} THEN fs[i].qty ELSE 0
Spent(fs, o) == Sum([i \in DOMAIN fs |-> Share(fs, o, i)], DOMAIN fs)

SweepFill(b, p) == [maker : Asks(b), taker : Bids(b), price : {p}, qty : Nat \ {0}]

LEMMA SpentMore ==
    ASSUME NEW F, NEW fs \in Seq(F), \A x \in F : x.qty \in Nat, NEW f \in F, NEW o
    PROVE  /\ Spent(fs, o) \in Nat
           /\ Spent(Append(fs, f), o)
              = Spent(fs, o) + (IF o \in {f.maker, f.taker} THEN f.qty ELSE 0)
<1> DEFINE n == Len(fs)
           t == Append(fs, f)
           g == [i \in DOMAIN fs |-> Share(fs, o, i)]
           h == [i \in DOMAIN t |-> Share(t, o, i)]
           U == 1..(n + 1)
           V == 1..n
<1>1. n \in Nat /\ DOMAIN fs = V /\ \A i \in V : fs[i] \in F
  BY LenProperties, ElementOfSeq
<1>2. /\ t \in Seq(F) /\ DOMAIN t = U /\ t[n + 1] = f
      /\ \A i \in V : t[i] = fs[i]
  <2>1. t \in Seq(F) /\ Len(t) = n + 1 /\ t[n + 1] = f /\ \A i \in V : t[i] = fs[i]
    BY AppendProperties
  <2> HIDE DEF t
  <2> QED
    BY <2>1, LenProperties
<1>3. /\ n + 1 \in U /\ V = U \ {n + 1} /\ IsFiniteSet(U) /\ IsFiniteSet(V)
  <2>1. n + 1 \in U /\ V = U \ {n + 1}
    BY <1>1
  <2>2. 1 \in Int /\ n \in Int /\ n + 1 \in Int
    BY <1>1
  <2>3. IsFiniteSet(U) /\ IsFiniteSet(V)
    BY <2>2, FS_Interval
  <2> QED
    BY <2>1, <2>3
<1>4. \A i \in V : i \in U
  BY <1>3
<1>5. h[n + 1] = IF o \in {f.maker, f.taker} THEN f.qty ELSE 0
  <2>1. h[n + 1] = Share(t, o, n + 1)
    BY <1>2, <1>3
  <2> QED
    BY <2>1, <1>2 DEF Share
<1>6. \A i \in V : g[i] = Share(fs, o, i) /\ h[i] = Share(t, o, i) /\ t[i] = fs[i]
  BY <1>1, <1>2, <1>4
<1> HIDE DEF t, g, h, U, V
<1>7. \A i \in V : h[i] = g[i] /\ g[i] \in Nat
  <2>1. \A i \in V : fs[i].qty \in Nat
    BY <1>1
  <2> QED
    BY <1>6, <2>1 DEF Share
<1>8. h[n + 1] \in Int
  BY <1>5
<1>9. \A i \in U : h[i] \in Int
  BY <1>3, <1>7, <1>8
<1>10. Sum(h, U) = h[n + 1] + Sum(h, V)
  BY <1>3, <1>9, SumRemove
<1>11. Sum(h, V) = Sum(g, V) /\ Sum(g, V) \in Nat
  BY <1>3, <1>7, SumSame, SumNat
<1>12. Spent(fs, o) = Sum(g, V) /\ Spent(t, o) = Sum(h, U)
  BY <1>1, <1>2 DEF Spent, g, h
<1>13. Spent(t, o) = Spent(fs, o) + h[n + 1] /\ Spent(fs, o) \in Nat
  BY <1>8, <1>10, <1>11, <1>12
<1> QED
  BY <1>5, <1>13 DEF t

\* Whoever lost quantity lost it to the fills; no two orders trade twice with each other.
Accounted(b, p, w) ==
    /\ DOMAIN w = {"left", "bi", "ai", "fills"}
    /\ w.left \in [DOMAIN b -> Nat]
    /\ w.bi \in Nat \ {0} /\ w.ai \in Nat \ {0}
    /\ w.fills \in Seq(SweepFill(b, p))
    /\ \A i \in 1..Len(w.fills) : w.left[w.fills[i].maker] = 0 \/ w.left[w.fills[i].taker] = 0
    /\ \A i, j \in 1..Len(w.fills) :
          w.fills[i].maker = w.fills[j].maker /\ w.fills[i].taker = w.fills[j].taker => i = j
    /\ \A o \in DOMAIN b : b[o].qty = w.left[o] + Spent(w.fills, o)

LEMMA AccountStarts ==
    ASSUME NEW b, \A o \in DOMAIN b : b[o].qty \in Nat, NEW p
    PROVE  Accounted(b, p, SweepStart(b))
<1> DEFINE w == SweepStart(b)
<1>1. /\ DOMAIN w = {"left", "bi", "ai", "fills"}
      /\ w.left = [o \in DOMAIN b |-> b[o].qty]
      /\ w.bi = 1 /\ w.ai = 1 /\ w.fills = <<>>
  BY DEF SweepStart
<1> HIDE DEF w
<1>2. \A o \in DOMAIN b : Spent(<<>>, o) = 0
  <2>1. DOMAIN <<>> = {}
    OBVIOUS
  <2> QED
    BY <2>1, SumEmpty DEF Spent
<1>3. w.left \in [DOMAIN b -> Nat] /\ \A o \in DOMAIN b : w.left[o] = b[o].qty
  BY <1>1
<1>4. w.fills \in Seq(SweepFill(b, p)) /\ 1..Len(w.fills) = {}
  BY <1>1
<1>5. \A o \in DOMAIN b : b[o].qty = w.left[o] + Spent(w.fills, o)
  BY <1>1, <1>2, <1>3
<1>6. Accounted(b, p, w)
  BY <1>1, <1>3, <1>4, <1>5 DEF Accounted
<1> QED
  BY <1>6 DEF w

\* A bid and an ask trade what both have left.
LEMMA FillAccounted ==
    ASSUME NEW b, \A o \in DOMAIN b : b[o].qty \in Nat, NEW p, NEW w, Accounted(b, p, w),
           NEW bid \in Bids(b), NEW ask \in Asks(b), w.left[bid] # 0, w.left[ask] # 0
    PROVE  LET q == Lesser(w.left[bid], w.left[ask]) IN
           Accounted(b, p, [left |-> [w.left EXCEPT ![bid] = @ - q, ![ask] = @ - q],
                            bi |-> w.bi, ai |-> w.ai,
                            fills |-> Append(w.fills, [maker |-> ask, taker |-> bid,
                                                       price |-> p, qty |-> q])])
<1> DEFINE q == Lesser(w.left[bid], w.left[ask])
           f == [maker |-> ask, taker |-> bid, price |-> p, qty |-> q]
           l == [w.left EXCEPT ![bid] = @ - q, ![ask] = @ - q]
           t == Append(w.fills, f)
           r == [left |-> l, bi |-> w.bi, ai |-> w.ai, fills |-> t]
           fs == w.fills
           n == Len(fs)
<1>1. /\ DOMAIN r = {"left", "bi", "ai", "fills"}
      /\ r.left = l /\ r.bi = w.bi /\ r.ai = w.ai /\ r.fills = t
  OBVIOUS
<1>2. bid \in DOMAIN b /\ ask \in DOMAIN b /\ bid # ask
  BY DEF Bids, Asks
<1>3. w.left \in [DOMAIN b -> Nat] /\ w.left[bid] \in Nat /\ w.left[ask] \in Nat
  BY <1>2 DEF Accounted
<1>4. q \in Nat \ {0} /\ q <= w.left[bid] /\ q <= w.left[ask]
      /\ (w.left[bid] - q = 0 \/ w.left[ask] - q = 0)
  BY <1>3 DEF Lesser
<1> HIDE DEF q
<1>5. f \in SweepFill(b, p) /\ f.maker = ask /\ f.taker = bid /\ f.qty = q
  BY <1>4 DEF SweepFill
<1>6. /\ l[bid] = w.left[bid] - q /\ l[ask] = w.left[ask] - q
      /\ \A o \in DOMAIN b : o \notin {bid, ask} => l[o] = w.left[o]
      /\ DOMAIN l = DOMAIN b
  BY <1>2, <1>3
<1>7. l \in [DOMAIN b -> Nat]
  <2>1. l = [o \in DOMAIN b |-> l[o]]
    BY <1>3
  <2> HIDE DEF l
  <2>2. \A o \in DOMAIN b : l[o] \in Nat
    BY <1>3, <1>4, <1>6
  <2> QED
    BY <2>1, <2>2
<1>8. fs \in Seq(SweepFill(b, p)) /\ n \in Nat /\ \A i \in 1..n : fs[i] \in SweepFill(b, p)
  <2>1. fs \in Seq(SweepFill(b, p))
    BY DEF Accounted
  <2> HIDE DEF fs
  <2> QED
    BY <2>1, SequenceDomain
<1> HIDE DEF f, l
<1>9. /\ t \in Seq(SweepFill(b, p)) /\ Len(t) = n + 1 /\ t[n + 1] = f
      /\ \A i \in 1..n : t[i] = fs[i]
  BY <1>5, <1>8, AppendProperties
<1> HIDE DEF t
<1>10. \A i \in 1..(n + 1) : i \in 1..n \/ i = n + 1
  BY <1>8
<1>11. \A i \in 1..n : fs[i].maker \in DOMAIN b /\ fs[i].taker \in DOMAIN b
  BY <1>8 DEF SweepFill, Bids, Asks
<1>12. \A i \in 1..n : w.left[fs[i].maker] = 0 \/ w.left[fs[i].taker] = 0
  BY DEF Accounted
<1>13. \A o \in DOMAIN b : w.left[o] = 0 => l[o] = 0
  BY <1>2, <1>6
<1>14. \A i \in 1..(n + 1) : l[t[i].maker] = 0 \/ l[t[i].taker] = 0
  <2>1. \A i \in 1..n : l[t[i].maker] = 0 \/ l[t[i].taker] = 0
    BY <1>9, <1>11, <1>12, <1>13
  <2>2. l[t[n + 1].maker] = 0 \/ l[t[n + 1].taker] = 0
    BY <1>4, <1>5, <1>6, <1>9
  <2> QED
    BY <1>10, <2>1, <2>2
<1>15. ASSUME NEW i \in 1..(n + 1), NEW j \in 1..(n + 1),
              t[i].maker = t[j].maker, t[i].taker = t[j].taker
       PROVE  i = j
  <2>1. \A k \in 1..n : ~(t[k].maker = ask /\ t[k].taker = bid)
    BY <1>9, <1>12
  <2>2. t[n + 1].maker = ask /\ t[n + 1].taker = bid
    BY <1>5, <1>9
  <2>3. i \in 1..n /\ j \in 1..n => i = j
    BY <1>9, <1>15 DEF Accounted
  <2> QED
    BY <1>10, <1>15, <2>1, <2>2, <2>3
<1>16. ASSUME NEW o \in DOMAIN b PROVE b[o].qty = l[o] + Spent(t, o)
  <2>1. \A x \in SweepFill(b, p) : x.qty \in Nat
    BY DEF SweepFill
  <2>2. /\ Spent(fs, o) \in Nat
        /\ Spent(t, o) = Spent(fs, o) + (IF o \in {f.maker, f.taker} THEN f.qty ELSE 0)
    BY <1>5, <1>8, <2>1, SpentMore DEF t
  <2>3. b[o].qty = w.left[o] + Spent(fs, o) /\ w.left[o] \in Nat
    BY <1>3 DEF Accounted
  <2>4. CASE o \in {bid, ask}
    <3>1. l[o] = w.left[o] - q
      BY <1>6, <2>4
    <3>2. Spent(t, o) = Spent(fs, o) + q
      BY <1>5, <2>2, <2>4
    <3> QED
      BY <1>4, <2>2, <2>3, <3>1, <3>2
  <2>5. CASE o \notin {bid, ask}
    <3>1. l[o] = w.left[o]
      BY <1>6, <2>5
    <3>2. Spent(t, o) = Spent(fs, o)
      BY <1>5, <2>2, <2>5
    <3> QED
      BY <2>3, <3>1, <3>2
  <2> QED
    BY <2>4, <2>5
<1>17. r.bi \in Nat \ {0} /\ r.ai \in Nat \ {0}
  BY <1>1 DEF Accounted
<1> HIDE DEF r, n
<1>18. Len(r.fills) = n + 1
  BY <1>1, <1>9
<1>19. Accounted(b, p, r)
  BY <1>1, <1>7, <1>9, <1>14, <1>15, <1>16, <1>17, <1>18 DEF Accounted
<1> QED
  BY <1>19 DEF r, t, l, f, q

LEMMA StepAccounted ==
    ASSUME NEW b, \A o \in DOMAIN b : b[o].qty \in Nat, NEW p, NEW w, Accounted(b, p, w),
           NEW bids \in Seq(Bids(b)), NEW asks \in Seq(Asks(b)), ~SweepEnds(bids, asks, w)
    PROVE  Accounted(b, p, SweepStep(p, bids, asks, w))
<1> DEFINE bid == bids[w.bi]
           ask == asks[w.ai]
           q == Lesser(w.left[bid], w.left[ask])
           r == SweepStep(p, bids, asks, w)
<1>1. w.bi \in Nat \ {0} /\ w.ai \in Nat \ {0} /\ DOMAIN w = {"left", "bi", "ai", "fills"}
  BY DEF Accounted
<1>2. bid \in Bids(b) /\ ask \in Asks(b)
  <2>1. w.bi \in 1..Len(bids) /\ w.ai \in 1..Len(asks)
    BY <1>1, SequenceDomain DEF SweepEnds
  <2> QED
    BY <2>1, SequenceDomain
<1>3. CASE w.left[bid] = 0
  <2>1. r = [w EXCEPT !.bi = @ + 1]
    BY <1>3 DEF SweepStep
  <2>2. /\ DOMAIN r = {"left", "bi", "ai", "fills"} /\ r.left = w.left /\ r.ai = w.ai
        /\ r.fills = w.fills /\ r.bi \in Nat \ {0}
    BY <1>1, <2>1
  <2> HIDE DEF r
  <2>3. Accounted(b, p, r)
    BY <2>2 DEF Accounted
  <2> QED
    BY <2>3 DEF r
<1>4. CASE w.left[bid] # 0 /\ w.left[ask] = 0
  <2>1. r = [w EXCEPT !.ai = @ + 1]
    BY <1>4 DEF SweepStep
  <2>2. /\ DOMAIN r = {"left", "bi", "ai", "fills"} /\ r.left = w.left /\ r.bi = w.bi
        /\ r.fills = w.fills /\ r.ai \in Nat \ {0}
    BY <1>1, <2>1
  <2> HIDE DEF r
  <2>3. Accounted(b, p, r)
    BY <2>2 DEF Accounted
  <2> QED
    BY <2>3 DEF r
<1>5. CASE w.left[bid] # 0 /\ w.left[ask] # 0
  <2>1. r = [left |-> [w.left EXCEPT ![bid] = @ - q, ![ask] = @ - q],
             bi |-> w.bi, ai |-> w.ai,
             fills |-> Append(w.fills, [maker |-> ask, taker |-> bid, price |-> p, qty |-> q])]
    BY <1>5 DEF SweepStep
  <2> HIDE DEF r, bid, ask
  <2>2. Accounted(b, p, r)
    BY <1>2, <1>5, <2>1, FillAccounted
  <2> QED
    BY <2>2 DEF r
<1> QED
  BY <1>3, <1>4, <1>5

\* The sweep, as the recursion that SweepResult chooses.
NextSweep(p, bids, asks, w) ==
    IF SweepEnds(bids, asks, w) THEN w ELSE SweepStep(p, bids, asks, w)
Sweeps(f, n, b, p, bids, asks) ==
    f = [i \in 0..n |-> IF i = 0 THEN SweepStart(b) ELSE NextSweep(p, bids, asks, f[i - 1])]

LEMMA SweepsExist ==
    ASSUME NEW n \in Nat, NEW b, NEW p, NEW bids, NEW asks
    PROVE  \E f : Sweeps(f, n, b, p, bids, asks)
<1> DEFINE T == {i \in Nat : ~\E f : Sweeps(f, i, b, p, bids, asks)}
           N(w) == NextSweep(p, bids, asks, w)
           start == SweepStart(b)
<1> SUFFICES ASSUME T # {} PROVE FALSE
  OBVIOUS
<1>1. PICK x \in T : \A y \in T : x <= y
  <2>1. T \subseteq Nat
    OBVIOUS
  <2> HIDE DEF T
  <2> QED
    BY <2>1, Least
<1>2. x \in Nat /\ ~\E f : Sweeps(f, x, b, p, bids, asks)
  OBVIOUS
<1>3. CASE x = 0
  <2> HIDE DEF T, N, start
  <2> DEFINE f == [i \in 0..0 |-> start]
  <2>1. f = [i \in 0..0 |-> IF i = 0 THEN start ELSE N(f[i - 1])]
    OBVIOUS
  <2> QED
    BY <2>1, <1>2, <1>3 DEF Sweeps, N, start
<1>4. CASE x # 0
  <2>1. x - 1 \in Nat /\ x - 1 \notin T
    BY <1>1, <1>2, <1>4
  <2>2. PICK g : Sweeps(g, x - 1, b, p, bids, asks)
    BY <2>1
  <2>3. \A i \in 0..(x - 1) : g[i] = IF i = 0 THEN start ELSE N(g[i - 1])
    BY <2>2 DEF Sweeps
  <2> HIDE DEF T, N, start
  <2> DEFINE f == [i \in 0..x |-> IF i = x THEN N(g[x - 1]) ELSE g[i]]
             u == [i \in 0..x |-> IF i = 0 THEN start ELSE N(f[i - 1])]
  <2>4. \A i \in 0..(x - 1) : f[i] = g[i]
    BY <1>2
  <2>5. ASSUME NEW i \in 0..x
        PROVE  f[i] = IF i = 0 THEN start ELSE N(f[i - 1])
    <3>1. CASE i = x
      <4>1. x - 1 \in 0..(x - 1) /\ f[x] = N(g[x - 1])
        BY <1>2, <1>4
      <4> HIDE DEF f
      <4> QED
        BY <4>1, <3>1, <2>4, <1>4
    <3>2. CASE i # x
      <4>1. i \in 0..(x - 1) /\ (i # 0 => i - 1 \in 0..(x - 1))
        BY <3>2, <1>2
      <4> HIDE DEF f
      <4> QED
        BY <4>1, <2>3, <2>4
    <3> QED
      BY <3>1, <3>2
  <2>6. f = u
    <3>1. DOMAIN f = 0..x /\ f = [i \in 0..x |-> f[i]]
      OBVIOUS
    <3> HIDE DEF f
    <3> QED
      BY <3>1, <2>5
  <2>7. Sweeps(f, x, b, p, bids, asks)
    BY <2>6 DEF Sweeps, N, start
  <2> QED
    BY <2>7, <1>2
<1> QED
  BY <1>3, <1>4

LEMMA SweepAccounted ==
    ASSUME NEW b, NEW m, Numbered(b, m), \A o \in DOMAIN b : b[o].qty \in Nat, NEW p
    PROVE  Accounted(b, p, SweepResult(b, p))
<1> DEFINE bids == EligibleBids(b, p)
           asks == EligibleAsks(b, p)
           B == {o \in Bids(b) : b[o].price >= p}
           A == {o \in Asks(b) : b[o].price <= p}
           n == 2 * (Len(bids) + Len(asks))
           F == CHOOSE f : Sweeps(f, n, b, p, bids, asks)
<1>1. bids \in Seq(Bids(b)) /\ asks \in Seq(Asks(b))
  <2>1. B \in SUBSET DOMAIN b /\ A \in SUBSET DOMAIN b /\ "Bid" \in Side /\ "Ask" \in Side
    BY DEF Bids, Asks, Side
  <2>2. (\A o \in B : b[o].side = "Bid") /\ (\A o \in A : b[o].side = "Ask")
    BY DEF Bids, Asks
  <2>3. InPriority(b, B) \in Seq(B) /\ InPriority(b, A) \in Seq(A)
    BY <2>1, <2>2, QueueOfSide
  <2>4. bids = InPriority(b, B) /\ asks = InPriority(b, A)
    BY DEF EligibleBids, EligibleAsks
  <2>5. Seq(B) \subseteq Seq(Bids(b)) /\ Seq(A) \subseteq Seq(Asks(b))
    OBVIOUS
  <2> HIDE DEF bids, asks, A, B
  <2> QED
    BY <2>3, <2>4, <2>5
<1>2. SweepResult(b, p) = F[n]
  BY DEF SweepResult, Sweeps, NextSweep
<1> HIDE DEF bids, asks
<1>3. n \in Nat
  BY <1>1, SequenceDomain
<1>4. Sweeps(F, n, b, p, bids, asks)
  <2>1. \E f : Sweeps(f, n, b, p, bids, asks)
    <3> HIDE DEF n
    <3> QED
      BY <1>3, SweepsExist
  <2> QED
    BY <2>1
<1> HIDE DEF F, n
<1>5. F[0] = SweepStart(b) /\ \A i \in 1..n : F[i] = NextSweep(p, bids, asks, F[i - 1])
  <2>1. \A i \in 0..n : F[i] = IF i = 0 THEN SweepStart(b) ELSE NextSweep(p, bids, asks, F[i - 1])
    BY <1>4 DEF Sweeps
  <2>2. 0 \in 0..n /\ \A i \in 1..n : i \in 0..n /\ i # 0
    BY <1>3
  <2> QED
    BY <2>1, <2>2
<1> DEFINE T == {i \in Nat : i <= n /\ ~Accounted(b, p, F[i])}
<1>6. T = {}
  <2> SUFFICES ASSUME T # {} PROVE FALSE
    OBVIOUS
  <2>1. PICK x \in T : \A y \in T : x <= y
    <3>1. T \subseteq Nat
      OBVIOUS
    <3> HIDE DEF T
    <3> QED
      BY <3>1, Least
  <2>2. x \in Nat /\ x <= n /\ ~Accounted(b, p, F[x])
    OBVIOUS
  <2>3. x # 0
    BY <1>5, <2>2, AccountStarts
  <2>4. x - 1 \in Nat /\ x - 1 <= n /\ x \in 1..n
    BY <1>3, <2>2, <2>3
  <2>5. Accounted(b, p, F[x - 1])
    BY <2>1, <2>2, <2>4
  <2>6. F[x] = NextSweep(p, bids, asks, F[x - 1])
    BY <1>5, <2>4
  <2>7. Accounted(b, p, F[x])
    BY <1>1, <2>5, <2>6, StepAccounted DEF NextSweep
  <2> QED
    BY <2>2, <2>7
<1>7. Accounted(b, p, F[n])
  BY <1>3, <1>6
<1> QED
  BY <1>2, <1>7

\* What the sweep of the auction leaves of its orders.
SweptLeft == SweepResult(auctionBook, ClearingPrice).left

LEMMA SweepFillsAddUp ==
    ASSUME NEW m, Numbered(auctionBook, m), \A o \in DOMAIN auctionBook : auctionBook[o].qty \in Nat
    PROVE  /\ IsFiniteSet(SweepFills)
           /\ \A f \in SweepFills : /\ f.qty \in Nat
                                    /\ f.maker \in DOMAIN auctionBook
                                    /\ f.taker \in DOMAIN auctionBook
           /\ SweptLeft \in [DOMAIN auctionBook -> Nat]
           /\ \A o \in DOMAIN auctionBook :
                 auctionBook[o].qty
                 = SweptLeft[o] + TotalQty({f \in SweepFills : o \in {f.maker, f.taker}})
<1> DEFINE b == auctionBook
           p == ClearingPrice
           w == SweepResult(b, p)
           fs == w.fills
           n == Len(fs)
           V == 1..n
           rec(f) == [maker |-> f.maker, taker |-> f.taker, qty |-> f.qty,
                      buyer |-> b[f.taker].user, seller |-> b[f.maker].user]
           h == [i \in V |-> rec(fs[i])]
           F == SweepFills
<1>1. Accounted(b, p, w)
  BY SweepAccounted
<1>2. F = {rec(f) : f \in Range(fs)}
  BY DEF SweepFills
<1>3. w.left = SweptLeft
  BY DEF SweptLeft
<1> HIDE DEF b, w, F, p
<1>4. fs \in Seq(SweepFill(b, p)) /\ w.left \in [DOMAIN b -> Nat]
  BY <1>1 DEF Accounted
<1>5. /\ \A i, j \in V : fs[i].maker = fs[j].maker /\ fs[i].taker = fs[j].taker => i = j
      /\ \A o \in DOMAIN b : b[o].qty = w.left[o] + Spent(fs, o)
  BY <1>1 DEF Accounted
<1> HIDE DEF fs
<1>6. n \in Nat /\ DOMAIN fs = V /\ \A i \in V : fs[i] \in SweepFill(b, p)
  BY <1>4, SequenceDomain
<1>7. IsFiniteSet(V)
  <2>1. 1 \in Int /\ n \in Int
    BY <1>6
  <2> QED
    BY <2>1, FS_Interval
<1>8. \A i \in V : h[i] = rec(fs[i])
  OBVIOUS
<1>9. F = {h[i] : i \in V}
  <2>1. Range(fs) = {fs[i] : i \in V}
    BY <1>6 DEF Range
  <2> HIDE DEF V, h, rec
  <2>2. \A y : y \in {rec(f) : f \in Range(fs)} <=> y \in {h[i] : i \in V}
    BY <1>8, <2>1
  <2> QED
    BY <1>2, <2>2
<1> HIDE DEF h, V, n
<1>10. \A i \in V : /\ h[i].maker = fs[i].maker /\ h[i].taker = fs[i].taker
                    /\ h[i].qty = fs[i].qty /\ fs[i].qty \in Nat
                    /\ fs[i].maker \in DOMAIN b /\ fs[i].taker \in DOMAIN b
  <2> SUFFICES ASSUME NEW i \in V
               PROVE  /\ h[i].maker = fs[i].maker /\ h[i].taker = fs[i].taker
                      /\ h[i].qty = fs[i].qty /\ fs[i].qty \in Nat
                      /\ fs[i].maker \in DOMAIN b /\ fs[i].taker \in DOMAIN b
    OBVIOUS
  <2>1. h[i] = rec(fs[i])
    BY <1>8
  <2>2. h[i].maker = fs[i].maker /\ h[i].taker = fs[i].taker /\ h[i].qty = fs[i].qty
    BY <2>1
  <2>3. fs[i] \in SweepFill(b, p)
    BY <1>6
  <2>4. fs[i].maker \in Asks(b) /\ fs[i].taker \in Bids(b) /\ fs[i].qty \in Nat
    BY <2>3 DEF SweepFill
  <2> QED
    BY <2>2, <2>4 DEF Bids, Asks
<1> HIDE DEF rec
<1>11. \A i, j \in V : h[i] = h[j] => i = j
  BY <1>5, <1>10
<1>12. \A f \in F : f.qty \in Nat /\ f.maker \in DOMAIN b /\ f.taker \in DOMAIN b
  BY <1>9, <1>10
<1>13. IsFiniteSet(F)
  <2> DEFINE g == [i \in V |-> fs[i].qty]
  <2>1. \A i \in V : h[i].qty = g[i] /\ g[i] \in Int
    BY <1>10
  <2> HIDE DEF g
  <2> QED
    BY <1>7, <1>9, <1>11, <2>1, NumberedFills
<1>14. ASSUME NEW o \in DOMAIN b
       PROVE  b[o].qty = w.left[o] + TotalQty({f \in F : o \in {f.maker, f.taker}})
  <2> DEFINE g == [i \in V |-> Share(fs, o, i)]
             E == {i \in V : o \in {fs[i].maker, fs[i].taker}}
             G == {f \in F : o \in {f.maker, f.taker}}
  <2>1. Spent(fs, o) = Sum(g, V)
    BY <1>6 DEF Spent
  <2>2. \A i \in V : g[i] = Share(fs, o, i)
    OBVIOUS
  <2> HIDE DEF g
  <2>3. \A i \in V : g[i] \in Nat /\ (i \in E => g[i] = fs[i].qty) /\ (i \notin E => g[i] = 0)
    BY <1>10, <2>2 DEF Share
  <2>4. E \in SUBSET V /\ IsFiniteSet(E)
    BY <1>7, FS_Subset
  <2>5. G = {h[i] : i \in E}
    <3>1. \A i \in V : o \in {h[i].maker, h[i].taker} <=> i \in E
      BY <1>10
    <3> HIDE DEF E
    <3>2. \A y : y \in {h[i] : i \in E} <=> y \in G
      BY <1>9, <2>4, <3>1
    <3> HIDE DEF G
    <3> QED
      BY <3>2
  <2> HIDE DEF E, G
  <2>6. TotalQty(G) = Sum(g, E)
    <3>1. \A i, j \in E : h[i] = h[j] => i = j
      BY <1>11, <2>4
    <3>2. \A i \in E : h[i].qty = g[i] /\ g[i] \in Int
      BY <1>10, <2>3, <2>4
    <3> QED
      BY <2>4, <2>5, <3>1, <3>2, NumberedFills
  <2>7. Sum(g, V) = Sum(g, E)
    <3>1. Sum(g, V) = Sum(g, E) + Sum(g, V \ E) /\ Sum(g, E) \in Nat
      BY <1>7, <2>3, <2>4, SumSubset
    <3>2. IsFiniteSet(V \ E) /\ \A i \in V \ E : g[i] = 0
      BY <1>7, <2>3, FS_Difference
    <3>3. Sum(g, V \ E) = 0
      BY <3>2, SumZero
    <3> QED
      BY <3>1, <3>3
  <2>8. b[o].qty = w.left[o] + TotalQty(G)
    BY <1>5, <2>1, <2>6, <2>7
  <2> QED
    BY <2>8 DEF G
<1>15. SweptLeft \in [DOMAIN b -> Nat]
  BY <1>3, <1>4
<1>16. \A o \in DOMAIN b :
          b[o].qty = SweptLeft[o] + TotalQty({f \in F : o \in {f.maker, f.taker}})
  BY <1>3, <1>14
<1> QED
  BY <1>12, <1>13, <1>15, <1>16 DEF b, F

------------------------------------------------------------------------------
(* Types of the orders and of the positions.                                 *)

Orders(b) == \A o \in DOMAIN b : o \in OrderIds /\ b[o] \in Order

\* TypeOK but for the ledger, the stops and the cascade, which Structure has.
Typed ==
    /\ state \in MarketState
    /\ preHaltState \in MarketState \cup {"None"}
    /\ Orders(book) /\ Orders(auctionBook)
    /\ swept \subseteq DOMAIN auctionBook
    /\ openTimer \in BOOLEAN /\ clearTimer \in BOOLEAN
    /\ positions \in [Users -> Int]
    /\ window \subseteq Nat
    /\ clock \in 0..MaxTime /\ restarts \in 0..MaxRestarts

LEMMA OrdersQuantified ==
    ASSUME NEW b, GoodBook(b), Orders(b)
    PROVE  Quantified(b)
BY DEF Orders, Quantified, Order

LEMMA OrderIsLike ==
    ASSUME NEW n \in Order
    PROVE  OrderLike(n) /\ n.qty \in Nat \ {0} /\ n.side \in Side /\ n.user \in Users
BY DEF Order, OrderLike, Fields

LEMMA QuantityLeft ==
    ASSUME NEW n \in Order, NEW q \in Nat \ {0}
    PROVE  LET e == [n EXCEPT !.qty = q] IN e \in Order /\ e.qty = q
BY DEF Order

LEMMA PlaceTaken ==
    ASSUME NEW n \in Order, NEW p \in Nat
    PROVE  LET e == [n EXCEPT !.place = p] IN e \in Order /\ e.qty = n.qty
BY DEF Order

LEMMA OrderEnters ==
    ASSUME NEW b, GoodBook(b), NEW o, NEW n \in Order
    PROVE  LET c == Enter(b, o, n) IN
           /\ DOMAIN c = DOMAIN b \cup {o}
           /\ c[o] \in Order /\ c[o].qty = n.qty
           /\ \A m \in DOMAIN b \ {o} : c[m] = b[m]
<1> DEFINE p == Max({n.seq} \cup {b[m].place + 1 : m \in DOMAIN b})
           c == Enter(b, o, n)
           e == [n EXCEPT !.place = p]
<1>1. /\ GoodBook(c) /\ DOMAIN c = DOMAIN b \cup {o}
      /\ \A m \in DOMAIN b \ {o} : c[m] = b[m]
  <2>1. OrderLike(n)
    BY OrderIsLike
  <2>2. GoodBook(c) /\ DOMAIN c = DOMAIN b \cup {o}
    BY <2>1, EnteredLast
  <2>3. \A m \in DOMAIN b \ {o} : c[m] = b[m]
    BY DEF Enter, Put
  <2> QED
    BY <2>2, <2>3
<1>2. c[o] = e
  BY DEF Enter, Put
<1> HIDE DEF p, c
<1>3. OrderLike(c[o])
  BY <1>1 DEF GoodBook
<1>4. e.place = p
  BY DEF Order
<1>5. p \in Nat
  BY <1>2, <1>3, <1>4 DEF OrderLike
<1>6. e \in Order /\ e.qty = n.qty
  BY <1>5, PlaceTaken
<1> QED
  BY <1>1, <1>2, <1>6 DEF c, p

\* The outcome of a match, order by order.
LEMMA MatchOutcome ==
    ASSUME NEW b, GoodBook(b), Orders(b), NEW o, NEW n \in Order, o \notin DOMAIN b
    PROVE  LET r == Match(b, o, n) IN
           /\ IsFiniteSet(r.fills)
           /\ \A f \in r.fills : f.qty \in Nat \ {0} /\ f.maker \in DOMAIN b /\ f.taker = o
           /\ r.left \in Nat /\ r.left = n.qty - TotalQty(r.fills)
           /\ o \in DOMAIN r.book => r.left # 0 /\ r.book[o].qty = r.left
           /\ \A m \in DOMAIN b :
                 LET q == b[m].qty - TotalQty({f \in r.fills : m \in {f.maker, f.taker}})
                 IN  IF q = 0 THEN m \notin DOMAIN r.book
                     ELSE m \in DOMAIN r.book /\ r.book[m].qty = q
           /\ DOMAIN r.book \subseteq DOMAIN b \cup {o}
<1> DEFINE r == Match(b, o, n)
           F == Fills(b, o, n)
           c == MakersAfter(b, n)
           left == n.qty - Lesser(n.qty, Available(b, n))
           e == [n EXCEPT !.qty = left]
           rests == left > 0 /\ n.price > 0 /\ n.tif # "IOC"
           lost(fs, m) == TotalQty({f \in fs : m \in {f.maker, f.taker}})
<1>1. Quantified(b) /\ n.qty \in Nat \ {0} /\ n.side \in Side
  BY OrdersQuantified, OrderIsLike
<1>2. /\ IsFiniteSet(F)
      /\ \A f \in F : /\ f.qty \in Nat \ {0} /\ f.taker = o
                      /\ f.maker \in DOMAIN b /\ f.qty = Traded(b, n, f.maker)
      /\ \A m \in DOMAIN b : Traded(b, n, m) > 0 => \E f \in F : f.maker = m
      /\ \A f, g \in F : f.maker = g.maker => f = g
      /\ TotalQty(F) = Lesser(n.qty, Available(b, n))
      /\ TotalQty(F) \in Nat /\ TotalQty(F) <= n.qty
  BY <1>1, FillsOfMatch
<1>3. /\ DOMAIN c = {m \in DOMAIN b : Traded(b, n, m) < b[m].qty}
      /\ \A m \in DOMAIN c : c[m] = [b[m] EXCEPT !.qty = @ - Traded(b, n, m)]
  BY DEF MakersAfter
<1>4. \A m \in DOMAIN b : /\ Traded(b, n, m) \in Nat /\ Traded(b, n, m) <= b[m].qty
                          /\ b[m].qty \in Nat \ {0} /\ m \in OrderIds
  BY <1>1, TradedWithin DEF Orders, Order
<1>5. left \in Nat /\ left = n.qty - TotalQty(F)
  BY <1>1, <1>2
<1>6. \/ r = [book |-> b, left |-> n.qty, fills |-> {}, price |-> 0]
      \/ /\ r.book = c /\ ~rests /\ r.left = left /\ r.fills = F
      \/ /\ r.book = Enter(c, o, e) /\ rests /\ r.left = left /\ r.fills = F
  BY DEF Match
<1> HIDE DEF F, c, left, r, rests
<1>7. ASSUME NEW m \in DOMAIN b PROVE lost(F, m) = Traded(b, n, m)
  <2> DEFINE G == {f \in F : m \in {f.maker, f.taker}}
  <2>1. \A f \in G : f.maker = m /\ f \in F
    BY <1>2
  <2>2. CASE Traded(b, n, m) > 0
    <3>1. PICK f \in F : f.maker = m
      BY <1>2, <2>2
    <3>2. f.qty = Traded(b, n, m) /\ f.qty \in Int
      BY <1>2, <3>1
    <3>3. f \in G
      BY <3>1
    <3> HIDE DEF G
    <3>4. G = {f}
      BY <1>2, <2>1, <3>1, <3>3
    <3>5. TotalQty(G) = Traded(b, n, m)
      BY <3>2, <3>4, OneFill
    <3> QED
      BY <3>5 DEF G
  <2>3. CASE ~(Traded(b, n, m) > 0)
    <3>1. \A f \in G : Traded(b, n, m) \in Nat \ {0}
      BY <1>2, <2>1
    <3> HIDE DEF G
    <3>2. G = {}
      BY <2>3, <3>1
    <3>3. TotalQty(G) = 0
      BY <3>2, NoFills
    <3>4. TotalQty(G) = Traded(b, n, m)
      BY <1>4, <2>3, <3>3
    <3> QED
      BY <3>4 DEF G
  <2> QED
    BY <2>2, <2>3
<1>8. ASSUME NEW m \in DOMAIN c
      PROVE  c[m] \in Order /\ c[m].qty = b[m].qty - Traded(b, n, m) /\ m \in DOMAIN b
  <2> DEFINE s == b[m]
             q == b[m].qty - Traded(b, n, m)
  <2>1. m \in DOMAIN b /\ s \in Order /\ q \in Nat \ {0} /\ c[m] = [s EXCEPT !.qty = q]
    BY <1>3, <1>4 DEF Orders
  <2> HIDE DEF s, q
  <2>2. c[m] \in Order /\ c[m].qty = q
    BY <2>1, QuantityLeft
  <2> QED
    BY <2>1, <2>2 DEF q
<1>9. GoodBook(c)
  <2>1. GoodBook(MakersAfter(b, n))
    BY MakersKeepOrder
  <2> QED
    BY <2>1 DEF c
<1>10. \A m \in DOMAIN b : IF b[m].qty - Traded(b, n, m) = 0 THEN m \notin DOMAIN c
                           ELSE m \in DOMAIN c
  BY <1>3, <1>4
<1>11. o \notin DOMAIN c
  BY <1>3
<1>12. CASE r = [book |-> b, left |-> n.qty, fills |-> {}, price |-> 0]
  <2>1. r.book = b /\ r.left = n.qty /\ r.fills = {}
    BY <1>12
  <2>2. IsFiniteSet({}) /\ TotalQty({}) = 0
    BY NoFills, FS_EmptySet
  <2>3. \A m : {f \in {} : m \in {f.maker, f.taker}} = {}
    OBVIOUS
  <2>4. \A m \in DOMAIN b : lost(r.fills, m) = 0
    BY <2>1, <2>2, <2>3
  <2>5. \A m \in DOMAIN b : LET q == b[m].qty - lost(r.fills, m)
                            IN  IF q = 0 THEN m \notin DOMAIN r.book
                                ELSE m \in DOMAIN r.book /\ r.book[m].qty = q
    BY <1>4, <2>1, <2>4
  <2>6. r.left \in Nat /\ r.left = n.qty - TotalQty(r.fills)
    BY <1>1, <2>1, <2>2
  <2>7. /\ IsFiniteSet(r.fills) /\ o \notin DOMAIN r.book
        /\ \A f \in r.fills : f.qty \in Nat \ {0} /\ f.maker \in DOMAIN b /\ f.taker = o
        /\ DOMAIN r.book \subseteq DOMAIN b \cup {o}
    BY <2>1, <2>2
  <2> QED
    BY <2>5, <2>6, <2>7 DEF r
<1>13. CASE r.book = c /\ r.left = left /\ r.fills = F
  <2>1. \A m \in DOMAIN b : LET q == b[m].qty - lost(r.fills, m)
                            IN  IF q = 0 THEN m \notin DOMAIN r.book
                                ELSE m \in DOMAIN r.book /\ r.book[m].qty = q
    BY <1>7, <1>8, <1>10, <1>13
  <2>2. DOMAIN r.book \subseteq DOMAIN b \cup {o}
    BY <1>3, <1>13
  <2> QED
    BY <1>2, <1>5, <1>11, <1>13, <2>1, <2>2 DEF r
<1>14. CASE r.book = Enter(c, o, e) /\ rests /\ r.left = left /\ r.fills = F
  <2>1. left \in Nat \ {0}
    BY <1>5, <1>14 DEF rests
  <2>2. e \in Order /\ e.qty = left
    BY <2>1, QuantityLeft
  <2> HIDE DEF e
  <2>3. /\ DOMAIN r.book = DOMAIN c \cup {o}
        /\ r.book[o] \in Order /\ r.book[o].qty = left
        /\ \A m \in DOMAIN c \ {o} : r.book[m] = c[m]
    <3> DEFINE x == Enter(c, o, e)
    <3>1. /\ DOMAIN x = DOMAIN c \cup {o}
          /\ x[o] \in Order /\ x[o].qty = e.qty
          /\ \A m \in DOMAIN c \ {o} : x[m] = c[m]
      BY <1>9, <2>2, OrderEnters
    <3>2. r.book = x
      BY <1>14
    <3> HIDE DEF x
    <3> QED
      BY <2>2, <3>1, <3>2
  <2>4. \A m \in DOMAIN b : m # o /\ (m \in DOMAIN r.book <=> m \in DOMAIN c)
    BY <2>3
  <2>5. \A m \in DOMAIN c : r.book[m] = c[m]
    BY <1>11, <2>3
  <2>6. \A m \in DOMAIN b : LET q == b[m].qty - lost(r.fills, m)
                            IN  IF q = 0 THEN m \notin DOMAIN r.book
                                ELSE m \in DOMAIN r.book /\ r.book[m].qty = q
    BY <1>7, <1>8, <1>10, <1>14, <2>4, <2>5
  <2>7. DOMAIN r.book \subseteq DOMAIN b \cup {o}
    BY <1>3, <2>3
  <2> QED
    BY <1>2, <1>5, <1>14, <2>1, <2>3, <2>6, <2>7 DEF r
<1> QED
  BY <1>6, <1>12, <1>13, <1>14

\* Whatever is matched, the book holds orders of the model.
LEMMA MatchTyped ==
    ASSUME NEW b, GoodBook(b), Orders(b), NEW o \in OrderIds, NEW n \in Order
    PROVE  LET r == Match(b, o, n) IN
           Orders(r.book) /\ IsFiniteSet(r.fills) /\ \A f \in r.fills : f.qty \in Nat
<1> DEFINE r == Match(b, o, n)
           F == Fills(b, o, n)
           c == MakersAfter(b, n)
           left == n.qty - Lesser(n.qty, Available(b, n))
           e == [n EXCEPT !.qty = left]
<1>1. Quantified(b) /\ n.qty \in Nat \ {0} /\ n.side \in Side
  BY OrdersQuantified, OrderIsLike
<1>2. IsFiniteSet(F) /\ \A f \in F : f.qty \in Nat
  BY <1>1, FillsOfMatch
<1>3. \/ r.book = b /\ r.fills = {}
      \/ r.book = c /\ r.fills = F
      \/ r.book = Enter(c, o, e) /\ left > 0 /\ r.fills = F
  BY DEF Match
<1>4. GoodBook(c) /\ DOMAIN c \subseteq DOMAIN b
  BY MakersKeepOrder
<1>5. \A m \in DOMAIN c : Traded(b, n, m) < b[m].qty /\ c[m] = [b[m] EXCEPT !.qty = @ - Traded(b, n, m)]
  BY DEF MakersAfter
<1>6. Available(b, n) \in Nat
  BY <1>1, AllTrade
<1> HIDE DEF r, F, c
<1>7. ASSUME NEW m \in DOMAIN c PROVE c[m] \in Order
  <2> DEFINE s == b[m]
             q == b[m].qty - Traded(b, n, m)
  <2>1. m \in DOMAIN b /\ Traded(b, n, m) \in Nat /\ b[m].qty \in Nat
    BY <1>1, <1>4, TradedWithin DEF Quantified
  <2>2. s \in Order /\ q \in Nat \ {0} /\ c[m] = [s EXCEPT !.qty = q]
    BY <1>5, <2>1 DEF Orders
  <2> HIDE DEF s, q
  <2> QED
    BY <2>2, QuantityLeft
<1>8. Orders(c)
  BY <1>4, <1>7 DEF Orders
<1>9. left > 0 => Orders(Enter(c, o, e))
  <2> SUFFICES ASSUME left > 0 PROVE Orders(Enter(c, o, e))
    OBVIOUS
  <2>1. left \in Nat \ {0}
    BY <1>1, <1>6 DEF Lesser
  <2> HIDE DEF left
  <2>2. e \in Order
    BY <2>1, QuantityLeft
  <2> HIDE DEF e
  <2> DEFINE x == Enter(c, o, e)
  <2>3. /\ DOMAIN x = DOMAIN c \cup {o} /\ x[o] \in Order
        /\ \A m \in DOMAIN c \ {o} : x[m] = c[m]
    BY <1>4, <2>2, OrderEnters
  <2> HIDE DEF x
  <2>4. Orders(x)
    BY <1>8, <2>3 DEF Orders
  <2> QED
    BY <2>4 DEF x
<1> HIDE DEF e, left
<1>10. IsFiniteSet({})
  BY FS_EmptySet
<1>11. Orders(r.book) /\ IsFiniteSet(r.fills) /\ \A f \in r.fills : f.qty \in Nat
  BY <1>2, <1>3, <1>8, <1>9, <1>10
<1> QED
  BY <1>11 DEF r

------------------------------------------------------------------------------
(* The clearing price is a price, and who is left over is carried over once. *)

\* The recursion of ComputeClearingPrice over the prices up to n.
NextBest(b, ref, best, p) ==
    IF p \in {b[o].price : o \in DOMAIN b} /\ Improves(b, ref, best, p) THEN p ELSE best
Bests(f, n, b, ref) ==
    f = [p \in 0..n |-> IF p = 0 THEN 0 ELSE NextBest(b, ref, f[p - 1], p)]

LEMMA BestsExist ==
    ASSUME NEW n \in Nat, NEW b, NEW ref
    PROVE  \E f : Bests(f, n, b, ref)
<1> DEFINE T == {i \in Nat : ~\E f : Bests(f, i, b, ref)}
<1> SUFFICES ASSUME T # {} PROVE FALSE
  OBVIOUS
<1>1. PICK x \in T : \A y \in T : x <= y
  <2>1. T \subseteq Nat
    OBVIOUS
  <2> HIDE DEF T
  <2> QED
    BY <2>1, Least
<1>2. x \in Nat /\ ~\E f : Bests(f, x, b, ref)
  OBVIOUS
<1>3. CASE x = 0
  <2> DEFINE f == [i \in 0..0 |-> 0]
  <2>1. f = [p \in 0..0 |-> IF p = 0 THEN 0 ELSE NextBest(b, ref, f[p - 1], p)]
    OBVIOUS
  <2> QED
    BY <2>1, <1>2, <1>3 DEF Bests
<1>4. CASE x # 0
  <2>1. x - 1 \in Nat /\ x - 1 \notin T
    BY <1>1, <1>2, <1>4
  <2>2. PICK g : Bests(g, x - 1, b, ref)
    BY <2>1
  <2>3. \A i \in 0..(x - 1) : g[i] = IF i = 0 THEN 0 ELSE NextBest(b, ref, g[i - 1], i)
    BY <2>2 DEF Bests
  <2> HIDE DEF T
  <2> DEFINE f == [i \in 0..x |-> IF i = x THEN NextBest(b, ref, g[x - 1], x) ELSE g[i]]
             u == [i \in 0..x |-> IF i = 0 THEN 0 ELSE NextBest(b, ref, f[i - 1], i)]
  <2>4. \A i \in 0..(x - 1) : f[i] = g[i]
    BY <1>2
  <2>5. ASSUME NEW i \in 0..x
        PROVE  f[i] = IF i = 0 THEN 0 ELSE NextBest(b, ref, f[i - 1], i)
    <3>1. CASE i = x
      <4>1. x - 1 \in 0..(x - 1) /\ f[x] = NextBest(b, ref, g[x - 1], x)
        BY <1>2, <1>4
      <4> HIDE DEF f
      <4> QED
        BY <4>1, <3>1, <2>4, <1>4
    <3>2. CASE i # x
      <4>1. i \in 0..(x - 1) /\ (i # 0 => i - 1 \in 0..(x - 1))
        BY <3>2, <1>2
      <4> HIDE DEF f
      <4> QED
        BY <4>1, <2>3, <2>4
    <3> QED
      BY <3>1, <3>2
  <2>6. f = u
    <3>1. DOMAIN f = 0..x /\ f = [i \in 0..x |-> f[i]]
      OBVIOUS
    <3> HIDE DEF f
    <3> QED
      BY <3>1, <2>5
  <2>7. Bests(f, x, b, ref)
    BY <2>6 DEF Bests
  <2> QED
    BY <2>7, <1>2
<1> QED
  BY <1>3, <1>4

LEMMA ClearingPriceIsPrice ==
    ASSUME NEW b, NEW m, Numbered(b, m), NEW ref
    PROVE  ComputeClearingPrice(b, ref) \in Nat
<1> DEFINE quoted == {b[o].price : o \in DOMAIN b}
           n == Max(quoted)
           F == CHOOSE f : Bests(f, n, b, ref)
           c == ComputeClearingPrice(b, ref)
<1>1. CASE Bids(b) = {} \/ Asks(b) = {}
  BY <1>1 DEF ComputeClearingPrice
<1>2. CASE ~(Bids(b) = {} \/ Asks(b) = {})
  <2>1. quoted \subseteq Nat /\ quoted # {} /\ IsFiniteSet(quoted)
    <3>1. DOMAIN b # {} /\ IsFiniteSet(DOMAIN b) /\ \A o \in DOMAIN b : b[o].price \in Nat
      BY <1>2 DEF Bids, Numbered, OrderLike
    <3> DEFINE g == [o \in DOMAIN b |-> b[o].price]
    <3>2. g \in Surjection(DOMAIN b, quoted)
      BY DEF Surjection
    <3>3. quoted \subseteq Nat /\ quoted # {}
      BY <3>1
    <3> HIDE DEF g, quoted
    <3> QED
      BY <3>1, <3>2, <3>3, FS_Surjection
  <2>2. n \in Nat
    <3> HIDE DEF quoted
    <3> QED
      BY <2>1, Greatest
  <2>3. Bests(F, n, b, ref)
    <3>1. \E f : Bests(f, n, b, ref)
      <4> HIDE DEF n
      <4> QED
        BY <2>2, BestsExist
    <3> QED
      BY <3>1
  <2>4. c = F[n]
    BY <1>2 DEF ComputeClearingPrice, Bests, NextBest
  <2> HIDE DEF F, c, n, quoted
  <2>5. \A p \in 0..n : F[p] = IF p = 0 THEN 0 ELSE NextBest(b, ref, F[p - 1], p)
    BY <2>3 DEF Bests
  <2> DEFINE T == {p \in Nat : p <= n /\ F[p] \notin Nat}
  <2>6. T = {}
    <3> SUFFICES ASSUME T # {} PROVE FALSE
      OBVIOUS
    <3>1. PICK x \in T : \A y \in T : x <= y
      <4>1. T \subseteq Nat
        OBVIOUS
      <4> HIDE DEF T
      <4> QED
        BY <4>1, Least
    <3>2. x \in Nat /\ x <= n /\ F[x] \notin Nat
      OBVIOUS
    <3>3. x \in 0..n /\ x # 0
      BY <2>2, <2>5, <3>2
    <3>4. x - 1 \in Nat /\ x - 1 <= n /\ x - 1 \notin T
      BY <2>2, <3>1, <3>2, <3>3
    <3>5. F[x - 1] \in Nat
      BY <3>4
    <3>6. F[x] = NextBest(b, ref, F[x - 1], x)
      BY <2>5, <3>3
    <3> HIDE DEF T
    <3> QED
      BY <3>2, <3>5, <3>6 DEF NextBest
  <2>7. F[n] \in Nat
    <3>1. n \notin T
      BY <2>6
    <3> QED
      BY <2>2, <3>1
  <2> QED
    BY <2>4, <2>7 DEF c
<1> QED
  BY <1>1, <1>2

\* A sequence that holds every element of S once.
Lists(q, S) ==
    /\ q \in Seq(S)
    /\ \A o \in S : \E i \in 1..Len(q) : q[i] = o
    /\ \A i, j \in 1..Len(q) : q[i] = q[j] => i = j

LEMMA QueueLists ==
    ASSUME NEW ab, NEW n, Numbered(ab, n), NEW S \in SUBSET DOMAIN ab, NEW side \in Side,
           \A o \in S : ab[o].side = side
    PROVE  Lists(InPriority(ab, S), S)
<1> DEFINE R == {x \in S \X S : Ahead(ab, x[1], x[2])}
           q == InPriority(ab, S)
<1>1. Sorted(S, R, q) /\ \A x \in S : <<x, x>> \notin R
  BY QueueOfSide
<1> HIDE DEF q, R
<1>2. Len(q) \in Nat /\ \A i \in 1..Len(q) : q[i] \in S
  BY <1>1, SequenceDomain DEF Sorted
<1>3. ASSUME NEW i \in 1..Len(q), NEW j \in 1..Len(q), q[i] = q[j] PROVE i = j
  <2>1. ~(i < j) /\ ~(j < i)
    BY <1>1, <1>2, <1>3 DEF Sorted
  <2> QED
    BY <1>2, <2>1
<1>4. Lists(q, S)
  BY <1>1, <1>3 DEF Sorted, Lists
<1> QED
  BY <1>4 DEF q

LEMMA ListsJoin ==
    ASSUME NEW S, NEW T, S \cap T = {}, NEW p, NEW q, Lists(p, S), Lists(q, T)
    PROVE  Lists(p \o q, S \cup T)
<1> DEFINE r == p \o q
           m == Len(p)
           n == Len(q)
           U == S \cup T
<1>1. p \in Seq(U) /\ q \in Seq(U)
  <2>1. p \in Seq(S) /\ q \in Seq(T)
    BY DEF Lists
  <2>2. Seq(S) \subseteq Seq(U) /\ Seq(T) \subseteq Seq(U)
    OBVIOUS
  <2> QED
    BY <2>1, <2>2
<1>2. /\ m \in Nat /\ n \in Nat
      /\ \A i \in 1..m : p[i] \in S
      /\ \A i \in 1..n : q[i] \in T
  BY SequenceDomain DEF Lists
<1> HIDE DEF U
<1>3. /\ r \in Seq(U) /\ Len(r) = m + n
      /\ \A i \in 1..(m + n) : r[i] = IF i <= m THEN p[i] ELSE q[i - m]
  BY <1>1, ConcatProperties
<1> HIDE DEF r, m, n
<1>4. \A i \in 1..m : i \in 1..(m + n) /\ r[i] = p[i]
  BY <1>2, <1>3
<1>5. \A i \in 1..n : i + m \in 1..(m + n) /\ r[i + m] = q[i]
  <2> SUFFICES ASSUME NEW i \in 1..n PROVE i + m \in 1..(m + n) /\ r[i + m] = q[i]
    OBVIOUS
  <2>1. i + m \in 1..(m + n) /\ ~(i + m <= m) /\ (i + m) - m = i
    BY <1>2
  <2> QED
    BY <1>3, <2>1
<1>6. \A o \in U : \E i \in 1..(m + n) : r[i] = o
  <2>1. ASSUME NEW o \in S PROVE \E i \in 1..(m + n) : r[i] = o
    <3>1. PICK i \in 1..m : p[i] = o
      BY DEF Lists, m
    <3> QED
      BY <1>4, <3>1
  <2>2. ASSUME NEW o \in T PROVE \E i \in 1..(m + n) : r[i] = o
    <3>1. PICK i \in 1..n : q[i] = o
      BY DEF Lists, n
    <3> QED
      BY <1>5, <3>1
  <2> QED
    BY <2>1, <2>2 DEF U
<1>7. \A i \in 1..(m + n) : \/ i \in 1..m /\ r[i] = p[i] /\ r[i] \in S
                            \/ i - m \in 1..n /\ r[i] = q[i - m] /\ r[i] \in T
  BY <1>2, <1>3
<1>8. ASSUME NEW i \in 1..(m + n), NEW j \in 1..(m + n), r[i] = r[j] PROVE i = j
  <2>1. CASE i \in 1..m /\ r[i] = p[i] /\ r[i] \in S
    <3>1. j \in 1..m /\ r[j] = p[j]
      BY <1>7, <1>8, <2>1
    <3> QED
      BY <1>8, <2>1, <3>1 DEF Lists, m
  <2>2. CASE i - m \in 1..n /\ r[i] = q[i - m] /\ r[i] \in T
    <3>1. j - m \in 1..n /\ r[j] = q[j - m]
      BY <1>7, <1>8, <2>2
    <3>2. i - m = j - m
      BY <1>8, <2>2, <3>1 DEF Lists, n
    <3> QED
      BY <1>2, <3>2
  <2> QED
    BY <1>7, <2>1, <2>2
<1>9. Lists(r, U)
  BY <1>3, <1>6, <1>8 DEF Lists
<1> QED
  BY <1>9 DEF r, U

\* The good-till-cancelled orders of the auction that the sweep has not used up.
Carried(ab, p) == {o \in Leftover(ab, p) : ab[o].tif = "GTC"}

LEMMA UnmatchedListsCarried ==
    ASSUME NEW ab, NEW n, Numbered(ab, n), NEW p \in Nat
    PROVE  Lists(Unmatched(ab, p), Carried(ab, p)) /\ Carried(ab, p) \subseteq DOMAIN ab
<1> DEFINE kept == Carried(ab, p)
           bids == kept \cap Bids(ab)
           asks == kept \cap Asks(ab)
           A == {o \in bids : ab[o].price >= p}
           B == {o \in asks : ab[o].price <= p}
           C == {o \in bids : ab[o].price < p}
           D == {o \in asks : ab[o].price > p}
<1>1. kept \in SUBSET DOMAIN ab
  BY DEF Carried, Leftover
<1>2. /\ A \in SUBSET DOMAIN ab /\ C \in SUBSET DOMAIN ab
      /\ \A o \in A : ab[o].side = "Bid"
      /\ \A o \in C : ab[o].side = "Bid"
  BY DEF Bids
<1>3. /\ B \in SUBSET DOMAIN ab /\ D \in SUBSET DOMAIN ab
      /\ \A o \in B : ab[o].side = "Ask"
      /\ \A o \in D : ab[o].side = "Ask"
  BY DEF Asks
<1>4. Unmatched(ab, p) = InPriority(ab, A) \o InPriority(ab, B) \o InPriority(ab, C) \o InPriority(ab, D)
  BY DEF Unmatched, Carried
<1>5. kept = A \cup B \cup C \cup D
  <2>1. \A o \in kept : ab[o].side \in Side /\ ab[o].price \in Nat
    BY <1>1 DEF Numbered, OrderLike
  <2>2. \A o \in kept : o \in bids \/ o \in asks
    BY <1>1, <2>1 DEF Bids, Asks, Side
  <2>3. \A o \in kept : ab[o].price >= p \/ ab[o].price < p
    BY <2>1
  <2>4. \A o \in kept : ab[o].price <= p \/ ab[o].price > p
    BY <2>1
  <2> HIDE DEF kept
  <2> QED
    BY <2>2, <2>3, <2>4
<1>6. A \cap B = {} /\ (A \cup B) \cap C = {} /\ (A \cup B \cup C) \cap D = {}
  <2>1. \A o \in A \cup C : ab[o].side # "Ask"
    BY <1>2
  <2>2. \A o \in A \cup C : o \notin B \cup D
    BY <1>3, <2>1
  <2>3. \A o \in A \cup B \cup C \cup D : ab[o].price \in Nat
    BY <1>2, <1>3 DEF Numbered, OrderLike
  <2>4. \A o \in A : o \notin C
    BY <2>3
  <2>5. \A o \in B : o \notin D
    BY <2>3
  <2> HIDE DEF A, B, C, D
  <2> QED
    BY <2>2, <2>4, <2>5
<1> HIDE DEF A, B, C, D, kept
<1>7. "Bid" \in Side /\ "Ask" \in Side
  BY DEF Side
<1>8. Lists(InPriority(ab, A), A) /\ Lists(InPriority(ab, C), C)
  BY <1>2, <1>7, QueueLists
<1>9. Lists(InPriority(ab, B), B) /\ Lists(InPriority(ab, D), D)
  BY <1>3, <1>7, QueueLists
<1>10. Lists(InPriority(ab, A) \o InPriority(ab, B), A \cup B)
  BY <1>6, <1>8, <1>9, ListsJoin
<1>11. Lists(InPriority(ab, A) \o InPriority(ab, B) \o InPriority(ab, C), A \cup B \cup C)
  BY <1>6, <1>8, <1>10, ListsJoin
<1>12. Lists(InPriority(ab, A) \o InPriority(ab, B) \o InPriority(ab, C) \o InPriority(ab, D),
             A \cup B \cup C \cup D)
  BY <1>6, <1>9, <1>11, ListsJoin
<1>13. Lists(Unmatched(ab, p), kept)
  BY <1>4, <1>5, <1>12
<1> QED
  BY <1>1, <1>13 DEF kept

LEMMA OrdersPut ==
    ASSUME NEW b, Orders(b), NEW o \in OrderIds, NEW n \in Order
    PROVE  Orders(Put(b, o, n))
BY DEF Orders, Put

LEMMA OrdersDropped ==
    ASSUME NEW b, Orders(b), NEW D
    PROVE  Orders(Drop(b, D))
BY DEF Orders, Drop, Restrict

LEMMA NewOrderTyped ==
    ASSUME NEW c \in Commands, NEW n \in Nat
    PROVE  /\ NewOrder(c, n) \in Order /\ c.id \in OrderIds
           /\ NewOrder(c, n).qty = c.qty
<1>1. c \in Command
  BY CommandAssumption
<1> QED
  BY <1>1 DEF Command, NewOrder, Order

LEMMA TriggeredOrderTyped ==
    ASSUME orderSeq \in Nat, NextTriggered \in Triggering
    PROVE  /\ TriggeredOrder \in Order /\ NextTriggered.id \in OrderIds
           /\ TriggeredOrder.qty = NextTriggered.stop.qty
<1>1. NextTriggered.stop \in Stop /\ NextTriggered.id \in OrderIds
  BY DEF Triggering
<1> QED
  BY <1>1 DEF TriggeredOrder, Order, Stop

\* The states of the market.
Lifecycle == state \in MarketState /\ preHaltState \in MarketState \cup {"None"}

LEMMA HaltTyped ==
    ASSUME Lifecycle, Halt
    PROVE  Lifecycle'
BY DEF Lifecycle, Halt, MarketState

LEMMA ExecutedTyped ==
    ASSUME GoodBook(book), Orders(book), Lifecycle, positions \in [Users -> Int],
           NEW F, NEW o \in OrderIds, NEW n \in Order, Execute(F, o, n)
    PROVE  Orders(book') /\ Lifecycle' /\ positions' \in [Users -> Int]
<1> DEFINE r == Match(book, o, n)
<1>1. Orders(r.book) /\ IsFiniteSet(r.fills) /\ \A f \in r.fills : f.qty \in Nat
  BY MatchTyped
<1>2. book' = r.book /\ positions' = Settled(positions, r.fills) /\ CheckStops(F, r.price)
  BY DEF Execute
<1> HIDE DEF r
<1>3. positions' \in [Users -> Int]
  BY <1>1, <1>2, Settlement
<1>4. Halt \/ UNCHANGED lifecycle
  BY <1>2 DEF CheckStops
<1>5. Lifecycle'
  BY <1>4, HaltTyped DEF Lifecycle, lifecycle
<1> QED
  BY <1>1, <1>2, <1>3, <1>5

LEMMA LeftTyped ==
    ASSUME Typed, UNCHANGED <<auctionBook, swept, openTimer, clearTimer, window, clock, restarts>>,
           Orders(book'), Lifecycle', positions' \in [Users -> Int]
    PROVE  Typed'
BY DEF Typed, Lifecycle

LEMMA LimitTyped ==
    ASSUME Structure, Typed, NEW c \in Commands, MatchLimit(c) \/ MatchMarket(c)
    PROVE  Typed'
<1> DEFINE n == NewOrder(c, orderSeq + 1)
<1>1. /\ UNCHANGED <<auctionBook, swept, openTimer, clearTimer, window, clock, restarts>>
      /\ Execute(<<>>, c.id, n)
  BY DEF MatchLimit, MatchMarket, auction, timers, world
<1>2. n \in Order /\ c.id \in OrderIds
  BY NewOrderTyped DEF Structure
<1>3. GoodBook(book) /\ Orders(book) /\ Lifecycle /\ positions \in [Users -> Int]
  BY DEF Structure, Typed, Lifecycle
<1> HIDE DEF n
<1>4. Orders(book') /\ Lifecycle' /\ positions' \in [Users -> Int]
  BY <1>1, <1>2, <1>3, ExecutedTyped
<1> QED
  BY <1>1, <1>4, LeftTyped

LEMMA RunTyped ==
    ASSUME Structure, Typed, RunTriggered
    PROVE  Typed'
<1> DEFINE n == TriggeredOrder
<1>1. /\ UNCHANGED <<auctionBook, swept, openTimer, clearTimer, window, clock, restarts>>
      /\ Execute(Rest, NextTriggered.id, n)
  BY DEF RunTriggered, auction, timers, world
<1>2. n \in Order /\ NextTriggered.id \in OrderIds
  BY NextTaken, TriggeredOrderTyped DEF Structure, RunTriggered
<1>3. GoodBook(book) /\ Orders(book) /\ Lifecycle /\ positions \in [Users -> Int]
  BY DEF Structure, Typed, Lifecycle
<1> HIDE DEF n
<1>4. Orders(book') /\ Lifecycle' /\ positions' \in [Users -> Int]
  BY <1>1, <1>2, <1>3, ExecutedTyped
<1> QED
  BY <1>1, <1>4, LeftTyped

LEMMA JoinTyped ==
    ASSUME Structure, Typed, NEW c \in Commands, JoinAuction(c)
    PROVE  Typed'
<1> DEFINE n == NewOrder(c, orderSeq + 1)
<1>1. /\ UNCHANGED <<state, preHaltState, book, swept, openTimer, clearTimer, positions, window, clock, restarts>>
      /\ auctionBook' = Put(auctionBook, c.id, n)
  BY DEF JoinAuction, lifecycle, timers, world
<1>2. n \in Order /\ c.id \in OrderIds
  BY NewOrderTyped DEF Structure
<1> HIDE DEF n
<1>3. Orders(auctionBook')
  BY <1>1, <1>2, OrdersPut DEF Typed
<1>4. swept' \subseteq DOMAIN auctionBook'
  BY <1>1 DEF Typed, Put
<1>5. Orders(book')
  BY <1>1 DEF Typed
<1> QED
  BY <1>1, <1>3, <1>4, <1>5 DEF Typed

LEMMA QueueTyped ==
    ASSUME Structure, Typed, NEW c \in Commands, QueueLimit(c)
    PROVE  Typed'
<1> DEFINE n == NewOrder(c, orderSeq + 1)
           b == Enter(book, c.id, n)
<1>1. /\ UNCHANGED <<state, preHaltState, auctionBook, swept, openTimer, clearTimer, positions, window, clock, restarts>>
      /\ book' = b
  BY DEF QueueLimit, lifecycle, auction, timers, world
<1>2. n \in Order /\ c.id \in OrderIds
  BY NewOrderTyped DEF Structure
<1>3. Orders(b)
  <2>1. GoodBook(book) /\ Orders(book)
    BY DEF Structure, Typed
  <2> DEFINE o == c.id
  <2> HIDE DEF n, o
  <2>2. /\ DOMAIN b = DOMAIN book \cup {c.id} /\ b[c.id] \in Order
        /\ \A m \in DOMAIN book \ {c.id} : b[m] = book[m]
    <3>1. n \in Order
      BY <1>2
    <3>2. LET d == Enter(book, o, n) IN
             /\ DOMAIN d = DOMAIN book \cup {o} /\ d[o] \in Order
             /\ \A m \in DOMAIN book \ {o} : d[m] = book[m]
      BY <2>1, <3>1, OrderEnters
    <3> QED
      BY <3>2 DEF o
  <2> HIDE DEF b
  <2> QED
    BY <1>2, <2>1, <2>2 DEF Orders
<1> HIDE DEF b
<1>4. Orders(auctionBook')
  BY <1>1 DEF Typed
<1> QED
  BY <1>1, <1>3, <1>4 DEF Typed

\* A state of the carry-over: orders of the model, positions that are numbers.
CarryTyped(acc) ==
    /\ DOMAIN acc = {"book", "positions", "ledger"}
    /\ GoodBook(acc.book) /\ Orders(acc.book)
    /\ acc.positions \in [Users -> Int]

LEMMA CarriedOrderTyped ==
    ASSUME Orders(auctionBook), NEW o \in DOMAIN auctionBook, NEW q \in Nat \ {0}
    PROVE  /\ CarriedOrder(o, q) \in Order /\ CarriedOrder(o, q).qty = q
           /\ o \in OrderIds
BY DEF Orders, CarriedOrder, Order, TIF

\* What is carried over is something.
LEMMA CarriesSomething ==
    ASSUME NEW n, Numbered(auctionBook, n), Orders(auctionBook)
    PROVE  /\ SweptLeft \in [DOMAIN auctionBook -> Nat]
           /\ Lists(ToCarry, Carried(auctionBook, ClearingPrice))
           /\ \A i \in 1..Len(ToCarry) :
                 ToCarry[i] \in DOMAIN auctionBook /\ SweptLeft[ToCarry[i]] \in Nat \ {0}
<1> DEFINE K == Carried(auctionBook, ClearingPrice)
<1>1. \A o \in DOMAIN auctionBook : auctionBook[o].qty \in Nat
  BY DEF Orders, Order
<1>2. SweptLeft \in [DOMAIN auctionBook -> Nat]
  BY <1>1, SweepFillsAddUp
<1>3. ClearingPrice \in Nat
  BY ClearingPriceIsPrice DEF ClearingPrice
<1>4. Lists(ToCarry, K) /\ K \subseteq DOMAIN auctionBook
  BY <1>3, UnmatchedListsCarried DEF ToCarry
<1>5. \A o \in K : SweptLeft[o] > 0
  BY DEF Carried, Leftover, SweptLeft
<1> HIDE DEF K
<1>6. ASSUME NEW i \in 1..Len(ToCarry) PROVE ToCarry[i] \in K
  BY <1>4, SequenceDomain DEF Lists
<1>7. ASSUME NEW i \in 1..Len(ToCarry)
      PROVE  ToCarry[i] \in DOMAIN auctionBook /\ SweptLeft[ToCarry[i]] \in Nat \ {0}
  BY <1>2, <1>4, <1>5, <1>6
<1> QED
  BY <1>2, <1>4, <1>7 DEF K

LEMMA CarryKeepsTypes ==
    ASSUME Orders(auctionBook), NEW acc, CarryTyped(acc), NEW o \in DOMAIN auctionBook,
           SweptLeft[o] \in Nat \ {0}
    PROVE  CarryTyped(CarryOver(acc, o))
<1> DEFINE c == CarriedOrder(o, SweptLeft[o])
           r == Match(acc.book, o, c)
           res == CarryOver(acc, o)
           pos == Settled(acc.positions, r.fills)
           led == Disposed(Filled(acc.ledger, r.fills), r, o)
<1>1. c \in Order /\ o \in OrderIds
  BY CarriedOrderTyped
<1>2. GoodBook(acc.book) /\ Orders(acc.book) /\ acc.positions \in [Users -> Int]
  BY DEF CarryTyped
<1>3. res = [acc EXCEPT !.ledger = Drop(@, {o})] \/ res = [book |-> r.book, positions |-> pos, ledger |-> led]
  BY DEF CarryOver, CarryInto, SweptLeft
<1> HIDE DEF c
<1>4. GoodBook(r.book)
  BY <1>1, <1>2, OrderIsLike, MatchKeepsBook
<1>5. Orders(r.book) /\ IsFiniteSet(r.fills) /\ \A f \in r.fills : f.qty \in Nat
  BY <1>1, <1>2, MatchTyped
<1> HIDE DEF r, led, res
<1>6. pos \in [Users -> Int]
  BY <1>2, <1>5, Settlement
<1> HIDE DEF pos
<1>7. CASE res = [acc EXCEPT !.ledger = Drop(@, {o})]
  <2>1. DOMAIN res = DOMAIN acc /\ res.book = acc.book /\ res.positions = acc.positions
    BY <1>7 DEF CarryTyped
  <2> QED
    BY <2>1 DEF CarryTyped, res
<1>8. CASE res = [book |-> r.book, positions |-> pos, ledger |-> led]
  <2>1. /\ DOMAIN res = {"book", "positions", "ledger"}
        /\ res.book = r.book /\ res.positions = pos
    BY <1>8
  <2> QED
    BY <2>1, <1>4, <1>5, <1>6 DEF CarryTyped, res
<1> QED
  BY <1>3, <1>7, <1>8

LEMMA StartTyped ==
    ASSUME NEW n, Numbered(auctionBook, n), Orders(auctionBook), GoodBook(book), Orders(book),
           positions \in [Users -> Int]
    PROVE  CarryTyped(SweptStart)
<1>1. \A o \in DOMAIN auctionBook : auctionBook[o].qty \in Nat
  BY DEF Orders, Order
<1>2. IsFiniteSet(SweepFills) /\ \A f \in SweepFills : f.qty \in Nat
  BY <1>1, SweepFillsAddUp
<1>3. Settled(positions, SweepFills) \in [Users -> Int]
  BY <1>2, Settlement
<1> QED
  BY <1>3 DEF CarryTyped, SweptStart

LEMMA ClearTyped ==
    ASSUME Structure, Typed, ClearAuction
    PROVE  Typed'
<1> DEFINE m == Len(ToCarry)
<1>1. /\ Numbered(auctionBook, orderSeq) /\ Orders(auctionBook) /\ GoodBook(book)
      /\ Orders(book) /\ positions \in [Users -> Int]
  BY DEF Structure, Typed
<1>2. \A i \in 1..m : ToCarry[i] \in DOMAIN auctionBook /\ SweptLeft[ToCarry[i]] \in Nat \ {0}
  BY <1>1, CarriesSomething
<1>3. m \in Nat
  BY <1>1, ClearingRuns
<1>4. PICK C : ClearingRun(C)
  BY <1>1, ClearingRuns
<1> HIDE DEF m
<1>5. C[0] = SweptStart /\ \A i \in 1..m : C[i] = CarryOver(C[i - 1], ToCarry[i])
  BY <1>4 DEF ClearingRun, m
<1>6. CarryTyped(SweptStart)
  BY <1>1, StartTyped
<1> DEFINE T == {i \in Nat : i <= m /\ ~CarryTyped(C[i])}
<1>7. T = {}
  <2> SUFFICES ASSUME T # {} PROVE FALSE
    OBVIOUS
  <2>1. PICK x \in T : \A y \in T : x <= y
    <3>1. T \subseteq Nat
      OBVIOUS
    <3> HIDE DEF T
    <3> QED
      BY <3>1, Least
  <2>2. x \in Nat /\ x <= m /\ ~CarryTyped(C[x])
    OBVIOUS
  <2>3. x # 0
    BY <2>2, <1>5, <1>6
  <2>4. x - 1 \in Nat /\ x - 1 <= m /\ x \in 1..m
    BY <2>2, <2>3, <1>3
  <2>5. CarryTyped(C[x - 1])
    BY <2>1, <2>2, <2>4
  <2>6. CarryTyped(C[x])
    BY <2>4, <2>5, <1>1, <1>2, <1>5, CarryKeepsTypes
  <2> QED
    BY <2>2, <2>6
<1>8. CarryTyped(C[m])
  BY <1>3, <1>7
<1>9. Cleared.book = C[m].book /\ Cleared.positions = C[m].positions
  <2> DEFINE acc == C[m]
  <2> HIDE DEF acc
  <2>1. /\ [acc EXCEPT !.ledger = Drop(@, Gone)].book = acc.book
        /\ [acc EXCEPT !.ledger = Drop(@, Gone)].positions = acc.positions
    BY <1>8 DEF CarryTyped, acc
  <2> QED
    BY <1>4, <2>1 DEF acc, m, ClearingRun
<1>10. Orders(Cleared.book) /\ Cleared.positions \in [Users -> Int]
  BY <1>8, <1>9 DEF CarryTyped
<1>11. /\ Orders(book') /\ positions' \in [Users -> Int]
       /\ state' \in MarketState
       /\ swept' \subseteq DOMAIN auctionBook
  BY <1>10 DEF ClearAuction, Typed, MarketState
<1>12. /\ UNCHANGED <<preHaltState, auctionBook, openTimer, window, clock, restarts>>
       /\ clearTimer' \in BOOLEAN
  BY DEF ClearAuction, world
<1>13. Orders(auctionBook')
  BY <1>1, <1>12
<1> QED
  BY <1>11, <1>12, <1>13 DEF Typed

LEMMA NumberedAfresh ==
    ASSUME NEW n \in Order, NEW p \in Nat
    PROVE  LET e == [n EXCEPT !.seq = p, !.place = p] IN e \in Order /\ e.qty = n.qty
<1> DEFINE x == [n EXCEPT !.seq = p]
           e == [n EXCEPT !.seq = p, !.place = p]
<1>1. x \in Order /\ x.qty = n.qty
  BY DEF Order
<1>2. e = [x EXCEPT !.place = p]
  OBVIOUS
<1> HIDE DEF x
<1>3. LET f == [x EXCEPT !.place = p] IN f \in Order /\ f.qty = x.qty
  BY <1>1, PlaceTaken
<1> HIDE DEF e
<1>4. e \in Order /\ e.qty = x.qty
  BY <1>2, <1>3
<1> QED
  BY <1>1, <1>4 DEF e

LEMMA RestartTyped ==
    ASSUME Structure, Typed, Restart
    PROVE  /\ Typed'
           /\ \A o \in DOMAIN book' : book'[o].qty = OpenOrders[o].qty
<1>1. /\ DOMAIN book' = DOMAIN OpenOrders
      /\ \A o \in DOMAIN book' :
            book'[o] = [OpenOrders[o] EXCEPT !.seq = FreshSeq(o), !.place = FreshSeq(o)]
  BY DEF Restart
<1>2. \A o \in DOMAIN book' : OpenOrders[o] \in Order /\ o \in OrderIds
  BY <1>1 DEF OpenOrders, Typed, Orders, Waiting
<1>3. \A o \in DOMAIN book' : FreshSeq(o) \in Nat
  BY <1>1, FreshNumbers DEF Open
<1>4. ASSUME NEW o \in DOMAIN book'
      PROVE  book'[o] \in Order /\ book'[o].qty = OpenOrders[o].qty
  <2> DEFINE n == OpenOrders[o]
             p == FreshSeq(o)
             e == [n EXCEPT !.seq = p, !.place = p]
  <2>1. n \in Order /\ p \in Nat /\ book'[o] = e
    BY <1>1, <1>2, <1>3
  <2> HIDE DEF n, p
  <2>2. e \in Order /\ e.qty = n.qty
    BY <2>1, NumberedAfresh
  <2> HIDE DEF e
  <2> QED
    BY <2>1, <2>2 DEF n
<1>5. Orders(book')
  BY <1>2, <1>4 DEF Orders
<1>6. /\ DOMAIN auctionBook' = {} /\ swept' = {}
      /\ openTimer' = AuctionsEnabled /\ clearTimer' = AuctionsEnabled
      /\ positions' = [u \in Users |-> 0] /\ window' = {} /\ clock' = clock
      /\ state' = "PreOpen" /\ preHaltState' = "None"
  BY DEF Restart, NoMap
<1>7. restarts' \in 0..MaxRestarts
  <2>1. MaxRestarts \in Nat
    BY BoundAssumption
  <2>2. restarts \in 0..MaxRestarts
    BY DEF Typed
  <2>3. restarts < MaxRestarts /\ restarts' = restarts + 1
    BY DEF Restart
  <2> QED
    BY <2>1, <2>2, <2>3
<1>8. openTimer' \in BOOLEAN /\ clearTimer' \in BOOLEAN
  BY <1>6, FeatureAssumption
<1>9. positions' \in [Users -> Int] /\ state' \in MarketState
  BY <1>6 DEF MarketState
<1>10. Orders(auctionBook') /\ swept' \subseteq DOMAIN auctionBook'
  BY <1>6 DEF Orders
<1>11. window' \subseteq Nat /\ clock' \in 0..MaxTime /\ preHaltState' \in MarketState \cup {"None"}
  BY <1>6 DEF Typed
<1>12. Typed'
  BY <1>5, <1>7, <1>8, <1>9, <1>10, <1>11 DEF Typed
<1> QED
  BY <1>4, <1>12

LEMMA ReturnTyped ==
    ASSUME Structure, Typed, CheckReturns
    PROVE  Typed'
<1>1. UNCHANGED <<book, auctionBook, swept, openTimer, clearTimer, positions, clock, restarts>>
  BY DEF CheckReturns, auction, timers, world
<1>2. Halt \/ UNCHANGED lifecycle
  BY DEF CheckReturns
<1>3. Lifecycle'
  BY <1>2, HaltTyped DEF Typed, Lifecycle, lifecycle
<1>4. Current.price \in Nat
  <2>1. cascade \in Seq(Frame) /\ cascade # <<>>
    BY DEF Structure, CheckReturns, Idle
  <2>2. Last(cascade) \in Frame
    BY <2>1, FrontOf
  <2> QED
    BY <2>2 DEF Current, Frame
<1>5. window' \subseteq window \cup {Current.price}
  BY DEF CheckReturns
<1>6. window' \subseteq Nat
  BY <1>4, <1>5 DEF Typed
<1>7. Orders(book') /\ Orders(auctionBook')
  BY <1>1 DEF Typed
<1> QED
  BY <1>1, <1>3, <1>6, <1>7 DEF Typed, Lifecycle

LEMMA OthersTyped ==
    ASSUME Typed, Orders(book'), Lifecycle', openTimer' \in BOOLEAN, clock' \in 0..MaxTime,
           UNCHANGED <<auctionBook, swept, clearTimer, positions, window, restarts>>
    PROVE  Typed'
<1>1. Orders(auctionBook')
  BY DEF Typed
<1> QED
  BY <1>1 DEF Typed, Lifecycle

LEMMA TypedStarts == Init => Typed
<1> SUFFICES ASSUME Init PROVE Typed
  OBVIOUS
<1>1. DOMAIN book = {} /\ DOMAIN auctionBook = {}
  BY DEF Init, NoMap
<1>2. Orders(book) /\ Orders(auctionBook)
  BY <1>1 DEF Orders
<1>3. clock \in 0..MaxTime /\ restarts \in 0..MaxRestarts
  BY BoundAssumption DEF Init
<1>4. openTimer \in BOOLEAN /\ clearTimer \in BOOLEAN
  BY FeatureAssumption DEF Init
<1> QED
  BY <1>2, <1>3, <1>4 DEF Init, Typed, MarketState

LEMMA TypedStays == Structure /\ Typed /\ [Next]_vars => Typed'
<1> SUFFICES ASSUME Structure, Typed, [Next]_vars PROVE Typed'
  OBVIOUS
<1>0. /\ Orders(book) /\ Lifecycle /\ openTimer \in BOOLEAN /\ clock \in 0..MaxTime
  BY DEF Typed, Lifecycle
<1>1. ASSUME NEW c \in Commands, JoinAuction(c) PROVE Typed'
  BY <1>1, JoinTyped
<1>2. ASSUME NEW c \in Commands, QueueLimit(c) PROVE Typed'
  BY <1>2, QueueTyped
<1>3. ASSUME NEW c \in Commands, MatchLimit(c) \/ MatchMarket(c) PROVE Typed'
  BY <1>3, LimitTyped
<1>4. CASE /\ UNCHANGED <<auctionBook, swept, clearTimer, positions, window, restarts>>
           /\ Orders(book') /\ Lifecycle' /\ openTimer' \in BOOLEAN /\ clock' \in 0..MaxTime
  BY <1>4, OthersTyped
<1>5. ASSUME NEW c \in Commands, AddStop(c) PROVE Typed'
  <2>1. UNCHANGED <<state, preHaltState, book, auctionBook, swept, openTimer, clearTimer,
                    positions, window, clock, restarts>>
    BY <1>5 DEF AddStop, lifecycle, auction, timers, world
  <2> QED
    BY <2>1, <1>0, <1>4 DEF Lifecycle
<1>6. ASSUME NEW o \in OrderIds, NEW u \in Users, CancelOrder(o, u) PROVE Typed'
  <2>1. UNCHANGED <<state, preHaltState, auctionBook, swept, openTimer, clearTimer,
                    positions, window, clock, restarts>>
    BY <1>6 DEF CancelOrder, lifecycle, auction, timers, world
  <2>2. Orders(book')
    BY <1>6, <1>0, OrdersDropped DEF CancelOrder
  <2> QED
    BY <2>1, <2>2, <1>0, <1>4 DEF Lifecycle
<1>7. CASE AdminHalt \/ AdminResume \/ OpenAuction
  <2>1. UNCHANGED <<book, auctionBook, swept, clearTimer, positions, window, clock, restarts>>
    BY <1>7 DEF AdminHalt, AdminResume, OpenAuction, auction, timers, world
  <2>2. openTimer' \in BOOLEAN
    BY <1>7, <1>0 DEF AdminHalt, AdminResume, OpenAuction, timers
  <2>3. Lifecycle'
    <3>1. CASE AdminHalt
      BY <3>1, <1>0, HaltTyped DEF AdminHalt
    <3>2. CASE AdminResume
      BY <3>2, <1>0 DEF AdminResume, ResumeTarget, Lifecycle, MarketState
    <3>3. CASE OpenAuction
      BY <3>3, <1>0 DEF OpenAuction, Lifecycle, MarketState
    <3> QED
      BY <1>7, <3>1, <3>2, <3>3
  <2> QED
    BY <2>1, <2>2, <2>3, <1>0, <1>4
<1>8. CASE RunTriggered
  BY <1>8, RunTyped
<1>9. CASE RejectTriggered \/ UNCHANGED vars
  <2>1. UNCHANGED <<state, preHaltState, book, auctionBook, swept, openTimer, clearTimer,
                    positions, window, clock, restarts>>
    BY <1>9 DEF RejectTriggered, lifecycle, auction, timers, world, vars
  <2> QED
    BY <2>1, <1>0, <1>4 DEF Lifecycle
<1>10. CASE CheckReturns
  BY <1>10, ReturnTyped
<1>11. CASE RunExpiryCheck
  <2>1. UNCHANGED <<state, preHaltState, auctionBook, swept, openTimer, clearTimer,
                    positions, window, clock, restarts>>
    BY <1>11 DEF RunExpiryCheck, lifecycle, auction, timers, world
  <2>2. Orders(book')
    BY <1>11, <1>0, OrdersDropped DEF RunExpiryCheck
  <2> QED
    BY <2>1, <2>2, <1>0, <1>4 DEF Lifecycle
<1>12. CASE TimePasses
  <2>1. UNCHANGED <<state, preHaltState, book, auctionBook, swept, openTimer, clearTimer,
                    positions, window, restarts>>
    BY <1>12 DEF TimePasses, lifecycle, auction, timers
  <2>2. clock' \in 0..MaxTime
    BY <1>12, <1>0, BoundAssumption DEF TimePasses
  <2> QED
    BY <2>1, <2>2, <1>0, <1>4 DEF Lifecycle
<1>13. CASE ClearAuction
  BY <1>13, ClearTyped
<1>14. CASE Restart
  BY <1>14, RestartTyped
<1> QED
  BY <1>1, <1>2, <1>3, <1>5, <1>6, <1>7, <1>8, <1>9, <1>10, <1>11, <1>12, <1>13, <1>14
  DEF Next, CascadeStep

\* The orders in the book and in the auction, the positions, the states and the breaker's
\* prices are what the processor takes them for (processor.go, statemachine).
THEOREM TypedHolds == Spec => []Typed
<1> QED
  BY TypedStarts, TypedStays, StructureHolds, PTL DEF Spec

------------------------------------------------------------------------------
(* Reduce-only.                                                              *)

\* An order that would not take the position past zero cannot take it further away from it,
\* however much of it trades: it moves the position one way and by its quantity at most.
LEMMA ReducesOnly ==
    ASSUME Structure, Typed, NEW c \in Commands, c.flag = "ReduceOnly",
           MatchLimit(c) \/ MatchMarket(c)
    PROVE  Distance(positions'[c.user], 0) <= Distance(positions[c.user], 0)
<1> DEFINE n == NewOrder(c, orderSeq + 1)
           r == Match(book, c.id, n)
           d == positions'[c.user] - positions[c.user]
<1>1. ~WouldIncrease(c) /\ positions' = Settled(positions, r.fills)
  BY DEF MatchLimit, MatchMarket, AcceptsLimit, Execute
<1>2. /\ n.side = c.side /\ n.user = c.user /\ n.qty = c.qty
      /\ c.side \in Side /\ c.user \in Users /\ c.qty \in Nat
  <2>1. c \in Command
    BY CommandAssumption
  <2> QED
    BY <2>1 DEF NewOrder, Command
<1>3. Quantified(book) /\ positions \in [Users -> Int] /\ positions' \in [Users -> Int]
  <2>1. Typed'
    BY LimitTyped
  <2> QED
    BY <2>1, OrdersQuantified DEF Structure, Typed
<1>4. r.fills = {} \/ r.fills = Fills(book, c.id, n)
  BY DEF Match
<1> HIDE DEF n, r
<1>5. CASE r.fills = Fills(book, c.id, n)
  <2>1. /\ n.side = "Bid" => 0 <= d /\ d <= n.qty
        /\ n.side = "Ask" => -n.qty <= d /\ d <= 0
    BY <1>1, <1>2, <1>3, <1>5, MovesOneWay
  <2>2. positions[c.user] \in Int /\ positions'[c.user] \in Int
    BY <1>2, <1>3
  <2> QED
    BY <1>1, <1>2, <2>1, <2>2 DEF WouldIncrease, Distance, Side
<1>6. CASE r.fills = {}
  <2>1. positions'[c.user] = positions[c.user] + TotalQty({}) - TotalQty({})
    <3>1. \A u \in Users : {f \in r.fills : f.buyer = u} = {} /\ {f \in r.fills : f.seller = u} = {}
      BY <1>6
    <3>2. c.user \in DOMAIN positions
      BY <1>2, <1>3
    <3> QED
      BY <1>1, <1>2, <3>1, <3>2 DEF Settled
  <2>2. positions[c.user] \in Int /\ positions'[c.user] = positions[c.user]
    BY <2>1, <1>2, <1>3, NoFills
  <2> QED
    BY <2>2 DEF Distance
<1> QED
  BY <1>4, <1>5, <1>6

\* ReduceOnlyReduces: a reduce-only order that executes on arrival never takes its user
\* further from a flat position (wouldIncreasePosition, emitFillEvents).
THEOREM ReduceOnlyHolds == Spec => ReduceOnlyReduces
<1> DEFINE A == \A c \in Commands :
                    c.flag = "ReduceOnly" /\ (MatchLimit(c) \/ MatchMarket(c))
                    => Distance(positions'[c.user], 0) <= Distance(positions[c.user], 0)
<1>1. Structure /\ Typed /\ [Next]_vars => [A]_vars
  BY ReducesOnly
<1> HIDE DEF A
<1>2. Spec => [][A]_vars
  BY <1>1, StructureHolds, TypedHolds, PTL DEF Spec
<1> QED
  BY <1>2 DEF ReduceOnlyReduces, A

------------------------------------------------------------------------------
(* The events tell the book.                                                 *)

\* Ledger led tells of every order of book b, and besides of the orders in D.
Tells(led, b, D) ==
    /\ DOMAIN led = DOMAIN b \cup D
    /\ DOMAIN b \cap D = {}
    /\ \A o \in DOMAIN b : led[o] = b[o].qty
    /\ \A o \in D : led[o] \in Nat \ {0}

\* Two ledgers say the same of the orders in S.
Agree(l, led, S) == \A x \in S : l[x] = led[x]

\* An order the ledger knows of is matched: the fills and the disposition tell what becomes
\* of it and of its makers.
LEMMA MatchTold ==
    ASSUME NEW b, GoodBook(b), Orders(b), NEW n \in Order, NEW D, NEW o \in D,
           NEW led, Tells(led, b, D), led[o] = n.qty
    PROVE  LET r == Match(b, o, n)
               l == Disposed(Filled(led, r.fills), r, o)
           IN  /\ Tells(l, r.book, D \ {o})
               /\ Agree(l, led, D \ {o})
<1> DEFINE r == Match(b, o, n)
           F == r.fills
           Of(x) == {f \in F : x \in {f.maker, f.taker}}
           g == [x \in DOMAIN led |-> led[x] - TotalQty(Of(x))]
           h == Filled(led, F)
           l == Disposed(h, r, o)
<1>1. o \notin DOMAIN b
  BY DEF Tells
<1>2. /\ \A f \in F : f.maker \in DOMAIN b /\ f.taker = o
      /\ r.left \in Nat /\ r.left = n.qty - TotalQty(F)
      /\ o \in DOMAIN r.book => r.left # 0 /\ r.book[o].qty = r.left
      /\ \A m \in DOMAIN b :
            LET q == b[m].qty - TotalQty(Of(m))
            IN  IF q = 0 THEN m \notin DOMAIN r.book
                ELSE m \in DOMAIN r.book /\ r.book[m].qty = q
      /\ DOMAIN r.book \subseteq DOMAIN b \cup {o}
  BY <1>1, MatchOutcome
<1> HIDE DEF r
<1>3. h = Drop(g, {x \in DOMAIN led : g[x] = 0})
  BY DEF Filled
<1>4. DOMAIN led = DOMAIN b \cup D /\ DOMAIN b \cap D = {}
  BY DEF Tells
<1>5. \A m \in DOMAIN b : g[m] = b[m].qty - TotalQty(Of(m))
  BY <1>4 DEF Tells
<1>6. g[o] = r.left
  <2>1. Of(o) = F
    BY <1>2
  <2> HIDE DEF Of, F
  <2> QED
    BY <1>2, <1>4, <2>1
<1>7. ASSUME NEW x \in D \ {o} PROVE g[x] = led[x] /\ g[x] \in Nat \ {0}
  <2>1. Of(x) = {}
    BY <1>2, <1>4
  <2>2. TotalQty(Of(x)) = 0
    BY <2>1, NoFills
  <2>3. x \in DOMAIN led /\ led[x] \in Nat \ {0}
    BY <1>4 DEF Tells
  <2> HIDE DEF Of
  <2> QED
    BY <2>2, <2>3
<1>8. DOMAIN g = DOMAIN b \cup D
  BY <1>4
<1> HIDE DEF g
<1>9. /\ DOMAIN h = {x \in DOMAIN b \cup D : g[x] # 0}
      /\ \A x \in DOMAIN h : h[x] = g[x]
  BY <1>3, <1>4, <1>8 DEF Drop, Restrict
<1> HIDE DEF h, Of, F
<1>10. /\ DOMAIN l = {x \in DOMAIN h : x = o => o \in DOMAIN r.book}
       /\ \A x \in DOMAIN l : l[x] = g[x]
  <2>1. CASE r.left > 0 /\ o \notin DOMAIN r.book
    BY <2>1, <1>9 DEF Disposed, Drop, Restrict
  <2>2. CASE ~(r.left > 0 /\ o \notin DOMAIN r.book)
    <3>1. l = h
      BY <2>2 DEF Disposed
    <3>2. o \in DOMAIN h => o \in DOMAIN r.book
      BY <2>2, <1>2, <1>6, <1>9
    <3> HIDE DEF l
    <3> QED
      BY <3>1, <3>2, <1>9
  <2> QED
    BY <2>1, <2>2
<1> HIDE DEF l
<1>11. \A m \in DOMAIN b : m \in DOMAIN l <=> m \in DOMAIN r.book
  BY <1>1, <1>2, <1>5, <1>9, <1>10
<1>12. o \in DOMAIN l <=> o \in DOMAIN r.book
  BY <1>2, <1>6, <1>9, <1>10
<1>13. \A x \in D \ {o} : x \in DOMAIN l /\ x \notin DOMAIN r.book
  BY <1>2, <1>4, <1>7, <1>9, <1>10
<1>14. DOMAIN l = DOMAIN r.book \cup (D \ {o}) /\ DOMAIN r.book \cap (D \ {o}) = {}
  <2> DEFINE X == DOMAIN l
             Y == DOMAIN r.book
             Z == DOMAIN b
  <2>1. X \subseteq Z \cup D /\ Y \subseteq Z \cup {o}
    BY <1>2, <1>9, <1>10
  <2>2. \A x \in Z \cup {o} : x \in X <=> x \in Y
    BY <1>11, <1>12
  <2>3. \A x \in D \ {o} : x \in X /\ x \notin Y
    BY <1>13
  <2> HIDE DEF X, Y, Z
  <2>4. X = Y \cup (D \ {o}) /\ Y \cap (D \ {o}) = {}
    BY <2>1, <2>2, <2>3
  <2> QED
    BY <2>4 DEF X, Y
<1>15. \A x \in DOMAIN r.book : l[x] = r.book[x].qty
  <2>1. l[o] = r.book[o].qty \/ o \notin DOMAIN r.book
    BY <1>2, <1>6, <1>10, <1>12
  <2>2. ASSUME NEW m \in DOMAIN b, m \in DOMAIN r.book PROVE l[m] = r.book[m].qty
    BY <2>2, <1>2, <1>5, <1>10, <1>11
  <2> QED
    BY <2>1, <2>2, <1>2
<1>16. \A x \in D \ {o} : l[x] = led[x] /\ l[x] \in Nat \ {0}
  BY <1>7, <1>10, <1>13
<1>17. Tells(l, r.book, D \ {o})
  BY <1>14, <1>15, <1>16 DEF Tells
<1>18. Agree(l, led, D \ {o})
  BY <1>16 DEF Agree
<1> QED
  BY <1>17, <1>18 DEF l, h, F, r

\* What fires goes from the stop book to the calls in progress as it is.
LEMMA StopsMoved ==
    ASSUME NEW F \in Seq(Frame), NEW n \in Nat, Pending(stops, TodoIn(F), n),
           NEW p \in Nat, CheckStops(F, p)
    PROVE  /\ \A o \in DOMAIN stops' : o \in DOMAIN stops /\ stops'[o] = stops[o]
           /\ \A t \in TodoIn(cascade') :
                 t \in TodoIn(F) \/ (t.id \in DOMAIN stops /\ t.stop = stops[t.id])
<1>1. CASE cascade' = F /\ stops' = stops
  BY <1>1
<1>2. CASE /\ cascade' = Append(F, [price |-> p, todo |-> Triggered(p)])
           /\ stops' = Drop(stops, Fired(p))
  <2> DEFINE f == [price |-> p, todo |-> Triggered(p)]
             New == {Convert(o) : o \in Fired(p)}
  <2>1. Triggered(p) \in Seq(Triggering) /\ Range(Triggered(p)) = New
    BY TriggeredOnce
  <2>2. f \in Frame /\ f.todo = Triggered(p)
    BY <2>1 DEF Frame
  <2>3. \A t \in New : t.id \in DOMAIN stops /\ t.stop = stops[t.id]
    BY DEF Convert, Fired
  <2>4. \A o \in DOMAIN stops' : o \in DOMAIN stops /\ stops'[o] = stops[o]
    BY <1>2 DEF Drop, Restrict
  <2> HIDE DEF New, f
  <2>5. TodoIn(cascade') = TodoIn(F) \cup New
    BY <1>2, <2>1, <2>2, FramePushed DEF f
  <2> QED
    BY <2>3, <2>4, <2>5
<1> QED
  BY <1>1, <1>2 DEF CheckStops

\* The inductive invariant: EventsTellTheBook, with the triggered stops' quantities too.
Others == DOMAIN stops \cup IdsIn(cascade) \cup Waiting
ToldStops(led, f, S) ==
    /\ \A o \in DOMAIN f : led[o] = f[o].qty
    /\ \A t \in S : led[t.id] = t.stop.qty
Told ==
    /\ DOMAIN ledger = DOMAIN book \cup Others
    /\ \A o \in DOMAIN book : ledger[o] = book[o].qty
    /\ ToldStops(ledger, stops, TodoIn(cascade))
    /\ \A o \in Waiting : ledger[o] = auctionBook[o].qty

\* The checks that AddStop and MatchMarket lack, asked of the clients: no stop or market order
\* is sent under the id of an order that waits in the auction.
IdsApart == \A c \in Commands : AddStop(c) \/ MatchMarket(c) => c.id \notin Waiting

\* Every quantity in the ledger is one of an order.
LEMMA ToldQuantities ==
    ASSUME Structure, Typed, Apart, Told
    PROVE  Tells(ledger, book, Others) /\ Others \subseteq OrderIds
<1>1. DOMAIN book \cap Others = {}
  BY DEF Others, Apart
<1>2. ASSUME NEW o \in DOMAIN stops PROVE ledger[o] \in Nat \ {0} /\ o \in OrderIds
  <2>1. stops[o] \in Stop /\ o \in OrderIds
    BY DEF Structure, Pending
  <2>2. ledger[o] = stops[o].qty
    BY DEF Told, ToldStops
  <2> QED
    BY <2>1, <2>2 DEF Stop
<1>3. ASSUME NEW o \in IdsIn(cascade) PROVE ledger[o] \in Nat \ {0} /\ o \in OrderIds
  <2>1. PICK t \in TodoIn(cascade) : t.id = o
    BY DEF IdsIn
  <2>2. t \in Triggering
    BY TodoTypes DEF Structure
  <2>3. ledger[o] = t.stop.qty
    BY <2>1 DEF Told, ToldStops
  <2> QED
    BY <2>1, <2>2, <2>3 DEF Triggering, Stop
<1>4. ASSUME NEW o \in Waiting PROVE ledger[o] \in Nat \ {0} /\ o \in OrderIds
  <2>1. auctionBook[o] \in Order /\ o \in OrderIds
    BY DEF Typed, Orders, Waiting
  <2>2. ledger[o] = auctionBook[o].qty
    BY DEF Told
  <2> QED
    BY <2>1, <2>2 DEF Order
<1> QED
  BY <1>1, <1>2, <1>3, <1>4 DEF Told, Tells, Others

\* Before an order is matched the ledger knows of it and of all others, those of the calls in
\* F among them; then it is reported.
Reporting(led, F, o, n) ==
    LET D == DOMAIN stops \cup IdsIn(F) \cup Waiting IN
    /\ o \notin D /\ Tells(led, book, D \cup {o}) /\ led[o] = n.qty
    /\ ToldStops(led, stops, TodoIn(F))
    /\ \A x \in Waiting : led[x] = auctionBook[x].qty
Reported(led, F, o, n) ==
    LET r == Match(book, o, n) IN
    /\ book' = r.book
    /\ ledger' = Disposed(Filled(led, r.fills), r, o)
    /\ CheckStops(F, r.price)

LEMMA ExecuteTold ==
    ASSUME Structure, Typed, NEW F \in Seq(Frame),
           NEW m \in Nat, Pending(stops, TodoIn(F), m),
           NEW o, NEW n \in Order, NEW led,
           Reporting(led, F, o, n), Reported(led, F, o, n),
           DOMAIN stops' \cup IdsIn(cascade') = DOMAIN stops \cup IdsIn(F),
           auctionBook' = auctionBook, swept' = swept
    PROVE  Told'
<1> DEFINE r == Match(book, o, n)
           l == Disposed(Filled(led, r.fills), r, o)
           D == DOMAIN stops \cup IdsIn(F) \cup Waiting
           E == D \cup {o}
<1>0. /\ o \notin D /\ Tells(led, book, E) /\ led[o] = n.qty
      /\ ToldStops(led, stops, TodoIn(F))
      /\ \A x \in Waiting : led[x] = auctionBook[x].qty
  BY DEF Reporting
<1>1. book' = r.book /\ ledger' = l /\ CheckStops(F, r.price)
  BY DEF Reported
<1>2. r.price \in Nat
  BY OrderIsLike, MatchKeepsBook DEF Structure
<1>3. Tells(l, r.book, E \ {o}) /\ Agree(l, led, E \ {o})
  <2>1. GoodBook(book) /\ Orders(book) /\ o \in E /\ Tells(led, book, E) /\ led[o] = n.qty
    BY <1>0 DEF Structure, Typed
  <2> HIDE DEF E
  <2> QED
    BY <2>1, MatchTold
<1> HIDE DEF r, l
<1>4. E \ {o} = D
  BY <1>0
<1> HIDE DEF E
<1>5. /\ \A x \in DOMAIN stops' : x \in DOMAIN stops /\ stops'[x] = stops[x]
      /\ \A t \in TodoIn(cascade') :
            t \in TodoIn(F) \/ (t.id \in DOMAIN stops /\ t.stop = stops[t.id])
  BY <1>1, <1>2, StopsMoved
<1>6. Waiting' = Waiting
  BY DEF Waiting
<1>7. Others' = D
  BY <1>6 DEF Others
<1>8. /\ DOMAIN ledger' = DOMAIN book' \cup D
      /\ \A x \in DOMAIN book' : ledger'[x] = book'[x].qty
      /\ \A x \in D : ledger'[x] = led[x]
  BY <1>1, <1>3, <1>4 DEF Tells, Agree
<1>9. \A x \in DOMAIN stops' : ledger'[x] = stops'[x].qty
  BY <1>0, <1>5, <1>8 DEF ToldStops
<1>10. \A t \in TodoIn(cascade') : ledger'[t.id] = t.stop.qty
  <2>1. \A t \in TodoIn(F) : t.id \in D
    BY DEF IdsIn
  <2>2. ASSUME NEW t \in TodoIn(cascade') PROVE ledger'[t.id] = t.stop.qty
    <3>1. CASE t \in TodoIn(F)
      BY <3>1, <2>1, <1>0, <1>8 DEF ToldStops
    <3>2. CASE t.id \in DOMAIN stops /\ t.stop = stops[t.id]
      BY <3>2, <1>0, <1>8 DEF ToldStops
    <3> QED
      BY <3>1, <3>2, <1>5
  <2> QED
    BY <2>2
<1>11. \A x \in Waiting' : ledger'[x] = auctionBook'[x].qty
  BY <1>0, <1>6, <1>8
<1> QED
  BY <1>7, <1>8, <1>9, <1>10, <1>11 DEF Told, ToldStops

LEMMA NewOrderTold ==
    ASSUME Structure, Typed, Apart, Told, NEW c \in Commands, Idle,
           orderSeq' = orderSeq + 1, c.id \notin DOMAIN book \cup DOMAIN stops \cup Waiting,
           Execute(<<>>, c.id, NewOrder(c, orderSeq + 1)),
           DOMAIN stops' \cup IdsIn(cascade') = DOMAIN stops,
           auctionBook' = auctionBook, swept' = swept
    PROVE  Told'
<1> DEFINE n == NewOrder(c, orderSeq + 1)
           o == c.id
           F == <<>>
           led == Put(ledger, o, c.qty)
           D == DOMAIN stops \cup IdsIn(F) \cup Waiting
<1>1. n \in Order /\ n.qty = c.qty /\ n.qty \in Nat \ {0}
  <2>1. n \in Order /\ n.qty = c.qty
    BY NewOrderTyped DEF Structure
  <2> HIDE DEF n
  <2> QED
    BY <2>1, OrderIsLike
<1>2. cascade = F /\ F \in Seq(Frame) /\ TodoIn(F) = {} /\ IdsIn(F) = {}
  BY NothingToDo, IdleHasNoIds DEF Idle
<1>3. Reported(led, F, o, n)
  <2>1. n.qty = c.qty
    BY <1>1
  <2>2. LET r == Match(book, o, n) IN
        /\ book' = r.book /\ ledger' = Disposed(Filled(Put(ledger, o, n.qty), r.fills), r, o)
        /\ CheckStops(F, r.price)
    BY DEF Execute
  <2> HIDE DEF n
  <2> QED
    BY <2>1, <2>2 DEF Reported
<1>4. Pending(stops, TodoIn(F), orderSeq) /\ orderSeq \in Nat
  BY <1>2 DEF Structure
<1> HIDE DEF n, F
<1>5. D = Others /\ o \notin D
  BY <1>2 DEF Others
<1>6. Tells(ledger, book, D)
  BY <1>5, ToldQuantities
<1>7. Tells(led, book, D \cup {o}) /\ led[o] = n.qty /\ \A x \in D : led[x] = ledger[x]
  <2>1. /\ DOMAIN led = DOMAIN ledger \cup {o} /\ led[o] = n.qty
        /\ \A x \in DOMAIN ledger \ {o} : led[x] = ledger[x]
    BY <1>1 DEF Put
  <2> HIDE DEF led
  <2> QED
    BY <1>1, <1>5, <1>6, <2>1 DEF Tells
<1>8. ToldStops(led, stops, TodoIn(F)) /\ \A x \in Waiting : led[x] = auctionBook[x].qty
  BY <1>2, <1>7 DEF Told, ToldStops
<1> HIDE DEF led
<1>9. DOMAIN stops' \cup IdsIn(cascade') = DOMAIN stops \cup IdsIn(F)
  BY <1>2
<1>10. Reporting(led, F, o, n)
  BY <1>5, <1>7, <1>8 DEF Reporting
<1> HIDE DEF D
<1> QED
  BY <1>1, <1>2, <1>3, <1>4, <1>9, <1>10, ExecuteTold

LEMMA LimitTold ==
    ASSUME Structure, Typed, Apart, Told, NEW c \in Commands, MatchLimit(c)
    PROVE  Told'
<1>1. /\ Idle /\ orderSeq' = orderSeq + 1
      /\ c.id \notin DOMAIN book \cup DOMAIN stops \cup DOMAIN auctionBook
      /\ Execute(<<>>, c.id, NewOrder(c, orderSeq + 1))
      /\ auctionBook' = auctionBook /\ swept' = swept
  BY DEF MatchLimit, AcceptsLimit, Accepts, auction
<1>2. DOMAIN stops' \cup IdsIn(cascade') = DOMAIN stops
  BY LimitKeeps
<1>3. c.id \notin DOMAIN book \cup DOMAIN stops \cup Waiting
  BY <1>1 DEF Waiting
<1> QED
  BY <1>1, <1>2, <1>3, NewOrderTold

LEMMA MarketOrderTold ==
    ASSUME Structure, Typed, Apart, Told, NEW c \in Commands, MatchMarket(c), c.id \notin Waiting
    PROVE  Told'
<1>1. /\ Idle /\ orderSeq' = orderSeq + 1
      /\ c.id \notin DOMAIN book \cup DOMAIN stops \cup Waiting
      /\ Execute(<<>>, c.id, NewOrder(c, orderSeq + 1))
      /\ auctionBook' = auctionBook /\ swept' = swept
  BY DEF MatchMarket, Accepts, auction
<1>2. DOMAIN stops' \cup IdsIn(cascade') = DOMAIN stops
  BY MarketOrderKeeps
<1> QED
  BY <1>1, <1>2, NewOrderTold

\* What the ledger has of an order that runs is put there once more.
LEMMA RunTold ==
    ASSUME Structure, Typed, Apart, Told, RunTriggered
    PROVE  Told'
<1> DEFINE n == TriggeredOrder
           o == NextTriggered.id
           F == Rest
           led == Put(ledger, o, n.qty)
           D == DOMAIN stops \cup IdsIn(F) \cup Waiting
<1>1. /\ F \in Seq(Frame) /\ NextTriggered \in TodoIn(cascade)
      /\ TodoIn(cascade) = TodoIn(F) \cup {NextTriggered}
      /\ IdsIn(cascade) = IdsIn(F) \cup {o} /\ o \notin IdsIn(F)
      /\ Pending(stops, TodoIn(F), orderSeq) /\ orderSeq \in Nat
  BY NextTaken DEF RunTriggered, Structure
<1>2. n \in Order
  BY NextTaken, TriggeredOrderTyped DEF Structure, RunTriggered
<1>3. Reported(led, F, o, n) /\ auctionBook' = auctionBook /\ swept' = swept
  BY DEF RunTriggered, Execute, Reported, auction
<1>4. DOMAIN stops' \cup IdsIn(cascade') = DOMAIN stops \cup IdsIn(F)
  BY <1>1, RunKeeps
<1> HIDE DEF n, o, F
<1>5. Others = D \cup {o} /\ o \notin D
  BY <1>1 DEF Others, Apart, TodoIn, o
<1>6. Tells(ledger, book, D \cup {o})
  BY <1>5, ToldQuantities
<1>7. /\ DOMAIN led = DOMAIN ledger /\ led[o] = n.qty
      /\ \A x \in DOMAIN ledger \ {o} : led[x] = ledger[x]
  BY <1>6 DEF Put, Tells
<1>8. n.qty \in Nat \ {0}
  BY <1>2, OrderIsLike
<1> HIDE DEF led, D
<1>9. Tells(led, book, D \cup {o}) /\ \A x \in D : led[x] = ledger[x]
  BY <1>5, <1>6, <1>7, <1>8 DEF Tells
<1>10. ToldStops(led, stops, TodoIn(F)) /\ \A x \in Waiting : led[x] = auctionBook[x].qty
  <2>1. \A t \in TodoIn(F) : t.id \in D
    BY DEF D, IdsIn
  <2>2. DOMAIN stops \subseteq D /\ Waiting \subseteq D
    BY DEF D
  <2>3. TodoIn(F) \subseteq TodoIn(cascade)
    BY <1>1
  <2> QED
    BY <2>1, <2>2, <2>3, <1>9 DEF Told, ToldStops
<1>11. Reporting(led, F, o, n)
  BY <1>5, <1>7, <1>9, <1>10 DEF Reporting, D
<1> QED
  BY <1>1, <1>2, <1>3, <1>4, <1>11, ExecuteTold

\* Orders that leave, with a word to the client.
LEMMA LeaveTold ==
    ASSUME Structure, Apart, Told, NEW D \in SUBSET DOMAIN book, NEW E \in SUBSET DOMAIN stops,
           NEW T, T \subseteq IdsIn(cascade),
           DOMAIN book' = DOMAIN book \ D, \A o \in DOMAIN book' : book'[o] = book[o],
           DOMAIN stops' = DOMAIN stops \ E, \A o \in DOMAIN stops' : stops'[o] = stops[o],
           TodoIn(cascade') \subseteq TodoIn(cascade), IdsIn(cascade') = IdsIn(cascade) \ T,
           ledger' = Drop(ledger, D \cup E \cup T),
           auctionBook' = auctionBook, swept' = swept
    PROVE  Told'
<1>1. /\ DOMAIN ledger' = DOMAIN ledger \ (D \cup E \cup T)
      /\ \A o \in DOMAIN ledger' : ledger'[o] = ledger[o]
  BY DEF Drop, Restrict
<1>2. Waiting' = Waiting
  BY DEF Waiting
<1>3. DOMAIN ledger' = DOMAIN book' \cup Others'
  BY <1>1, <1>2 DEF Told, Others, Apart
<1>4. \A o \in DOMAIN book' : ledger'[o] = book'[o].qty
  BY <1>1, <1>3 DEF Told
<1>5. \A o \in DOMAIN stops' : ledger'[o] = stops'[o].qty
  BY <1>1, <1>3 DEF Told, ToldStops, Others
<1>6. \A t \in TodoIn(cascade') : ledger'[t.id] = t.stop.qty
  <2>1. \A t \in TodoIn(cascade') : t.id \in IdsIn(cascade')
    BY DEF IdsIn
  <2> QED
    BY <2>1, <1>1, <1>3 DEF Told, ToldStops, Others
<1>7. \A o \in Waiting' : ledger'[o] = auctionBook'[o].qty
  BY <1>1, <1>2, <1>3 DEF Told, Others
<1> QED
  BY <1>3, <1>4, <1>5, <1>6, <1>7 DEF Told, ToldStops

LEMMA RejectTold ==
    ASSUME Structure, Apart, Told, RejectTriggered
    PROVE  Told'
<1> DEFINE o == NextTriggered.id
<1>1. /\ TodoIn(Rest) \subseteq TodoIn(cascade)
      /\ IdsIn(cascade) = IdsIn(Rest) \cup {o} /\ o \notin IdsIn(Rest)
  BY NextTaken DEF RejectTriggered
<1>2. /\ cascade' = Rest /\ ledger' = Drop(ledger, {o})
      /\ UNCHANGED <<book, stops, auctionBook, swept>>
  BY DEF RejectTriggered, auction
<1> HIDE DEF o
<1>3. {o} \subseteq IdsIn(cascade) /\ IdsIn(cascade') = IdsIn(cascade) \ {o}
  BY <1>1, <1>2
<1>4. {} \cup {} \cup {o} = {o}
  OBVIOUS
<1>5. ledger' = Drop(ledger, {} \cup {} \cup {o})
  BY <1>2, <1>4
<1>6. {} \in SUBSET DOMAIN book /\ {} \in SUBSET DOMAIN stops
  OBVIOUS
<1>7. /\ DOMAIN book' = DOMAIN book \ {} /\ \A x \in DOMAIN book' : book'[x] = book[x]
      /\ DOMAIN stops' = DOMAIN stops \ {} /\ \A x \in DOMAIN stops' : stops'[x] = stops[x]
      /\ TodoIn(cascade') \subseteq TodoIn(cascade)
      /\ auctionBook' = auctionBook /\ swept' = swept
  BY <1>1, <1>2
<1> QED
  BY <1>3, <1>5, <1>6, <1>7, LeaveTold

\* Nothing is left to do in a call that returns.
LEMMA ReturnTold ==
    ASSUME Structure, Apart, Told, CheckReturns
    PROVE  Told'
<1>1. cascade \in Seq(Frame) /\ cascade # <<>> /\ Once(cascade) /\ Last(cascade).todo = <<>>
  BY DEF Structure, CheckReturns, Idle, Current
<1>2. TodoIn(cascade) = TodoIn(Front(cascade)) \cup Range(Last(cascade).todo)
  BY <1>1, FramePopped
<1>3. Range(<<>>) = {}
  BY DEF Range
<1>4. TodoIn(cascade') = TodoIn(cascade)
  BY <1>1, <1>2, <1>3 DEF CheckReturns
<1>5. IdsIn(cascade') = IdsIn(cascade)
  BY <1>4 DEF IdsIn
<1>6. UNCHANGED <<book, stops, auctionBook, swept, ledger>>
  BY DEF CheckReturns, auction
<1> QED
  BY <1>4, <1>5, <1>6 DEF Told, Others, Waiting

LEMMA CancelTold ==
    ASSUME Structure, Apart, Told, NEW o, NEW u, CancelOrder(o, u)
    PROVE  Told'
<1>1. UNCHANGED <<auctionBook, swept, cascade>> /\ ledger' = Drop(ledger, {o}) /\ Idle
  BY DEF CancelOrder, auction
<1>2. {o} \cup {} \cup {} = {o} /\ {} \cup {o} \cup {} = {o}
  OBVIOUS
<1>3. IdsIn(cascade) = {}
  BY <1>1, IdleHasNoIds
<1>4. CASE o \in DOMAIN book /\ book' = Drop(book, {o}) /\ stops' = stops
  <2>1. /\ DOMAIN book' = DOMAIN book \ {o} /\ \A x \in DOMAIN book' : book'[x] = book[x]
        /\ ledger' = Drop(ledger, {o} \cup {} \cup {})
    BY <1>1, <1>2, <1>4 DEF Drop, Restrict
  <2> QED
    BY <2>1, <1>1, <1>3, <1>4, LeaveTold
<1>5. CASE o \in DOMAIN stops /\ stops' = Drop(stops, {o}) /\ book' = book
  <2>1. /\ DOMAIN stops' = DOMAIN stops \ {o} /\ \A x \in DOMAIN stops' : stops'[x] = stops[x]
        /\ ledger' = Drop(ledger, {} \cup {o} \cup {})
    BY <1>1, <1>2, <1>5 DEF Drop, Restrict
  <2> QED
    BY <2>1, <1>1, <1>3, <1>5, LeaveTold
<1> QED
  BY <1>4, <1>5 DEF CancelOrder

LEMMA ExpiryTold ==
    ASSUME Structure, Apart, Told, RunExpiryCheck
    PROVE  Told'
<1> DEFINE D == Overdue(book)
           E == Overdue(stops)
<1>1. D \subseteq DOMAIN book /\ E \subseteq DOMAIN stops
  BY DEF Overdue
<1>2. /\ book' = Drop(book, D) /\ stops' = Drop(stops, E) /\ ledger' = Drop(ledger, D \cup E)
      /\ UNCHANGED <<auctionBook, swept, cascade>> /\ Idle
  BY DEF RunExpiryCheck, auction
<1> HIDE DEF D, E
<1>3. IdsIn(cascade) = {} /\ D \cup E \cup {} = D \cup E
  BY <1>2, IdleHasNoIds
<1>4. /\ DOMAIN book' = DOMAIN book \ D /\ \A x \in DOMAIN book' : book'[x] = book[x]
      /\ DOMAIN stops' = DOMAIN stops \ E /\ \A x \in DOMAIN stops' : stops'[x] = stops[x]
  BY <1>2 DEF Drop, Restrict
<1>5. ledger' = Drop(ledger, D \cup E \cup {})
  BY <1>2, <1>3
<1> QED
  BY <1>1, <1>2, <1>3, <1>4, <1>5, LeaveTold

LEMMA OrderJoins ==
    ASSUME NEW b, GoodBook(b), NEW o, NEW n \in Order
    PROVE  LET c == Enter(b, o, n) IN
           /\ DOMAIN c = DOMAIN b \cup {o} /\ c[o].qty = n.qty
           /\ Agree(c, b, DOMAIN b \ {o})
<1> DEFINE c == Enter(b, o, n)
<1>1. /\ DOMAIN c = DOMAIN b \cup {o}
      /\ c[o] \in Order /\ c[o].qty = n.qty
      /\ \A m \in DOMAIN b \ {o} : c[m] = b[m]
  BY OrderEnters
<1> HIDE DEF c
<1>2. Agree(c, b, DOMAIN b \ {o})
  BY <1>1 DEF Agree
<1> QED
  BY <1>1, <1>2 DEF c

\* The new order of command c, that no place knows of.
LEMMA NewId ==
    ASSUME Structure, Apart, Told, Idle, NEW o, o \notin DOMAIN book \cup DOMAIN stops \cup Waiting,
           NEW q
    PROVE  LET led == Put(ledger, o, q) IN
           /\ DOMAIN led = DOMAIN book \cup DOMAIN stops \cup Waiting \cup {o}
           /\ led[o] = q /\ Agree(led, ledger, DOMAIN book \cup DOMAIN stops \cup Waiting)
           /\ TodoIn(cascade) = {} /\ IdsIn(cascade) = {}
<1>1. TodoIn(cascade) = {} /\ IdsIn(cascade) = {}
  BY NothingToDo, IdleHasNoIds DEF Idle
<1>2. DOMAIN ledger = DOMAIN book \cup DOMAIN stops \cup Waiting
  BY <1>1 DEF Told, Others
<1> QED
  BY <1>1, <1>2 DEF Put, Agree

LEMMA JoinTold ==
    ASSUME Structure, Apart, Told, NEW c \in Commands, JoinAuction(c)
    PROVE  Told'
<1> DEFINE o == c.id
           n == NewOrder(c, orderSeq + 1)
           K == DOMAIN book \cup DOMAIN stops \cup Waiting
<1>1. /\ Idle /\ o \notin DOMAIN book \cup DOMAIN stops \cup DOMAIN auctionBook
      /\ auctionBook' = Put(auctionBook, o, n) /\ ledger' = Put(ledger, o, c.qty)
      /\ UNCHANGED <<book, stops, swept, cascade>>
  BY DEF JoinAuction, AcceptsLimit, Accepts
<1>2. n.qty = c.qty
  BY DEF NewOrder
<1> HIDE DEF o, n
<1>3. o \notin K
  BY <1>1 DEF Waiting
<1>4. /\ DOMAIN ledger' = K \cup {o} /\ ledger'[o] = c.qty /\ Agree(ledger', ledger, K)
      /\ TodoIn(cascade) = {} /\ IdsIn(cascade) = {}
  BY <1>1, <1>3, NewId
<1>5. /\ DOMAIN auctionBook' = DOMAIN auctionBook \cup {o} /\ auctionBook'[o] = n
      /\ \A x \in DOMAIN auctionBook : auctionBook'[x] = auctionBook[x]
  BY <1>1 DEF Put
<1>6. Waiting' = Waiting \cup {o}
  <2>1. o \notin swept
    BY <1>1 DEF Apart
  <2>2. Waiting' = DOMAIN auctionBook' \ swept'
    BY DEF Waiting
  <2> QED
    BY <2>1, <2>2, <1>1, <1>5 DEF Waiting
<1>7. IdsIn(cascade') = {} /\ TodoIn(cascade') = {}
  BY <1>1, <1>4
<1>8. DOMAIN ledger' = DOMAIN book' \cup Others'
  BY <1>1, <1>4, <1>6, <1>7 DEF Others
<1>9. \A x \in DOMAIN book' : ledger'[x] = book'[x].qty
  BY <1>1, <1>4 DEF Told, Agree
<1>10. ToldStops(ledger', stops', TodoIn(cascade'))
  BY <1>1, <1>4, <1>7 DEF Told, ToldStops, Agree
<1>11. \A x \in Waiting : x \in DOMAIN auctionBook
  BY DEF Waiting
<1>12. \A x \in Waiting' : ledger'[x] = auctionBook'[x].qty
  BY <1>2, <1>4, <1>5, <1>6, <1>11 DEF Told, Agree
<1> QED
  BY <1>8, <1>9, <1>10, <1>12 DEF Told

LEMMA QueueTold ==
    ASSUME Structure, Apart, Told, NEW c \in Commands, QueueLimit(c)
    PROVE  Told'
<1> DEFINE o == c.id
           n == NewOrder(c, orderSeq + 1)
           K == DOMAIN book \cup DOMAIN stops \cup Waiting
           b == Enter(book, o, n)
<1>1. /\ Idle /\ o \notin DOMAIN book \cup DOMAIN stops \cup DOMAIN auctionBook
      /\ book' = b /\ ledger' = Put(ledger, o, c.qty)
      /\ UNCHANGED <<auctionBook, stops, swept, cascade>>
  BY DEF QueueLimit, AcceptsLimit, Accepts, auction
<1>2. n.qty = c.qty /\ n \in Order
  BY NewOrderTyped DEF Structure
<1> HIDE DEF o, n
<1>3. o \notin K
  BY <1>1 DEF Waiting
<1>4. /\ DOMAIN ledger' = K \cup {o} /\ ledger'[o] = c.qty /\ Agree(ledger', ledger, K)
      /\ TodoIn(cascade) = {} /\ IdsIn(cascade) = {}
  BY <1>1, <1>3, NewId
<1>5. /\ DOMAIN b = DOMAIN book \cup {o} /\ b[o].qty = n.qty
      /\ \A m \in DOMAIN book \ {o} : b[m] = book[m]
  <2>1. GoodBook(book)
    BY DEF Structure
  <2>2. n \in Order
    BY <1>2
  <2>3. DOMAIN b = DOMAIN book \cup {o} /\ b[o].qty = n.qty /\ Agree(b, book, DOMAIN book \ {o})
    BY <2>1, <2>2, OrderJoins
  <2> QED
    BY <2>3 DEF Agree
<1> HIDE DEF b
<1>6. Waiting' = Waiting
  BY <1>1 DEF Waiting
<1>7. IdsIn(cascade') = {} /\ TodoIn(cascade') = {}
  BY <1>1, <1>4
<1>8. DOMAIN ledger' = DOMAIN book' \cup Others'
  BY <1>1, <1>4, <1>5, <1>6, <1>7 DEF Others
<1>9. \A x \in DOMAIN book' : ledger'[x] = book'[x].qty
  BY <1>1, <1>2, <1>4, <1>5 DEF Told, Agree
<1>10. ToldStops(ledger', stops', TodoIn(cascade'))
  BY <1>1, <1>4, <1>7 DEF Told, ToldStops, Agree
<1>11. \A x \in Waiting' : ledger'[x] = auctionBook'[x].qty
  BY <1>1, <1>4, <1>6 DEF Told, Agree
<1> QED
  BY <1>8, <1>9, <1>10, <1>11 DEF Told

LEMMA AddStopTold ==
    ASSUME Structure, Apart, Told, NEW c \in Commands, AddStop(c), c.id \notin Waiting
    PROVE  Told'
<1> DEFINE o == c.id
           s == [user |-> c.user, side |-> c.side, price |-> c.price,
                 trigger |-> c.trigger, qty |-> c.qty, tif |-> c.tif,
                 seq |-> orderSeq + 1, expireAt |-> c.expireAt]
           K == DOMAIN book \cup DOMAIN stops \cup Waiting
<1>1. /\ Idle /\ o \notin DOMAIN book \cup DOMAIN stops
      /\ stops' = Put(stops, o, s) /\ ledger' = Put(ledger, o, c.qty)
      /\ UNCHANGED <<auctionBook, book, swept, cascade>>
  BY DEF AddStop, Accepts, auction
<1>2. s.qty = c.qty
  OBVIOUS
<1>3. o \notin K
  BY <1>1
<1> HIDE DEF o, s
<1>4. /\ DOMAIN ledger' = K \cup {o} /\ ledger'[o] = c.qty /\ Agree(ledger', ledger, K)
      /\ TodoIn(cascade) = {} /\ IdsIn(cascade) = {}
  BY <1>1, <1>3, NewId
<1>5. /\ DOMAIN stops' = DOMAIN stops \cup {o} /\ stops'[o] = s
      /\ \A m \in DOMAIN stops : stops'[m] = stops[m]
  BY <1>1 DEF Put
<1>6. Waiting' = Waiting
  BY <1>1 DEF Waiting
<1>7. IdsIn(cascade') = {} /\ TodoIn(cascade') = {}
  BY <1>1, <1>4
<1>8. DOMAIN ledger' = DOMAIN book' \cup Others'
  BY <1>1, <1>4, <1>5, <1>6, <1>7 DEF Others
<1>9. \A x \in DOMAIN book' : ledger'[x] = book'[x].qty
  BY <1>1, <1>4 DEF Told, Agree
<1>10. ToldStops(ledger', stops', TodoIn(cascade'))
  BY <1>2, <1>4, <1>5, <1>7 DEF Told, ToldStops, Agree
<1>11. \A x \in Waiting' : ledger'[x] = auctionBook'[x].qty
  BY <1>1, <1>4, <1>6 DEF Told, Agree
<1> QED
  BY <1>8, <1>9, <1>10, <1>11 DEF Told

\* The log tells a restart the orders and the quantities that the client knows.
LEMMA RestartTold ==
    ASSUME Structure, Typed, Apart, Told, Restart
    PROVE  Told'
<1>1. /\ DOMAIN book' = DOMAIN book \cup Waiting
      /\ DOMAIN stops' = DOMAIN stops \cup TriggeredIds
      /\ cascade' = <<>>
  BY RestartKeeps
<1>2. TriggeredIds = IdsIn(cascade) /\ Todo = TodoIn(cascade)
  BY DEF TriggeredIds, Todo, IdsIn, TodoIn
<1>3. TodoIn(cascade') = {} /\ IdsIn(cascade') = {}
  BY <1>1, NothingToDo DEF IdsIn
<1>4. ledger' = ledger /\ DOMAIN auctionBook' = {}
  BY DEF Restart, NoMap
<1>5. Waiting' = {}
  BY <1>4 DEF Waiting
<1>6. DOMAIN ledger' = DOMAIN book' \cup Others'
  BY <1>1, <1>2, <1>3, <1>4, <1>5 DEF Told, Others
<1>7. ASSUME NEW o \in DOMAIN book' PROVE ledger'[o] = book'[o].qty
  <2>1. book'[o].qty = OpenOrders[o].qty
    BY RestartTyped
  <2>2. OpenOrders[o] = IF o \in Waiting THEN auctionBook[o] ELSE book[o]
    BY <1>1 DEF OpenOrders
  <2> QED
    BY <2>1, <2>2, <1>1, <1>4 DEF Told
<1>8. ASSUME NEW o \in DOMAIN stops' PROVE ledger'[o] = stops'[o].qty
  <2>1. stops'[o] = [OpenStops[o] EXCEPT !.seq = FreshSeq(o)] /\ o \in DOMAIN OpenStops
    BY DEF Restart
  <2>2. OpenStops[o] \in Stop
    BY <2>1, OpenStopsAre
  <2>3. stops'[o].qty = OpenStops[o].qty
    BY <2>1, <2>2 DEF Stop
  <2>4. CASE o \in DOMAIN stops
    <3>1. OpenStops[o] = stops[o]
      BY <2>4 DEF OpenStops
    <3> QED
      BY <3>1, <2>3, <2>4, <1>4 DEF Told, ToldStops
  <2>5. CASE o \notin DOMAIN stops
    <3> DEFINE t == CHOOSE u \in Todo : u.id = o
    <3>1. OpenStops[o] = t.stop /\ o \in TriggeredIds
      BY <2>5, <1>1 DEF OpenStops
    <3>2. \E u \in Todo : u.id = o
      BY <3>1 DEF TriggeredIds
    <3>3. t \in Todo /\ t.id = o
      BY <3>2
    <3> HIDE DEF t
    <3> QED
      BY <3>1, <3>3, <2>3, <1>2, <1>4 DEF Told, ToldStops
  <2> QED
    BY <2>4, <2>5
<1>9. ToldStops(ledger', stops', TodoIn(cascade'))
  BY <1>3, <1>8 DEF ToldStops
<1> QED
  BY <1>5, <1>6, <1>7, <1>9 DEF Told

\* In the clearing: the ledger tells of the book, of the stops, and of the orders in R that
\* are still to be carried over or cancelled, with what the sweep has left of them.
CarryTold(acc, R) ==
    /\ DOMAIN stops \cap R = {}
    /\ Tells(acc.ledger, acc.book, DOMAIN stops \cup R)
    /\ Agree(acc.ledger, ledger, DOMAIN stops)
    /\ Agree(acc.ledger, SweptLeft, R)

LEMMA CarryTells ==
    ASSUME Orders(auctionBook), NEW acc, CarryTyped(acc), NEW R, CarryTold(acc, R),
           NEW o \in DOMAIN auctionBook, o \in R, SweptLeft[o] \in Nat \ {0}
    PROVE  CarryTold(CarryOver(acc, o), R \ {o})
<1> DEFINE c == CarriedOrder(o, SweptLeft[o])
           r == Match(acc.book, o, c)
           res == CarryOver(acc, o)
           pos == Settled(acc.positions, r.fills)
           led == acc.ledger
           l == Disposed(Filled(led, r.fills), r, o)
           D == DOMAIN stops \cup R
           E == DOMAIN stops \cup (R \ {o})
<1>1. c \in Order /\ c.qty = SweptLeft[o]
  BY CarriedOrderTyped
<1>2. GoodBook(acc.book) /\ Orders(acc.book) /\ DOMAIN acc = {"book", "positions", "ledger"}
  BY DEF CarryTyped
<1>3. /\ Tells(led, acc.book, D) /\ Agree(led, ledger, DOMAIN stops) /\ Agree(led, SweptLeft, R)
      /\ DOMAIN stops \cap R = {}
  BY DEF CarryTold
<1>4. res = [acc EXCEPT !.ledger = Drop(@, {o})] \/ res = [book |-> r.book, positions |-> pos, ledger |-> l]
  BY DEF CarryOver, CarryInto, SweptLeft
<1> HIDE DEF c, D
<1>5. o \in D /\ led[o] = c.qty
  BY <1>1, <1>3 DEF D, Agree
<1>6. Tells(l, r.book, D \ {o}) /\ Agree(l, led, D \ {o})
  BY <1>1, <1>2, <1>3, <1>5, MatchTold
<1>7. D \ {o} = E
  BY <1>3 DEF D
<1> HIDE DEF l, r, pos, led
<1>8. CASE res = [book |-> r.book, positions |-> pos, ledger |-> l]
  <2>1. res.book = r.book /\ res.ledger = l
    BY <1>8
  <2>2. Agree(l, ledger, DOMAIN stops) /\ Agree(l, SweptLeft, R \ {o})
    BY <1>3, <1>6, <1>7 DEF Agree
  <2> HIDE DEF res
  <2> QED
    BY <2>1, <2>2, <1>3, <1>6, <1>7 DEF CarryTold, res
<1>9. CASE res = [acc EXCEPT !.ledger = Drop(@, {o})]
  <2>1. res.book = acc.book /\ res.ledger = Drop(led, {o})
    BY <1>2, <1>9 DEF led
  <2>2. /\ DOMAIN res.ledger = DOMAIN led \ {o}
        /\ \A x \in DOMAIN res.ledger : res.ledger[x] = led[x]
    BY <2>1 DEF Drop, Restrict
  <2> HIDE DEF res
  <2>3. Tells(res.ledger, acc.book, E)
    BY <2>2, <1>3, <1>5, <1>7 DEF Tells
  <2>4. Agree(res.ledger, ledger, DOMAIN stops) /\ Agree(res.ledger, SweptLeft, R \ {o})
    BY <2>2, <2>3, <1>3, <1>7 DEF Agree, Tells
  <2> QED
    BY <2>1, <2>3, <2>4, <1>3 DEF CarryTold, res
<1> QED
  BY <1>4, <1>8, <1>9

\* What the sweep has used up is gone from the ledger; of the rest the client knows how much
\* is left.
LEMMA SweepTold ==
    ASSUME Structure, Typed, Apart, Told, Idle, clearTimer
    PROVE  CarryTold(SweptStart, Leftover(auctionBook, ClearingPrice))
<1> DEFINE R == Leftover(auctionBook, ClearingPrice)
           F == SweepFills
           Of(x) == {f \in F : x \in {f.maker, f.taker}}
           g == [x \in DOMAIN ledger |-> ledger[x] - TotalQty(Of(x))]
           l == Filled(ledger, F)
<1>1. /\ Numbered(auctionBook, orderSeq) /\ \A o \in DOMAIN auctionBook : auctionBook[o].qty \in Nat
  BY DEF Structure, Typed, Orders, Order
<1>2. /\ \A f \in F : f.maker \in DOMAIN auctionBook /\ f.taker \in DOMAIN auctionBook
      /\ SweptLeft \in [DOMAIN auctionBook -> Nat]
      /\ \A o \in DOMAIN auctionBook : auctionBook[o].qty = SweptLeft[o] + TotalQty(Of(o))
      /\ IsFiniteSet(F) /\ \A f \in F : f.qty \in Nat
  BY <1>1, SweepFillsAddUp
<1>3. R = {o \in DOMAIN auctionBook : SweptLeft[o] > 0}
  BY DEF Leftover, SweptLeft
<1>4. Waiting = DOMAIN auctionBook /\ IdsIn(cascade) = {}
  BY IdleHasNoIds DEF Apart, Waiting
<1>5. /\ DOMAIN ledger = DOMAIN book \cup DOMAIN stops \cup DOMAIN auctionBook
      /\ Tells(ledger, book, DOMAIN stops \cup DOMAIN auctionBook)
      /\ (DOMAIN book \cup DOMAIN stops) \cap DOMAIN auctionBook = {}
      /\ \A o \in DOMAIN auctionBook : ledger[o] = auctionBook[o].qty
  <2>1. Others = DOMAIN stops \cup DOMAIN auctionBook
    BY <1>4 DEF Others
  <2>2. Tells(ledger, book, Others)
    BY ToldQuantities
  <2> QED
    BY <2>1, <2>2, <1>4 DEF Told, Apart
<1>6. ASSUME NEW o \in DOMAIN auctionBook PROVE g[o] = SweptLeft[o] /\ g[o] \in Nat
  <2>1. TotalQty(Of(o)) \in Nat
    <3>1. Of(o) \in SUBSET F
      OBVIOUS
    <3> HIDE DEF Of, F
    <3> QED
      BY <3>1, <1>2, FillsAddUp
  <2>2. /\ auctionBook[o].qty = SweptLeft[o] + TotalQty(Of(o)) /\ SweptLeft[o] \in Nat
        /\ ledger[o] = auctionBook[o].qty /\ o \in DOMAIN ledger
    BY <1>2, <1>5
  <2> HIDE DEF Of
  <2> QED
    BY <2>1, <2>2
<1>7. ASSUME NEW o \in DOMAIN book \cup DOMAIN stops PROVE g[o] = ledger[o] /\ g[o] \in Nat \ {0}
  <2>1. Of(o) = {}
    BY <1>2, <1>5
  <2>2. TotalQty(Of(o)) = 0
    BY <2>1, NoFills
  <2>3. ledger[o] \in Nat \ {0} /\ o \in DOMAIN ledger
    <3>1. CASE o \in DOMAIN stops
      BY <3>1, <1>5 DEF Tells
    <3>2. CASE o \in DOMAIN book
      <4>1. book[o] \in Order /\ ledger[o] = book[o].qty
        BY <3>2, <1>5 DEF Typed, Orders, Tells
      <4> QED
        BY <4>1, <3>2, <1>5 DEF Order
    <3> QED
      BY <3>1, <3>2
  <2> HIDE DEF Of
  <2> QED
    BY <2>2, <2>3
<1>8. l = Drop(g, {x \in DOMAIN ledger : g[x] = 0}) /\ DOMAIN g = DOMAIN ledger
  BY DEF Filled
<1> HIDE DEF g, Of, F
<1>9. DOMAIN l = {x \in DOMAIN ledger : g[x] # 0} /\ \A x \in DOMAIN l : l[x] = g[x]
  BY <1>8 DEF Drop, Restrict
<1> HIDE DEF l, R
<1>10. /\ R \subseteq DOMAIN auctionBook
       /\ \A o \in DOMAIN auctionBook : o \in R <=> g[o] # 0
  BY <1>3, <1>6
<1>11. DOMAIN l = DOMAIN book \cup (DOMAIN stops \cup R)
  BY <1>5, <1>7, <1>9, <1>10
<1>12. /\ \A o \in DOMAIN book : l[o] = book[o].qty
       /\ \A o \in DOMAIN stops : l[o] = ledger[o] /\ l[o] \in Nat \ {0}
       /\ \A o \in R : l[o] = SweptLeft[o] /\ l[o] \in Nat \ {0}
  <2>1. ASSUME NEW o \in DOMAIN book PROVE l[o] = book[o].qty
    BY <1>5, <1>7, <1>9, <1>11 DEF Tells
  <2>2. ASSUME NEW o \in DOMAIN stops PROVE l[o] = ledger[o] /\ l[o] \in Nat \ {0}
    BY <1>7, <1>9, <1>11
  <2>3. ASSUME NEW o \in R PROVE l[o] = SweptLeft[o] /\ l[o] \in Nat \ {0}
    BY <1>6, <1>9, <1>10, <1>11
  <2> QED
    BY <2>1, <2>2, <2>3
<1>13. DOMAIN book \cap (DOMAIN stops \cup R) = {} /\ DOMAIN stops \cap R = {}
  BY <1>5, <1>10 DEF Tells
<1>14. Tells(l, book, DOMAIN stops \cup R)
  BY <1>11, <1>12, <1>13 DEF Tells
<1>15. Agree(l, ledger, DOMAIN stops) /\ Agree(l, SweptLeft, R)
  BY <1>12 DEF Agree
<1>16. SweptStart.book = book /\ SweptStart.ledger = l
  BY DEF SweptStart, l, F
<1>17. CarryTold(SweptStart, R)
  BY <1>13, <1>14, <1>15, <1>16 DEF CarryTold
<1> QED
  BY <1>17 DEF R

LEMMA ClearTold ==
    ASSUME Structure, Typed, Apart, Told, ClearAuction
    PROVE  Told'
<1> DEFINE m == Len(ToCarry)
           p == ClearingPrice
           L == Leftover(auctionBook, p)
           K == Carried(auctionBook, p)
           R(i) == L \ {ToCarry[j] : j \in 1..i}
<1>1. CASE UNCHANGED <<book, ledger, swept>>
  <2>1. UNCHANGED <<stops, auctionBook, cascade>>
    BY DEF ClearAuction
  <2> QED
    BY <1>1, <2>1 DEF Told, Others, Waiting
<1>2. CASE book' = Cleared.book /\ ledger' = Cleared.ledger /\ swept' = DOMAIN auctionBook
  <2>1. /\ Numbered(auctionBook, orderSeq) /\ Orders(auctionBook) /\ GoodBook(book)
        /\ Orders(book) /\ positions \in [Users -> Int]
    BY DEF Structure, Typed
  <2>2. /\ Idle /\ clearTimer /\ UNCHANGED <<stops, auctionBook, cascade>>
    BY DEF ClearAuction
  <2>3. /\ \A i \in 1..m : ToCarry[i] \in DOMAIN auctionBook /\ SweptLeft[ToCarry[i]] \in Nat \ {0}
        /\ Lists(ToCarry, K)
    BY <2>1, CarriesSomething
  <2>4. m \in Nat
    BY <2>1, ClearingRuns
  <2>5. PICK C : ClearingRun(C)
    BY <2>1, ClearingRuns
  <2>6. /\ \A i \in 1..m : ToCarry[i] \in K
        /\ \A o \in K : \E i \in 1..m : ToCarry[i] = o
        /\ \A i, j \in 1..m : ToCarry[i] = ToCarry[j] => i = j
    BY <2>3, SequenceDomain DEF Lists
  <2>7. K \subseteq L /\ Gone = L \ K
    BY DEF Carried, Gone, Canceled, Leftover
  <2> HIDE DEF m, L, K, p
  <2>8. /\ C[0] = SweptStart /\ \A i \in 1..m : C[i] = CarryOver(C[i - 1], ToCarry[i])
        /\ Cleared = [C[m] EXCEPT !.ledger = Drop(@, Gone)]
    BY <2>5 DEF ClearingRun, m
  <2>9. R(0) = L /\ R(m) = Gone
    BY <2>4, <2>6, <2>7
  <2>10. ASSUME NEW i \in 1..m
         PROVE  ToCarry[i] \in R(i - 1) /\ R(i) = R(i - 1) \ {ToCarry[i]}
    <3>1. ToCarry[i] \in L
      BY <2>6, <2>7
    <3>2. \A j \in 1..(i - 1) : j \in 1..m /\ j # i
      BY <2>4
    <3>3. ToCarry[i] \notin {ToCarry[j] : j \in 1..(i - 1)}
      BY <2>6, <3>2
    <3>4. 1..i = 1..(i - 1) \cup {i}
      BY <2>4
    <3>5. {ToCarry[j] : j \in 1..i} = {ToCarry[j] : j \in 1..(i - 1)} \cup {ToCarry[i]}
      BY <3>4
    <3> QED
      BY <3>1, <3>3, <3>5
  <2> HIDE DEF R
  <2>11. CarryTyped(C[0]) /\ CarryTold(C[0], R(0))
    <3>1. CarryTyped(SweptStart)
      BY <2>1, StartTyped
    <3>2. CarryTold(SweptStart, L)
      BY <2>2, SweepTold DEF L, p
    <3> QED
      BY <3>1, <3>2, <2>8, <2>9
  <2> DEFINE T == {i \in Nat : i <= m /\ ~(CarryTyped(C[i]) /\ CarryTold(C[i], R(i)))}
  <2>12. T = {}
    <3> SUFFICES ASSUME T # {} PROVE FALSE
      OBVIOUS
    <3>1. PICK x \in T : \A y \in T : x <= y
      <4>1. T \subseteq Nat
        OBVIOUS
      <4> HIDE DEF T
      <4> QED
        BY <4>1, Least
    <3>2. x \in Nat /\ x <= m /\ ~(CarryTyped(C[x]) /\ CarryTold(C[x], R(x)))
      OBVIOUS
    <3>3. x # 0
      BY <3>2, <2>11
    <3>4. x - 1 \in Nat /\ x - 1 <= m /\ x \in 1..m
      BY <3>2, <3>3, <2>4
    <3>5. CarryTyped(C[x - 1]) /\ CarryTold(C[x - 1], R(x - 1))
      BY <3>1, <3>2, <3>4
    <3> DEFINE acc == C[x - 1]
               o == ToCarry[x]
               S == R(x - 1)
    <3>6. /\ o \in DOMAIN auctionBook /\ SweptLeft[o] \in Nat \ {0} /\ o \in S
          /\ C[x] = CarryOver(acc, o) /\ R(x) = S \ {o}
      BY <3>4, <2>3, <2>8, <2>10
    <3> HIDE DEF acc, o, S, T
    <3>7. CarryTyped(acc) /\ CarryTold(acc, S)
      BY <3>5 DEF acc, S
    <3>8. CarryTyped(CarryOver(acc, o))
      BY <3>6, <3>7, <2>1, CarryKeepsTypes
    <3>9. CarryTold(CarryOver(acc, o), S \ {o})
      BY <3>6, <3>7, <2>1, CarryTells
    <3> QED
      BY <3>2, <3>6, <3>8, <3>9
  <2>13. CarryTyped(C[m]) /\ CarryTold(C[m], Gone)
    <3>1. CarryTyped(C[m]) /\ CarryTold(C[m], R(m))
      BY <2>4, <2>12
    <3> QED
      BY <3>1, <2>9
  <2> DEFINE acc == C[m]
  <2> HIDE DEF acc
  <2>14. Cleared.book = acc.book /\ Cleared.ledger = Drop(acc.ledger, Gone)
    <3>1. /\ [acc EXCEPT !.ledger = Drop(@, Gone)].book = acc.book
          /\ [acc EXCEPT !.ledger = Drop(@, Gone)].ledger = Drop(acc.ledger, Gone)
      BY <2>13 DEF CarryTyped, acc
    <3> QED
      BY <3>1, <2>8 DEF acc
  <2>15. /\ DOMAIN stops \cap Gone = {} /\ Tells(acc.ledger, acc.book, DOMAIN stops \cup Gone)
         /\ Agree(acc.ledger, ledger, DOMAIN stops)
    BY <2>13 DEF CarryTold, acc
  <2>16. /\ DOMAIN ledger' = DOMAIN acc.ledger \ Gone
         /\ \A x \in DOMAIN ledger' : ledger'[x] = acc.ledger[x]
         /\ book' = acc.book
    BY <1>2, <2>14 DEF Drop, Restrict
  <2>17. DOMAIN ledger' = DOMAIN book' \cup DOMAIN stops
    BY <2>15, <2>16 DEF Tells
  <2>18. IdsIn(cascade) = {} /\ TodoIn(cascade) = {}
    BY <2>2, IdleHasNoIds, NothingToDo DEF Idle
  <2>19. Waiting' = {} /\ IdsIn(cascade') = {} /\ TodoIn(cascade') = {}
    BY <1>2, <2>2, <2>18 DEF Waiting
  <2>20. DOMAIN ledger' = DOMAIN book' \cup Others'
    BY <2>2, <2>17, <2>19 DEF Others
  <2>21. \A o \in DOMAIN book' : ledger'[o] = book'[o].qty
    BY <2>15, <2>16, <2>17 DEF Tells
  <2>22. \A o \in DOMAIN stops' : ledger'[o] = stops'[o].qty
    BY <2>2, <2>15, <2>16, <2>17 DEF Agree, Told, ToldStops
  <2> QED
    BY <2>19, <2>20, <2>21, <2>22 DEF Told, ToldStops
<1>3. \/ UNCHANGED <<book, ledger, swept>>
      \/ book' = Cleared.book /\ ledger' = Cleared.ledger /\ swept' = DOMAIN auctionBook
  BY DEF ClearAuction
<1> QED
  BY <1>1, <1>2, <1>3

LEMMA ToldStarts == Init => Told
<1> SUFFICES ASSUME Init PROVE Told
  OBVIOUS
<1>1. /\ DOMAIN book = {} /\ DOMAIN stops = {} /\ DOMAIN auctionBook = {} /\ DOMAIN ledger = {}
      /\ Idle /\ cascade = <<>>
  BY DEF Init, NoMap, Idle
<1>2. TodoIn(cascade) = {} /\ IdsIn(cascade) = {}
  BY <1>1, NothingToDo, IdleHasNoIds
<1> QED
  BY <1>1, <1>2 DEF Told, ToldStops, Others, Waiting

LEMMA ToldStays ==
    Structure /\ Typed /\ Apart /\ Told /\ [Next]_vars /\ [IdsApart]_vars => Told'
<1> SUFFICES ASSUME Structure, Typed, Apart, Told, [Next]_vars, [IdsApart]_vars PROVE Told'
  OBVIOUS
<1>1. ASSUME NEW c \in Commands, JoinAuction(c) PROVE Told'
  BY <1>1, JoinTold
<1>2. ASSUME NEW c \in Commands, QueueLimit(c) PROVE Told'
  BY <1>2, QueueTold
<1>3. ASSUME NEW c \in Commands, MatchLimit(c) PROVE Told'
  BY <1>3, LimitTold
<1>4. CASE UNCHANGED <<book, stops, cascade, auctionBook, swept, ledger>>
  BY <1>4 DEF Told, Others, Waiting
<1>5. ASSUME NEW c \in Commands, MatchMarket(c) PROVE Told'
  <2>1. CASE IdsApart
    BY <1>5, <2>1, MarketOrderTold DEF IdsApart
  <2>2. CASE UNCHANGED vars
    BY <2>2, <1>4 DEF vars
  <2> QED
    BY <2>1, <2>2
<1>6. ASSUME NEW c \in Commands, AddStop(c) PROVE Told'
  <2>1. CASE IdsApart
    BY <1>6, <2>1, AddStopTold DEF IdsApart
  <2>2. CASE UNCHANGED vars
    BY <2>2, <1>4 DEF vars
  <2> QED
    BY <2>1, <2>2
<1>7. ASSUME NEW o \in OrderIds, NEW u \in Users, CancelOrder(o, u) PROVE Told'
  BY <1>7, CancelTold
<1>8. CASE AdminHalt \/ AdminResume \/ TimePasses \/ OpenAuction \/ UNCHANGED vars
  <2>1. UNCHANGED <<book, stops, cascade, auctionBook, swept, ledger>>
    BY <1>8 DEF AdminHalt, AdminResume, TimePasses, OpenAuction, auction, vars
  <2> QED
    BY <2>1, <1>4
<1>9. CASE RunTriggered
  BY <1>9, RunTold
<1>10. CASE RejectTriggered
  BY <1>10, RejectTold
<1>11. CASE CheckReturns
  BY <1>11, ReturnTold
<1>12. CASE RunExpiryCheck
  BY <1>12, ExpiryTold
<1>13. CASE ClearAuction
  BY <1>13, ClearTold
<1>14. CASE Restart
  BY <1>14, RestartTold
<1> QED
  BY <1>1, <1>2, <1>3, <1>5, <1>6, <1>7, <1>8, <1>9, <1>10, <1>11, <1>12, <1>13, <1>14
  DEF Next, CascadeStep

LEMMA ToldHolds == Spec /\ [][IdsApart]_vars => [](Structure /\ Typed /\ Apart /\ Told)
<1>1. [IdsApart]_vars => [StopsApart]_vars
  BY DEF IdsApart, StopsApart
<1> QED
  BY <1>1, ToldStarts, ToldStays, ApartStarts, ApartStays, StructureHolds, TypedHolds, PTL
  DEF Spec

\* EventsTellTheBook, as far as the duplicate checks go: as long as no stop or market order is
\* sent under the id of an order that waits in the auction, a client that follows the events
\* knows which orders are open and how much is left of each, through matches, cascades,
\* expiry, the clearing of the auction and restarts.
THEOREM EventsTell == Spec /\ [][IdsApart]_vars => []EventsTellTheBook
<1>1. Told => EventsTellTheBook
  <2>1. TriggeredIds = IdsIn(cascade)
    BY DEF TriggeredIds, Todo, IdsIn, TodoIn
  <2> QED
    BY <2>1 DEF Told, ToldStops, Others, EventsTellTheBook
<1> QED
  BY <1>1, ToldHolds, PTL

\* TypeOK under the same condition: the ledger's quantities are those of orders.
THEOREM TypesHold == Spec /\ [][IdsApart]_vars => []TypeOK
<1>1. ASSUME Structure, Typed, Apart, Told PROVE TypeOK
  <2>1. DOMAIN stops \subseteq OrderIds /\ \A o \in DOMAIN stops : stops[o] \in Stop
    BY <1>1 DEF Structure, Pending
  <2>2. Tells(ledger, book, Others) /\ Others \subseteq OrderIds
    BY <1>1, ToldQuantities
  <2>3. Orders(book)
    BY <1>1 DEF Typed
  <2>4. DOMAIN ledger \subseteq OrderIds /\ \A o \in DOMAIN ledger : ledger[o] \in Nat \ {0}
    BY <2>2, <2>3 DEF Tells, Orders, Order
  <2>5. \A i \in DOMAIN cascade : \A k \in DOMAIN cascade[i].todo :
           cascade[i].todo[k].id \in OrderIds
    BY <1>1, InTodo, TodoTypes DEF Structure, Triggering
  <2>6. orderSeq \in Nat
    BY <1>1 DEF Structure
  <2>7. /\ DOMAIN book \subseteq OrderIds /\ \A o \in DOMAIN book : book[o] \in Order
        /\ DOMAIN auctionBook \subseteq OrderIds
        /\ \A o \in DOMAIN auctionBook : auctionBook[o] \in Order
    BY <1>1 DEF Typed, Orders
  <2> QED
    BY <1>1, <2>1, <2>4, <2>5, <2>6, <2>7 DEF Typed, TypeOK
<1> QED
  BY <1>1, ToldHolds, PTL

\* Where auctions run and no stop or market order is ever sent under the id of a limit order,
\* the missing checks are not missed: EventsTellTheBook and TypeOK hold.
THEOREM SeparateIdsTell ==
    ASSUME StopIdsApart, MarketIdsApart
    PROVE  Spec => []EventsTellTheBook /\ []TypeOK
<1>1. Init => LimitsOnly
  BY FeatureAssumption DEF Init, LimitsOnly, NoMap
<1>2. LimitsOnly => [IdsApart]_vars
  BY CommandAssumption DEF LimitsOnly, IdsApart, StopIdsApart, MarketIdsApart, Waiting,
     AddStop, MatchMarket, Command
<1>3. Spec => [][IdsApart]_vars
  BY <1>1, <1>2, LimitsOnlyStays, PTL DEF Spec
<1> QED
  BY <1>3, EventsTell, TypesHold, PTL
=============================================================================

--------------------------- MODULE StopBookProofs ---------------------------
(***************************************************************************)
(* Proofs about StopBook, for every set of orders, users, stops and prices *)
(* and every capacity: its types, that no slot of a pool is lost or handed *)
(* out twice, that what a reader of a level's linked list meets is the     *)
(* orders of its trigger price in order of arrival, and that StopBook      *)
(* implements PendingStops. All of them rest on the invariant that states  *)
(* the lists by their pointers.                                            *)
(***************************************************************************)
EXTENDS StopBook, SequenceTheorems, FiniteSetTheorems, WellFoundedInduction, TLAPS

------------------------------------------------------------------------------
(* Lemmas about the free stack of a pool.                                    *)

\* Releasing a slot that is not free.
LEMMA ReleaseSlot ==
    ASSUME NEW S, NEW q \in Seq(S), IsInjective(q), NEW x \in S, x \notin ToSet(q)
    PROVE  /\ Release(q, x) \in Seq(S)
           /\ IsInjective(Release(q, x))
           /\ ToSet(Release(q, x)) = ToSet(q) \cup {x}
<1> DEFINE r == Append(q, x)
<1>1. /\ r \in Seq(S) /\ Len(r) = Len(q) + 1
      /\ \A k \in 1..Len(q) : r[k] = q[k]
      /\ r[Len(q) + 1] = x
  BY AppendProperties
<1>2. Len(q) \in Nat /\ DOMAIN q = 1..Len(q)
  BY LenProperties
<1>3. DOMAIN r = 1..(Len(q) + 1)
  BY <1>1, LenProperties
<1> HIDE DEF r
<1>4. \A k \in 1..Len(q) : q[k] # x
  BY <1>2 DEF ToSet
<1>5. IsInjective(r)
  <2>1. \A j, k \in 1..Len(q) : q[j] = q[k] => j = k
    BY <1>2 DEF IsInjective
  <2> SUFFICES ASSUME NEW j \in 1..(Len(q) + 1), NEW k \in 1..(Len(q) + 1), r[j] = r[k]
               PROVE  j = k
    BY <1>3 DEF IsInjective
  <2> QED
    BY <2>1, <1>1, <1>2, <1>4
<1>6. ASSUME NEW y \in ToSet(r) PROVE y \in ToSet(q) \cup {x}
  <2>1. PICK k \in 1..(Len(q) + 1) : y = r[k]
    BY <1>6, <1>3 DEF ToSet
  <2> QED
    BY <2>1, <1>1, <1>2 DEF ToSet
<1>7. ASSUME NEW y \in ToSet(q) \cup {x} PROVE y \in ToSet(r)
  <2>1. CASE y = x
    <3>1. Len(q) + 1 \in 1..(Len(q) + 1)
      BY <1>2
    <3> QED
      BY <3>1, <2>1, <1>1, <1>3 DEF ToSet
  <2>2. CASE y \in ToSet(q)
    <3>1. PICK k \in 1..Len(q) : y = q[k]
      BY <2>2, <1>2 DEF ToSet
    <3>2. k \in 1..(Len(q) + 1)
      BY <1>2
    <3> QED
      BY <3>1, <3>2, <1>1, <1>3 DEF ToSet
  <2> QED
    BY <2>1, <2>2, <1>7
<1> QED
  BY <1>1, <1>5, <1>6, <1>7 DEF r, Release

\* Acquiring one: it was free, and is not any more.
LEMMA AcquireSlot ==
    ASSUME NEW S, NEW q \in Seq(S), IsInjective(q), ~Exhausted(q)
    PROVE  /\ NextSlot(q) \in ToSet(q) /\ NextSlot(q) \in S
           /\ Acquire(q) \in Seq(S)
           /\ IsInjective(Acquire(q))
           /\ ToSet(Acquire(q)) = ToSet(q) \ {NextSlot(q)}
<1> DEFINE n == Len(q)
           r == SubSeq(q, 1, n - 1)
<1>1. n \in Nat \ {0} /\ DOMAIN q = 1..n /\ \A k \in 1..n : q[k] \in S
  BY LenProperties, EmptySeq, ElementOfSeq DEF Exhausted
<1>2. NextSlot(q) = q[n] /\ n \in 1..n
  BY <1>1 DEF NextSlot, Last
<1>3. /\ r \in Seq(S) /\ Len(r) = n - 1
      /\ \A k \in 1..(n - 1) : r[k] = q[k]
  <2>1. 1 \in Int /\ n - 1 \in Int /\ \A k \in 1..(n - 1) : q[k] \in S
    BY <1>1
  <2> HIDE DEF n
  <2>2. /\ r \in Seq(S) /\ Len(r) = IF 1 <= n - 1 THEN n - 1 - 1 + 1 ELSE 0
        /\ \A k \in 1..(n - 1 - 1 + 1) : r[k] = q[1 + k - 1]
    BY <2>1, SubSeqProperties
  <2>3. \A k \in 1..(n - 1) : k \in 1..(n - 1 - 1 + 1) /\ 1 + k - 1 = k
    BY <1>1
  <2> QED
    BY <1>1, <2>2, <2>3
<1>4. DOMAIN r = 1..(n - 1)
  BY <1>3, LenProperties
<1>5. Acquire(q) = r
  BY DEF Acquire, Front
<1> HIDE DEF n, r
<1>6. \A j, k \in 1..n : q[j] = q[k] => j = k
  BY <1>1 DEF IsInjective
<1>7. IsInjective(r)
  BY <1>1, <1>3, <1>4, <1>6 DEF IsInjective
<1>8. ASSUME NEW y \in ToSet(r) PROVE y \in ToSet(q) \ {q[n]}
  <2>1. PICK k \in 1..(n - 1) : y = r[k]
    BY <1>4, <1>8 DEF ToSet
  <2>2. k \in 1..n /\ k # n /\ y = q[k]
    BY <2>1, <1>1, <1>3
  <2> QED
    BY <2>2, <1>1, <1>2, <1>6 DEF ToSet
<1>9. ASSUME NEW y \in ToSet(q) \ {q[n]} PROVE y \in ToSet(r)
  <2>1. PICK k \in 1..n : y = q[k]
    BY <1>1, <1>9 DEF ToSet
  <2>2. k \in 1..(n - 1)
    BY <2>1, <1>1, <1>9
  <2> QED
    BY <2>1, <2>2, <1>3, <1>4 DEF ToSet
<1>10. q[n] \in ToSet(q) /\ q[n] \in S
  BY <1>1, <1>2 DEF ToSet
<1> QED
  BY <1>2, <1>3, <1>5, <1>7, <1>8, <1>9, <1>10

\* A stack without repetitions is no higher than the pool is wide.
LEMMA StackFits ==
    ASSUME NEW capacity \in Nat, NEW q \in Seq(Slots(capacity)), IsInjective(q)
    PROVE  Len(q) <= capacity
<1>1. Len(q) \in Nat /\ q \in [1..Len(q) -> 1..capacity] /\ DOMAIN q = 1..Len(q)
  BY LenProperties DEF Slots
<1>2. q \in Injection(1..Len(q), 1..capacity)
  BY <1>1 DEF Injection
<1>3. /\ IsFiniteSet(1..capacity)
      /\ Cardinality(1..capacity) = capacity /\ Cardinality(1..Len(q)) = Len(q)
  <2>1. 1 \in Int /\ capacity \in Int /\ Len(q) \in Int
    BY <1>1
  <2>2. /\ IsFiniteSet(1..capacity)
        /\ Cardinality(1..capacity) = IF 1 > capacity THEN 0 ELSE capacity - 1 + 1
    BY <2>1, FS_Interval
  <2>3. Cardinality(1..Len(q)) = IF 1 > Len(q) THEN 0 ELSE Len(q) - 1 + 1
    BY <2>1, FS_Interval
  <2> QED
    BY <1>1, <2>2, <2>3
<1> QED
  BY <1>2, <1>3, FS_Injection

\* The full stack of a new pool.
LEMMA FullPool ==
    ASSUME NEW capacity \in Nat
    PROVE  /\ NewPool(capacity) \in Seq(Slots(capacity))
           /\ IsInjective(NewPool(capacity))
           /\ ToSet(NewPool(capacity)) = Slots(capacity)
<1> DEFINE q == NewPool(capacity)
<1>1. q = [i \in 1..capacity |-> capacity + 1 - i]
  BY DEF NewPool, Slots
<1>2. DOMAIN q = 1..capacity /\ \A i \in 1..capacity : q[i] = capacity + 1 - i
  BY <1>1
<1>3. \A i \in 1..capacity : capacity + 1 - i \in 1..capacity
  OBVIOUS
<1>4. q \in [1..capacity -> 1..capacity]
  BY <1>1, <1>3
<1>5. q \in Seq(1..capacity)
  <2> DEFINE t == SubSeq(q, 1, capacity)
             T == 1..capacity
  <2>1. /\ t \in Seq(T) /\ Len(t) = capacity
        /\ \A i \in 1..capacity : t[i] = q[i]
    <3>1. 1 \in Int /\ capacity \in Int /\ \A i \in 1..capacity : q[i] \in T
      BY <1>2, <1>3
    <3> HIDE DEF T, q
    <3>2. /\ t \in Seq(T) /\ Len(t) = IF 1 <= capacity THEN capacity - 1 + 1 ELSE 0
          /\ \A i \in 1..(capacity - 1 + 1) : t[i] = q[1 + i - 1]
      BY <3>1, SubSeqProperties
    <3>3. \A i \in 1..capacity : i \in 1..(capacity - 1 + 1) /\ 1 + i - 1 = i
      OBVIOUS
    <3> QED
      BY <3>2, <3>3
  <2>2. t \in [1..capacity -> T]
    BY <2>1, LenProperties
  <2>3. t = q
    BY <1>4, <2>1, <2>2
  <2> QED
    BY <2>1, <2>3
<1> HIDE DEF q
<1>6. IsInjective(q)
  BY <1>2 DEF IsInjective
<1>7. ASSUME NEW x \in 1..capacity PROVE x \in ToSet(q)
  <2>1. capacity + 1 - x \in 1..capacity /\ capacity + 1 - (capacity + 1 - x) = x
    OBVIOUS
  <2> QED
    BY <2>1, <1>2 DEF ToSet
<1>8. ToSet(q) \subseteq 1..capacity
  BY <1>2, <1>3 DEF ToSet
<1> QED
  BY <1>5, <1>6, <1>7, <1>8 DEF q, Slots

\* Taking the first element off a list without repetitions.
LEMMA TailOfList ==
    ASSUME NEW S, NEW q \in Seq(S), IsInjective(q), q # <<>>
    PROVE  /\ Head(q) \in ToSet(q) /\ Head(q) \in S
           /\ Tail(q) \in Seq(S)
           /\ IsInjective(Tail(q))
           /\ ToSet(Tail(q)) = ToSet(q) \ {Head(q)}
           /\ Len(q) = 1 => Tail(q) = <<>>
<1> DEFINE n == Len(q)
           r == Tail(q)
<1>1. n \in Nat \ {0} /\ DOMAIN q = 1..n /\ 1 \in 1..n
  BY LenProperties, EmptySeq
<1>2. /\ Head(q) \in S /\ r \in Seq(S) /\ Len(r) = n - 1
      /\ \A k \in 1..(n - 1) : r[k] = q[k + 1]
  BY HeadTailProperties
<1>3. DOMAIN r = 1..(n - 1)
  BY <1>2, LenProperties
<1>4. Head(q) = q[1]
  BY <1>1
<1> HIDE DEF n, r
<1>5. \A j, k \in 1..n : q[j] = q[k] => j = k
  BY <1>1 DEF IsInjective
<1>6. \A k \in 1..(n - 1) : k + 1 \in 1..n /\ k + 1 # 1
  BY <1>1
<1>7. IsInjective(r)
  BY <1>1, <1>2, <1>3, <1>5, <1>6 DEF IsInjective
<1>8. ASSUME NEW y \in ToSet(r) PROVE y \in ToSet(q) \ {q[1]}
  <2>1. PICK k \in 1..(n - 1) : y = r[k]
    BY <1>3, <1>8 DEF ToSet
  <2>2. k + 1 \in 1..n /\ y = q[k + 1] /\ q[k + 1] # q[1]
    BY <2>1, <1>1, <1>2, <1>5, <1>6
  <2> QED
    BY <2>2, <1>1 DEF ToSet
<1>9. ASSUME NEW y \in ToSet(q) \ {q[1]} PROVE y \in ToSet(r)
  <2>1. PICK k \in 1..n : y = q[k]
    BY <1>1, <1>9 DEF ToSet
  <2>2. k - 1 \in 1..(n - 1) /\ (k - 1) + 1 = k
    BY <2>1, <1>1, <1>9
  <2>3. r[k - 1] = q[(k - 1) + 1]
    BY <2>2, <1>2
  <2>4. y = r[k - 1]
    BY <2>1, <2>2, <2>3
  <2> QED
    BY <2>2, <2>4, <1>3 DEF ToSet
<1>10. n = 1 => r = <<>>
  BY <1>2, EmptySeq
<1>11. q[1] \in ToSet(q)
  BY <1>1 DEF ToSet
<1> QED
  BY <1>2, <1>4, <1>7, <1>8, <1>9, <1>10, <1>11 DEF n, r

------------------------------------------------------------------------------
(* Lemmas about maps.                                                        *)

LEMMA PutMap ==
    ASSUME NEW f, NEW k, k \notin DOMAIN f, NEW v
    PROVE  LET g == Put(f, k, v) IN
           /\ DOMAIN g = DOMAIN f \cup {k} /\ g[k] = v
           /\ \A x \in DOMAIN f : g[x] = f[x]
           /\ Range(g) = Range(f) \cup {v}
           /\ IsInjective(f) /\ v \notin Range(f) => IsInjective(g)
<1> DEFINE g == Put(f, k, v)
<1>1. /\ DOMAIN g = DOMAIN f \cup {k} /\ g[k] = v
      /\ \A x \in DOMAIN f : g[x] = f[x]
  BY DEF Put
<1> HIDE DEF g
<1>2. Range(g) = Range(f) \cup {v}
  BY <1>1 DEF Range
<1>3. ASSUME IsInjective(f), v \notin Range(f) PROVE IsInjective(g)
  <2>1. \A x \in DOMAIN f : f[x] # v
    BY <1>3 DEF Range
  <2> QED
    BY <1>1, <1>3, <2>1 DEF IsInjective
<1> QED
  BY <1>1, <1>2, <1>3 DEF g

LEMMA DeleteMap ==
    ASSUME NEW f, IsInjective(f), NEW k \in DOMAIN f
    PROVE  LET g == Delete(f, k) IN
           /\ DOMAIN g = DOMAIN f \ {k}
           /\ \A x \in DOMAIN f \ {k} : g[x] = f[x]
           /\ Range(g) = Range(f) \ {f[k]}
           /\ IsInjective(g)
<1> DEFINE g == Delete(f, k)
<1>1. /\ DOMAIN g = DOMAIN f \ {k}
      /\ \A x \in DOMAIN f \ {k} : g[x] = f[x]
  BY DEF Delete
<1> HIDE DEF g
<1>2. \A x \in DOMAIN f : f[x] = f[k] => x = k
  BY DEF IsInjective
<1>3. Range(g) = Range(f) \ {f[k]}
  BY <1>1, <1>2 DEF Range
<1>4. IsInjective(g)
  BY <1>1 DEF IsInjective
<1> QED
  BY <1>1, <1>3, <1>4 DEF g

------------------------------------------------------------------------------
(* The inductive invariant.                                                  *)

Used == Range(index)
LevelsInTree == Range(tree["Ask"]) \cup Range(tree["Bid"])

NodeRecord ==
    [id : Pointer(OrderIds), user : Pointer(Users), side : Side, trigger : Nat,
     expireAt : Nat, seq : Nat, prev : Pointer(NodeSlots), next : Pointer(NodeSlots),
     level : Pointer(LevelSlots)]
LevelRecord ==
    [price : Nat, head : Pointer(NodeSlots), tail : Pointer(NodeSlots), count : Nat]

NodeTypes ==
    /\ nodes \in [NodeSlots -> NodeRecord]
    /\ DOMAIN index \subseteq OrderIds /\ Used \subseteq NodeSlots

LevelTypes ==
    /\ levels \in [LevelSlots -> LevelRecord]
    /\ DOMAIN tree = Side
    /\ \A s \in Side : DOMAIN tree[s] \subseteq Prices /\ Range(tree[s]) \subseteq LevelSlots

ScanTypes ==
    /\ orderSeq \in Nat
    /\ pc \in Side \cup {"idle", "release", "expire", "panicked"}
    /\ price \in Pointer(Prices)
    /\ best \in Pointer(LevelSlots)
    /\ cursor \in Pointer(NodeSlots)
    /\ triggered \in Seq(OrderIds)
    /\ expired \subseteq NodeSlots

\* The slots of nodePool: free, used by an indexed order, or still to be released.
NodePartition ==
    /\ freeNodes \in Seq(NodeSlots) /\ removed \in Seq(NodeSlots)
    /\ IsInjective(freeNodes) /\ IsInjective(index) /\ IsInjective(removed)
    /\ ToSet(removed) \cap Used = {}
    /\ ToSet(freeNodes) = NodeSlots \ (Used \cup ToSet(removed))

LevelPartition ==
    /\ freeLevels \in Seq(LevelSlots)
    /\ IsInjective(freeLevels) /\ \A s \in Side : IsInjective(tree[s])
    /\ Range(tree["Ask"]) \cap Range(tree["Bid"]) = {}
    /\ ToSet(freeLevels) = LevelSlots \ LevelsInTree

\* What the running loop may hold on to.
Phases ==
    /\ best # Nil => pc \in Side /\ best \in Range(tree[pc])
    /\ pc # "expire" => expired = {}
    /\ pc \notin {"expire", "release"} => removed = <<>>
    /\ expired \subseteq Used
    /\ price # Nil <=> pc \in Side

\* The index and the orders agree, also when the process has panicked.
Indexed ==
    /\ \A o \in DOMAIN index : nodes[index[o]].id = o
    /\ \A n \in Used : nodes[n].seq <= orderSeq

\* An order is in the level its side and trigger price name; a free level is empty.
Placed ==
    /\ pc # "panicked" =>
          \A n \in Used : /\ nodes[n].trigger \in DOMAIN tree[nodes[n].side]
                          /\ nodes[n].level = tree[nodes[n].side][nodes[n].trigger]
    /\ \A s \in Side : \A p \in DOMAIN tree[s] : levels[tree[s][p]].price = p
    /\ \A l \in LevelSlots \ LevelsInTree : levels[l] = ZeroLevel

\* Where a level's list begins: of the level being drained, at the cursor.
First(l) == IF l = best THEN cursor ELSE levels[l].head

MembersOf(l) == {n \in Used : nodes[n].level = l}

\* Next and prev are inverse, and follow the order of arrival; only the first of a list has
\* no predecessor, and only the last no successor.  What a drain has passed is not mended:
\* the cursor's predecessor is a slot it has released.
NodesLinked ==
    \A n \in Used :
        /\ nodes[n].next # Nil => /\ nodes[n].next \in Used
                                  /\ nodes[nodes[n].next].level = nodes[n].level
                                  /\ nodes[nodes[n].next].prev = n
        /\ nodes[n].next = Nil /\ nodes[n].level # best => n = levels[nodes[n].level].tail
        /\ n = First(nodes[n].level) => /\ nodes[n].prev \notin Used
                                        /\ nodes[n].level # best => nodes[n].prev = Nil
        /\ n # First(nodes[n].level) => /\ nodes[n].prev \in Used
                                        /\ nodes[nodes[n].prev].level = nodes[n].level
                                        /\ nodes[nodes[n].prev].next = n
                                        /\ nodes[nodes[n].prev].seq < nodes[n].seq

LevelsLinked ==
    \A l \in LevelsInTree :
        /\ First(l) # Nil => First(l) \in MembersOf(l)
        /\ l # best => /\ First(l) # Nil
                       /\ levels[l].tail \in MembersOf(l)
                       /\ nodes[levels[l].tail].next = Nil
                       /\ levels[l].count = Cardinality(MembersOf(l))

Linked == pc # "panicked" => NodesLinked /\ LevelsLinked

BookInv == NodeTypes /\ LevelTypes /\ LevelPartition /\ Indexed /\ Placed /\ Linked

\* No tree of levels is endless, so that the highest sell stop exists.
Bounded == \A s \in Side : \E b \in Nat : \A p \in DOMAIN tree[s] : p <= b

IInv == ScanTypes /\ Phases /\ NodePartition /\ Bounded /\ BookInv

\* It gives the types and the partition of both pools.
LEMMA Consequences == IInv => TypeOK /\ SlotsPartition
<1> SUFFICES ASSUME IInv PROVE TypeOK /\ SlotsPartition
  OBVIOUS
<1> USE DEF IInv, BookInv
<1>1. NodeCap \in Nat /\ LevelCap \in Nat
  BY StopsAssumption
<1>2. Len(freeNodes) <= NodeCap
  BY <1>1, StackFits DEF NodePartition, NodeSlots
<1>3. Len(freeLevels) <= LevelCap
  BY <1>1, StackFits DEF LevelPartition, LevelSlots
<1>4. TypeOK
  BY <1>2, <1>3 DEF TypeOK, NodeTypes, LevelTypes, ScanTypes, NodePartition, LevelPartition,
                    NodeRecord, LevelRecord, Used
<1>5. SlotsPartition
  BY DEF SlotsPartition, NodePartition, LevelPartition, Used, LevelsInTree
<1> QED
  BY <1>4, <1>5

\* Of a set of numbers one is the least.
LEMMA Least ==
    ASSUME NEW T, T \subseteq Nat, T # {}
    PROVE  \E x \in T : \A y \in T : x <= y
<1> DEFINE R == {ss \in Nat \X Nat : ss[1] < ss[2]}
<1>1. IsWellFoundedOn(R, Nat)
  BY NatLessThanWellFounded DEF OpToRel
<1> HIDE DEF R
<1>2. PICK x \in T : \A y \in T : <<y, x>> \notin R
  BY <1>1, WFMin
<1>3. ASSUME NEW y \in T PROVE x <= y
  <2>1. <<y, x>> \in Nat \X Nat /\ <<y, x>>[1] = y /\ <<y, x>>[2] = x
    OBVIOUS
  <2>2. ~(y < x)
    BY <2>1, <1>2 DEF R
  <2>3. x \in Nat /\ y \in Nat
    OBVIOUS
  <2> QED
    BY <2>2, <2>3
<1> QED
  BY <1>3

\* Of the used slots some have been used first.
LEMMA Oldest ==
    ASSUME NodeTypes, NEW S \in SUBSET NodeSlots, S # {}
    PROVE  \E m \in S : \A k \in S : nodes[m].seq <= nodes[k].seq
<1> DEFINE T == {nodes[m].seq : m \in S}
<1>1. T \subseteq Nat /\ T # {}
  BY DEF NodeTypes, NodeRecord
<1>2. PICK x \in T : \A y \in T : x <= y
  BY <1>1, Least
<1>3. PICK m \in S : x = nodes[m].seq
  BY <1>2
<1> QED
  BY <1>2, <1>3

\* A slot is found under the id of its order, and under no other.
LEMMA IdOfSlot ==
    ASSUME NodeTypes, Indexed, IsInjective(index), NEW n \in Used
    PROVE  /\ nodes[n].id \in DOMAIN index /\ index[nodes[n].id] = n
           /\ LET ix == Delete(index, nodes[n].id) IN
              /\ DOMAIN ix = DOMAIN index \ {nodes[n].id}
              /\ \A o \in DOMAIN ix : ix[o] = index[o]
              /\ Range(ix) = Used \ {n}
              /\ IsInjective(ix)
<1>1. PICK o \in DOMAIN index : index[o] = n
  BY DEF Used, Range
<1>2. nodes[n].id = o
  BY <1>1 DEF Indexed
<1> DEFINE ix == Delete(index, o)
<1>3. /\ DOMAIN ix = DOMAIN index \ {o}
      /\ \A x \in DOMAIN index \ {o} : ix[x] = index[x]
      /\ Range(ix) = Range(index) \ {index[o]}
      /\ IsInjective(ix)
  BY DeleteMap
<1> HIDE DEF ix
<1>4. \A x \in DOMAIN ix : ix[x] = index[x]
  BY <1>3
<1> QED
  BY <1>1, <1>2, <1>3, <1>4 DEF Used, ix

\* The level of an order is in the tree, and in no other place of it.
LEMMA LevelOfSlot ==
    ASSUME IInv, pc # "panicked", NEW n \in Used
    PROVE  LET s == nodes[n].side
               p == nodes[n].trigger
               l == nodes[n].level
           IN  /\ s \in Side /\ p \in DOMAIN tree[s] /\ l = tree[s][p]
               /\ l \in LevelsInTree /\ l \in LevelSlots /\ levels[l].price = p
               /\ l \in Range(tree[s])
<1>1. nodes[n].side \in Side
  BY DEF IInv, BookInv, NodeTypes, NodeRecord
<1>2. /\ nodes[n].trigger \in DOMAIN tree[nodes[n].side]
      /\ nodes[n].level = tree[nodes[n].side][nodes[n].trigger]
      /\ levels[nodes[n].level].price = nodes[n].trigger
  BY <1>1 DEF IInv, BookInv, Placed
<1>3. nodes[n].level \in Range(tree[nodes[n].side])
  BY <1>2 DEF Range
<1> QED
  BY <1>1, <1>2, <1>3 DEF IInv, BookInv, LevelTypes, LevelsInTree, Side

\* A level leaves the tree.
LEMMA DropLevelTree ==
    ASSUME LevelTypes, LevelPartition, Placed,
           NEW s \in Side, NEW p \in DOMAIN tree[s], NEW l, l = tree[s][p], DropLevel(s, l)
    PROVE  /\ LevelTypes' /\ LevelPartition'
           /\ tree'[s] = Delete(tree[s], p) /\ DOMAIN tree'[s] = DOMAIN tree[s] \ {p}
           /\ \A t \in Side : t # s => tree'[t] = tree[t]
           /\ \A q \in DOMAIN tree'[s] : tree'[s][q] = tree[s][q] /\ tree[s][q] # l
           /\ LevelsInTree' = LevelsInTree \ {l} /\ l \in LevelsInTree
           /\ \A t \in Side : \A q \in DOMAIN tree'[t] :
                 q \in DOMAIN tree[t] /\ tree'[t][q] = tree[t][q]
           /\ \A t \in Side : t # s => l \notin Range(tree[t])
           /\ levels' = [levels EXCEPT ![l] = ZeroLevel]
<1>1. l \in LevelSlots /\ l \in Range(tree[s]) /\ levels[l].price = p
  BY DEF LevelTypes, Placed, Range
<1>2. /\ tree' = [tree EXCEPT ![s] = Delete(tree[s], p)]
      /\ levels' = [levels EXCEPT ![l] = ZeroLevel]
      /\ freeLevels' = Release(freeLevels, l)
  BY <1>1 DEF DropLevel
<1>3. /\ tree'[s] = Delete(tree[s], p) /\ DOMAIN tree' = Side
      /\ \A t \in Side : t # s => tree'[t] = tree[t]
  BY <1>2 DEF LevelTypes
<1>4. /\ DOMAIN tree'[s] = DOMAIN tree[s] \ {p}
      /\ \A q \in DOMAIN tree[s] \ {p} : tree'[s][q] = tree[s][q]
      /\ Range(tree'[s]) = Range(tree[s]) \ {l}
      /\ IsInjective(tree'[s])
  <2> DEFINE g == Delete(tree[s], p)
  <2>1. IsInjective(tree[s])
    BY DEF LevelPartition
  <2>2. /\ DOMAIN g = DOMAIN tree[s] \ {p}
        /\ \A x \in DOMAIN tree[s] \ {p} : g[x] = tree[s][x]
        /\ Range(g) = Range(tree[s]) \ {tree[s][p]}
        /\ IsInjective(g)
    BY <2>1, DeleteMap
  <2> HIDE DEF g
  <2>3. tree'[s] = g
    BY <1>3 DEF g
  <2> QED
    BY <2>2, <2>3
<1>5. \A q \in DOMAIN tree[s] \ {p} : tree[s][q] # l
  BY DEF LevelPartition, IsInjective
<1>6. \A t \in Side : t # s => l \notin Range(tree[t])
  BY <1>1 DEF LevelPartition, Side
<1>7. /\ LevelsInTree' = LevelsInTree \ {l} /\ l \in LevelsInTree
      /\ Range(tree'["Ask"]) \cap Range(tree'["Bid"]) = {}
  <2>1. CASE s = "Ask"
    BY <2>1, <1>1, <1>3, <1>4, <1>6 DEF LevelPartition, LevelsInTree, Side
  <2>2. CASE s = "Bid"
    BY <2>2, <1>1, <1>3, <1>4, <1>6 DEF LevelPartition, LevelsInTree, Side
  <2> QED
    BY <2>1, <2>2 DEF Side
<1>8. LevelTypes'
  <2>1. ZeroLevel \in LevelRecord
    BY DEF ZeroLevel, LevelRecord, Pointer
  <2>2. levels' \in [LevelSlots -> LevelRecord]
    BY <1>1, <1>2, <2>1 DEF LevelTypes
  <2>3. \A t \in Side : DOMAIN tree'[t] \subseteq Prices /\ Range(tree'[t]) \subseteq LevelSlots
    BY <1>3, <1>4 DEF LevelTypes
  <2> QED
    BY <1>3, <2>2, <2>3 DEF LevelTypes
<1>9. LevelPartition'
  <2>1. /\ freeLevels' \in Seq(LevelSlots) /\ IsInjective(freeLevels')
        /\ ToSet(freeLevels') = ToSet(freeLevels) \cup {l}
    BY <1>1, <1>2, <1>7, ReleaseSlot DEF LevelPartition
  <2>2. \A t \in Side : IsInjective(tree'[t])
    BY <1>3, <1>4 DEF LevelPartition
  <2>3. ToSet(freeLevels') = LevelSlots \ LevelsInTree'
    BY <2>1, <1>1, <1>7 DEF LevelPartition
  <2> QED
    BY <2>1, <2>2, <2>3, <1>7 DEF LevelPartition
<1>10. \A t \in Side : \A q \in DOMAIN tree'[t] :
          q \in DOMAIN tree[t] /\ tree'[t][q] = tree[t][q]
  BY <1>3, <1>4
<1> QED
  BY <1>2, <1>3, <1>4, <1>5, <1>6, <1>7, <1>8, <1>9, <1>10

\* Nil is not a slot.
LEMMA NilIsNoSlot == Nil \notin NodeSlots /\ Nil \notin LevelSlots
<1>1. NodeCap \in Nat /\ LevelCap \in Nat /\ Nil \notin Nat
  BY StopsAssumption
<1> QED
  BY <1>1 DEF NodeSlots, LevelSlots, Slots

\* How many of the slots are in a set.
LEMMA CountSlots ==
    ASSUME NEW S \in SUBSET NodeSlots, NEW n
    PROVE  /\ Cardinality(S) \in Nat
           /\ n \in S => Cardinality(S \ {n}) = Cardinality(S) - 1 /\ Cardinality(S) # 0
           /\ n \notin S => Cardinality(S \cup {n}) = Cardinality(S) + 1
<1>1. IsFiniteSet(NodeSlots)
  <2>1. 1 \in Int /\ NodeCap \in Int
    BY StopsAssumption
  <2> QED
    BY <2>1, FS_Interval DEF NodeSlots, Slots
<1>2. IsFiniteSet(S)
  BY <1>1, FS_Subset
<1>3. Cardinality(S) \in Nat
  BY <1>2, FS_CardinalityType
<1>4. n \in S => Cardinality(S \ {n}) = Cardinality(S) - 1 /\ Cardinality(S) # 0
  BY <1>2, FS_RemoveElement, FS_EmptySet
<1>5. n \notin S => Cardinality(S \cup {n}) = Cardinality(S) + 1
  BY <1>2, FS_AddElement
<1> QED
  BY <1>3, <1>4, <1>5

\* The stop book starts empty.
LEMMA InitInv == Init => IInv
<1> SUFFICES ASSUME Init PROVE IInv
  OBVIOUS
<1> USE DEF Init
<1>1. NodeCap \in Nat /\ LevelCap \in Nat /\ Nil \notin NodeSlots
  BY StopsAssumption DEF NodeSlots, Slots
<1>2. Used = {} /\ LevelsInTree = {} /\ ToSet(removed) = {}
  BY DEF Used, LevelsInTree, Range, NoMap, Side, ToSet
<1>3. /\ freeNodes \in Seq(NodeSlots) /\ IsInjective(freeNodes)
      /\ ToSet(freeNodes) = NodeSlots
  BY <1>1, FullPool DEF NodeSlots
<1>4. /\ freeLevels \in Seq(LevelSlots) /\ IsInjective(freeLevels)
      /\ ToSet(freeLevels) = LevelSlots
  BY <1>1, FullPool DEF LevelSlots
<1>5. ScanTypes /\ Phases
  BY <1>2, StopsAssumption DEF ScanTypes, Phases, Pointer, Side
<1>6. NodePartition
  <2>1. IsInjective(index)
    BY DEF IsInjective, NoMap
  <2>2. removed \in Seq(NodeSlots) /\ DOMAIN removed = {}
    BY EmptySeq
  <2>3. IsInjective(removed)
    BY <2>2 DEF IsInjective
  <2> QED
    BY <1>2, <1>3, <2>1, <2>2, <2>3 DEF NodePartition
<1>7. NodeTypes
  <2>1. ZeroNode \in NodeRecord
    BY DEF ZeroNode, NodeRecord, Pointer, Side
  <2> QED
    BY <1>2, <2>1 DEF NodeTypes, NoMap
<1>8. LevelTypes
  <2>1. ZeroLevel \in LevelRecord
    BY DEF ZeroLevel, LevelRecord, Pointer
  <2> QED
    BY <2>1 DEF LevelTypes, NoMap, Range
<1>9. LevelPartition
  BY <1>2, <1>4 DEF LevelPartition, IsInjective, NoMap, Range, Side
<1>10. Indexed /\ Placed
  BY <1>2 DEF Indexed, Placed, NoMap
<1>11. Linked
  BY <1>2 DEF Linked, NodesLinked, LevelsLinked
<1>12. Bounded
  <2>1. \A s \in Side : DOMAIN tree[s] = {} /\ 0 \in Nat
    BY DEF NoMap
  <2> QED
    BY <2>1 DEF Bounded
<1> QED
  BY <1>5, <1>6, <1>7, <1>8, <1>9, <1>10, <1>11, <1>12 DEF IInv, BookInv

------------------------------------------------------------------------------
(* Taking an order out of its list.                                          *)

\* What Unlink does to the nodes, field by field.
LEMMA UnlinkedFields ==
    ASSUME NodeTypes, NEW n \in NodeSlots, nodes[n].prev # n, nodes[n].next # n
    PROVE  LET u == Unlinked(n) IN
           /\ u \in [NodeSlots -> NodeRecord]
           /\ \A m \in NodeSlots :
                /\ u[m].id = nodes[m].id /\ u[m].user = nodes[m].user
                /\ u[m].side = nodes[m].side /\ u[m].trigger = nodes[m].trigger
                /\ u[m].expireAt = nodes[m].expireAt /\ u[m].seq = nodes[m].seq
           /\ u[n].prev = Nil /\ u[n].next = Nil /\ u[n].level = Nil
           /\ \A m \in NodeSlots \ {n} :
                /\ u[m].level = nodes[m].level
                /\ u[m].next = IF m = nodes[n].prev THEN nodes[n].next ELSE nodes[m].next
                /\ u[m].prev = IF m = nodes[n].next THEN nodes[n].prev ELSE nodes[m].prev
<1> DEFINE alone == [nodes EXCEPT ![n].prev = Nil, ![n].next = Nil, ![n].level = Nil]
           u == Unlinked(n)
           p == nodes[n].prev
           q == nodes[n].next
<1>1. /\ \A m \in NodeSlots \ {n} : alone[m] = nodes[m]
      /\ \A m \in NodeSlots : nodes[m] \in NodeRecord
  BY DEF NodeTypes
<1>2. alone[n] = [nodes[n] EXCEPT !.prev = Nil, !.next = Nil, !.level = Nil]
  BY DEF NodeTypes
<1>a. [nodes[n] EXCEPT !.prev = Nil, !.next = Nil, !.level = Nil]
        = [x \in DOMAIN nodes[n] |-> IF x \in {"prev", "next", "level"} THEN Nil
                                                                    ELSE nodes[n][x]]
  BY <1>1 DEF NodeRecord
<1>b. DOMAIN nodes[n] = {"id", "user", "side", "trigger", "expireAt", "seq", "prev", "next",
                         "level"}
  BY <1>1 DEF NodeRecord
<1>4. /\ alone[n].id = nodes[n].id /\ alone[n].user = nodes[n].user
      /\ alone[n].side = nodes[n].side /\ alone[n].trigger = nodes[n].trigger
      /\ alone[n].expireAt = nodes[n].expireAt /\ alone[n].seq = nodes[n].seq
      /\ alone[n].prev = Nil /\ alone[n].next = Nil /\ alone[n].level = Nil
  BY <1>2, <1>a, <1>b
<1>3. alone[n] \in NodeRecord
  BY <1>1, <1>2, <1>a, <1>b DEF NodeRecord, Pointer
<1> HIDE DEF alone
<1>5. u = [m \in NodeSlots |->
              [alone[m] EXCEPT !.next = IF m = p THEN q ELSE @,
                               !.prev = IF m = q THEN p ELSE @]]
  BY DEF Unlinked, alone
<1>6. p \in Pointer(NodeSlots) /\ q \in Pointer(NodeSlots) /\ p # n /\ q # n
  BY DEF NodeTypes, NodeRecord
<1> HIDE DEF u, p, q
<1>7. ASSUME NEW m \in NodeSlots
      PROVE  /\ u[m] \in NodeRecord
             /\ u[m].id = alone[m].id /\ u[m].user = alone[m].user
             /\ u[m].side = alone[m].side /\ u[m].trigger = alone[m].trigger
             /\ u[m].expireAt = alone[m].expireAt /\ u[m].seq = alone[m].seq
             /\ u[m].level = alone[m].level
             /\ u[m].next = IF m = p THEN q ELSE alone[m].next
             /\ u[m].prev = IF m = q THEN p ELSE alone[m].prev
  <2>1. alone[m] \in NodeRecord
    BY <1>1, <1>3
  <2>2. u[m] = [alone[m] EXCEPT !.next = IF m = p THEN q ELSE @,
                                !.prev = IF m = q THEN p ELSE @]
    BY <1>5
  <2> QED
    BY <2>1, <2>2, <1>6 DEF NodeRecord
<1>8. u \in [NodeSlots -> NodeRecord]
  BY <1>5, <1>7
<1>9. \A m \in NodeSlots :
                /\ u[m].id = nodes[m].id /\ u[m].user = nodes[m].user
                /\ u[m].side = nodes[m].side /\ u[m].trigger = nodes[m].trigger
                /\ u[m].expireAt = nodes[m].expireAt /\ u[m].seq = nodes[m].seq
  BY <1>1, <1>4, <1>7
<1>10. u[n].prev = Nil /\ u[n].next = Nil /\ u[n].level = Nil
  BY <1>4, <1>6, <1>7
<1>11. \A m \in NodeSlots \ {n} :
                /\ u[m].level = nodes[m].level
                /\ u[m].next = IF m = p THEN q ELSE nodes[m].next
                /\ u[m].prev = IF m = q THEN p ELSE nodes[m].prev
  BY <1>1, <1>7
<1> QED
  BY <1>8, <1>9, <1>10, <1>11 DEF u, p, q

\* What Unlink does to the level.
LEMMA ShortenedFields ==
    ASSUME NodeTypes, LevelTypes, NEW n \in NodeSlots, nodes[n].level \in LevelSlots
    PROVE  LET l == levels[nodes[n].level]
               t == Shortened(n)
           IN  /\ t.head = IF nodes[n].prev = Nil THEN nodes[n].next ELSE l.head
               /\ t.tail = IF nodes[n].next = Nil THEN nodes[n].prev ELSE l.tail
               /\ t.count = l.count - 1 /\ t.price = l.price
               /\ l.count # 0 => t \in LevelRecord
<1> DEFINE l == levels[nodes[n].level]
           t == Shortened(n)
           h == IF nodes[n].prev = Nil THEN nodes[n].next ELSE l.head
           z == IF nodes[n].next = Nil THEN nodes[n].prev ELSE l.tail
<1>1. t = [l EXCEPT !.head = h, !.tail = z, !.count = l.count - 1]
  BY DEF Shortened
<1>2. l \in LevelRecord
  BY DEF LevelTypes
<1>3. h \in Pointer(NodeSlots) /\ z \in Pointer(NodeSlots)
  BY <1>2 DEF LevelRecord, NodeTypes, NodeRecord
<1>4. l.count # 0 => l.count - 1 \in Nat
  BY <1>2 DEF LevelRecord
<1> HIDE DEF l, t, h, z
<1>5. DOMAIN l = {"price", "head", "tail", "count"}
  BY <1>2 DEF LevelRecord
<1>6. t.head = h /\ t.tail = z /\ t.count = l.count - 1 /\ t.price = l.price
  BY <1>1, <1>5
<1>7. ASSUME l.count # 0 PROVE t \in LevelRecord
  <2> DEFINE c == l.count - 1
  <2>1. c \in Nat
    BY <1>4, <1>7
  <2>2. t = [l EXCEPT !.head = h, !.tail = z, !.count = c]
    BY <1>1
  <2> HIDE DEF c
  <2> QED
    BY <2>1, <2>2, <1>2, <1>3 DEF LevelRecord
<1> QED
  BY <1>6, <1>7 DEF h, z, l, t

\* Where an order stands in its list, when no level is being drained.
LEMMA Neighbours ==
    ASSUME IInv, pc # "panicked", best = Nil, NEW n \in Used
    PROVE  LET p == nodes[n].prev
               q == nodes[n].next
               l == nodes[n].level
           IN  /\ p # n /\ q # n /\ n \in NodeSlots
               /\ l \in LevelsInTree /\ l \in LevelSlots /\ l # Nil
               /\ p = Nil <=> n = levels[l].head
               /\ p # Nil => /\ p \in Used /\ nodes[p].level = l /\ nodes[p].next = n
                             /\ nodes[p].seq < nodes[n].seq
               /\ q = Nil <=> n = levels[l].tail
               /\ q # Nil => /\ q \in Used /\ nodes[q].level = l /\ nodes[q].prev = n
                             /\ nodes[n].seq < nodes[q].seq
               /\ levels[l].head \in MembersOf(l) /\ levels[l].tail \in MembersOf(l)
               /\ nodes[levels[l].tail].next = Nil
               /\ levels[l].count = Cardinality(MembersOf(l))
               /\ p = Nil /\ q = Nil => MembersOf(l) = {n}
<1> DEFINE p == nodes[n].prev
           q == nodes[n].next
           l == nodes[n].level
<1>1. Used \subseteq NodeSlots /\ Nil \notin Used /\ Nil \notin LevelSlots
  BY NilIsNoSlot DEF IInv, BookInv, NodeTypes
<1>2. NodesLinked /\ LevelsLinked
  BY DEF IInv, BookInv, Linked
<1>3. l \in LevelsInTree /\ l \in LevelSlots /\ l # Nil
  BY <1>1, LevelOfSlot
<1>4. /\ First(l) = levels[l].head
      /\ levels[l].head \in MembersOf(l) /\ levels[l].tail \in MembersOf(l)
      /\ nodes[levels[l].tail].next = Nil
      /\ levels[l].count = Cardinality(MembersOf(l))
  BY <1>2, <1>3 DEF LevelsLinked, First
<1>5. \A m \in Used : nodes[m].seq \in Nat
  BY <1>1 DEF IInv, BookInv, NodeTypes, NodeRecord
<1>6. /\ q # Nil => q \in Used /\ nodes[q].level = l /\ nodes[q].prev = n
      /\ q = Nil => n = levels[l].tail
      /\ n = First(l) => p = Nil
      /\ n # First(l) => /\ p \in Used /\ nodes[p].level = l /\ nodes[p].next = n
                         /\ nodes[p].seq < nodes[n].seq
  BY <1>2, <1>3 DEF NodesLinked
<1>7. p = Nil <=> n = levels[l].head
  BY <1>1, <1>4, <1>6
<1>8. q = Nil <=> n = levels[l].tail
  BY <1>4, <1>6
<1>9. p # n
  BY <1>1, <1>5, <1>6
<1>10. q # n
  BY <1>1, <1>6, <1>9
<1>11. q # Nil => nodes[n].seq < nodes[q].seq
  <2> SUFFICES ASSUME q # Nil PROVE nodes[n].seq < nodes[q].seq
    OBVIOUS
  <2>1. q \in Used /\ nodes[q].level = l /\ nodes[q].prev = n
    BY <1>6
  <2>2. q # First(l)
    BY <1>2, <1>3, <2>1 DEF NodesLinked
  <2> QED
    BY <1>2, <2>1, <2>2 DEF NodesLinked
<1>12. ASSUME p = Nil, q = Nil PROVE MembersOf(l) = {n}
  <2> DEFINE S == MembersOf(l) \ {n}
  <2>1. S \subseteq NodeSlots /\ n \in MembersOf(l)
    BY <1>1 DEF MembersOf
  <2>2. ASSUME S # {} PROVE FALSE
    <3>1. PICK m \in S : \A k \in S : nodes[m].seq <= nodes[k].seq
      BY <2>1, <2>2, Oldest DEF IInv, BookInv
    <3>2. m \in Used /\ nodes[m].level = l /\ m # First(l)
      BY <3>1, <1>4, <1>7, <1>12 DEF MembersOf
    <3>3. /\ nodes[m].prev \in Used /\ nodes[nodes[m].prev].level = l
          /\ nodes[nodes[m].prev].next = m /\ nodes[nodes[m].prev].seq < nodes[m].seq
      BY <1>2, <3>2 DEF NodesLinked
    <3>4. nodes[m].prev # n
      BY <1>1, <1>12, <3>2, <3>3
    <3>5. nodes[m].prev \in S
      BY <3>3, <3>4 DEF MembersOf
    <3> QED
      BY <1>5, <3>1, <3>2, <3>3, <3>5
  <2> QED
    BY <2>1, <2>2
<1>13. n \in NodeSlots
  BY <1>1
<1>14. p # Nil => /\ p \in Used /\ nodes[p].level = l /\ nodes[p].next = n
                  /\ nodes[p].seq < nodes[n].seq
  BY <1>6
<1> QED
  BY <1>3, <1>4, <1>6, <1>7, <1>8, <1>9, <1>10, <1>11, <1>12, <1>13, <1>14

\* A step does not touch what says where an order belongs.
KeepsPlace(m) ==
    /\ nodes'[m].side = nodes[m].side /\ nodes'[m].trigger = nodes[m].trigger
    /\ nodes'[m].seq = nodes[m].seq

\* Taking an order out leaves the book a book.
LEMMA TakeOutInv ==
    ASSUME IInv, best = Nil, pc \in {"idle", "expire"}, NEW n \in Used, TakeOut(n),
           UNCHANGED <<best, cursor, orderSeq>>, pc' # "panicked"
    PROVE  /\ BookInv' /\ IsInjective(index') /\ Used' = Used \ {n}
           /\ index' = Delete(index, nodes[n].id)
           /\ \A m \in NodeSlots : KeepsPlace(m)
<1> DEFINE p == nodes[n].prev
           q == nodes[n].next
           l == nodes[n].level
           ix == Delete(index, nodes[n].id)
           u == Unlinked(n)
           t == Shortened(n)
<1>1. /\ NodeTypes /\ LevelTypes /\ LevelPartition /\ Indexed /\ Placed
      /\ IsInjective(index) /\ pc # "panicked" /\ NodesLinked /\ LevelsLinked
  BY DEF IInv, BookInv, NodePartition, Linked
<1>2. /\ p # n /\ q # n /\ n \in NodeSlots
      /\ l \in LevelsInTree /\ l \in LevelSlots /\ l # Nil
      /\ p = Nil <=> n = levels[l].head
      /\ p # Nil => /\ p \in Used /\ nodes[p].level = l /\ nodes[p].next = n
                    /\ nodes[p].seq < nodes[n].seq
      /\ q = Nil <=> n = levels[l].tail
      /\ q # Nil => /\ q \in Used /\ nodes[q].level = l /\ nodes[q].prev = n
                    /\ nodes[n].seq < nodes[q].seq
      /\ levels[l].head \in MembersOf(l) /\ levels[l].tail \in MembersOf(l)
      /\ nodes[levels[l].tail].next = Nil
      /\ levels[l].count = Cardinality(MembersOf(l))
      /\ p = Nil /\ q = Nil => MembersOf(l) = {n}
  BY <1>1, Neighbours
<1>3. /\ nodes[n].side \in Side /\ nodes[n].trigger \in DOMAIN tree[nodes[n].side]
      /\ l = tree[nodes[n].side][nodes[n].trigger]
  BY <1>1, LevelOfSlot
<1>4. Used \subseteq NodeSlots /\ Nil \notin Used /\ Nil \notin LevelSlots
  BY <1>1, NilIsNoSlot DEF NodeTypes
<1>5. /\ DOMAIN ix = DOMAIN index \ {nodes[n].id}
      /\ \A o \in DOMAIN ix : ix[o] = index[o]
      /\ Range(ix) = Used \ {n}
      /\ IsInjective(ix)
  BY <1>1, IdOfSlot
<1>6. /\ u \in [NodeSlots -> NodeRecord]
      /\ \A m \in NodeSlots :
            /\ u[m].id = nodes[m].id /\ u[m].user = nodes[m].user
            /\ u[m].side = nodes[m].side /\ u[m].trigger = nodes[m].trigger
            /\ u[m].expireAt = nodes[m].expireAt /\ u[m].seq = nodes[m].seq
      /\ u[n].prev = Nil /\ u[n].next = Nil /\ u[n].level = Nil
      /\ \A m \in NodeSlots \ {n} :
            /\ u[m].level = nodes[m].level
            /\ u[m].next = IF m = p THEN q ELSE nodes[m].next
            /\ u[m].prev = IF m = q THEN p ELSE nodes[m].prev
  BY <1>1, <1>2, UnlinkedFields
<1>7. /\ t.head = IF p = Nil THEN q ELSE levels[l].head
      /\ t.tail = IF q = Nil THEN p ELSE levels[l].tail
      /\ t.count = levels[l].count - 1 /\ t.price = levels[l].price
      /\ levels[l].count # 0 => t \in LevelRecord
  BY <1>1, <1>2, ShortenedFields
<1>8. /\ index' = ix /\ nodes' = u
      /\ IF t.head = Nil
         THEN DropLevel(nodes[n].side, l)
         ELSE levels' = [levels EXCEPT ![l] = t] /\ UNCHANGED <<tree, freeLevels>>
  BY DEF TakeOut
<1>9. Used' = Used \ {n} /\ IsInjective(index') /\ index' = Delete(index, nodes[n].id)
  BY <1>5, <1>8 DEF Used
<1> HIDE DEF p, q, l, ix, u, t
<1>10. NodeTypes'
  BY <1>1, <1>5, <1>6, <1>8, <1>9 DEF NodeTypes
<1>11. Indexed'
  <2>1. \A o \in DOMAIN index' : nodes'[index'[o]].id = o
    BY <1>1, <1>5, <1>6, <1>8 DEF Indexed, NodeTypes, Used, Range
  <2>2. \A m \in Used' : nodes'[m].seq <= orderSeq'
    BY <1>1, <1>4, <1>6, <1>8, <1>9 DEF Indexed
  <2> QED
    BY <2>1, <2>2 DEF Indexed
<1>12. \A k : MembersOf(k)' = MembersOf(k) \ {n}
  BY <1>4, <1>6, <1>8, <1>9 DEF MembersOf
<1>13. \A m \in Used : nodes[m].level \in LevelsInTree /\ nodes[m].level \in LevelSlots
  BY <1>1, LevelOfSlot
<1>14. \A k \in LevelSlots : First(k) = levels[k].head /\ First(k)' = levels'[k].head
  BY <1>4 DEF First
<1>15. \A m \in Used : LET k == nodes[m].level IN
          /\ nodes[m].next # Nil => /\ nodes[m].next \in Used
                                    /\ nodes[nodes[m].next].level = k
                                    /\ nodes[nodes[m].next].prev = m
          /\ nodes[m].next = Nil => m = levels[k].tail
          /\ m = levels[k].head => nodes[m].prev = Nil
          /\ m # levels[k].head => /\ nodes[m].prev \in Used
                                   /\ nodes[nodes[m].prev].level = k
                                   /\ nodes[nodes[m].prev].next = m
                                   /\ nodes[nodes[m].prev].seq < nodes[m].seq
  BY <1>1, <1>4, <1>13, <1>14 DEF NodesLinked
<1>16. \A k \in LevelsInTree :
          /\ levels[k].head \in MembersOf(k) /\ levels[k].tail \in MembersOf(k)
          /\ nodes[levels[k].tail].next = Nil
          /\ levels[k].count = Cardinality(MembersOf(k))
  BY <1>1, <1>4, <1>14 DEF LevelsLinked, LevelTypes, LevelsInTree, Side
<1>17. CASE t.head = Nil
  <2>1. DropLevel(nodes[n].side, l)
    BY <1>8, <1>17
  <2> DEFINE s == nodes[n].side
             a == nodes[n].trigger
  <2> HIDE DEF s, a
  <2>2. s \in Side /\ a \in DOMAIN tree[s] /\ l = tree[s][a] /\ DropLevel(s, l)
    BY <1>3, <2>1 DEF s, a
  <2>3. /\ LevelTypes' /\ LevelPartition'
        /\ tree'[s] = Delete(tree[s], a) /\ DOMAIN tree'[s] = DOMAIN tree[s] \ {a}
        /\ \A x \in Side : x # s => tree'[x] = tree[x]
        /\ \A y \in DOMAIN tree'[s] : tree'[s][y] = tree[s][y] /\ tree[s][y] # l
        /\ LevelsInTree' = LevelsInTree \ {l} /\ l \in LevelsInTree
        /\ \A x \in Side : \A y \in DOMAIN tree'[x] :
              y \in DOMAIN tree[x] /\ tree'[x][y] = tree[x][y]
        /\ \A x \in Side : x # s => l \notin Range(tree[x])
        /\ levels' = [levels EXCEPT ![l] = ZeroLevel]
    BY <1>1, <2>2, DropLevelTree
  <2>4. p = Nil /\ q = Nil /\ MembersOf(l) = {n}
    BY <1>2, <1>4, <1>7, <1>17 DEF MembersOf
  <2>5. \A m \in Used' : nodes[m].level # l
    BY <1>9, <2>4 DEF MembersOf
  <2>6. \A k \in LevelSlots : k # l => levels'[k] = levels[k]
    BY <2>3, <1>1 DEF LevelTypes
  <2>7. \A m \in Used' : nodes'[m].level = nodes[m].level /\ nodes'[m].next = nodes[m].next
                         /\ nodes'[m].prev = nodes[m].prev /\ nodes'[m].seq = nodes[m].seq
                         /\ nodes'[m].side = nodes[m].side
                         /\ nodes'[m].trigger = nodes[m].trigger /\ m \in Used /\ m # n
    BY <1>4, <1>6, <1>8, <1>9, <2>4
  <2>8. Placed'
    <3>1. ASSUME NEW m \in Used'
          PROVE  /\ nodes'[m].trigger \in DOMAIN tree'[nodes'[m].side]
                 /\ nodes'[m].level = tree'[nodes'[m].side][nodes'[m].trigger]
      <4>1. /\ m \in Used /\ nodes[m].side \in Side
            /\ nodes[m].trigger \in DOMAIN tree[nodes[m].side]
            /\ nodes[m].level = tree[nodes[m].side][nodes[m].trigger]
        BY <2>7, <1>1, LevelOfSlot
      <4>2. nodes[m].trigger \in DOMAIN tree'[nodes[m].side]
        BY <4>1, <2>2, <2>3, <2>5
      <4> QED
        BY <4>1, <4>2, <2>3, <2>7
    <3>2. ASSUME NEW x \in Side, NEW y \in DOMAIN tree'[x] PROVE levels'[tree'[x][y]].price = y
      <4>1. /\ y \in DOMAIN tree[x] /\ tree'[x][y] = tree[x][y] /\ tree[x][y] \in LevelSlots
            /\ tree[x][y] \in Range(tree[x])
        BY <2>3, <1>1 DEF LevelTypes, Range
      <4>2. tree[x][y] # l
        BY <2>3, <4>1
      <4> QED
        BY <4>1, <4>2, <2>6, <1>1 DEF Placed
    <3>3. ASSUME NEW k \in LevelSlots \ LevelsInTree' PROVE levels'[k] = ZeroLevel
      BY <3>3, <2>3, <2>6, <1>1 DEF Placed, LevelTypes
    <3> QED
      BY <3>1, <3>2, <3>3 DEF Placed
  <2>9. NodesLinked'
    <3> SUFFICES ASSUME NEW m \in Used'
                 PROVE  LET k == nodes'[m].level IN
                        /\ nodes'[m].next # Nil => /\ nodes'[m].next \in Used'
                                                   /\ nodes'[nodes'[m].next].level = k
                                                   /\ nodes'[nodes'[m].next].prev = m
                        /\ nodes'[m].next = Nil => m = levels'[k].tail
                        /\ m = levels'[k].head => nodes'[m].prev = Nil
                        /\ m # levels'[k].head =>
                              /\ nodes'[m].prev \in Used'
                              /\ nodes'[nodes'[m].prev].level = k
                              /\ nodes'[nodes'[m].prev].next = m
                              /\ nodes'[nodes'[m].prev].seq < nodes'[m].seq
      BY <1>4, <1>9, <1>13, <1>14, <2>7 DEF NodesLinked
    <3> DEFINE k == nodes[m].level
    <3>1. m \in Used /\ m # n /\ k # l /\ k \in LevelSlots /\ levels'[k] = levels[k]
      BY <2>5, <2>6, <2>7, <1>13
    <3>2. \A x \in Used : nodes[x].level = k => x \in Used'
      BY <1>9, <3>1 DEF l
    <3> QED
      BY <3>1, <3>2, <1>15, <2>7
  <2>10. LevelsLinked'
    <3> SUFFICES ASSUME NEW k \in LevelsInTree'
                 PROVE  /\ levels'[k].head \in MembersOf(k)' /\ levels'[k].tail \in MembersOf(k)'
                        /\ nodes'[levels'[k].tail].next = Nil
                        /\ levels'[k].count = Cardinality(MembersOf(k)')
      <4>1. LevelsInTree' \subseteq LevelSlots
        BY <2>3 DEF LevelTypes, LevelsInTree, Side
      <4>2. \A k \in LevelsInTree' : Nil \notin MembersOf(k)'
        BY <1>4, <1>12 DEF MembersOf
      <4> QED
        BY <4>1, <4>2, <1>4, <1>14 DEF LevelsLinked
    <3>1. k \in LevelsInTree /\ k # l /\ k \in LevelSlots /\ levels'[k] = levels[k]
      BY <2>3, <2>6 DEF LevelTypes, LevelsInTree, Side
    <3>2. MembersOf(k)' = MembersOf(k) /\ n \notin MembersOf(k)
      BY <1>12, <3>1 DEF MembersOf, l
    <3>3. levels[k].tail \in Used'
      BY <1>9, <1>16, <3>1, <3>2 DEF MembersOf
    <3> QED
      BY <1>16, <2>7, <3>1, <3>2, <3>3
  <2> QED
    BY <1>6, <1>8, <1>9, <1>10, <1>11, <2>3, <2>8, <2>9, <2>10
       DEF BookInv, Linked, KeepsPlace
<1>18. CASE t.head # Nil
  <2>1. levels' = [levels EXCEPT ![l] = t] /\ UNCHANGED <<tree, freeLevels>>
    BY <1>8, <1>18
  <2>2. /\ levels'[l] = t /\ \A k \in LevelSlots : k # l => levels'[k] = levels[k]
    BY <2>1, <1>1, <1>2 DEF LevelTypes
  <2>3. LevelsInTree' = LevelsInTree /\ LevelPartition'
    BY <1>1, <2>1 DEF LevelPartition, LevelsInTree
  <2>4. n \in MembersOf(l) /\ MembersOf(l) \subseteq NodeSlots
    BY <1>4 DEF MembersOf, l
  <2>5. t.count = Cardinality(MembersOf(l) \ {n}) /\ levels[l].count # 0
    BY <1>2, <1>7, <2>4, CountSlots
  <2>6. LevelTypes'
    <3>1. t \in LevelRecord
      BY <1>7, <2>5
    <3> QED
      BY <3>1, <1>1, <2>1 DEF LevelTypes
  <2>7. Placed'
    <3>1. \A k \in LevelSlots : levels'[k].price = levels[k].price
      BY <1>7, <2>2
    <3>2. \A x \in Side : \A y \in DOMAIN tree[x] : tree[x][y] \in LevelSlots
      BY <1>1 DEF LevelTypes, Range
    <3>3. \A k \in LevelSlots \ LevelsInTree : levels'[k] = ZeroLevel
      BY <1>1, <1>2, <2>2 DEF Placed
    <3>4. ASSUME NEW m \in Used'
          PROVE  /\ nodes'[m].trigger \in DOMAIN tree'[nodes'[m].side]
                 /\ nodes'[m].level = tree'[nodes'[m].side][nodes'[m].trigger]
      <4>1. m \in Used /\ m # n
        BY <1>9
      <4> QED
        BY <4>1, <1>1, <1>4, <1>6, <1>8, <2>1 DEF Placed
    <3>5. \A x \in Side : \A y \in DOMAIN tree'[x] : levels'[tree'[x][y]].price = y
      BY <1>1, <2>1, <3>1, <3>2 DEF Placed
    <3> QED
      BY <2>3, <3>3, <3>4, <3>5 DEF Placed
  <2>8. NodesLinked'
    <3> SUFFICES ASSUME NEW m \in Used'
                 PROVE  LET k == nodes'[m].level IN
                        /\ nodes'[m].next # Nil => /\ nodes'[m].next \in Used'
                                                   /\ nodes'[nodes'[m].next].level = k
                                                   /\ nodes'[nodes'[m].next].prev = m
                        /\ nodes'[m].next = Nil => m = levels'[k].tail
                        /\ m = levels'[k].head => nodes'[m].prev = Nil
                        /\ m # levels'[k].head =>
                              /\ nodes'[m].prev \in Used'
                              /\ nodes'[nodes'[m].prev].level = k
                              /\ nodes'[nodes'[m].prev].next = m
                              /\ nodes'[nodes'[m].prev].seq < nodes'[m].seq
      BY <1>4, <1>6, <1>8, <1>9, <1>13, <1>14 DEF NodesLinked
    <3> DEFINE k == nodes[m].level
    <3>1. m \in Used /\ m # n /\ k \in LevelSlots /\ m \in NodeSlots /\ nodes'[m].level = k
      BY <1>4, <1>6, <1>8, <1>9, <1>13
    <3>2. \A x \in Used : x # n => /\ nodes'[x].level = nodes[x].level /\ x \in Used'
                                   /\ nodes'[x].seq = nodes[x].seq
                                   /\ nodes'[x].next = IF x = p THEN q ELSE nodes[x].next
                                   /\ nodes'[x].prev = IF x = q THEN p ELSE nodes[x].prev
      BY <1>4, <1>6, <1>8, <1>9
    <3>3. nodes[n].prev = p /\ nodes[n].next = q /\ nodes[n].level = l
      BY DEF p, q, l
    <3>4. nodes'[m].next # Nil => /\ nodes'[m].next \in Used'
                                  /\ nodes'[nodes'[m].next].level = k
                                  /\ nodes'[nodes'[m].next].prev = m
      <4> SUFFICES ASSUME nodes'[m].next # Nil
                   PROVE  /\ nodes'[m].next \in Used'
                          /\ nodes'[nodes'[m].next].level = k
                          /\ nodes'[nodes'[m].next].prev = m
        OBVIOUS
      <4>1. CASE m = p
        <5>1. nodes'[m].next = q /\ q # Nil /\ p # Nil
          BY <4>1, <1>4, <3>1, <3>2
        <5>2. q \in Used /\ q # n /\ nodes[q].level = l /\ nodes[p].level = l
          BY <5>1, <1>2
        <5> QED
          BY <4>1, <5>1, <5>2, <3>2
      <4>2. CASE m # p
        <5> DEFINE x == nodes[m].next
        <5>1. nodes'[m].next = x /\ x # Nil
          BY <4>2, <3>1, <3>2
        <5>2. x \in Used /\ nodes[x].level = k /\ nodes[x].prev = m
          BY <5>1, <3>1, <1>15
        <5>3. x # n
          BY <4>2, <5>2, <3>3
        <5>4. x # q
          BY <5>1, <5>2, <3>1, <1>2
        <5> HIDE DEF x, k
        <5> QED
          BY <5>1, <5>2, <5>3, <5>4, <3>2
      <4> QED
        BY <4>1, <4>2
    <3>5. nodes'[m].next = Nil => m = levels'[k].tail
      <4>1. CASE m = p
        BY <4>1, <1>2, <1>4, <1>7, <2>2, <3>1, <3>2
      <4>2. CASE m # p
        BY <4>2, <1>2, <1>7, <1>15, <2>2, <3>1, <3>2
      <4> QED
        BY <4>1, <4>2
    <3>6. m = levels'[k].head => nodes'[m].prev = Nil
      <4>1. CASE k # l
        BY <4>1, <1>2, <1>4, <1>15, <2>2, <3>1, <3>2
      <4>2. CASE k = l
        BY <4>2, <1>2, <1>4, <1>7, <1>15, <2>2, <3>1, <3>2
      <4> QED
        BY <4>1, <4>2
    <3>7. m # levels'[k].head => /\ nodes'[m].prev \in Used'
                                 /\ nodes'[nodes'[m].prev].level = k
                                 /\ nodes'[nodes'[m].prev].next = m
                                 /\ nodes'[nodes'[m].prev].seq < nodes'[m].seq
      <4>1. CASE m = q
        <5>1. /\ \A x \in Used : nodes[x].seq \in Nat
          BY <1>1, <1>4 DEF NodeTypes, NodeRecord
        <5> HIDE DEF k
        <5>2. nodes[m].level = k
          BY DEF k
        <5> QED
          BY <4>1, <5>1, <5>2, <1>2, <1>4, <1>7, <2>2, <3>1, <3>2
      <4>2. CASE m # q /\ k # l
        BY <4>2, <1>2, <1>4, <1>15, <2>2, <3>1, <3>2, <3>3
      <4>3. CASE m # q /\ k = l
        BY <4>3, <1>2, <1>4, <1>7, <1>15, <2>2, <3>1, <3>2, <3>3
      <4> QED
        BY <4>1, <4>2, <4>3
    <3> QED
      BY <3>1, <3>4, <3>5, <3>6, <3>7
  <2>9. LevelsLinked'
    <3> SUFFICES ASSUME NEW k \in LevelsInTree
                 PROVE  /\ levels'[k].head \in MembersOf(k)' /\ levels'[k].tail \in MembersOf(k)'
                        /\ nodes'[levels'[k].tail].next = Nil
                        /\ levels'[k].count = Cardinality(MembersOf(k)')
      <4>1. LevelsInTree' \subseteq LevelSlots
        BY <1>1, <2>3 DEF LevelTypes, LevelsInTree, Side
      <4>2. \A k \in LevelsInTree' : Nil \notin MembersOf(k)'
        BY <1>4, <1>12 DEF MembersOf
      <4> QED
        BY <4>1, <4>2, <2>3, <1>4, <1>14 DEF LevelsLinked
    <3>1. k \in LevelSlots
      BY <1>1 DEF LevelTypes, LevelsInTree, Side
    <3>2. \A x \in Used \ {n} : nodes'[x].next = IF x = p THEN q ELSE nodes[x].next
      BY <1>4, <1>6, <1>8
    <3>3. CASE k # l
      <4>1. n \notin MembersOf(k) /\ (p # Nil => p \notin MembersOf(k))
        BY <3>3, <1>2 DEF MembersOf, l
      <4>2. MembersOf(k)' = MembersOf(k)
        BY <4>1, <1>12
      <4>3. levels[k].tail \in Used \ {n} /\ levels[k].tail # p
        BY <4>1, <1>4, <1>16 DEF MembersOf
      <4> QED
        BY <4>2, <4>3, <1>16, <2>2, <3>1, <3>2, <3>3
    <3>4. CASE k = l
      <4>1. MembersOf(k)' = MembersOf(k) \ {n} /\ levels'[k] = t
        BY <1>12, <2>2, <3>4
      <4>2. t.head \in MembersOf(l) \ {n}
        BY <1>2, <1>7, <1>18 DEF MembersOf
      <4>3. t.tail \in MembersOf(l) \ {n} /\ nodes'[t.tail].next = Nil
        <5>1. CASE q = Nil
          <6>1. p # Nil
            BY <5>1, <1>7, <1>18
          <6>2. p \in Used \ {n} /\ p \in MembersOf(l)
            BY <6>1, <1>2 DEF MembersOf
          <6> QED
            BY <5>1, <6>2, <1>7, <3>2
        <5>2. CASE q # Nil
          <6>1. levels[l].tail # n /\ levels[l].tail \in Used
            BY <5>2, <1>2 DEF MembersOf
          <6>2. levels[l].tail # p
            BY <6>1, <1>2, <1>4
          <6> QED
            BY <5>2, <6>1, <6>2, <1>2, <1>7, <3>2
        <5> QED
          BY <5>1, <5>2
      <4> QED
        BY <4>1, <4>2, <4>3, <2>5, <3>4
    <3> QED
      BY <3>3, <3>4
  <2> QED
    BY <1>6, <1>8, <1>9, <1>10, <1>11, <2>3, <2>6, <2>7, <2>8, <2>9
       DEF BookInv, Linked, KeepsPlace
<1> QED
  BY <1>17, <1>18

------------------------------------------------------------------------------
(* The steps, one lemma each.                                                *)

\* A step that leaves the book alone.
LEMMA SameBook ==
    ASSUME IInv, pc # "panicked",
           UNCHANGED <<nodes, levels, freeLevels, tree, index, orderSeq, best, cursor>>
    PROVE  Bounded' /\ BookInv'
<1>1. Used' = Used /\ LevelsInTree' = LevelsInTree
  BY DEF Used, LevelsInTree
<1>2. \A k : MembersOf(k)' = MembersOf(k) /\ First(k)' = First(k)
  BY <1>1 DEF MembersOf, First
<1>3. NodeTypes' /\ LevelTypes' /\ LevelPartition' /\ Bounded'
  BY <1>1 DEF IInv, BookInv, NodeTypes, LevelTypes, LevelPartition, Bounded
<1>4. Indexed' /\ Placed'
  BY <1>1 DEF IInv, BookInv, Indexed, Placed
<1>5. Linked'
  BY <1>1, <1>2 DEF IInv, BookInv, Linked, NodesLinked, LevelsLinked
<1> QED
  BY <1>3, <1>4, <1>5 DEF BookInv

\* Taking an order out removes at most a level.
LEMMA TakeOutBounded ==
    ASSUME IInv, pc # "panicked", NEW n \in Used, TakeOut(n)
    PROVE  Bounded'
<1>1. \A s \in Side : DOMAIN tree'[s] \subseteq DOMAIN tree[s]
  BY DEF TakeOut, DropLevel, Delete, IInv, BookInv, LevelTypes
<1> QED
  BY <1>1 DEF IInv, Bounded

LEMMA CancelStopInv ==
    ASSUME IInv, NEW o \in OrderIds, NEW u \in Users, CancelStop(o, u)
    PROVE  IInv'
<1> DEFINE n == index[o]
<1>1. n \in Used /\ pc = "idle" /\ pc' = "release" /\ TakeOut(n) /\ removed' = <<n>>
      /\ UNCHANGED <<freeNodes, orderSeq, scan, expired>>
  BY DEF CancelStop, Used, Range
<1> HIDE DEF n
<1>2. /\ best = Nil /\ removed = <<>> /\ expired = {} /\ price = Nil
  BY <1>1 DEF IInv, Phases, Side
<1>3. BookInv' /\ IsInjective(index') /\ Used' = Used \ {n}
  BY <1>1, <1>2, TakeOutInv DEF scan
<1>4. Bounded'
  BY <1>1, TakeOutBounded
<1>5. ScanTypes' /\ Phases'
  BY <1>1, <1>2 DEF IInv, ScanTypes, Phases, scan, Side
<1>6. NodePartition'
  <2>1. n \in NodeSlots
    BY <1>1 DEF IInv, BookInv, NodeTypes
  <2>2. /\ removed' \in Seq(NodeSlots) /\ IsInjective(removed') /\ ToSet(removed') = {n}
    BY <1>1, <2>1 DEF IsInjective, ToSet
  <2>3. ToSet(removed) = {}
    BY <1>2 DEF ToSet
  <2> QED
    BY <1>1, <1>3, <2>1, <2>2, <2>3 DEF IInv, NodePartition
<1> QED
  BY <1>3, <1>4, <1>5, <1>6 DEF IInv

LEMMA ExpireOneInv ==
    ASSUME IInv, NEW n \in NodeSlots, ExpireOne(n)
    PROVE  IInv'
<1>1. /\ n \in expired /\ pc = "expire" /\ TakeOut(n) /\ expired' = expired \ {n}
      /\ removed' = Append(removed, n)
      /\ pc' = IF expired = {n} THEN "release" ELSE "expire"
      /\ UNCHANGED <<freeNodes, orderSeq, scan>>
  BY DEF ExpireOne
<1>2. n \in Used /\ best = Nil /\ price = Nil
  BY <1>1 DEF IInv, Phases, Side
<1>3. BookInv' /\ IsInjective(index') /\ Used' = Used \ {n}
  BY <1>1, <1>2, TakeOutInv DEF scan
<1>4. Bounded'
  BY <1>1, <1>2, TakeOutBounded
<1>5. ScanTypes' /\ Phases'
  BY <1>1, <1>2, <1>3 DEF IInv, ScanTypes, Phases, scan, Side
<1>6. NodePartition'
  <2>1. n \notin ToSet(removed)
    BY <1>2 DEF IInv, NodePartition
  <2>2. /\ removed' \in Seq(NodeSlots) /\ IsInjective(removed')
        /\ ToSet(removed') = ToSet(removed) \cup {n}
    BY <1>1, <2>1, ReleaseSlot DEF IInv, NodePartition, Release
  <2> QED
    BY <1>1, <1>2, <1>3, <2>2 DEF IInv, NodePartition
<1> QED
  BY <1>3, <1>4, <1>5, <1>6 DEF IInv

LEMMA ReleaseNodeInv == ASSUME IInv, ReleaseNode PROVE IInv'
<1> DEFINE h == Head(removed)
<1>1. /\ pc = "release" /\ removed # <<>> /\ removed' = Tail(removed)
      /\ nodes' = [nodes EXCEPT ![h] = ZeroNode] /\ freeNodes' = Release(freeNodes, h)
      /\ pc' = IF Len(removed) = 1 THEN "idle" ELSE "release"
      /\ UNCHANGED <<levels, freeLevels, tree, index, orderSeq, scan, expired>>
  BY DEF ReleaseNode
<1>2. /\ h \in ToSet(removed) /\ h \in NodeSlots /\ Tail(removed) \in Seq(NodeSlots)
      /\ IsInjective(Tail(removed)) /\ ToSet(Tail(removed)) = ToSet(removed) \ {h}
      /\ Len(removed) = 1 => Tail(removed) = <<>>
  BY <1>1, TailOfList DEF IInv, NodePartition
<1> HIDE DEF h
<1>3. h \notin Used /\ h \notin ToSet(freeNodes)
  BY <1>2 DEF IInv, NodePartition
<1>4. /\ freeNodes' \in Seq(NodeSlots) /\ IsInjective(freeNodes')
      /\ ToSet(freeNodes') = ToSet(freeNodes) \cup {h}
  BY <1>1, <1>2, <1>3, ReleaseSlot DEF IInv, NodePartition
<1>5. Used' = Used /\ LevelsInTree' = LevelsInTree
  BY <1>1 DEF Used, LevelsInTree
<1>6. NodePartition'
  BY <1>1, <1>2, <1>4, <1>5 DEF IInv, NodePartition
<1>7. ScanTypes' /\ Phases'
  BY <1>1, <1>2, <1>5 DEF IInv, ScanTypes, Phases, scan, Side
<1>8. Used \subseteq NodeSlots /\ \A m \in Used : nodes'[m] = nodes[m]
  BY <1>1, <1>3 DEF IInv, BookInv, NodeTypes
<1>9. \A k : MembersOf(k)' = MembersOf(k) /\ First(k)' = First(k)
  BY <1>1, <1>5, <1>8 DEF MembersOf, First, scan
<1>10. NodeTypes'
  <2>1. ZeroNode \in NodeRecord
    BY DEF ZeroNode, NodeRecord, Pointer, Side
  <2> QED
    BY <1>1, <1>2, <1>5, <2>1 DEF IInv, BookInv, NodeTypes
<1>11. LevelTypes' /\ LevelPartition' /\ Bounded'
  BY <1>1, <1>5 DEF IInv, BookInv, LevelTypes, LevelPartition, Bounded
<1>12. Indexed' /\ Placed'
  <2>1. \A o \in DOMAIN index : index[o] \in Used
    BY DEF Used, Range
  <2> QED
    BY <1>1, <1>5, <1>8, <2>1 DEF IInv, BookInv, Indexed, Placed
<1>13. Linked'
  <2>1. NodesLinked /\ LevelsLinked
    BY <1>1 DEF IInv, BookInv, Linked
  <2>2. NodesLinked'
    BY <1>1, <1>5, <1>8, <1>9, <2>1 DEF NodesLinked, scan
  <2>3. LevelsLinked'
    <3>1. \A k : MembersOf(k) \subseteq Used
      BY DEF MembersOf
    <3> QED
      BY <3>1, <1>1, <1>5, <1>8, <1>9, <2>1 DEF LevelsLinked, scan
  <2> QED
    BY <2>2, <2>3 DEF Linked
<1> QED
  BY <1>6, <1>7, <1>10, <1>11, <1>12, <1>13 DEF IInv, BookInv

\* CheckTriggers, SellsDone, BuysDone and ExpireGTD start and end the loops.
LEMMA LoopsInv ==
    ASSUME IInv,
           \/ \E p \in Prices : CheckTriggers(p)
           \/ SellsDone \/ BuysDone
           \/ \E t \in Times : ExpireGTD(t)
    PROVE  IInv'
<1>1. Nil \notin Prices
  BY StopsAssumption
<1>2. /\ pc # "panicked" /\ UNCHANGED <<pools, tree, index, orderSeq, best, cursor, removed>>
  BY DEF CheckTriggers, SellsDone, BuysDone, ExpireGTD, Between, Scanning, Side, scan
<1>3. Bounded' /\ BookInv' /\ Used' = Used
  BY <1>2, SameBook DEF pools, Used
<1>4. NodePartition'
  BY <1>2, <1>3 DEF IInv, NodePartition, pools
<1>5. ScanTypes' /\ Phases'
  <2>1. ASSUME NEW p \in Prices, CheckTriggers(p) PROVE ScanTypes' /\ Phases'
    BY <1>1, <1>3, <2>1 DEF IInv, ScanTypes, Phases, CheckTriggers, Pointer, Side
  <2>2. ASSUME SellsDone PROVE ScanTypes' /\ Phases'
    BY <1>3, <2>2 DEF IInv, ScanTypes, Phases, SellsDone, Between, Scanning, Side, scan
  <2>3. ASSUME BuysDone PROVE ScanTypes' /\ Phases'
    BY <1>3, <2>3 DEF IInv, ScanTypes, Phases, BuysDone, Between, Scanning, Side, Pointer
  <2>4. ASSUME NEW t \in Times, ExpireGTD(t) PROVE ScanTypes' /\ Phases'
    <3>1. Due(t) \subseteq Used /\ Used \subseteq NodeSlots
      BY DEF Due, Used, Range, IInv, BookInv, NodeTypes
    <3> QED
      BY <1>3, <2>4, <3>1 DEF IInv, ScanTypes, Phases, ExpireGTD, Side, scan
  <2> QED
    BY <2>1, <2>2, <2>3, <2>4
<1> QED
  BY <1>3, <1>4, <1>5 DEF IInv

\* Best finds the level it looks for.
LEMMA BestExists ==
    ASSUME LevelTypes, Bounded, NEW s \in Side, DOMAIN tree[s] # {}
    PROVE  /\ Best(s) \in DOMAIN tree[s]
           /\ \A q \in DOMAIN tree[s] : IF s = "Ask" THEN Best(s) >= q ELSE Best(s) <= q
<1> DEFINE D == DOMAIN tree[s]
           R == {ss \in Nat \X Nat : ss[1] < ss[2]}
<1>1. IsWellFoundedOn(R, Nat)
  BY NatLessThanWellFounded DEF OpToRel
<1>2. D \subseteq Nat /\ D # {}
  BY StopsAssumption DEF LevelTypes
<1>3. \A x, y \in Nat : <<x, y>> \in R <=> x < y
  OBVIOUS
<1> HIDE DEF R
<1>4. ASSUME NEW T \in SUBSET Nat, T # {} PROVE \E x \in T : \A y \in T : x <= y
  <2>1. PICK x \in T : \A y \in T : <<y, x>> \notin R
    BY <1>1, <1>4, WFMin
  <2>2. \A y \in T : ~(y < x) /\ x \in Nat /\ y \in Nat
    BY <2>1, <1>3, <1>4
  <2>3. \A y \in T : x <= y
    BY <2>2
  <2> QED
    BY <2>3
<1>5. \E p \in D : \A q \in D : IF s = "Ask" THEN p >= q ELSE p <= q
  <2>1. CASE s = "Ask"
    <3> DEFINE T == {b \in Nat : \A q \in D : q <= b}
    <3>1. T # {}
      BY DEF Bounded
    <3>2. PICK b \in T : \A c \in T : b <= c
      BY <3>1, <1>4
    <3>3. b \in D
      <4> SUFFICES ASSUME b \notin D PROVE FALSE
        OBVIOUS
      <4>1. \A q \in D : q \in Nat /\ q <= b /\ q # b
        BY <1>2
      <4>2. b \in Nat /\ b # 0
        BY <4>1, <1>2
      <4>3. b - 1 \in T
        BY <4>1, <4>2
      <4> QED
        BY <3>2, <4>2, <4>3
    <3>4. \A q \in D : b >= q
      BY <1>2
    <3> QED
      BY <2>1, <3>3, <3>4
  <2>2. CASE s # "Ask"
    BY <2>2, <1>2, <1>4
  <2> QED
    BY <2>1, <2>2
<1> QED
  BY <1>5 DEF Best

LEMMA EnterLevelInv == ASSUME IInv, EnterLevel PROVE IInv'
<1> DEFINE l == tree[pc][Best(pc)]
<1>1. /\ pc \in Side /\ best = Nil /\ DOMAIN tree[pc] # {} /\ best' = l
      /\ cursor' = levels[l].head
      /\ UNCHANGED <<pools, tree, index, orderSeq, pc, price, triggered, expired, removed>>
  BY DEF EnterLevel, Between, Scanning, NextReached
<1>2. Best(pc) \in DOMAIN tree[pc]
  BY <1>1, BestExists DEF IInv, BookInv
<1>3. l \in Range(tree[pc]) /\ l \in LevelSlots /\ l \in LevelsInTree
  BY <1>1, <1>2 DEF Range, IInv, BookInv, LevelTypes, LevelsInTree, Side
<1> HIDE DEF l
<1>4. Used' = Used /\ LevelsInTree' = LevelsInTree
  BY <1>1 DEF Used, LevelsInTree
<1>5. NodePartition' /\ Bounded'
  BY <1>1, <1>4 DEF IInv, NodePartition, Bounded, pools
<1>6. ScanTypes' /\ Phases'
  <2>1. cursor' \in Pointer(NodeSlots)
    BY <1>1, <1>3 DEF IInv, BookInv, LevelTypes, LevelRecord
  <2> QED
    BY <2>1, <1>1, <1>3, <1>4 DEF IInv, ScanTypes, Phases, Pointer, Side
<1>7. NodeTypes' /\ LevelTypes' /\ LevelPartition' /\ Indexed' /\ Placed'
  BY <1>1, <1>4 DEF IInv, BookInv, NodeTypes, LevelTypes, LevelPartition, Indexed, Placed,
                    pools
<1>8. \A k : MembersOf(k)' = MembersOf(k)
  BY <1>1, <1>4 DEF MembersOf, pools
<1>9. \A k \in LevelSlots : First(k)' = First(k)
  BY <1>1, NilIsNoSlot DEF First, pools
<1>10. \A m \in Used : nodes[m].level \in LevelSlots
  BY <1>1, LevelOfSlot DEF Side
<1>11. LevelsInTree \subseteq LevelSlots
  BY DEF IInv, BookInv, LevelTypes, LevelsInTree, Side
<1>12. NodesLinked /\ LevelsLinked
  BY <1>1 DEF IInv, BookInv, Linked, Side
<1>13. NodesLinked'
  <2>1. \A m \in Used : nodes[m].level # best
    BY <1>1, <1>10, NilIsNoSlot
  <2> QED
    BY <2>1, <1>1, <1>4, <1>9, <1>10, <1>12 DEF NodesLinked, pools
<1>14. LevelsLinked'
  <2>1. \A k \in LevelsInTree : k # best
    BY <1>1, <1>11, NilIsNoSlot
  <2> QED
    BY <2>1, <1>1, <1>4, <1>8, <1>9, <1>11, <1>12 DEF LevelsLinked, pools
<1> QED
  BY <1>5, <1>6, <1>7, <1>13, <1>14 DEF IInv, BookInv, Linked

LEMMA DrainNodeInv == ASSUME IInv, DrainNode PROVE IInv'
<1> DEFINE n == cursor
           q == nodes[n].next
           ix == Delete(index, nodes[n].id)
<1>1. /\ pc \in Side /\ best # Nil /\ n # Nil /\ cursor' = q
      /\ triggered' = Append(triggered, nodes[n].id)
      /\ index' = ix /\ nodes' = [nodes EXCEPT ![n] = ZeroNode]
      /\ freeNodes' = Release(freeNodes, n)
      /\ UNCHANGED <<levels, freeLevels, tree, orderSeq, pc, price, best, expired, removed>>
  BY DEF DrainNode, AtLevel, Scanning
<1>2. /\ NodeTypes /\ LevelTypes /\ LevelPartition /\ Indexed /\ Placed /\ NodesLinked
      /\ LevelsLinked /\ IsInjective(index) /\ pc # "panicked"
  BY <1>1 DEF IInv, BookInv, NodePartition, Linked, Side
<1>3. /\ best \in LevelsInTree /\ best \in LevelSlots /\ expired = {} /\ removed = <<>>
  BY <1>1, <1>2 DEF IInv, Phases, LevelsInTree, Side, LevelTypes
<1>4. First(best) = n /\ n \in Used /\ nodes[n].level = best
  BY <1>1, <1>2, <1>3 DEF LevelsLinked, First, MembersOf
<1>5. /\ q # Nil => q \in Used /\ nodes[q].level = best /\ nodes[q].prev = n
      /\ nodes[n].prev \notin Used
  BY <1>2, <1>4 DEF NodesLinked
<1>6. q # n
  BY <1>4, <1>5, <1>2, NilIsNoSlot DEF NodeTypes
<1>7. /\ nodes[n].id \in DOMAIN index /\ DOMAIN ix = DOMAIN index \ {nodes[n].id}
      /\ \A o \in DOMAIN ix : ix[o] = index[o]
      /\ Range(ix) = Used \ {n}
      /\ IsInjective(ix)
  BY <1>2, <1>4, IdOfSlot
<1>8. Used \subseteq NodeSlots /\ Nil \notin Used
  BY <1>2, NilIsNoSlot DEF NodeTypes
<1> HIDE DEF n, q, ix
<1>9. Used' = Used \ {n} /\ LevelsInTree' = LevelsInTree /\ IsInjective(index')
  BY <1>1, <1>7 DEF Used, LevelsInTree
<1>10. n \in NodeSlots /\ n \notin ToSet(freeNodes)
  BY <1>4, <1>8 DEF IInv, NodePartition
<1>11. \A m \in Used' : nodes'[m] = nodes[m] /\ m \in Used /\ m # n
  BY <1>1, <1>2, <1>8, <1>9 DEF NodeTypes
<1>12. NodePartition'
  <2>1. /\ freeNodes' \in Seq(NodeSlots) /\ IsInjective(freeNodes')
        /\ ToSet(freeNodes') = ToSet(freeNodes) \cup {n}
    BY <1>1, <1>10, ReleaseSlot DEF IInv, NodePartition
  <2>2. ToSet(removed) = {}
    BY <1>3 DEF ToSet
  <2> QED
    BY <2>1, <2>2, <1>1, <1>9, <1>10 DEF IInv, NodePartition
<1>13. NodeTypes'
  <2>1. ZeroNode \in NodeRecord
    BY DEF ZeroNode, NodeRecord, Pointer, Side
  <2> QED
    BY <1>1, <1>2, <1>7, <1>9, <1>10, <2>1 DEF NodeTypes
<1>14. ScanTypes' /\ Phases'
  <2>1. q \in Pointer(NodeSlots) /\ nodes[n].id \in OrderIds
    BY <1>2, <1>7, <1>10 DEF NodeTypes, NodeRecord, q
  <2>2. triggered' \in Seq(OrderIds)
    BY <1>1, <2>1, AppendProperties DEF IInv, ScanTypes
  <2> QED
    BY <2>1, <2>2, <1>1, <1>3, <1>9 DEF IInv, ScanTypes, Phases, Side
<1>15. LevelTypes' /\ LevelPartition' /\ Bounded'
  BY <1>1, <1>9 DEF IInv, BookInv, LevelTypes, LevelPartition, Bounded
<1>16. Indexed'
  <2>1. \A o \in DOMAIN ix : ix[o] \in Used'
    BY <1>1 DEF Used, Range
  <2> QED
    BY <1>1, <1>2, <1>7, <1>9, <1>11, <2>1 DEF Indexed
<1>17. Placed'
  BY <1>1, <1>2, <1>9, <1>11 DEF Placed
<1>18. /\ \A k : MembersOf(k)' = MembersOf(k) \ {n}
       /\ \A k : k # best => First(k)' = First(k)
       /\ First(best) = n /\ \A k : k = best => First(k)' = q
  BY <1>1, <1>4, <1>9, <1>11 DEF MembersOf, First
<1>19. NodesLinked'
  <2> SUFFICES ASSUME NEW m \in Used'
               PROVE  LET k == nodes[m].level IN
                      /\ nodes[m].next # Nil => /\ nodes[m].next \in Used'
                                                /\ nodes'[nodes[m].next].level = k
                                                /\ nodes'[nodes[m].next].prev = m
                      /\ nodes[m].next = Nil /\ k # best => m = levels[k].tail
                      /\ m = (IF k = best THEN q ELSE First(k)) =>
                            /\ nodes[m].prev \notin Used'
                            /\ k # best => nodes[m].prev = Nil
                      /\ m # (IF k = best THEN q ELSE First(k)) =>
                            /\ nodes[m].prev \in Used'
                            /\ nodes'[nodes[m].prev].level = k
                            /\ nodes'[nodes[m].prev].next = m
                            /\ nodes'[nodes[m].prev].seq < nodes[m].seq
    BY <1>1, <1>11, <1>18 DEF NodesLinked
  <2> DEFINE k == nodes[m].level
             x == nodes[m].next
             y == nodes[m].prev
  <2>1. m \in Used /\ m # n
    BY <1>11
  <2>2. /\ x # Nil => x \in Used /\ nodes[x].level = k /\ nodes[x].prev = m
        /\ x = Nil /\ k # best => m = levels[k].tail
        /\ m = First(k) => y \notin Used /\ (k # best => y = Nil)
        /\ m # First(k) => /\ y \in Used /\ nodes[y].level = k /\ nodes[y].next = m
                           /\ nodes[y].seq < nodes[m].seq
    BY <1>2, <2>1 DEF NodesLinked
  <2>3. nodes[n].next = q /\ nodes[n].prev \notin Used /\ nodes[n].level = best
    BY <1>4, <1>5 DEF q, n
  <2> HIDE DEF x, y, k
  <2>4. x # Nil => x \in Used' /\ nodes'[x].level = k /\ nodes'[x].prev = m
    BY <2>1, <2>2, <2>3, <1>9, <1>11
  <2>5. m = (IF k = best THEN q ELSE First(k)) => y \notin Used' /\ (k # best => y = Nil)
    <3>1. CASE k = best
      <4>1. ASSUME m = q PROVE y = n
        BY <4>1, <1>5, <1>8, <2>1 DEF y, n, q
      <4> QED
        BY <3>1, <4>1, <1>9, <1>18
    <3>2. CASE k # best
      BY <3>2, <2>2, <1>9, <1>18
    <3> QED
      BY <3>1, <3>2
  <2>6. m # (IF k = best THEN q ELSE First(k)) =>
           /\ y \in Used' /\ nodes'[y].level = k /\ nodes'[y].next = m
           /\ nodes'[y].seq < nodes[m].seq
    <3>1. CASE k = best
      BY <3>1, <2>1, <2>2, <2>3, <1>9, <1>11, <1>18
    <3>2. CASE k # best
      BY <3>2, <2>2, <2>3, <1>9, <1>11, <1>18
    <3> QED
      BY <3>1, <3>2
  <2> QED
    BY <2>2, <2>4, <2>5, <2>6 DEF x, y, k
<1>20. LevelsLinked'
  <2> SUFFICES ASSUME NEW k \in LevelsInTree
               PROVE  /\ First(k)' # Nil => First(k)' \in MembersOf(k)'
                      /\ k # best => /\ First(k)' # Nil
                                     /\ levels[k].tail \in MembersOf(k)'
                                     /\ nodes'[levels[k].tail].next = Nil
                                     /\ levels[k].count = Cardinality(MembersOf(k)')
    BY <1>1, <1>9 DEF LevelsLinked
  <2>1. CASE k = best
    BY <2>1, <1>5, <1>6, <1>18 DEF MembersOf, n, q
  <2>2. CASE k # best
    <3>1. MembersOf(k)' = MembersOf(k)
      BY <2>2, <1>4, <1>18 DEF MembersOf, n
    <3>2. levels[k].tail \in MembersOf(k) /\ nodes[levels[k].tail].next = Nil
      BY <1>2, <2>2 DEF LevelsLinked
    <3>3. levels[k].tail \in Used'
      BY <3>1, <3>2, <1>9, <2>2, <1>4 DEF MembersOf, n
    <3> QED
      BY <3>1, <3>2, <3>3, <2>2, <1>2, <1>11, <1>18 DEF LevelsLinked
  <2> QED
    BY <2>1, <2>2
<1> QED
  BY <1>12, <1>13, <1>14, <1>15, <1>16, <1>17, <1>19, <1>20 DEF IInv, BookInv, Linked

LEMMA LeaveLevelInv == ASSUME IInv, LeaveLevel PROVE IInv'
<1> DEFINE l == best
<1>1. /\ pc \in Side /\ l # Nil /\ cursor = Nil /\ DropLevel(pc, l) /\ best' = Nil
      /\ UNCHANGED <<nodes, freeNodes, index, orderSeq, pc, price, cursor, triggered, expired,
                     removed>>
  BY DEF LeaveLevel, AtLevel, Scanning
<1>2. /\ NodeTypes /\ LevelTypes /\ LevelPartition /\ Indexed /\ Placed /\ NodesLinked
      /\ LevelsLinked /\ pc # "panicked" /\ l \in Range(tree[pc])
  BY <1>1 DEF IInv, BookInv, Linked, Side, Phases
<1>3. PICK a \in DOMAIN tree[pc] : l = tree[pc][a]
  BY <1>2 DEF Range
<1>4. Used \subseteq NodeSlots /\ Nil \notin Used
  BY <1>2, NilIsNoSlot DEF NodeTypes
<1> DEFINE s == pc
<1>5. First(l) = Nil
  BY <1>1 DEF First
<1> HIDE DEF l, s
<1>6. /\ s \in Side /\ a \in DOMAIN tree[s] /\ l = tree[s][a] /\ DropLevel(s, l)
  BY <1>1, <1>3 DEF s
<1>7. /\ LevelTypes' /\ LevelPartition'
      /\ tree'[s] = Delete(tree[s], a) /\ DOMAIN tree'[s] = DOMAIN tree[s] \ {a}
      /\ \A x \in Side : x # s => tree'[x] = tree[x]
      /\ \A y \in DOMAIN tree'[s] : tree'[s][y] = tree[s][y] /\ tree[s][y] # l
      /\ LevelsInTree' = LevelsInTree \ {l} /\ l \in LevelsInTree
      /\ \A x \in Side : \A y \in DOMAIN tree'[x] :
            y \in DOMAIN tree[x] /\ tree'[x][y] = tree[x][y]
      /\ \A x \in Side : x # s => l \notin Range(tree[x])
      /\ levels' = [levels EXCEPT ![l] = ZeroLevel]
  BY <1>2, <1>6, DropLevelTree
<1>8. MembersOf(l) = {}
  <2> DEFINE S == MembersOf(l)
  <2> SUFFICES ASSUME S # {} PROVE FALSE
    OBVIOUS
  <2>1. S \subseteq NodeSlots
    BY <1>4 DEF MembersOf
  <2>2. PICK m \in S : \A k \in S : nodes[m].seq <= nodes[k].seq
    BY <1>2, <2>1, Oldest
  <2>3. m \in Used /\ nodes[m].level = l /\ m # First(l)
    BY <1>4, <1>5, <2>2 DEF MembersOf
  <2>4. /\ nodes[m].prev \in Used /\ nodes[nodes[m].prev].level = l
        /\ nodes[nodes[m].prev].seq < nodes[m].seq
    BY <1>2, <2>3 DEF NodesLinked
  <2>5. nodes[m].prev \in S
    BY <2>4 DEF MembersOf
  <2>6. \A k \in S : nodes[k].seq \in Nat
    BY <2>1, <1>2 DEF NodeTypes, NodeRecord
  <2> QED
    BY <2>2, <2>4, <2>5, <2>6
<1>9. \A m \in Used : nodes[m].level # l
  BY <1>8 DEF MembersOf
<1>10. Used' = Used /\ \A k : MembersOf(k)' = MembersOf(k)
  BY <1>1 DEF Used, MembersOf
<1>11. \A k \in LevelSlots : k # l => levels'[k] = levels[k] /\ First(k)' = First(k)
  <2>1. \A k \in LevelSlots : k # l => levels'[k] = levels[k] /\ k # best /\ k # best'
    BY <1>1, <1>2, <1>7, NilIsNoSlot DEF LevelTypes, l
  <2> QED
    BY <2>1, <1>1 DEF First
<1>12. \A m \in Used : nodes[m].level \in LevelSlots
  BY <1>2, LevelOfSlot
<1>13. LevelsInTree \subseteq LevelSlots
  BY <1>2 DEF LevelTypes, LevelsInTree, Side
<1>14. ScanTypes' /\ Phases'
  BY <1>1, <1>10 DEF IInv, ScanTypes, Phases, Pointer, Side
<1>15. NodePartition'
  BY <1>1, <1>10 DEF IInv, NodePartition
<1>16. Bounded'
  BY <1>7 DEF IInv, Bounded
<1>17. NodeTypes' /\ Indexed'
  BY <1>1, <1>2, <1>10 DEF NodeTypes, Indexed
<1>18. Placed'
  <2>1. ASSUME NEW m \in Used
        PROVE  /\ nodes[m].trigger \in DOMAIN tree'[nodes[m].side]
               /\ nodes[m].level = tree'[nodes[m].side][nodes[m].trigger]
    <3>1. /\ nodes[m].side \in Side
          /\ nodes[m].trigger \in DOMAIN tree[nodes[m].side]
          /\ nodes[m].level = tree[nodes[m].side][nodes[m].trigger]
      BY <1>2, LevelOfSlot
    <3>2. nodes[m].trigger \in DOMAIN tree'[nodes[m].side]
      BY <3>1, <1>6, <1>7, <1>9
    <3> QED
      BY <3>1, <3>2, <1>7
  <2>2. ASSUME NEW x \in Side, NEW y \in DOMAIN tree'[x] PROVE levels'[tree'[x][y]].price = y
    <3>1. /\ y \in DOMAIN tree[x] /\ tree'[x][y] = tree[x][y] /\ tree[x][y] \in LevelSlots
          /\ tree[x][y] \in Range(tree[x])
      BY <1>7, <1>2 DEF LevelTypes, Range
    <3>2. tree[x][y] # l
      BY <1>7, <3>1
    <3> QED
      BY <3>1, <3>2, <1>11, <1>2 DEF Placed
  <2>3. ASSUME NEW k \in LevelSlots \ LevelsInTree' PROVE levels'[k] = ZeroLevel
    BY <2>3, <1>7, <1>11, <1>2 DEF Placed, LevelTypes
  <2> QED
    BY <2>1, <2>2, <2>3, <1>1, <1>10 DEF Placed
<1>19. NodesLinked'
  <2>1. \A m \in Used : LET k == nodes[m].level IN
           k # best /\ k # best' /\ levels'[k] = levels[k] /\ First(k)' = First(k)
    <3>1. \A k \in LevelSlots : k # l => k # best /\ k # best' /\ levels'[k] = levels[k]
      BY <1>1, <1>11, NilIsNoSlot DEF l
    <3>2. \A m \in Used : LET k == nodes[m].level IN First(k)' = First(k)
      BY <3>1, <1>1, <1>9, <1>12 DEF First
    <3> QED
      BY <3>1, <3>2, <1>9, <1>12
  <2> QED
    BY <2>1, <1>1, <1>2, <1>10 DEF NodesLinked
<1>20. LevelsLinked'
  <2>1. \A k \in LevelsInTree' : /\ k \in LevelsInTree /\ k # best /\ levels'[k] = levels[k]
                                 /\ First(k)' = First(k)
    BY <1>7, <1>11, <1>13 DEF l
  <2> QED
    BY <2>1, <1>1, <1>2, <1>10 DEF LevelsLinked
<1> QED
  BY <1>7, <1>14, <1>15, <1>16, <1>17, <1>18, <1>19, <1>20 DEF IInv, BookInv, Linked

------------------------------------------------------------------------------
(* AddStop.                                                                  *)

\* The nodes after Append: r is the new order, z the tail it is appended to.
AppendedNodes(r, n, l, z) ==
    LET linked == [[nodes EXCEPT ![n] = r] EXCEPT
                      ![n].prev = z, ![n].next = Nil, ![n].level = l]
    IN  IF z = Nil THEN linked ELSE [linked EXCEPT ![z].next = n]

\* The levels after it.
AppendedLevels(ls, n, l) ==
    [ls EXCEPT ![l].head = IF ls[l].tail = Nil THEN n ELSE @, ![l].tail = n, ![l].count = @ + 1]

\* What Append does to the nodes, field by field.
LEMMA AppendedFields ==
    ASSUME NodeTypes, NEW n \in NodeSlots, NEW l \in LevelSlots, NEW r \in NodeRecord,
           NEW z \in Pointer(NodeSlots), z # n
    PROVE  LET u == AppendedNodes(r, n, l, z)
           IN  /\ u \in [NodeSlots -> NodeRecord]
               /\ u[n].id = r.id /\ u[n].side = r.side /\ u[n].trigger = r.trigger
               /\ u[n].seq = r.seq /\ u[n].prev = z /\ u[n].next = Nil /\ u[n].level = l
               /\ \A m \in NodeSlots \ {n} :
                     /\ u[m].id = nodes[m].id /\ u[m].side = nodes[m].side
                     /\ u[m].trigger = nodes[m].trigger /\ u[m].seq = nodes[m].seq
                     /\ u[m].prev = nodes[m].prev /\ u[m].level = nodes[m].level
                     /\ u[m].next = IF m = z THEN n ELSE nodes[m].next
<1> DEFINE filled == [nodes EXCEPT ![n] = r]
           linked == [filled EXCEPT ![n].prev = z, ![n].next = Nil, ![n].level = l]
           u == IF z = Nil THEN linked ELSE [linked EXCEPT ![z].next = n]
<1>1. filled \in [NodeSlots -> NodeRecord] /\ filled[n] = r
      /\ \A m \in NodeSlots \ {n} : filled[m] = nodes[m]
  BY DEF NodeTypes
<1> HIDE DEF filled
<1>2. /\ linked[n] = [r EXCEPT !.prev = z, !.next = Nil, !.level = l]
      /\ \A m \in NodeSlots \ {n} : linked[m] = nodes[m]
      /\ DOMAIN linked = NodeSlots /\ linked = [m \in NodeSlots |-> linked[m]]
  BY <1>1
<1>3. [r EXCEPT !.prev = z, !.next = Nil, !.level = l]
        = [x \in DOMAIN r |-> IF x = "prev" THEN z ELSE IF x = "next" THEN Nil
                              ELSE IF x = "level" THEN l ELSE r[x]]
  BY DEF NodeRecord
<1>4. DOMAIN r = {"id", "user", "side", "trigger", "expireAt", "seq", "prev", "next", "level"}
  BY DEF NodeRecord
<1> HIDE DEF linked
<1>5. /\ linked[n].id = r.id /\ linked[n].user = r.user /\ linked[n].side = r.side
      /\ linked[n].trigger = r.trigger /\ linked[n].expireAt = r.expireAt
      /\ linked[n].seq = r.seq /\ linked[n].prev = z /\ linked[n].next = Nil
      /\ linked[n].level = l
  BY <1>2, <1>3, <1>4
<1>6. linked[n] \in NodeRecord
  BY <1>2, <1>3, <1>4 DEF NodeRecord, Pointer
<1>7. \A m \in NodeSlots : linked[m] \in NodeRecord
  BY <1>2, <1>6 DEF NodeTypes
<1>8. linked \in [NodeSlots -> NodeRecord]
  BY <1>2, <1>7
<1> DEFINE Fields ==
       /\ u \in [NodeSlots -> NodeRecord]
       /\ u[n].id = r.id /\ u[n].side = r.side /\ u[n].trigger = r.trigger
       /\ u[n].seq = r.seq /\ u[n].prev = z /\ u[n].next = Nil /\ u[n].level = l
       /\ \A m \in NodeSlots \ {n} :
             /\ u[m].id = nodes[m].id /\ u[m].side = nodes[m].side
             /\ u[m].trigger = nodes[m].trigger /\ u[m].seq = nodes[m].seq
             /\ u[m].prev = nodes[m].prev /\ u[m].level = nodes[m].level
             /\ u[m].next = IF m = z THEN n ELSE nodes[m].next
<1>9. ASSUME z = Nil PROVE Fields
  <2>1. u = linked
    BY <1>9
  <2>2. \A m \in NodeSlots : m # z
    BY <1>9, NilIsNoSlot
  <2> HIDE DEF u
  <2>3. \A m \in NodeSlots \ {n} :
           /\ u[m].id = nodes[m].id /\ u[m].side = nodes[m].side
           /\ u[m].trigger = nodes[m].trigger /\ u[m].seq = nodes[m].seq
           /\ u[m].prev = nodes[m].prev /\ u[m].level = nodes[m].level
           /\ u[m].next = IF m = z THEN n ELSE nodes[m].next
    BY <2>1, <2>2, <1>2
  <2> QED
    BY <2>1, <2>3, <1>5, <1>8
<1>10. ASSUME z # Nil PROVE Fields
  <2>1. u = [linked EXCEPT ![z].next = n] /\ z \in NodeSlots
    BY <1>10 DEF Pointer
  <2>2. /\ u[z] = [nodes[z] EXCEPT !.next = n] /\ DOMAIN u = NodeSlots
        /\ \A m \in NodeSlots \ {z} : u[m] = linked[m]
        /\ u = [m \in NodeSlots |-> u[m]]
    BY <2>1, <1>2
  <2>3. nodes[z] \in NodeRecord
    BY <2>1 DEF NodeTypes
  <2>4. /\ u[z] \in NodeRecord /\ u[z].next = n /\ u[z].id = nodes[z].id
        /\ u[z].side = nodes[z].side /\ u[z].trigger = nodes[z].trigger
        /\ u[z].seq = nodes[z].seq /\ u[z].prev = nodes[z].prev
        /\ u[z].level = nodes[z].level
    BY <2>2, <2>3 DEF NodeRecord, Pointer
  <2> HIDE DEF u
  <2>5. u \in [NodeSlots -> NodeRecord]
    BY <1>7, <2>2, <2>4
  <2>6. u[n] = linked[n]
    BY <2>2
  <2>7. \A m \in NodeSlots \ {n} :
           /\ u[m].id = nodes[m].id /\ u[m].side = nodes[m].side
           /\ u[m].trigger = nodes[m].trigger /\ u[m].seq = nodes[m].seq
           /\ u[m].prev = nodes[m].prev /\ u[m].level = nodes[m].level
           /\ u[m].next = IF m = z THEN n ELSE nodes[m].next
    BY <1>2, <2>2, <2>4
  <2> QED
    BY <2>5, <2>6, <2>7, <1>5
<1>11. u = AppendedNodes(r, n, l, z)
  BY DEF AppendedNodes, u, linked, filled
<1> HIDE DEF u
<1> QED
  BY <1>9, <1>10, <1>11

\* What Append does to the level; b is the level before.
LEMMA AppendedLevel ==
    ASSUME NEW b \in LevelRecord, NEW n \in NodeSlots, NEW ls \in [LevelSlots -> LevelRecord],
           NEW l \in LevelSlots, ls[l] = b
    PROVE  LET v == AppendedLevels(ls, n, l)
           IN  /\ v \in [LevelSlots -> LevelRecord]
               /\ v[l].head = IF b.tail = Nil THEN n ELSE b.head
               /\ v[l].tail = n /\ v[l].count = b.count + 1 /\ v[l].price = b.price
               /\ \A k \in LevelSlots \ {l} : v[k] = ls[k]
<1> DEFINE h == IF b.tail = Nil THEN n ELSE b.head
           c == b.count + 1
           v == AppendedLevels(ls, n, l)
<1>1. c \in Nat /\ h \in Pointer(NodeSlots) /\ n \in Pointer(NodeSlots)
  BY DEF LevelRecord, Pointer
<1>2. v[l] = [b EXCEPT !.head = h, !.tail = n, !.count = c]
  BY DEF AppendedLevels
<1>3. /\ \A k \in LevelSlots \ {l} : v[k] = ls[k]
      /\ v = [k \in LevelSlots |-> v[k]]
  BY DEF AppendedLevels
<1> HIDE DEF h, c, v
<1>4. DOMAIN b = {"price", "head", "tail", "count"}
  BY DEF LevelRecord
<1>5. [b EXCEPT !.head = h, !.tail = n, !.count = c]
        = [x \in DOMAIN b |-> IF x = "head" THEN h ELSE IF x = "tail" THEN n
                              ELSE IF x = "count" THEN c ELSE b[x]]
  BY <1>4
<1>6. v[l].head = h /\ v[l].tail = n /\ v[l].count = c /\ v[l].price = b.price
  BY <1>2, <1>4, <1>5
<1>7. v[l] \in LevelRecord
  BY <1>1, <1>2, <1>5, <1>4 DEF LevelRecord
<1>8. v \in [LevelSlots -> LevelRecord]
  BY <1>3, <1>7
<1> QED
  BY <1>3, <1>6, <1>8 DEF v, h, c

\* An order appended to a level, new or not, makes it a longer list.
LEMMA AppendKeepsLists ==
    ASSUME IInv, pc = "idle", best' = best,
           NEW n \in NodeSlots, n \notin Used, Used' = Used \cup {n},
           NEW l \in LevelSlots, LevelsInTree' = LevelsInTree \cup {l},
           NEW z, z = levels[l].tail, NEW h, h = levels[l].head, NEW c, c = levels[l].count,
           nodes'[n].seq = orderSeq + 1, nodes'[n].prev = z, nodes'[n].next = Nil,
           nodes'[n].level = l,
           \A m \in NodeSlots \ {n} :
               /\ nodes'[m].seq = nodes[m].seq
               /\ nodes'[m].prev = nodes[m].prev /\ nodes'[m].level = nodes[m].level
               /\ nodes'[m].next = IF m = z THEN n ELSE nodes[m].next,
           levels'[l].head = IF z = Nil THEN n ELSE h,
           levels'[l].tail = n, levels'[l].count = c + 1,
           \A k \in LevelSlots \ {l} : levels'[k] = levels[k]
    PROVE  NodesLinked' /\ LevelsLinked'
<1>1. /\ NodeTypes /\ LevelTypes /\ Indexed /\ Placed /\ NodesLinked /\ LevelsLinked
      /\ best = Nil /\ pc # "panicked"
  BY DEF IInv, BookInv, Linked, Phases, Side
<1>2. Used \subseteq NodeSlots /\ Nil \notin Used /\ Nil \notin LevelSlots /\ n # Nil
  BY <1>1, NilIsNoSlot DEF NodeTypes
<1>3. \A m \in Used : nodes[m].level \in LevelsInTree /\ nodes[m].level \in LevelSlots
  BY <1>1, LevelOfSlot
<1>4. LevelsInTree \subseteq LevelSlots
  BY <1>1 DEF LevelTypes, LevelsInTree, Side
<1>5. \A k \in LevelSlots : First(k) = levels[k].head /\ First(k)' = levels'[k].head
  BY <1>1, <1>2 DEF First
<1>6. \A k : MembersOf(k)' = IF k = l THEN MembersOf(k) \cup {n} ELSE MembersOf(k)
  BY <1>2 DEF MembersOf
<1>7. \A k \in LevelsInTree :
          /\ levels[k].head \in MembersOf(k) /\ levels[k].tail \in MembersOf(k)
          /\ nodes[levels[k].tail].next = Nil
          /\ levels[k].count = Cardinality(MembersOf(k))
  BY <1>1, <1>2, <1>4, <1>5 DEF LevelsLinked
<1>8. \/ /\ z \in Used /\ z # n /\ nodes[z].level = l /\ nodes[z].next = Nil
         /\ h \in MembersOf(l)
      \/ /\ z = Nil /\ MembersOf(l) = {} /\ l \notin LevelsInTree
  <2>1. CASE l \in LevelsInTree
    <3>1. z \in MembersOf(l) /\ h \in MembersOf(l) /\ nodes[z].next = Nil
      BY <2>1, <1>7
    <3> QED
      BY <3>1 DEF MembersOf
  <2>2. CASE l \notin LevelsInTree
    <3>1. levels[l] = ZeroLevel
      BY <2>2, <1>1 DEF Placed
    <3> QED
      BY <2>2, <3>1, <1>3 DEF ZeroLevel, MembersOf
  <2> QED
    BY <2>1, <2>2
<1>9. c = Cardinality(MembersOf(l))
  <2>1. CASE l \in LevelsInTree
    BY <2>1, <1>7
  <2>2. CASE l \notin LevelsInTree
    <3>1. levels[l] = ZeroLevel /\ MembersOf(l) = {}
      BY <2>2, <1>1, <1>3 DEF Placed, MembersOf
    <3> QED
      BY <3>1, FS_EmptySet DEF ZeroLevel
  <2> QED
    BY <2>1, <2>2
<1>10. NodesLinked'
  <2> SUFFICES ASSUME NEW m \in Used'
               PROVE  LET k == nodes'[m].level IN
                      /\ nodes'[m].next # Nil => /\ nodes'[m].next \in Used'
                                                 /\ nodes'[nodes'[m].next].level = k
                                                 /\ nodes'[nodes'[m].next].prev = m
                      /\ nodes'[m].next = Nil => m = levels'[k].tail
                      /\ m = levels'[k].head => nodes'[m].prev = Nil
                      /\ m # levels'[k].head =>
                            /\ nodes'[m].prev \in Used'
                            /\ nodes'[nodes'[m].prev].level = k
                            /\ nodes'[nodes'[m].prev].next = m
                            /\ nodes'[nodes'[m].prev].seq < nodes'[m].seq
    BY <1>2, <1>3, <1>5 DEF NodesLinked
  <2>1. CASE m = n
    <3>1. nodes'[m].next = Nil /\ n = levels'[l].tail /\ nodes'[m].level = l
      BY <2>1
    <3>2. CASE z = Nil
      BY <2>1, <3>1, <3>2
    <3>3. CASE z # Nil
      <4>1. /\ z \in Used /\ z # n /\ nodes[z].level = l /\ h \in Used
            /\ levels'[l].head = h
        BY <1>8, <3>3 DEF MembersOf
      <4>2. nodes[z].seq <= orderSeq /\ nodes[z].seq \in Nat /\ orderSeq \in Nat
        BY <4>1, <1>1, <1>2 DEF Indexed, IInv, ScanTypes, NodeTypes, NodeRecord
      <4>3. nodes[z].seq < orderSeq + 1
        BY <4>2
      <4> QED
        BY <2>1, <3>1, <3>3, <4>1, <4>3, <1>2
    <3> QED
      BY <3>2, <3>3
  <2>2. CASE m # n
    <3> DEFINE k == nodes[m].level
               x == nodes[m].next
               y == nodes[m].prev
    <3>1. /\ m \in Used /\ k \in LevelsInTree /\ k \in LevelSlots /\ m \in NodeSlots
          /\ nodes'[m].level = k
      BY <2>2, <1>2, <1>3
    <3>2. /\ x # Nil => x \in Used /\ nodes[x].level = k /\ nodes[x].prev = m
          /\ x = Nil => m = levels[k].tail
          /\ m = levels[k].head => y = Nil
          /\ m # levels[k].head => /\ y \in Used /\ nodes[y].level = k /\ nodes[y].next = m
                                   /\ nodes[y].seq < nodes[m].seq
      BY <1>1, <1>2, <1>5, <3>1 DEF NodesLinked
    <3>3. \A a \in Used : a # n /\ a \in NodeSlots /\ a \in Used'
      BY <1>2
    <3>4. nodes'[m].next = (IF m = z THEN n ELSE x) /\ nodes'[m].prev = y
          /\ nodes'[m].seq = nodes[m].seq
      BY <2>2, <3>1
    <3>5. levels'[k].head = levels[k].head
      <4>1. k = l => z # Nil
        BY <1>2, <1>8, <3>1
      <4> QED
        BY <4>1, <3>1
    <3>6. m = z => k = l
      BY <1>2, <1>8, <3>1
    <3> HIDE DEF k, x, y
    <3>7. nodes'[m].next # Nil => /\ nodes'[m].next \in Used'
                                  /\ nodes'[nodes'[m].next].level = k
                                  /\ nodes'[nodes'[m].next].prev = m
      BY <3>2, <3>3, <3>4, <3>6
    <3>8. nodes'[m].next = Nil => m = levels'[k].tail
      BY <1>2, <3>1, <3>2, <3>4
    <3>9. m # levels'[k].head => /\ y \in Used' /\ nodes'[y].level = k
                                 /\ nodes'[y].next = m /\ nodes'[y].seq < nodes'[m].seq
      <4> SUFFICES ASSUME m # levels[k].head
                   PROVE  /\ y \in Used' /\ nodes'[y].level = k
                          /\ nodes'[y].next = m /\ nodes'[y].seq < nodes'[m].seq
        BY <3>5
      <4>1. /\ y \in Used /\ nodes[y].level = k /\ nodes[y].next = m
            /\ nodes[y].seq < nodes[m].seq
        BY <3>2
      <4>2. y # z
        BY <4>1, <1>2, <1>8, <3>1
      <4> QED
        BY <4>1, <4>2, <3>3, <3>4
    <3> QED
      BY <3>1, <3>2, <3>4, <3>5, <3>7, <3>8, <3>9
  <2> QED
    BY <2>1, <2>2
<1>11. LevelsLinked'
  <2> SUFFICES ASSUME NEW k \in LevelsInTree'
               PROVE  /\ levels'[k].head \in MembersOf(k)' /\ levels'[k].tail \in MembersOf(k)'
                      /\ nodes'[levels'[k].tail].next = Nil
                      /\ levels'[k].count = Cardinality(MembersOf(k)')
    <3>1. \A k \in LevelsInTree' : Nil \notin MembersOf(k)' /\ k \in LevelSlots
      BY <1>2, <1>4 DEF MembersOf
    <3> QED
      BY <3>1, <1>2, <1>5 DEF LevelsLinked
  <2>1. CASE k = l
    <3>1. MembersOf(k)' = MembersOf(k) \cup {n}
      BY <2>1, <1>6
    <3>2. MembersOf(l) \in SUBSET NodeSlots /\ n \notin MembersOf(l)
      BY <1>2 DEF MembersOf
    <3>3. Cardinality(MembersOf(l) \cup {n}) = c + 1
      BY <3>2, <1>9, CountSlots
    <3>4. levels'[k].head \in MembersOf(k) \cup {n}
      BY <2>1, <1>2, <1>8
    <3> QED
      BY <2>1, <3>1, <3>3, <3>4
  <2>2. CASE k # l
    <3>1. k \in LevelsInTree /\ k \in LevelSlots /\ levels'[k] = levels[k]
      BY <2>2, <1>4
    <3>2. MembersOf(k)' = MembersOf(k)
      BY <2>2, <1>6
    <3>3. /\ levels[k].tail \in Used /\ nodes[levels[k].tail].level = k
      BY <3>1, <1>7 DEF MembersOf
    <3>4. levels[k].tail # z /\ levels[k].tail # n /\ levels[k].tail \in NodeSlots
      BY <2>2, <3>3, <1>2, <1>8
    <3> QED
      BY <3>1, <3>2, <3>4, <1>7
  <2> QED
    BY <2>1, <2>2
<1> QED
  BY <1>10, <1>11

\* A new level enters the tree.
LEMMA NewLevelTree ==
    ASSUME LevelTypes, LevelPartition, Placed, NEW s \in Side, NEW a \in Prices,
           a \notin DOMAIN tree[s], ~Exhausted(freeLevels),
           tree' = [tree EXCEPT ![s] = Put(@, a, NextSlot(freeLevels))],
           freeLevels' = Acquire(freeLevels)
    PROVE  LET l == NextSlot(freeLevels) IN
           /\ l \in LevelSlots /\ l \notin LevelsInTree /\ levels[l] = ZeroLevel
           /\ LevelPartition' /\ LevelsInTree' = LevelsInTree \cup {l}
           /\ DOMAIN tree' = Side
           /\ \A t \in Side : /\ DOMAIN tree[t] \subseteq DOMAIN tree'[t]
                              /\ DOMAIN tree'[t] \subseteq DOMAIN tree[t] \cup {a}
                              /\ Range(tree'[t]) \subseteq LevelSlots
           /\ \A t \in Side : \A y \in DOMAIN tree'[t] :
                 \/ t = s /\ y = a /\ tree'[t][y] = l
                 \/ y \in DOMAIN tree[t] /\ tree'[t][y] = tree[t][y]
           /\ a \in DOMAIN tree'[s] /\ tree'[s][a] = l
           /\ \A t \in Side : \A y \in DOMAIN tree[t] : tree'[t][y] = tree[t][y]
<1> DEFINE l == NextSlot(freeLevels)
           g == Put(tree[s], a, l)
<1>1. /\ l \in ToSet(freeLevels) /\ l \in LevelSlots
      /\ freeLevels' \in Seq(LevelSlots) /\ IsInjective(freeLevels')
      /\ ToSet(freeLevels') = ToSet(freeLevels) \ {l}
  BY AcquireSlot DEF LevelPartition
<1>2. /\ tree'[s] = g /\ DOMAIN tree' = Side
      /\ \A t \in Side : t # s => tree'[t] = tree[t]
  BY DEF LevelTypes
<1>3. l \notin LevelsInTree /\ levels[l] = ZeroLevel
  BY <1>1 DEF LevelPartition, Placed
<1>4. l \notin Range(tree[s])
  BY <1>3 DEF LevelsInTree, Side
<1>5. /\ DOMAIN g = DOMAIN tree[s] \cup {a} /\ g[a] = l
      /\ \A x \in DOMAIN tree[s] : g[x] = tree[s][x]
      /\ Range(g) = Range(tree[s]) \cup {l}
      /\ IsInjective(tree[s]) /\ l \notin Range(tree[s]) => IsInjective(g)
  BY PutMap
<1> HIDE DEF l, g
<1>6. /\ LevelsInTree' = LevelsInTree \cup {l}
      /\ Range(tree'["Ask"]) \cap Range(tree'["Bid"]) = {}
  <2>1. CASE s = "Ask"
    BY <2>1, <1>2, <1>3, <1>5 DEF LevelPartition, LevelsInTree, Side
  <2>2. CASE s = "Bid"
    BY <2>2, <1>2, <1>3, <1>5 DEF LevelPartition, LevelsInTree, Side
  <2> QED
    BY <2>1, <2>2 DEF Side
<1>7. LevelPartition'
  <2>1. \A t \in Side : IsInjective(tree'[t])
    BY <1>2, <1>4, <1>5 DEF LevelPartition
  <2>2. ToSet(freeLevels') = LevelSlots \ LevelsInTree'
    BY <1>1, <1>6 DEF LevelPartition
  <2> QED
    BY <2>1, <2>2, <1>1, <1>6 DEF LevelPartition
<1>8. /\ \A t \in Side : /\ DOMAIN tree[t] \subseteq DOMAIN tree'[t]
                         /\ DOMAIN tree'[t] \subseteq DOMAIN tree[t] \cup {a}
                         /\ Range(tree'[t]) \subseteq LevelSlots
      /\ \A t \in Side : \A y \in DOMAIN tree'[t] :
            \/ t = s /\ y = a /\ tree'[t][y] = l
            \/ y \in DOMAIN tree[t] /\ tree'[t][y] = tree[t][y]
      /\ a \in DOMAIN tree'[s] /\ tree'[s][a] = l
      /\ \A t \in Side : \A y \in DOMAIN tree[t] : tree'[t][y] = tree[t][y]
  BY <1>1, <1>2, <1>5 DEF LevelTypes
<1> QED
  BY <1>1, <1>2, <1>3, <1>6, <1>7, <1>8 DEF l

LEMMA AddStopInv ==
    ASSUME IInv, NEW o \in OrderIds, NEW st \in Stops, AddStop(o, st)
    PROVE  /\ IInv'
           /\ nodes'[NextSlot(freeNodes)].seq = orderSeq + 1
           /\ \A m \in Used : KeepsPlace(m)
<1> DEFINE n == NextSlot(freeNodes)
           r == NewNode(o, st)
           filled == [nodes EXCEPT ![n] = r]
           s == st.side
           a == st.trigger
<1>1. /\ pc = "idle" /\ o \notin DOMAIN index /\ ~Exhausted(freeNodes)
      /\ orderSeq' = orderSeq + 1 /\ freeNodes' = Acquire(freeNodes)
      /\ index' = Put(index, o, n)
      /\ UNCHANGED <<scan, expired, removed>>
      /\ \/ /\ a \in DOMAIN tree[s]
            /\ Appended(filled, levels, n, tree[s][a])
            /\ UNCHANGED <<tree, freeLevels, pc>>
         \/ /\ a \notin DOMAIN tree[s]
            /\ ~Exhausted(freeLevels)
            /\ tree' = [tree EXCEPT ![s] = Put(@, a, NextSlot(freeLevels))]
            /\ Appended(filled, [levels EXCEPT ![NextSlot(freeLevels)].price = a], n,
                        NextSlot(freeLevels))
            /\ freeLevels' = Acquire(freeLevels)
            /\ UNCHANGED pc
         \/ /\ a \notin DOMAIN tree[s]
            /\ Exhausted(freeLevels)
            /\ nodes' = filled
            /\ pc' = "panicked"
            /\ UNCHANGED <<levels, tree, freeLevels>>
  BY DEF AddStop
<1>2. /\ NodeTypes /\ LevelTypes /\ LevelPartition /\ Indexed /\ Placed /\ NodesLinked
      /\ LevelsLinked /\ IsInjective(index) /\ best = Nil /\ removed = <<>> /\ expired = {}
      /\ price = Nil /\ pc # "panicked" /\ orderSeq \in Nat /\ Bounded
  BY <1>1 DEF IInv, BookInv, NodePartition, Linked, Phases, Side, ScanTypes
<1>3. /\ s \in Side /\ a \in Prices /\ st.user \in Users /\ st.expireAt \in Nat /\ a \in Nat
  BY StopsAssumption DEF StopOrder
<1>4. /\ n \in ToSet(freeNodes) /\ n \in NodeSlots
      /\ freeNodes' \in Seq(NodeSlots) /\ IsInjective(freeNodes')
      /\ ToSet(freeNodes') = ToSet(freeNodes) \ {n}
  BY <1>1, AcquireSlot DEF IInv, NodePartition
<1>5. n \notin Used /\ ToSet(removed) = {} /\ n # Nil
  BY <1>2, <1>4, NilIsNoSlot DEF IInv, NodePartition, ToSet
<1>6. /\ DOMAIN index' = DOMAIN index \cup {o} /\ index'[o] = n
      /\ \A x \in DOMAIN index : index'[x] = index[x]
      /\ Used' = Used \cup {n} /\ IsInjective(index')
  <2> DEFINE g == Put(index, o, n)
  <2>1. /\ DOMAIN g = DOMAIN index \cup {o} /\ g[o] = n
        /\ \A x \in DOMAIN index : g[x] = index[x]
        /\ Range(g) = Range(index) \cup {n}
        /\ IsInjective(index) /\ n \notin Range(index) => IsInjective(g)
    BY <1>1, PutMap
  <2> HIDE DEF g
  <2>2. index' = g
    BY <1>1 DEF g
  <2> QED
    BY <2>1, <2>2, <1>2, <1>5 DEF Used
<1>7. /\ r \in NodeRecord /\ r.id = o /\ r.side = s /\ r.trigger = a /\ r.seq = orderSeq + 1
      /\ r.level = Nil
  <2> DEFINE q == orderSeq + 1
  <2>1. q \in Nat /\ Nil \in Pointer(OrderIds)
    BY <1>2 DEF Pointer
  <2>2. r = [ZeroNode EXCEPT !.id = o, !.user = st.user, !.side = s, !.trigger = a,
                             !.expireAt = st.expireAt, !.seq = q]
    BY DEF NewNode
  <2> HIDE DEF q, r, s, a
  <2>3. r = [id |-> o, user |-> st.user, side |-> s, trigger |-> a,
             expireAt |-> st.expireAt, seq |-> q, prev |-> Nil, next |-> Nil, level |-> Nil]
    BY <2>2 DEF ZeroNode
  <2>4. r \in NodeRecord
    BY <2>1, <2>3, <1>3 DEF NodeRecord, Pointer
  <2> QED
    BY <2>3, <2>4 DEF q
<1> HIDE DEF n, r, s, a
<1>8. NodePartition'
  BY <1>1, <1>2, <1>4, <1>5, <1>6 DEF IInv, NodePartition
<1>9. ScanTypes' /\ Phases'
  <2>1. pc' \in {"idle", "panicked"}
    BY <1>1
  <2> QED
    BY <2>1, <1>1, <1>2, <1>6 DEF IInv, ScanTypes, Phases, Side, scan
<1>10. ASSUME nodes' \in [NodeSlots -> NodeRecord], nodes'[n].id = o,
              nodes'[n].seq = orderSeq + 1,
              \A m \in NodeSlots \ {n} : nodes'[m].id = nodes[m].id /\ nodes'[m].seq = nodes[m].seq
       PROVE  NodeTypes' /\ Indexed'
  <2>1. NodeTypes'
    BY <1>10, <1>2, <1>4, <1>6 DEF NodeTypes
  <2>2. \A x \in DOMAIN index : index[x] \in Used /\ index[x] \in NodeSlots /\ index[x] # n
    BY <1>2, <1>5 DEF Used, Range, NodeTypes
  <2>3. \A x \in DOMAIN index' : nodes'[index'[x]].id = x
    BY <1>10, <1>2, <1>6, <2>2 DEF Indexed
  <2>4. ASSUME NEW m \in Used' PROVE nodes'[m].seq <= orderSeq + 1
    <3>1. CASE m = n
      BY <3>1, <1>2, <1>10
    <3>2. CASE m # n
      <4>1. m \in Used /\ m \in NodeSlots
        BY <3>2, <1>2, <1>6 DEF NodeTypes
      <4>2. nodes[m].seq <= orderSeq /\ nodes[m].seq \in Nat
        BY <4>1, <1>2 DEF Indexed, NodeTypes, NodeRecord
      <4>3. nodes[m].seq <= orderSeq + 1
        BY <4>2, <1>2
      <4> QED
        BY <4>1, <4>3, <3>2, <1>10
    <3> QED
      BY <3>1, <3>2
  <2>5. \A m \in Used' : nodes'[m].seq <= orderSeq'
    BY <2>4, <1>1
  <2> QED
    BY <2>1, <2>3, <2>5 DEF Indexed
<1> DEFINE Added == nodes'[n].seq = orderSeq + 1 /\ \A m \in Used : KeepsPlace(m)
<1>11. ASSUME NEW l \in LevelSlots, NEW ls \in [LevelSlots -> LevelRecord],
              Appended(filled, ls, n, l), pc' = "idle",
              ls[l].head = levels[l].head, ls[l].tail = levels[l].tail,
              ls[l].count = levels[l].count, ls[l].price = a,
              \A k \in LevelSlots \ {l} : ls[k] = levels[k],
              DOMAIN tree' = Side,
              \A t \in Side : /\ DOMAIN tree'[t] \subseteq DOMAIN tree[t] \cup {a}
                              /\ Range(tree'[t]) \subseteq LevelSlots,
              \A t \in Side : \A y \in DOMAIN tree'[t] :
                 \/ t = s /\ y = a /\ tree'[t][y] = l
                 \/ y \in DOMAIN tree[t] /\ tree'[t][y] = tree[t][y] /\ tree[t][y] # l,
              a \in DOMAIN tree'[s], tree'[s][a] = l,
              \A t \in Side : \A y \in DOMAIN tree[t] :
                 y \in DOMAIN tree'[t] /\ tree'[t][y] = tree[t][y],
              LevelPartition', LevelsInTree' = LevelsInTree \cup {l}
       PROVE  Bounded' /\ BookInv' /\ Added
  <2> DEFINE z == ls[l].tail
             u == AppendedNodes(r, n, l, z)
             b == ls[l]
             v == AppendedLevels(ls, n, l)
  <2>1. nodes' = u /\ levels' = v
    BY <1>11 DEF Appended, AppendedNodes, AppendedLevels
  <2>2. b \in LevelRecord /\ z \in Pointer(NodeSlots)
    BY <1>11 DEF LevelRecord
  <2>3. z # n
    <3>1. CASE l \in LevelsInTree
      <4>1. l # best
        BY <1>2, <1>11, NilIsNoSlot
      <4>2. levels[l].tail \in MembersOf(l)
        BY <3>1, <4>1, <1>2 DEF LevelsLinked
      <4> QED
        BY <4>2, <1>5, <1>11 DEF MembersOf
    <3>2. CASE l \notin LevelsInTree
      BY <3>2, <1>2, <1>5, <1>11 DEF Placed, ZeroLevel
    <3> QED
      BY <3>1, <3>2
  <2>4. /\ u \in [NodeSlots -> NodeRecord]
        /\ u[n].id = r.id /\ u[n].side = r.side /\ u[n].trigger = r.trigger
        /\ u[n].seq = r.seq /\ u[n].prev = z /\ u[n].next = Nil /\ u[n].level = l
        /\ \A m \in NodeSlots \ {n} :
              /\ u[m].id = nodes[m].id /\ u[m].side = nodes[m].side
              /\ u[m].trigger = nodes[m].trigger /\ u[m].seq = nodes[m].seq
              /\ u[m].prev = nodes[m].prev /\ u[m].level = nodes[m].level
              /\ u[m].next = IF m = z THEN n ELSE nodes[m].next
    <3> HIDE DEF z
    <3> QED
      BY <1>2, <1>4, <1>7, <2>2, <2>3, AppendedFields
  <2>5. /\ v \in [LevelSlots -> LevelRecord]
        /\ v[l].head = IF b.tail = Nil THEN n ELSE b.head
        /\ v[l].tail = n /\ v[l].count = b.count + 1 /\ v[l].price = b.price
        /\ \A k \in LevelSlots \ {l} : v[k] = ls[k]
    <3>1. ls[l] = b
      OBVIOUS
    <3> HIDE DEF b
    <3> QED
      BY <3>1, <1>4, <2>2, AppendedLevel
  <2> HIDE DEF u, v, b, filled
  <2>6. NodesLinked' /\ LevelsLinked'
    <3> DEFINE h == ls[l].head
               c == ls[l].count
    <3>1. z = levels[l].tail /\ h = levels[l].head /\ c = levels[l].count
      BY <1>11
    <3>2. /\ levels'[l].head = IF z = Nil THEN n ELSE h
          /\ levels'[l].tail = n /\ levels'[l].count = c + 1
          /\ \A k \in LevelSlots \ {l} : levels'[k] = levels[k]
      BY <2>1, <2>5, <1>11 DEF b
    <3>3. /\ nodes'[n].seq = orderSeq + 1 /\ nodes'[n].prev = z /\ nodes'[n].next = Nil
          /\ nodes'[n].level = l
          /\ \A m \in NodeSlots \ {n} :
                /\ nodes'[m].seq = nodes[m].seq
                /\ nodes'[m].prev = nodes[m].prev /\ nodes'[m].level = nodes[m].level
                /\ nodes'[m].next = IF m = z THEN n ELSE nodes[m].next
      BY <2>1, <2>4, <1>7
    <3>4. best' = best
      BY <1>1 DEF scan
    <3> HIDE DEF h, c, z
    <3> QED
      BY <3>1, <3>2, <3>3, <3>4, <1>1, <1>4, <1>5, <1>6, <1>11, AppendKeepsLists
  <2>7. NodeTypes' /\ Indexed'
    BY <1>7, <1>10, <2>1, <2>4
  <2>8. LevelTypes'
    <3>1. \A t \in Side : DOMAIN tree'[t] \subseteq Prices
      BY <1>2, <1>3, <1>11 DEF LevelTypes
    <3> QED
      BY <3>1, <1>11, <2>1, <2>5 DEF LevelTypes
  <2>9. Bounded'
    <3> SUFFICES ASSUME NEW t \in Side PROVE \E top \in Nat : \A y \in DOMAIN tree'[t] : y <= top
      BY DEF Bounded
    <3>1. PICK top \in Nat : \A y \in DOMAIN tree[t] : y <= top
      BY <1>2 DEF Bounded
    <3>2. \A y \in DOMAIN tree[t] : y \in Nat
      BY <1>2, StopsAssumption DEF LevelTypes
    <3>5. \A y \in DOMAIN tree'[t] : y \in DOMAIN tree[t] \/ y = a
      BY <1>11
    <3>3. CASE a <= top
      BY <3>1, <3>3, <3>5
    <3>4. CASE a > top
      <4>1. \A y \in DOMAIN tree[t] : y <= a
        BY <3>1, <3>2, <3>4, <1>3
      <4>2. a \in Nat
        BY <1>3
      <4>3. \A y \in DOMAIN tree'[t] : y <= a
        BY <4>1, <4>2, <3>5
      <4> QED
        BY <4>2, <4>3
    <3> QED
      BY <3>3, <3>4, <1>3
  <2>10. Placed'
    <3>1. ASSUME NEW m \in Used'
          PROVE  /\ nodes'[m].trigger \in DOMAIN tree'[nodes'[m].side]
                 /\ nodes'[m].level = tree'[nodes'[m].side][nodes'[m].trigger]
      <4>1. CASE m = n
        BY <4>1, <1>7, <1>11, <2>1, <2>4
      <4>2. CASE m # n
        <5>1. m \in Used /\ m \in NodeSlots
          BY <4>2, <1>2, <1>6 DEF NodeTypes
        <5>2. /\ nodes[m].side \in Side /\ nodes[m].trigger \in DOMAIN tree[nodes[m].side]
              /\ nodes[m].level = tree[nodes[m].side][nodes[m].trigger]
          BY <5>1, <1>2, LevelOfSlot
        <5> QED
          BY <4>2, <5>1, <5>2, <1>11, <2>1, <2>4
      <4> QED
        BY <4>1, <4>2
    <3>2. ASSUME NEW t \in Side, NEW y \in DOMAIN tree'[t] PROVE levels'[tree'[t][y]].price = y
      <4>1. CASE t = s /\ y = a /\ tree'[t][y] = l
        BY <4>1, <1>11, <2>1, <2>5 DEF b
      <4>2. CASE y \in DOMAIN tree[t] /\ tree'[t][y] = tree[t][y] /\ tree[t][y] # l
        <5>1. tree[t][y] \in LevelSlots
          BY <4>2, <1>2 DEF LevelTypes, Range
        <5> QED
          BY <4>2, <5>1, <1>2, <1>11, <2>1, <2>5 DEF Placed
      <4> QED
        BY <4>1, <4>2, <1>11
    <3>3. ASSUME NEW k \in LevelSlots \ LevelsInTree' PROVE levels'[k] = ZeroLevel
      BY <3>3, <1>2, <1>11, <2>1, <2>5 DEF Placed
    <3> QED
      BY <3>1, <3>2, <3>3 DEF Placed
  <2>11. Added
    <3>1. \A m \in Used : m \in NodeSlots \ {n}
      BY <1>2, <1>5 DEF NodeTypes
    <3> QED
      BY <3>1, <1>7, <2>1, <2>4 DEF KeepsPlace
  <2> QED
    BY <1>11, <2>6, <2>7, <2>8, <2>9, <2>10, <2>11 DEF BookInv, Linked
<1>12. CASE a \in DOMAIN tree[s] /\ Appended(filled, levels, n, tree[s][a])
            /\ UNCHANGED <<tree, freeLevels, pc>>
  <2> DEFINE l == tree[s][a]
  <2>1. l \in LevelSlots /\ l \in Range(tree[s]) /\ l \in LevelsInTree /\ levels[l].price = a
    BY <1>2, <1>3, <1>12 DEF LevelTypes, Placed, Range, LevelsInTree, Side
  <2>2. LevelPartition' /\ LevelsInTree' = LevelsInTree \cup {l}
    BY <1>2, <1>12, <2>1 DEF LevelPartition, LevelsInTree
  <2>3. \A t \in Side : \A y \in DOMAIN tree[t] :
           (t = s /\ y = a) \/ tree[t][y] # l
    <3> SUFFICES ASSUME NEW t \in Side, NEW y \in DOMAIN tree[t], tree[t][y] = l
                 PROVE  t = s /\ y = a
      OBVIOUS
    <3>1. l \in Range(tree[t])
      BY DEF Range
    <3>2. t = s
      BY <3>1, <2>1, <1>2, <1>3 DEF LevelPartition, Side
    <3>3. y = a
      BY <3>2, <1>2, <1>12 DEF LevelPartition, IsInjective
    <3> QED
      BY <3>2, <3>3
  <2>4. levels \in [LevelSlots -> LevelRecord] /\ DOMAIN tree' = Side /\ pc' = "idle"
        /\ \A t \in Side : /\ DOMAIN tree'[t] \subseteq DOMAIN tree[t] \cup {a}
                           /\ Range(tree'[t]) \subseteq LevelSlots
    BY <1>1, <1>2, <1>12 DEF LevelTypes
  <2>5. \A t \in Side : \A y \in DOMAIN tree'[t] :
           \/ t = s /\ y = a /\ tree'[t][y] = l
           \/ y \in DOMAIN tree[t] /\ tree'[t][y] = tree[t][y] /\ tree[t][y] # l
    BY <1>12, <2>3
  <2>6. a \in DOMAIN tree'[s] /\ tree'[s][a] = l
        /\ \A t \in Side : \A y \in DOMAIN tree[t] :
              y \in DOMAIN tree'[t] /\ tree'[t][y] = tree[t][y]
    BY <1>12
  <2>7. Appended(filled, levels, n, l)
    BY <1>12
  <2> HIDE DEF l, filled
  <2>8. Bounded' /\ BookInv' /\ Added
    BY <1>11, <2>1, <2>2, <2>4, <2>5, <2>6, <2>7
  <2> QED
    BY <2>8, <1>8, <1>9 DEF IInv, n
<1>13. CASE /\ a \notin DOMAIN tree[s]
            /\ ~Exhausted(freeLevels)
            /\ tree' = [tree EXCEPT ![s] = Put(@, a, NextSlot(freeLevels))]
            /\ Appended(filled, [levels EXCEPT ![NextSlot(freeLevels)].price = a], n,
                        NextSlot(freeLevels))
            /\ freeLevels' = Acquire(freeLevels)
            /\ UNCHANGED pc
  <2> DEFINE l == NextSlot(freeLevels)
             ls == [levels EXCEPT ![l].price = a]
  <2>1. /\ l \in LevelSlots /\ l \notin LevelsInTree /\ levels[l] = ZeroLevel
        /\ LevelPartition' /\ LevelsInTree' = LevelsInTree \cup {l}
        /\ DOMAIN tree' = Side
        /\ \A t \in Side : /\ DOMAIN tree[t] \subseteq DOMAIN tree'[t]
                           /\ DOMAIN tree'[t] \subseteq DOMAIN tree[t] \cup {a}
                           /\ Range(tree'[t]) \subseteq LevelSlots
        /\ \A t \in Side : \A y \in DOMAIN tree'[t] :
              \/ t = s /\ y = a /\ tree'[t][y] = l
              \/ y \in DOMAIN tree[t] /\ tree'[t][y] = tree[t][y]
        /\ a \in DOMAIN tree'[s] /\ tree'[s][a] = l
        /\ \A t \in Side : \A y \in DOMAIN tree[t] : tree'[t][y] = tree[t][y]
    BY <1>2, <1>3, <1>13, NewLevelTree
  <2>2. Appended(filled, ls, n, l) /\ pc' = "idle"
    BY <1>1, <1>13
  <2> HIDE DEF l, filled
  <2>3. \A t \in Side : \A y \in DOMAIN tree[t] : tree[t][y] # l
    BY <2>1 DEF LevelsInTree, Range, Side
  <2>4. /\ ls[l] = [levels[l] EXCEPT !.price = a] /\ levels[l] \in LevelRecord
        /\ \A k \in LevelSlots \ {l} : ls[k] = levels[k]
        /\ ls = [k \in LevelSlots |-> ls[k]]
    BY <1>2, <2>1 DEF LevelTypes
  <2> HIDE DEF ls
  <2>5. /\ ls[l] \in LevelRecord /\ ls[l].head = levels[l].head /\ ls[l].tail = levels[l].tail
        /\ ls[l].count = levels[l].count /\ ls[l].price = a
    BY <1>3, <2>4 DEF LevelRecord
  <2>6. ls \in [LevelSlots -> LevelRecord]
    BY <1>2, <2>4, <2>5 DEF LevelTypes
  <2>7. \A t \in Side : \A y \in DOMAIN tree'[t] :
           \/ t = s /\ y = a /\ tree'[t][y] = l
           \/ y \in DOMAIN tree[t] /\ tree'[t][y] = tree[t][y] /\ tree[t][y] # l
    BY <2>1, <2>3
  <2>8. \A t \in Side : \A y \in DOMAIN tree[t] :
              y \in DOMAIN tree'[t] /\ tree'[t][y] = tree[t][y]
    BY <2>1
  <2>9. \A t \in Side : /\ DOMAIN tree'[t] \subseteq DOMAIN tree[t] \cup {a}
                        /\ Range(tree'[t]) \subseteq LevelSlots
    BY <2>1
  <2>10. Bounded' /\ BookInv' /\ Added
    BY <1>11, <2>1, <2>2, <2>4, <2>5, <2>6, <2>7, <2>8, <2>9
  <2> QED
    BY <2>10, <1>8, <1>9 DEF IInv, n
<1>14. CASE /\ nodes' = filled /\ pc' = "panicked" /\ UNCHANGED <<levels, tree, freeLevels>>
  <2>1. /\ nodes' \in [NodeSlots -> NodeRecord] /\ nodes'[n] = r
        /\ \A m \in NodeSlots \ {n} : nodes'[m] = nodes[m]
    BY <1>2, <1>4, <1>7, <1>14 DEF NodeTypes
  <2>2. NodeTypes' /\ Indexed'
    BY <2>1, <1>7, <1>10
  <2>3. LevelsInTree' = LevelsInTree
    BY <1>14 DEF LevelsInTree
  <2>4. LevelTypes' /\ LevelPartition' /\ Bounded' /\ Placed' /\ Linked'
    BY <2>3, <1>2, <1>14 DEF LevelTypes, LevelPartition, Bounded, Placed, Linked
  <2>5. Added
    <3>1. \A m \in Used : m \in NodeSlots \ {n}
      BY <1>2, <1>5 DEF NodeTypes
    <3> QED
      BY <3>1, <1>7, <2>1 DEF KeepsPlace
  <2> QED
    BY <2>2, <2>4, <2>5, <1>8, <1>9 DEF IInv, BookInv, n
<1> QED
  BY <1>1, <1>12, <1>13, <1>14

LEMMA NextInv == IInv /\ [Next]_vars => IInv'
<1> SUFFICES ASSUME IInv, [Next]_vars PROVE IInv'
  OBVIOUS
<1>1. CASE \E o \in OrderIds, c \in Stops : AddStop(o, c)
  BY <1>1, AddStopInv
<1>2. CASE \E o \in OrderIds, u \in Users : CancelStop(o, u)
  BY <1>2, CancelStopInv
<1>3. CASE \/ \E p \in Prices : CheckTriggers(p)
           \/ SellsDone \/ BuysDone
           \/ \E t \in Times : ExpireGTD(t)
  BY <1>3, LoopsInv
<1>4. CASE EnterLevel
  BY <1>4, EnterLevelInv
<1>5. CASE DrainNode
  BY <1>5, DrainNodeInv
<1>6. CASE LeaveLevel
  BY <1>6, LeaveLevelInv
<1>7. CASE \E n \in NodeSlots : ExpireOne(n)
  BY <1>7, ExpireOneInv
<1>8. CASE ReleaseNode
  BY <1>8, ReleaseNodeInv
<1>9. CASE UNCHANGED vars
  <2>1. Used' = Used /\ LevelsInTree' = LevelsInTree
    BY <1>9 DEF vars, Used, LevelsInTree
  <2>2. \A k : MembersOf(k)' = MembersOf(k) /\ First(k)' = First(k)
    BY <1>9, <2>1 DEF vars, MembersOf, First
  <2>3. ScanTypes' /\ Phases' /\ NodePartition' /\ Bounded'
    BY <1>9, <2>1 DEF vars, IInv, ScanTypes, Phases, NodePartition, Bounded
  <2>4. NodeTypes' /\ LevelTypes' /\ LevelPartition' /\ Indexed' /\ Placed'
    BY <1>9, <2>1 DEF vars, IInv, BookInv, NodeTypes, LevelTypes, LevelPartition, Indexed,
                      Placed
  <2>5. Linked'
    BY <1>9, <2>1, <2>2 DEF vars, IInv, BookInv, Linked, NodesLinked, LevelsLinked
  <2> QED
    BY <2>3, <2>4, <2>5 DEF IInv, BookInv
<1> QED
  BY <1>1, <1>2, <1>3, <1>4, <1>5, <1>6, <1>7, <1>8, <1>9 DEF Next

------------------------------------------------------------------------------
(* The theorems.                                                             *)

LEMMA Invariance == Spec => []IInv
<1>1. Init => IInv
  BY InitInv
<1>2. IInv /\ [Next]_vars => IInv'
  BY NextInv
<1> QED
  BY <1>1, <1>2, PTL DEF Spec

\* Types of all variables.
THEOREM TypeCorrect == Spec => []TypeOK
<1>1. IInv => TypeOK
  BY Consequences
<1> QED
  BY <1>1, Invariance, PTL

\* README invariant 8: no slot of either pool is lost, handed out twice or released while an
\* order or a price still points to it, through every loop of CheckTriggers and ExpireGTD
\* and also when AddStop has panicked half way.
THEOREM EverySlotHasOnePlace == Spec => []SlotsPartition
<1>1. IInv => SlotsPartition
  BY Consequences
<1> QED
  BY <1>1, Invariance, PTL

------------------------------------------------------------------------------
(* Reading a list.                                                           *)

NextOf(q, f) == IF q = <<>> THEN f ELSE nodes[Last(q)].next
Longer(q, f) == IF NextOf(q, f) = Nil THEN q ELSE Append(q, NextOf(q, f))

\* w holds what has been read after each of k steps.
Walks(w, k, f) == w = [i \in 0..k |-> IF i = 0 THEN <<>> ELSE Longer(w[i - 1], f)]

LEMMA WalksExist ==
    ASSUME NEW k \in Nat, NEW f
    PROVE  \E w : Walks(w, k, f)
<1> DEFINE T == {i \in Nat : ~\E w : Walks(w, i, f)}
<1> SUFFICES ASSUME T # {} PROVE FALSE
  OBVIOUS
<1>1. PICK x \in T : \A y \in T : x <= y
  <2>1. T \subseteq Nat
    OBVIOUS
  <2> HIDE DEF T
  <2> QED
    BY <2>1, Least
<1>2. x \in Nat /\ ~\E w : Walks(w, x, f)
  OBVIOUS
<1>3. CASE x = 0
  <2> DEFINE w == [i \in 0..0 |-> <<>>]
  <2>1. w = [i \in 0..0 |-> IF i = 0 THEN <<>> ELSE Longer(w[i - 1], f)]
    OBVIOUS
  <2> QED
    BY <2>1, <1>2, <1>3 DEF Walks
<1>4. CASE x # 0
  <2>1. x - 1 \in Nat /\ x - 1 \notin T
    BY <1>1, <1>2, <1>4
  <2>2. PICK v : Walks(v, x - 1, f)
    BY <2>1
  <2>3. /\ \A i \in 0..(x - 1) : v[i] = IF i = 0 THEN <<>> ELSE Longer(v[i - 1], f)
    BY <2>2 DEF Walks
  <2> HIDE DEF T
  <2> DEFINE w == [i \in 0..x |-> IF i = x THEN Longer(v[x - 1], f) ELSE v[i]]
             u == [i \in 0..x |-> IF i = 0 THEN <<>> ELSE Longer(w[i - 1], f)]
  <2>4. \A i \in 0..(x - 1) : w[i] = v[i]
    BY <1>2
  <2>5. ASSUME NEW i \in 0..x
        PROVE  w[i] = IF i = 0 THEN <<>> ELSE Longer(w[i - 1], f)
    <3>1. CASE i = x
      <4>1. x - 1 \in 0..(x - 1) /\ w[x] = Longer(v[x - 1], f)
        BY <1>2, <1>4
      <4> HIDE DEF w
      <4> QED
        BY <4>1, <3>1, <2>4, <1>4
    <3>2. CASE i # x
      <4>1. i \in 0..(x - 1) /\ (i # 0 => i - 1 \in 0..(x - 1))
        BY <3>2, <1>2
      <4> HIDE DEF w
      <4> QED
        BY <4>1, <2>3, <2>4
    <3> QED
      BY <3>1, <3>2
  <2>6. w = u
    <3>1. DOMAIN w = 0..x /\ w = [i \in 0..x |-> w[i]]
      OBVIOUS
    <3> HIDE DEF w
    <3> QED
      BY <3>1, <2>5
  <2>7. Walks(w, x, f)
    BY <2>6 DEF Walks
  <2> QED
    BY <2>7, <1>2
<1> QED
  BY <1>3, <1>4

\* Chain is the last of them.
LEMMA ChainWalks ==
    ASSUME NEW f
    PROVE  \E w : Walks(w, NodeCap, f) /\ Chain(f) = w[NodeCap]
<1> DEFINE W == CHOOSE w : Walks(w, NodeCap, f)
<1>1. Walks(W, NodeCap, f)
  BY StopsAssumption, WalksExist
<1>2. Chain(f) = W[NodeCap]
  BY DEF Chain, Walks, Longer, NextOf
<1> QED
  BY <1>1, <1>2

\* What the invariant says of a list: f is the first of the slots M, or there is none.
LinkedFrom(f, M) ==
    /\ f # Nil => f \in M /\ nodes[f].prev \notin M
    /\ \A n \in M : nodes[n].next # Nil => /\ nodes[n].next \in M
                                           /\ nodes[nodes[n].next].prev = n
    /\ \A n \in M \ {f} : /\ nodes[n].prev \in M
                          /\ nodes[nodes[n].prev].next = n
                          /\ nodes[nodes[n].prev].seq < nodes[n].seq

\* What has been read of it after k steps.
ReadSoFar(q, k, f, M) ==
    /\ q \in Seq(M) /\ Len(q) <= k
    /\ q # <<>> => q[1] = f
    /\ \A i, j \in 1..Len(q) : i < j => nodes[q[i]].seq < nodes[q[j]].seq
    /\ \A i \in 1..Len(q) : i # 1 => /\ nodes[q[i - 1]].next = q[i]
                                     /\ nodes[q[i]].prev = q[i - 1]
    /\ Len(q) < k => NextOf(q, f) = Nil

LEMMA ReadOn ==
    ASSUME NodeTypes, NEW M \in SUBSET NodeSlots, NEW f, LinkedFrom(f, M),
           NEW k \in Nat, NEW q, ReadSoFar(q, k, f, M)
    PROVE  ReadSoFar(Longer(q, f), k + 1, f, M)
<1> DEFINE m == NextOf(q, f)
           n == Len(q)
<1>1. /\ n \in Nat /\ n <= k /\ DOMAIN q = 1..n /\ q \in Seq(M)
      /\ \A i \in 1..n : q[i] \in M
  BY LenProperties, ElementOfSeq DEF ReadSoFar
<1>2. CASE m = Nil
  <2>1. Longer(q, f) = q
    BY <1>2 DEF Longer
  <2>2. n <= k + 1
    BY <1>1
  <2> QED
    BY <2>1, <2>2, <1>2 DEF ReadSoFar
<1>3. CASE m # Nil
  <2> DEFINE r == Append(q, m)
  <2>1. Longer(q, f) = r
    BY <1>3 DEF Longer
  <2>2. n = k
    <3>1. n < k => m = Nil
      BY DEF ReadSoFar
    <3> HIDE DEF n, m
    <3> QED
      BY <1>1, <1>3, <3>1
  <2>3. q # <<>> => n \in 1..n /\ Last(q) = q[n] /\ m = nodes[q[n]].next
    <3>1. q # <<>> => n # 0
      BY <1>1, EmptySeq
    <3> QED
      BY <3>1, <1>1 DEF NextOf, Last
  <2>4. q # <<>> => m \in M /\ nodes[m].prev = q[n] /\ nodes[q[n]].seq < nodes[m].seq
    <3> SUFFICES ASSUME q # <<>>
                 PROVE  m \in M /\ nodes[m].prev = q[n] /\ nodes[q[n]].seq < nodes[m].seq
      OBVIOUS
    <3>1. q[n] \in M /\ m = nodes[q[n]].next
      BY <2>3, <1>1
    <3>2. m \in M /\ nodes[m].prev = q[n]
      BY <3>1, <1>3 DEF LinkedFrom
    <3>3. m # f
      BY <3>1, <3>2, <1>3 DEF LinkedFrom
    <3> QED
      BY <3>2, <3>3 DEF LinkedFrom
  <2>5. q = <<>> => m = f /\ m \in M
    BY <1>3 DEF NextOf, LinkedFrom
  <2>6. /\ r \in Seq(M) /\ Len(r) = n + 1 /\ r # <<>>
        /\ \A i \in 1..n : r[i] = q[i]
        /\ r[n + 1] = m
    BY <1>1, <2>4, <2>5, AppendProperties
  <2>7. q = <<>> => n = 0
    BY EmptySeq
  <2>8. \A i \in M : nodes[i].seq \in Nat
    BY DEF NodeTypes, NodeRecord
  <2> HIDE DEF r, m, n
  <2>9. Len(r) <= k + 1 /\ ~(Len(r) < k + 1)
    BY <2>2, <2>6, <1>1
  <2>10. r[1] = f
    <3>1. CASE q = <<>>
      BY <3>1, <2>5, <2>6, <2>7
    <3>2. CASE q # <<>>
      <4>1. 1 \in 1..n
        BY <3>2, <2>3
      <4> QED
        BY <4>1, <3>2, <2>6 DEF ReadSoFar
    <3> QED
      BY <3>1, <3>2
  <2>11. \A i, j \in 1..n : i < j => nodes[q[i]].seq < nodes[q[j]].seq
    BY DEF ReadSoFar, n
  <2>12. ASSUME NEW i \in 1..(n + 1), NEW j \in 1..(n + 1), i < j
         PROVE  nodes[r[i]].seq < nodes[r[j]].seq
    <3>1. i \in 1..n /\ r[i] = q[i] /\ q[i] \in M
      BY <2>12, <2>6, <1>1
    <3>2. CASE j # n + 1
      <4>1. j \in 1..n
        BY <3>2, <1>1
      <4> QED
        BY <4>1, <3>1, <2>6, <2>11, <2>12
    <3>3. CASE j = n + 1
      <4>1. q # <<>>
        BY <3>1, <2>7
      <4>2. n \in 1..n /\ q[n] \in M /\ m \in M /\ nodes[q[n]].seq < nodes[m].seq
        BY <4>1, <2>3, <2>4, <1>1
      <4>3. nodes[q[i]].seq <= nodes[q[n]].seq
        <5>1. CASE i = n
          BY <5>1, <4>2, <2>8
        <5>2. CASE i # n
          <6>1. i < n
            BY <5>2, <3>1, <1>1
          <6>2. nodes[q[i]].seq < nodes[q[n]].seq
            BY <6>1, <3>1, <4>2, <2>11
          <6> QED
            BY <6>2, <3>1, <4>2, <2>8
        <5> QED
          BY <5>1, <5>2
      <4>4. /\ nodes[q[i]].seq \in Nat /\ nodes[q[n]].seq \in Nat /\ nodes[m].seq \in Nat
        BY <3>1, <4>2, <2>8
      <4>5. nodes[q[i]].seq < nodes[m].seq
        BY <4>2, <4>3, <4>4
      <4> QED
        BY <4>5, <3>1, <3>3, <2>6
    <3> QED
      BY <3>2, <3>3
  <2>13. ASSUME NEW i \in 1..(n + 1), i # 1
         PROVE  nodes[r[i - 1]].next = r[i] /\ nodes[r[i]].prev = r[i - 1]
    <3>1. i - 1 \in 1..n /\ r[i - 1] = q[i - 1]
      <4>1. i - 1 \in 1..n
        BY <2>13, <1>1
      <4> QED
        BY <4>1, <2>6
    <3>2. CASE i = n + 1
      <4>1. q # <<>> /\ i - 1 = n
        BY <3>1, <3>2, <2>7, <1>1
      <4> QED
        BY <4>1, <3>1, <3>2, <2>3, <2>4, <2>6
    <3>3. CASE i # n + 1
      <4>1. i \in 1..n /\ r[i] = q[i]
        BY <3>3, <2>6, <1>1
      <4> QED
        BY <4>1, <3>1, <2>13 DEF ReadSoFar, n
    <3> QED
      BY <3>2, <3>3
  <2>14. ReadSoFar(r, k + 1, f, M)
    BY <2>6, <2>9, <2>10, <2>12, <2>13 DEF ReadSoFar
  <2> QED
    BY <2>1, <2>14
<1> QED
  BY <1>2, <1>3

\* A list read in order of arrival has no slot twice.
LEMMA AscendingIsInjective ==
    ASSUME NodeTypes, NEW M \in SUBSET NodeSlots, NEW q \in Seq(M),
           \A i, j \in 1..Len(q) : i < j => nodes[q[i]].seq < nodes[q[j]].seq
    PROVE  IsInjective(q) /\ q \in Seq(NodeSlots) /\ Len(q) <= NodeCap
<1>1. Len(q) \in Nat /\ DOMAIN q = 1..Len(q) /\ q \in [1..Len(q) -> M]
  BY LenProperties
<1>2. \A i \in 1..Len(q) : q[i] \in M /\ nodes[q[i]].seq \in Nat
  BY <1>1 DEF NodeTypes, NodeRecord
<1>3. ASSUME NEW i \in 1..Len(q), NEW j \in 1..Len(q), q[i] = q[j] PROVE i = j
  <2>1. ~(i < j) /\ ~(j < i)
    BY <1>2, <1>3
  <2> QED
    BY <2>1, <1>1
<1>4. IsInjective(q)
  BY <1>1, <1>3 DEF IsInjective
<1>5. q \in Seq(NodeSlots)
  BY DEF NodeSlots
<1> QED
  BY <1>4, <1>5, StackFits, StopsAssumption DEF NodeSlots

\* What Chain returns.
LEMMA ChainIsList ==
    ASSUME NodeTypes, NEW M \in SUBSET NodeSlots, NEW f, LinkedFrom(f, M)
    PROVE  LET c == Chain(f) IN
           /\ ReadSoFar(c, NodeCap, f, M)
           /\ IsInjective(c) /\ Len(c) <= NodeCap
           /\ NextOf(c, f) = Nil
           /\ ToSet(c) = M
<1> DEFINE c == Chain(f)
<1>1. PICK w : Walks(w, NodeCap, f) /\ c = w[NodeCap]
  BY ChainWalks
<1>2. NodeCap \in Nat
  BY StopsAssumption
<1>3. \A k \in 0..NodeCap : w[k] = IF k = 0 THEN <<>> ELSE Longer(w[k - 1], f)
  BY <1>1 DEF Walks
<1> HIDE DEF c
<1>4. ReadSoFar(w[0], 0, f, M)
  <2>1. w[0] = <<>>
    BY <1>2, <1>3
  <2>2. <<>> \in Seq(M) /\ Len(<<>>) = 0
    BY EmptySeq
  <2> QED
    BY <2>1, <2>2 DEF ReadSoFar
<1>5. \A k \in 0..NodeCap : ReadSoFar(w[k], k, f, M)
  <2> DEFINE T == {k \in 0..NodeCap : ~ReadSoFar(w[k], k, f, M)}
  <2> SUFFICES ASSUME T # {} PROVE FALSE
    OBVIOUS
  <2>1. PICK x \in T : \A y \in T : x <= y
    <3>1. T \subseteq Nat
      BY <1>2
    <3> HIDE DEF T
    <3> QED
      BY <3>1, Least
  <2>2. x \in 0..NodeCap /\ x # 0 /\ ~ReadSoFar(w[x], x, f, M)
    BY <1>4
  <2>3. x - 1 \in 0..NodeCap /\ x - 1 \in Nat /\ x - 1 \notin T /\ (x - 1) + 1 = x
    BY <2>1, <2>2, <1>2
  <2>4. ReadSoFar(w[x - 1], x - 1, f, M)
    BY <2>3
  <2> HIDE DEF T
  <2>5. ReadSoFar(Longer(w[x - 1], f), (x - 1) + 1, f, M)
    BY <2>3, <2>4, ReadOn
  <2>6. w[x] = Longer(w[x - 1], f)
    BY <2>2, <1>3
  <2> QED
    BY <2>2, <2>3, <2>5, <2>6
<1>6. ReadSoFar(c, NodeCap, f, M)
  BY <1>1, <1>2, <1>5
<1>7. /\ c \in Seq(M) /\ IsInjective(c) /\ Len(c) <= NodeCap
  BY <1>6, AscendingIsInjective DEF ReadSoFar
<1>8. Len(c) \in Nat /\ DOMAIN c = 1..Len(c) /\ \A i \in 1..Len(c) : c[i] \in M
  BY <1>7, LenProperties, ElementOfSeq
<1>9. NextOf(c, f) = Nil
  <2> SUFFICES ASSUME NextOf(c, f) # Nil PROVE FALSE
    OBVIOUS
  <2>1. Longer(c, f) = Append(c, NextOf(c, f))
    BY DEF Longer
  <2>2. ReadSoFar(Longer(c, f), NodeCap + 1, f, M)
    BY <1>2, <1>6, ReadOn
  <2>3. Len(Longer(c, f)) <= NodeCap
    BY <2>2, AscendingIsInjective DEF ReadSoFar
  <2>4. Longer(c, f) \in Seq(M) /\ Len(Longer(c, f)) < NodeCap + 1
    <3>1. Longer(c, f) \in Seq(M)
      BY <2>2 DEF ReadSoFar
    <3>2. Len(Longer(c, f)) \in Nat
      BY <3>1, LenProperties
    <3> QED
      BY <3>1, <3>2, <2>3, <1>2
  <2>5. NextOf(Longer(c, f), f) = Nil
    BY <2>2, <2>4 DEF ReadSoFar
  <2>6. Len(c) = NodeCap
    <3>1. ~(Len(c) < NodeCap)
      BY <1>6 DEF ReadSoFar
    <3>2. Len(c) \in Nat /\ Len(c) <= NodeCap
      BY <1>7, <1>8
    <3> QED
      BY <3>1, <3>2, <1>2
  <2>7. Len(Longer(c, f)) = Len(c) + 1
    <3>1. NextOf(c, f) \in M
      <4>1. CASE c = <<>>
        BY <4>1 DEF NextOf, LinkedFrom
      <4>2. CASE c # <<>>
        <5>1. Len(c) # 0
          BY <4>2, <1>7, EmptySeq
        <5>2. Len(c) \in 1..Len(c) /\ NextOf(c, f) = nodes[c[Len(c)]].next
          BY <5>1, <4>2, <1>8 DEF NextOf, Last
        <5>3. c[Len(c)] \in M
          BY <5>2, <1>8
        <5> QED
          BY <5>2, <5>3 DEF LinkedFrom
      <4> QED
        BY <4>1, <4>2
    <3> QED
      BY <3>1, <2>1, <1>7, AppendProperties
  <2> QED
    BY <2>3, <2>6, <2>7, <1>2
<1>10. ToSet(c) = M
  <2>1. ToSet(c) \subseteq M
    BY <1>8 DEF ToSet
  <2> SUFFICES ASSUME M \ ToSet(c) # {} PROVE FALSE
    BY <2>1
  <2>2. PICK m \in M \ ToSet(c) : \A k \in M \ ToSet(c) : nodes[m].seq <= nodes[k].seq
    BY Oldest
  <2>3. m # f
    <3> SUFFICES ASSUME m = f PROVE FALSE
      OBVIOUS
    <3>1. m # Nil
      BY <2>2, NilIsNoSlot
    <3>2. c # <<>>
      BY <3>1, <1>9 DEF NextOf
    <3>3. c[1] = f /\ 1 \in 1..Len(c)
      <4>1. Len(c) # 0
        BY <3>2, <1>7, EmptySeq
      <4> QED
        BY <4>1, <3>2, <1>6, <1>8 DEF ReadSoFar
    <3> QED
      BY <3>3, <2>2, <1>8 DEF ToSet
  <2> DEFINE p == nodes[m].prev
  <2>4. p \in M /\ nodes[p].next = m /\ nodes[p].seq < nodes[m].seq
    BY <2>2, <2>3 DEF LinkedFrom
  <2>5. nodes[p].seq \in Nat /\ nodes[m].seq \in Nat
    BY <2>2, <2>4 DEF NodeTypes, NodeRecord
  <2>6. p \in ToSet(c)
    BY <2>2, <2>4, <2>5
  <2>7. PICK i \in 1..Len(c) : p = c[i]
    BY <2>6, <1>8 DEF ToSet
  <2>8. CASE i = Len(c)
    <3>1. c # <<>>
      BY <2>7, EmptySeq
    <3>2. NextOf(c, f) = nodes[c[Len(c)]].next
      BY <3>1 DEF NextOf, Last
    <3>3. nodes[p].next = Nil
      BY <3>2, <2>7, <2>8, <1>9
    <3> QED
      BY <3>3, <2>2, <2>4, NilIsNoSlot
  <2>9. CASE i # Len(c)
    <3>1. i + 1 \in 1..Len(c) /\ i + 1 # 1 /\ (i + 1) - 1 = i
      <4>1. Len(c) \in Nat /\ i \in 1..Len(c) /\ i # Len(c)
        BY <2>9, <1>8
      <4> HIDE DEF p
      <4> QED
        BY <4>1
    <3>2. nodes[c[(i + 1) - 1]].next = c[i + 1]
      BY <3>1, <1>6 DEF ReadSoFar
    <3>3. m = c[i + 1]
      BY <3>1, <3>2, <2>4, <2>7
    <3> QED
      BY <3>1, <3>3, <2>2, <1>8 DEF ToSet
  <2> QED
    BY <2>8, <2>9
<1> QED
  BY <1>6, <1>7, <1>9, <1>10 DEF c

\* What ListsAgree needs of one level, in terms of the pointers.
ListAt(s, p) ==
    LET l == tree[s][p]
        M == SlotsAt(s, p)
    IN  /\ levels[l].price = p
        /\ \A n \in M : nodes[n].level = l
        /\ LinkedFrom(First(l), M)
        /\ l # best => /\ First(l) # Nil /\ nodes[First(l)].prev = Nil
                       /\ levels[l].tail \in M /\ nodes[levels[l].tail].next = Nil
                       /\ levels[l].count = Cardinality(M)

AllLists == \A s \in Side : \A p \in DOMAIN tree[s] : ListAt(s, p)

LEMMA PointersGiveList ==
    ASSUME NodeTypes, NEW s \in Side, NEW p \in DOMAIN tree[s], ListAt(s, p)
    PROVE  LET l == tree[s][p]
               c == Chain(IF l = best THEN cursor ELSE levels[l].head)
           IN  /\ levels[l].price = p
               /\ ToSet(c) = SlotsAt(s, p)
               /\ \A i \in DOMAIN c : nodes[c[i]].level = l
               /\ \A i, j \in DOMAIN c : i < j => nodes[c[i]].seq < nodes[c[j]].seq
               /\ l # best =>
                     /\ c # <<>>
                     /\ levels[l].count = Len(c)
                     /\ levels[l].tail = Last(c)
                     /\ nodes[Head(c)].prev = Nil
                     /\ \A i \in 2..Len(c) : nodes[c[i]].prev = c[i - 1]
<1> DEFINE l == tree[s][p]
           M == SlotsAt(s, p)
           f == First(l)
           c == Chain(f)
<1>1. M \in SUBSET NodeSlots
  BY DEF SlotsAt, NodeTypes, Used
<1>2. /\ levels[l].price = p
      /\ \A n \in M : nodes[n].level = l
      /\ LinkedFrom(f, M)
      /\ l # best => /\ f # Nil /\ nodes[f].prev = Nil
                     /\ levels[l].tail \in M /\ nodes[levels[l].tail].next = Nil
                     /\ levels[l].count = Cardinality(M)
  BY DEF ListAt
<1>3. f = IF l = best THEN cursor ELSE levels[l].head
  BY DEF First
<1> HIDE DEF l, M, f
<1>4. /\ ReadSoFar(c, NodeCap, f, M) /\ IsInjective(c)
      /\ NextOf(c, f) = Nil /\ ToSet(c) = M
  BY <1>1, <1>2, ChainIsList
<1> HIDE DEF c
<1>5. c \in Seq(M)
  BY <1>4 DEF ReadSoFar
<1>6. /\ Len(c) \in Nat /\ DOMAIN c = 1..Len(c) /\ c \in [1..Len(c) -> M]
      /\ \A i \in 1..Len(c) : c[i] \in M
  BY <1>5, LenProperties, ElementOfSeq
<1>7. \A i \in DOMAIN c : nodes[c[i]].level = l
  BY <1>2, <1>6
<1>8. \A i, j \in DOMAIN c : i < j => nodes[c[i]].seq < nodes[c[j]].seq
  BY <1>4, <1>6 DEF ReadSoFar
<1>9. ASSUME l # best
      PROVE  /\ c # <<>>
             /\ levels[l].count = Len(c)
             /\ levels[l].tail = Last(c)
             /\ nodes[Head(c)].prev = Nil
             /\ \A i \in 2..Len(c) : nodes[c[i]].prev = c[i - 1]
  <2>1. c # <<>>
    BY <1>2, <1>4, <1>9 DEF NextOf
  <2>2. Len(c) # 0
    BY <2>1, <1>5, EmptySeq
  <2>3. levels[l].count = Len(c)
    <3>1. c \in Surjection(1..Len(c), M)
      <4>1. \A m \in M : \E i \in 1..Len(c) : c[i] = m
        BY <1>4, <1>6 DEF ToSet
      <4> QED
        BY <4>1, <1>6 DEF Surjection
    <3>2. c \in Injection(1..Len(c), M)
      BY <1>4, <1>6 DEF Injection, IsInjective
    <3>3. IsFiniteSet(1..Len(c)) /\ Cardinality(1..Len(c)) = Len(c)
      <4>1. 1 \in Int /\ Len(c) \in Int
        BY <1>6
      <4>2. /\ IsFiniteSet(1..Len(c))
            /\ Cardinality(1..Len(c)) = IF 1 > Len(c) THEN 0 ELSE Len(c) - 1 + 1
        BY <4>1, FS_Interval
      <4>3. Len(c) \in Nat
        BY <1>6
      <4> QED
        BY <4>2, <4>3
    <3>4. Cardinality(M) = Len(c)
      BY <3>1, <3>2, <3>3, FS_Surjection
    <3> QED
      BY <3>4, <1>2, <1>9
  <2>4. levels[l].tail = Last(c)
    <3>1. levels[l].tail \in M /\ nodes[levels[l].tail].next = Nil
      BY <1>2, <1>9
    <3>2. PICK i \in 1..Len(c) : levels[l].tail = c[i]
      BY <3>1, <1>4, <1>6 DEF ToSet
    <3>3. i = Len(c)
      <4> SUFFICES ASSUME i # Len(c) PROVE FALSE
        OBVIOUS
      <4>1. i + 1 \in 1..Len(c) /\ i + 1 # 1 /\ (i + 1) - 1 = i
        <5>1. Len(c) \in Nat
          BY <1>6
        <5> QED
          BY <5>1
      <4>2. nodes[c[(i + 1) - 1]].next = c[i + 1]
        BY <4>1, <1>4 DEF ReadSoFar
      <4>3. c[i + 1] \in NodeSlots
        BY <4>1, <1>1, <1>6
      <4> QED
        BY <4>1, <4>2, <4>3, <3>1, <3>2, NilIsNoSlot
    <3> QED
      BY <3>2, <3>3 DEF Last
  <2>5. nodes[Head(c)].prev = Nil
    <3>1. c[1] = f
      BY <2>1, <1>4 DEF ReadSoFar
    <3>2. Head(c) = c[1]
      BY <2>1
    <3> QED
      BY <3>1, <3>2, <1>2, <1>9
  <2>6. ASSUME NEW i \in 2..Len(c) PROVE nodes[c[i]].prev = c[i - 1]
    <3>1. i \in 1..Len(c) /\ i # 1
      OBVIOUS
    <3> QED
      BY <3>1, <1>4 DEF ReadSoFar
  <2> QED
    BY <2>1, <2>3, <2>4, <2>5, <2>6
<1> QED
  BY <1>2, <1>3, <1>4, <1>7, <1>8, <1>9 DEF c, l, M

LEMMA ListsFromPointers == ASSUME NodeTypes, AllLists PROVE ListsAgree
<1> SUFFICES ASSUME NEW s \in Side, NEW p \in DOMAIN tree[s]
             PROVE  LET l == tree[s][p]
                        c == Chain(IF l = best THEN cursor ELSE levels[l].head)
                    IN  /\ levels[l].price = p
                        /\ ToSet(c) = SlotsAt(s, p)
                        /\ \A i \in DOMAIN c : nodes[c[i]].level = l
                        /\ \A i, j \in DOMAIN c : i < j => nodes[c[i]].seq < nodes[c[j]].seq
                        /\ l # best =>
                              /\ c # <<>>
                              /\ levels[l].count = Len(c)
                              /\ levels[l].tail = Last(c)
                              /\ nodes[Head(c)].prev = Nil
                              /\ \A i \in 2..Len(c) : nodes[c[i]].prev = c[i - 1]
  BY DEF ListsAgree
<1>1. ListAt(s, p)
  BY DEF AllLists
<1> QED
  BY <1>1, PointersGiveList

\* As long as the process has not panicked, the invariant gives the pointers.
LEMMA InvariantGivesPointers == ASSUME IInv, pc # "panicked" PROVE AllLists
<1> USE DEF IInv, BookInv
<1> SUFFICES ASSUME NEW s \in Side, NEW p \in DOMAIN tree[s] PROVE ListAt(s, p)
  BY DEF AllLists
<1> DEFINE l == tree[s][p]
           M == SlotsAt(s, p)
           f == First(l)
<1>1. l \in LevelSlots /\ l \in Range(tree[s]) /\ l \in LevelsInTree
  BY DEF LevelTypes, Range, LevelsInTree, Side
<1>2. M = MembersOf(l)
  <2>1. ASSUME NEW n \in Used, nodes[n].level = l
        PROVE  nodes[n].side = s /\ nodes[n].trigger = p
    <3>1. /\ nodes[n].side \in Side /\ nodes[n].trigger \in DOMAIN tree[nodes[n].side]
          /\ l = tree[nodes[n].side][nodes[n].trigger] /\ l \in Range(tree[nodes[n].side])
      BY <2>1, LevelOfSlot
    <3>2. nodes[n].side = s
      BY <3>1, <1>1 DEF LevelPartition, Side
    <3>3. nodes[n].trigger = p
      BY <3>1, <3>2 DEF LevelPartition, IsInjective
    <3> QED
      BY <3>2, <3>3
  <2>2. ASSUME NEW n \in Used, nodes[n].side = s, nodes[n].trigger = p
        PROVE  nodes[n].level = l
    BY <2>2, LevelOfSlot
  <2> QED
    BY <2>1, <2>2 DEF MembersOf, SlotsAt, Used
<1>3. levels[l].price = p
  BY DEF Placed
<1>4. /\ f # Nil => f \in M
      /\ l # best => /\ f # Nil /\ levels[l].tail \in M
                     /\ nodes[levels[l].tail].next = Nil /\ levels[l].count = Cardinality(M)
  BY <1>1, <1>2 DEF Linked, LevelsLinked
<1>5. M \subseteq Used /\ \A n \in M : nodes[n].level = l
  BY <1>2 DEF MembersOf
<1>6. f # Nil => nodes[f].prev \notin Used /\ (l # best => nodes[f].prev = Nil)
  BY <1>4, <1>5 DEF Linked, NodesLinked
<1>7. ASSUME NEW n \in M, nodes[n].next # Nil
      PROVE  nodes[n].next \in M /\ nodes[nodes[n].next].prev = n
  BY <1>2, <1>5, <1>7 DEF Linked, NodesLinked, MembersOf
<1>8. ASSUME NEW n \in M \ {f}
      PROVE  /\ nodes[n].prev \in M /\ nodes[nodes[n].prev].next = n
             /\ nodes[nodes[n].prev].seq < nodes[n].seq
  BY <1>2, <1>5, <1>8 DEF Linked, NodesLinked, MembersOf
<1> HIDE DEF l, M, f
<1>9. LinkedFrom(f, M)
  BY <1>4, <1>5, <1>6, <1>7, <1>8 DEF LinkedFrom
<1> QED
  BY <1>3, <1>4, <1>5, <1>6, <1>9 DEF ListAt, l, M, f

\* The order whose level the pool could not give is indexed and in no list.
LEMMA PanicKeepsLists ==
    ASSUME IInv, pc # "panicked", [Next]_vars, pc' = "panicked"
    PROVE  AllLists'
<1> USE DEF IInv, BookInv
<1>1. PICK o \in OrderIds, c \in Stops : AddStop(o, c)
  BY DEF Next, CancelStop, CheckTriggers, EnterLevel, DrainNode, LeaveLevel, SellsDone, BuysDone,
         ExpireGTD, ExpireOne, ReleaseNode, Between, AtLevel, Scanning, Side, vars
<1> DEFINE n == NextSlot(freeNodes)
<1>2. /\ index' = Put(index, o, n) /\ o \notin DOMAIN index
      /\ c.trigger \notin DOMAIN tree[c.side]
      /\ nodes' = [nodes EXCEPT ![n] = NewNode(o, c)]
      /\ UNCHANGED <<levels, tree, best, cursor>>
      /\ ~Exhausted(freeNodes) /\ pc = "idle"
  BY <1>1 DEF AddStop, scan
<1>3. n \in NodeSlots /\ n \notin Used
  BY <1>2, AcquireSlot DEF NodePartition
<1>4. Range(index') = Used \cup {n}
  <2> DEFINE g == Put(index, o, n)
  <2>1. /\ DOMAIN g = DOMAIN index \cup {o} /\ g[o] = n
        /\ \A x \in DOMAIN index : g[x] = index[x]
        /\ Range(g) = Range(index) \cup {n}
        /\ IsInjective(index) /\ n \notin Range(index) => IsInjective(g)
    BY <1>2, PutMap
  <2> QED
    BY <2>1, <1>2 DEF Used
<1>5. /\ nodes'[n].side = c.side /\ nodes'[n].trigger = c.trigger
      /\ \A m \in NodeSlots \ {n} : nodes'[m] = nodes[m]
  BY <1>2, <1>3 DEF NodeTypes, NewNode, ZeroNode
<1> HIDE DEF n
<1>6. AllLists
  BY InvariantGivesPointers
<1> SUFFICES ASSUME NEW s \in Side, NEW p \in DOMAIN tree[s] PROVE ListAt(s, p)'
  BY <1>2 DEF AllLists
<1>7. \A m \in Used : m \in NodeSlots \ {n} /\ nodes'[m] = nodes[m]
  BY <1>3, <1>5 DEF NodeTypes
<1>8. SlotsAt(s, p)' = SlotsAt(s, p) /\ SlotsAt(s, p) \subseteq Used
  BY <1>2, <1>4, <1>5, <1>7 DEF SlotsAt, Used
<1> DEFINE l == tree[s][p]
           M == SlotsAt(s, p)
           f == First(l)
<1>9. ListAt(s, p)
  BY <1>6 DEF AllLists
<1>10. tree'[s][p] = l /\ First(l)' = f /\ levels' = levels /\ best' = best
  BY <1>2 DEF First
<1>11. /\ levels[l].price = p
       /\ \A m \in M : nodes[m].level = l
       /\ LinkedFrom(f, M)
       /\ l # best => /\ f # Nil /\ nodes[f].prev = Nil
                      /\ levels[l].tail \in M /\ nodes[levels[l].tail].next = Nil
                      /\ levels[l].count = Cardinality(M)
  BY <1>9 DEF ListAt
<1>12. \A m \in M : nodes'[m] = nodes[m]
  BY <1>7, <1>8
<1>13. f # Nil => f \in M
  BY <1>11 DEF LinkedFrom
<1>14. /\ f # Nil => f \in M /\ nodes'[f].prev \notin M
       /\ \A m \in M : nodes'[m].next # Nil => /\ nodes'[m].next \in M
                                               /\ nodes'[nodes'[m].next].prev = m
       /\ \A m \in M \ {f} : /\ nodes'[m].prev \in M
                             /\ nodes'[nodes'[m].prev].next = m
                             /\ nodes'[nodes'[m].prev].seq < nodes'[m].seq
  BY <1>11, <1>12 DEF LinkedFrom
<1>15. /\ \A m \in M : nodes'[m].level = l
       /\ l # best => nodes'[f].prev = Nil /\ nodes'[levels[l].tail].next = Nil
  BY <1>11, <1>12, <1>13
<1>16. (tree[s][p])' = l /\ (First(tree[s][p]))' = f /\ SlotsAt(s, p)' = M
  BY <1>2, <1>8 DEF First
<1> HIDE DEF l, M, f
<1>17. LinkedFrom(First(tree[s][p]), SlotsAt(s, p))'
  BY <1>14, <1>16 DEF LinkedFrom
<1> QED
  BY <1>2, <1>11, <1>15, <1>16, <1>17 DEF ListAt

Panicked == pc = "panicked"

LEMMA ListInvariance == Spec => [](NodeTypes /\ AllLists)
<1>1. Init => ~Panicked
  BY DEF Init, Panicked
<1>2. IInv /\ ~Panicked => AllLists
  BY InvariantGivesPointers DEF Panicked
<1>3. IInv /\ ~Panicked /\ [Next]_vars /\ Panicked' => AllLists'
  BY PanicKeepsLists DEF Panicked
<1>4. AllLists /\ Panicked /\ [Next]_vars => AllLists'
  <2> SUFFICES ASSUME AllLists, Panicked, [Next]_vars PROVE AllLists'
    OBVIOUS
  <2>1. UNCHANGED vars
    BY DEF Next, AddStop, CancelStop, CheckTriggers, EnterLevel, DrainNode, LeaveLevel,
           SellsDone, BuysDone, ExpireGTD, ExpireOne, ReleaseNode, Between, AtLevel,
           Scanning, Side, Panicked
  <2>2. /\ nodes' = nodes /\ levels' = levels /\ tree' = tree /\ index' = index
        /\ best' = best /\ cursor' = cursor
    BY <2>1 DEF vars
  <2>3. ASSUME NEW s \in Side, NEW p \in DOMAIN tree[s] PROVE ListAt(s, p)'
    <3>1. (tree[s][p])' = tree[s][p] /\ (First(tree[s][p]))' = First(tree[s][p])
          /\ SlotsAt(s, p)' = SlotsAt(s, p)
      BY <2>2 DEF First, SlotsAt
    <3>2. ListAt(s, p)
      BY DEF AllLists
    <3>3. LinkedFrom(First(tree[s][p]), SlotsAt(s, p))'
      BY <2>2, <3>1, <3>2 DEF LinkedFrom, ListAt
    <3> QED
      BY <2>2, <3>1, <3>2, <3>3 DEF ListAt
  <2> QED
    BY <2>2, <2>3 DEF AllLists
<1>5. IInv => NodeTypes
  BY DEF IInv, BookInv
<1> QED
  BY <1>1, <1>2, <1>3, <1>4, <1>5, Invariance, PTL DEF Spec

\* Every level's list is the same read from the head along next and from the tail along prev,
\* in order of arrival, and holds exactly the orders of its trigger price; the level's count
\* and tail agree with it.  Of the level CheckTriggers is draining this is true of what the
\* drain has still to visit.
THEOREM ListsAreLists == Spec => []ListsAgree
<1>1. NodeTypes /\ AllLists => ListsAgree
  BY ListsFromPointers
<1> QED
  BY <1>1, ListInvariance, PTL

------------------------------------------------------------------------------
(* What a scan has behind it.                                                *)

\* The level being drained is reached and is the outermost of its side; and the buys are
\* looked at only when the price reaches no sell any more.
ScanInv ==
    /\ best # Nil =>
          /\ Reaches(pc, levels[best].price)
          /\ \A q \in DOMAIN tree[pc] : IF pc = "Ask" THEN levels[best].price >= q
                                                      ELSE levels[best].price <= q
    /\ pc = "Bid" => \A p \in DOMAIN tree["Ask"] : ~Reaches("Ask", p)

\* When no level of a side is next, none of it is reached.
LEMMA NoneReached ==
    ASSUME IInv, pc \in Side, ~NextReached
    PROVE  \A p \in DOMAIN tree[pc] : ~Reaches(pc, p)
<1>1. LevelTypes /\ Bounded /\ price \in Nat
  BY StopsAssumption DEF IInv, BookInv, ScanTypes, Phases, Pointer
<1>2. DOMAIN tree[pc] \subseteq Nat
  BY <1>1, StopsAssumption DEF LevelTypes
<1> SUFFICES ASSUME NEW p \in DOMAIN tree[pc] PROVE ~Reaches(pc, p)
  OBVIOUS
<1>3. /\ Best(pc) \in DOMAIN tree[pc] /\ ~Reaches(pc, Best(pc))
      /\ IF pc = "Ask" THEN Best(pc) >= p ELSE Best(pc) <= p
  BY <1>1, BestExists DEF NextReached
<1>4. Best(pc) \in Nat /\ p \in Nat
  BY <1>2, <1>3
<1> QED
  BY <1>1, <1>3, <1>4 DEF Reaches

LEMMA ScanStep == IInv /\ ScanInv /\ [Next]_vars => ScanInv'
<1> SUFFICES ASSUME IInv, ScanInv, [Next]_vars PROVE ScanInv'
  OBVIOUS
<1>1. ASSUME best' = Nil, pc' # "Bid" PROVE ScanInv'
  BY <1>1 DEF ScanInv
<1>2. pc \notin Side => best = Nil
  BY DEF IInv, Phases
<1>3. CASE EnterLevel
  <2>1. /\ pc \in Side /\ DOMAIN tree[pc] # {} /\ Reaches(pc, Best(pc))
        /\ best' = tree[pc][Best(pc)] /\ UNCHANGED <<pools, tree, pc, price>>
    BY <1>3 DEF EnterLevel, Between, Scanning, NextReached
  <2>2. /\ Best(pc) \in DOMAIN tree[pc]
        /\ \A q \in DOMAIN tree[pc] : IF pc = "Ask" THEN Best(pc) >= q ELSE Best(pc) <= q
    BY <2>1, BestExists DEF IInv, BookInv
  <2>3. levels[tree[pc][Best(pc)]].price = Best(pc)
    BY <2>1, <2>2 DEF IInv, BookInv, Placed
  <2>4. levels'[best'].price = Best(pc)
    BY <2>1, <2>3 DEF pools
  <2> QED
    BY <2>1, <2>2, <2>4 DEF ScanInv, Reaches
<1>4. CASE DrainNode
  BY <1>4 DEF DrainNode, ScanInv, Reaches
<1>5. CASE LeaveLevel
  <2>1. /\ pc \in Side /\ best' = Nil /\ UNCHANGED <<pc, price>>
        /\ DropLevel(pc, best)
    BY <1>5 DEF LeaveLevel, AtLevel, Scanning
  <2>2. DOMAIN tree'["Ask"] \subseteq DOMAIN tree["Ask"]
    BY <2>1 DEF DropLevel, Delete, IInv, BookInv, LevelTypes, Side
  <2> QED
    BY <2>1, <2>2 DEF ScanInv, Reaches
<1>6. CASE SellsDone
  <2>1. /\ pc = "Ask" /\ best' = Nil /\ ~NextReached /\ UNCHANGED <<tree, price>>
    BY <1>6 DEF SellsDone, Between, scan
  <2>2. \A p \in DOMAIN tree["Ask"] : ~Reaches("Ask", p)
    BY <2>1, NoneReached DEF Side
  <2> QED
    BY <2>1, <2>2 DEF ScanInv, Reaches
<1>7. CASE BuysDone
  BY <1>1, <1>7 DEF BuysDone, Between
<1>8. CASE \E p \in Prices : CheckTriggers(p)
  BY <1>1, <1>2, <1>8 DEF CheckTriggers, Side
<1>9. CASE \E o \in OrderIds, c \in Stops : AddStop(o, c)
  BY <1>1, <1>2, <1>9 DEF AddStop, scan, Side
<1>10. CASE \E o \in OrderIds, u \in Users : CancelStop(o, u)
  BY <1>1, <1>2, <1>10 DEF CancelStop, scan, Side
<1>11. CASE \E t \in Times : ExpireGTD(t)
  BY <1>1, <1>2, <1>11 DEF ExpireGTD, scan, Side
<1>12. CASE \E n \in NodeSlots : ExpireOne(n)
  BY <1>1, <1>2, <1>12 DEF ExpireOne, scan, Side
<1>13. CASE ReleaseNode
  BY <1>1, <1>2, <1>13 DEF ReleaseNode, scan, Side
<1>14. CASE UNCHANGED vars
  BY <1>14 DEF vars, ScanInv, Reaches
<1> QED
  BY <1>3, <1>4, <1>5, <1>6, <1>7, <1>8, <1>9, <1>10, <1>11, <1>12, <1>13, <1>14 DEF Next

LEMMA ScanInvariant == Spec => []ScanInv
<1>1. Init => ScanInv
  BY DEF Init, ScanInv
<1>2. IInv /\ ScanInv /\ [Next]_vars => ScanInv'
  BY ScanStep
<1> QED
  BY <1>1, <1>2, Invariance, PTL DEF Spec

------------------------------------------------------------------------------
(* What the abstract book sees.                                              *)

PlaceOf(n) == [side |-> nodes[n].side, trigger |-> nodes[n].trigger, seq |-> nodes[n].seq]

LEMMA ViewFields ==
    /\ DOMAIN PendingView = DOMAIN index
    /\ PendingView = [o \in DOMAIN index |-> PlaceOf(index[o])]
    /\ \A o \in DOMAIN index : /\ PendingView[o].side = nodes[index[o]].side
                               /\ PendingView[o].trigger = nodes[index[o]].trigger
                               /\ PendingView[o].seq = nodes[index[o]].seq
BY DEF PendingView, PlaceOf

LEMMA NextView ==
    PendingView' = [o \in DOMAIN index' |->
                       [side |-> nodes'[index'[o]].side, trigger |-> nodes'[index'[o]].trigger,
                        seq |-> nodes'[index'[o]].seq]]
BY DEF PendingView

\* A step that moves no indexed order is not seen.
LEMMA SameView ==
    ASSUME index' = index, \A n \in Used : KeepsPlace(n)
    PROVE  PendingView' = PendingView
<1>1. \A o \in DOMAIN index : index[o] \in Used
  BY DEF Used, Range
<1> QED
  BY <1>1, NextView, ViewFields DEF KeepsPlace, PlaceOf

\* A step that deletes one id from the index takes that stop away.
LEMMA ViewWithout ==
    ASSUME NodeTypes, Indexed, IsInjective(index), NEW n \in Used,
           index' = Delete(index, nodes[n].id), \A m \in Used \ {n} : KeepsPlace(m)
    PROVE  /\ PendingView' = Abstract!Without({nodes[n].id})
           /\ nodes[n].id \in DOMAIN PendingView /\ nodes[n].id \in OrderIds
           /\ index[nodes[n].id] = n
<1> DEFINE i == nodes[n].id
<1>1. /\ i \in DOMAIN index /\ index[i] = n /\ DOMAIN index' = DOMAIN index \ {i}
      /\ \A o \in DOMAIN index' : index'[o] = index[o]
      /\ Range(index') = Used \ {n}
  BY IdOfSlot
<1>2. \A o \in DOMAIN index' : index[o] \in Used \ {n}
  BY <1>1 DEF Range
<1> HIDE DEF i
<1>3. \A o \in DOMAIN index' : PendingView'[o] = PendingView[o]
  BY <1>1, <1>2, NextView, ViewFields DEF KeepsPlace, PlaceOf
<1>4. DOMAIN PendingView' = DOMAIN index \ {i}
  BY <1>1, NextView
<1>5. PendingView' = [o \in DOMAIN PendingView \ {i} |-> PendingView[o]]
  <2>1. PendingView' = [o \in DOMAIN PendingView' |-> PendingView'[o]]
    BY NextView
  <2> QED
    BY <2>1, <1>1, <1>3, <1>4, ViewFields
<1> QED
  BY <1>1, <1>5, ViewFields DEF Abstract!Without, NodeTypes, i

------------------------------------------------------------------------------
(* The steps of the abstract book.                                           *)

LEMMA AddStopArrives ==
    ASSUME IInv, NEW o \in OrderIds, NEW st \in Stops, AddStop(o, st)
    PROVE  Abstract!Arrive(o)
<1> DEFINE n == NextSlot(freeNodes)
<1>1. /\ pc = "idle" /\ o \notin DOMAIN index /\ orderSeq' = orderSeq + 1
      /\ index' = Put(index, o, n) /\ price' = price
  BY DEF AddStop, scan
<1>2. price = Nil
  BY <1>1 DEF IInv, Phases, Side
<1>3. nodes'[n].seq = orderSeq + 1 /\ \A m \in Used : KeepsPlace(m)
  BY AddStopInv
<1> HIDE DEF n
<1>4. /\ DOMAIN index' = DOMAIN index \cup {o} /\ index'[o] = n
      /\ \A x \in DOMAIN index : index'[x] = index[x] /\ index[x] \in Used
  BY <1>1 DEF Put, Used, Range
<1>5. DOMAIN PendingView' = DOMAIN PendingView \cup {o}
  BY <1>4, NextView, ViewFields
<1>6. \A x \in DOMAIN PendingView : PendingView'[x] = PendingView[x]
  BY <1>3, <1>4, NextView, ViewFields DEF KeepsPlace, PlaceOf
<1>7. PendingView'[o].seq = orderSeq + 1
  BY <1>3, <1>4, NextView
<1> QED
  BY <1>1, <1>2, <1>5, <1>6, <1>7, ViewFields DEF Abstract!Arrive

\* The user's cancel and the expiry tick.
LEMMA TakeOutLeaves ==
    ASSUME IInv, NEW n,
           \/ \E o \in OrderIds, u \in Users : CancelStop(o, u) /\ n = index[o]
           \/ n \in NodeSlots /\ ExpireOne(n)
    PROVE  \E o \in OrderIds : Abstract!Leave(o)
<1>1. /\ pc \in {"idle", "expire"} /\ n \in Used /\ TakeOut(n) /\ pc' # "panicked"
      /\ UNCHANGED <<price, best, cursor, orderSeq>>
  BY DEF CancelStop, ExpireOne, Used, Range, IInv, Phases, scan
<1>2. best = Nil /\ price = Nil
  BY <1>1 DEF IInv, Phases, Side
<1>3. index' = Delete(index, nodes[n].id) /\ \A m \in NodeSlots : KeepsPlace(m)
  BY <1>1, <1>2, TakeOutInv
<1>4. /\ NodeTypes /\ Indexed /\ IsInjective(index) /\ Used \subseteq NodeSlots
  BY DEF IInv, BookInv, NodePartition, NodeTypes
<1>5. /\ PendingView' = Abstract!Without({nodes[n].id})
      /\ nodes[n].id \in DOMAIN PendingView /\ nodes[n].id \in OrderIds
  BY <1>1, <1>3, <1>4, ViewWithout
<1> QED
  BY <1>1, <1>2, <1>5 DEF Abstract!Leave

\* The cursor is at the oldest of what is left of its level.
LEMMA CursorOldest ==
    ASSUME IInv, best # Nil, cursor # Nil, NEW m \in MembersOf(best), m # cursor
    PROVE  nodes[cursor].seq < nodes[m].seq
<1>1. NodesLinked /\ LevelsLinked /\ NodeTypes /\ best \in LevelsInTree
  BY DEF IInv, BookInv, Linked, Phases, Side, LevelsInTree
<1>2. First(best) = cursor /\ cursor \in MembersOf(best)
  BY <1>1 DEF LevelsLinked, First
<1>3. MembersOf(best) \subseteq NodeSlots
  BY <1>1 DEF MembersOf, NodeTypes
<1>4. \A k \in MembersOf(best) : nodes[k].seq \in Nat
  BY <1>1, <1>3 DEF NodeTypes, NodeRecord
<1>5. \A k \in MembersOf(best) \ {cursor} :
         nodes[k].prev \in MembersOf(best) /\ nodes[nodes[k].prev].seq < nodes[k].seq
  BY <1>1, <1>2 DEF NodesLinked, MembersOf
<1>6. PICK a \in MembersOf(best) : \A k \in MembersOf(best) : nodes[a].seq <= nodes[k].seq
  BY <1>1, <1>3, Oldest
<1>7. a = cursor
  <2> SUFFICES ASSUME a # cursor PROVE FALSE
    OBVIOUS
  <2>1. nodes[a].prev \in MembersOf(best) /\ nodes[nodes[a].prev].seq < nodes[a].seq
    BY <1>5, <1>6
  <2>2. nodes[a].seq <= nodes[nodes[a].prev].seq
    BY <1>6, <2>1
  <2> QED
    BY <2>1, <2>2, <1>4, <1>6
<1>8. nodes[m].prev \in MembersOf(best) /\ nodes[nodes[m].prev].seq < nodes[m].seq
  BY <1>5
<1>9. nodes[cursor].seq <= nodes[nodes[m].prev].seq
  BY <1>6, <1>7, <1>8
<1> QED
  BY <1>2, <1>4, <1>8, <1>9

\* The drain takes the stop that comes first of all the price reaches.
LEMMA DrainFires ==
    ASSUME IInv, ScanInv, DrainNode
    PROVE  \E o \in OrderIds : Abstract!Fire(o)
<1> DEFINE n == cursor
           i == nodes[n].id
<1>1. /\ pc \in Side /\ best # Nil /\ n # Nil /\ UNCHANGED <<orderSeq, price>>
      /\ index' = Delete(index, i) /\ nodes' = [nodes EXCEPT ![n] = ZeroNode]
  BY DEF DrainNode, AtLevel, Scanning
<1>2. /\ NodeTypes /\ LevelTypes /\ Indexed /\ Placed /\ IsInjective(index) /\ LevelsLinked
      /\ Used \subseteq NodeSlots /\ pc # "panicked" /\ price # Nil
      /\ best \in Range(tree[pc]) /\ best \in LevelsInTree
  BY <1>1 DEF IInv, BookInv, NodePartition, NodeTypes, Linked, Phases, Side, LevelsInTree
<1>3. n \in Used /\ nodes[n].level = best
  BY <1>1, <1>2 DEF LevelsLinked, First, MembersOf
<1>4. \A m \in Used \ {n} : KeepsPlace(m)
  BY <1>1, <1>2 DEF KeepsPlace, NodeTypes
<1>5. /\ PendingView' = Abstract!Without({i}) /\ i \in DOMAIN PendingView
      /\ i \in OrderIds /\ index[i] = n
  BY <1>1, <1>2, <1>3, <1>4, ViewWithout
<1>6. \A m \in Used : /\ nodes[m].side \in Side
                      /\ nodes[m].trigger \in DOMAIN tree[nodes[m].side]
                      /\ nodes[m].level = tree[nodes[m].side][nodes[m].trigger]
                      /\ levels[nodes[m].level].price = nodes[m].trigger
                      /\ nodes[m].level \in Range(tree[nodes[m].side])
                      /\ nodes[m].trigger \in Nat
  <2>1. \A s \in Side : DOMAIN tree[s] \subseteq Nat
    BY <1>2, StopsAssumption DEF LevelTypes
  <2> QED
    BY <2>1, <1>2, LevelOfSlot
<1>7. nodes[n].side = pc /\ nodes[n].trigger = levels[best].price
  BY <1>1, <1>2, <1>3, <1>6 DEF IInv, BookInv, LevelPartition, Side
<1> DEFINE p == levels[best].price
<1>8. /\ Reaches(pc, p)
      /\ \A q \in DOMAIN tree[pc] : IF pc = "Ask" THEN p >= q ELSE p <= q
      /\ pc = "Bid" => \A q \in DOMAIN tree["Ask"] : ~Reaches("Ask", q)
  BY <1>1 DEF ScanInv
<1> HIDE DEF n, i, p
<1>9. /\ PendingView[i].side = pc /\ PendingView[i].trigger = p
      /\ PendingView[i].seq = nodes[n].seq /\ i \in DOMAIN index
  BY <1>5, <1>7, ViewFields DEF p
<1>10. \A o \in DOMAIN index :
          Abstract!Reaches(price, PendingView[o])
            <=> Reaches(nodes[index[o]].side, nodes[index[o]].trigger)
  BY ViewFields DEF Abstract!Reaches, Reaches
<1>11. i \in Abstract!ReachedStops
  BY <1>5, <1>8, <1>9 DEF Abstract!ReachedStops, Abstract!Reaches, Reaches
<1>12. ASSUME NEW o \in Abstract!ReachedStops \ {i}
       PROVE  Abstract!FiresBefore(PendingView[i], PendingView[o])
  <2> DEFINE m == index[o]
             s == nodes[m].side
             t == nodes[m].trigger
  <2>1. o \in DOMAIN index /\ Abstract!Reaches(price, PendingView[o])
    BY ViewFields DEF Abstract!ReachedStops
  <2>2. m \in Used /\ m # n
    BY <2>1, <1>2, <1>5, <1>9 DEF Used, Range, IsInjective
  <2>3. /\ s \in Side /\ t \in DOMAIN tree[s] /\ nodes[m].level = tree[s][t] /\ t \in Nat
        /\ Reaches(s, t)
    BY <2>1, <2>2, <1>6, <1>10
  <2>4. PendingView[o].side = s /\ PendingView[o].trigger = t /\ PendingView[o].seq = nodes[m].seq
    BY <2>1, ViewFields
  <2>5. p \in Nat /\ best = tree[pc][p]
    BY <1>3, <1>6, <1>7 DEF p
  <2>6. s = pc /\ t = p => nodes[n].seq < nodes[m].seq
    <3> SUFFICES ASSUME s = pc, t = p PROVE nodes[n].seq < nodes[m].seq
      OBVIOUS
    <3>1. m \in MembersOf(best)
      BY <2>2, <2>3, <2>5 DEF MembersOf
    <3> QED
      BY <3>1, <2>2, <1>1, CursorOldest DEF n
  <2> HIDE DEF m, s, t
  <2>7. CASE pc = "Ask"
    <3>1. s = "Ask" => p >= t
      BY <2>3, <2>7, <1>8
    <3> QED
      BY <3>1, <2>3, <2>4, <2>5, <2>6, <2>7, <1>9 DEF Abstract!FiresBefore, Side
  <2>8. CASE pc = "Bid"
    <3>1. s = "Bid"
      BY <2>3, <2>8, <1>8 DEF Side
    <3>2. p <= t
      BY <3>1, <2>3, <2>8, <1>8
    <3> QED
      BY <3>1, <3>2, <2>3, <2>4, <2>5, <2>6, <2>8, <1>9 DEF Abstract!FiresBefore
  <2> QED
    BY <2>7, <2>8, <1>1 DEF Side
<1> QED
  BY <1>1, <1>2, <1>5, <1>11, <1>12 DEF Abstract!Fire

\* A scan that stops leaves no stop behind that the price reaches.
LEMMA BuysDoneEnds ==
    ASSUME IInv, ScanInv, BuysDone
    PROVE  Abstract!ScanEnds
<1>1. /\ pc = "Bid" /\ ~NextReached /\ price' = Nil /\ UNCHANGED <<pools, index, orderSeq>>
  BY DEF BuysDone, Between
<1>2. price # Nil /\ pc # "panicked"
  BY <1>1 DEF IInv, Phases, Side
<1>3. \A p \in DOMAIN tree["Bid"] : ~Reaches("Bid", p)
  BY <1>1, NoneReached DEF Side
<1>4. \A p \in DOMAIN tree["Ask"] : ~Reaches("Ask", p)
  BY <1>1 DEF ScanInv
<1>5. ASSUME NEW o \in DOMAIN index PROVE ~Abstract!Reaches(price, PendingView[o])
  <2>1. index[o] \in Used
    BY DEF Used, Range
  <2>2. /\ nodes[index[o]].side \in Side
        /\ nodes[index[o]].trigger \in DOMAIN tree[nodes[index[o]].side]
    BY <2>1, <1>2, LevelOfSlot
  <2> QED
    BY <2>2, <1>3, <1>4, ViewFields DEF Abstract!Reaches, Reaches, Side
<1>6. PendingView' = PendingView
  BY <1>1, SameView DEF KeepsPlace, pools
<1> QED
  BY <1>1, <1>2, <1>5, <1>6, ViewFields DEF Abstract!ScanEnds, Abstract!ReachedStops

\* What the abstract book does not see.
LEMMA InvisibleSteps ==
    ASSUME IInv,
           \/ EnterLevel \/ LeaveLevel \/ SellsDone \/ ReleaseNode
           \/ \E t \in Times : ExpireGTD(t)
           \/ UNCHANGED vars
    PROVE  UNCHANGED Abstract!vars
<1>1. UNCHANGED <<index, orderSeq, price>>
  BY DEF EnterLevel, LeaveLevel, SellsDone, ReleaseNode, ExpireGTD, scan, vars
<1>2. \A n \in Used : KeepsPlace(n)
  <2>1. CASE ReleaseNode
    <3>1. /\ removed # <<>> /\ nodes' = [nodes EXCEPT ![Head(removed)] = ZeroNode]
      BY <2>1 DEF ReleaseNode
    <3>2. Head(removed) \in ToSet(removed) /\ Head(removed) \in NodeSlots
      BY <3>1, TailOfList DEF IInv, NodePartition
    <3>3. Head(removed) \notin Used
      BY <3>2 DEF IInv, NodePartition
    <3> QED
      BY <3>1, <3>3 DEF KeepsPlace, IInv, BookInv, NodeTypes
  <2>2. CASE UNCHANGED nodes
    BY <2>2 DEF KeepsPlace
  <2> QED
    BY <2>1, <2>2 DEF EnterLevel, LeaveLevel, SellsDone, ExpireGTD, pools, vars
<1> QED
  BY <1>1, <1>2, SameView DEF Abstract!vars

\* Every step of the stop book is a step of the abstract one or invisible to it.
LEMMA StepRefines == IInv /\ ScanInv /\ [Next]_vars => [Abstract!Next]_(Abstract!vars)
<1> SUFFICES ASSUME IInv, ScanInv, [Next]_vars
             PROVE  Abstract!Next \/ UNCHANGED Abstract!vars
  OBVIOUS
<1>1. CASE \E o \in OrderIds, c \in Stops : AddStop(o, c)
  <2>1. PICK o \in OrderIds, c \in Stops : AddStop(o, c)
    BY <1>1
  <2> QED
    BY <2>1, AddStopArrives DEF Abstract!Next
<1>2. CASE \/ \E o \in OrderIds, u \in Users : CancelStop(o, u)
           \/ \E n \in NodeSlots : ExpireOne(n)
  <2>1. \E o \in OrderIds : Abstract!Leave(o)
    BY <1>2, TakeOutLeaves
  <2> QED
    BY <2>1 DEF Abstract!Next
<1>3. CASE \E p \in Prices : CheckTriggers(p)
  <2>1. PICK p \in Prices : CheckTriggers(p)
    BY <1>3
  <2>2. /\ pc = "idle" /\ price' # Nil /\ UNCHANGED <<pools, index, orderSeq>>
    BY <2>1, StopsAssumption DEF CheckTriggers
  <2>3. price = Nil
    BY <2>2 DEF IInv, Phases, Side
  <2>4. PendingView' = PendingView
    BY <2>2, SameView DEF KeepsPlace, pools
  <2> QED
    BY <2>2, <2>3, <2>4 DEF Abstract!Next, Abstract!Scan
<1>4. CASE DrainNode
  <2>1. \E o \in OrderIds : Abstract!Fire(o)
    BY <1>4, DrainFires
  <2> QED
    BY <2>1 DEF Abstract!Next
<1>5. CASE BuysDone
  BY <1>5, BuysDoneEnds DEF Abstract!Next
<1>6. CASE \/ EnterLevel \/ LeaveLevel \/ SellsDone \/ ReleaseNode
           \/ \E t \in Times : ExpireGTD(t)
           \/ UNCHANGED vars
  BY <1>6, InvisibleSteps
<1> QED
  BY <1>1, <1>2, <1>3, <1>4, <1>5, <1>6 DEF Next

\* The stop book of trees, linked lists and slots fires, for a trade price, every stop the
\* price reaches and no other, sells from the highest trigger down, then buys from the
\* lowest up, the older first at one trigger, whatever arrived, was cancelled or expired
\* before.
THEOREM ImplementsPending == Spec => ImplementsPendingStops
<1>1. Init => Abstract!Init
  <2> SUFFICES ASSUME Init PROVE Abstract!Init
    OBVIOUS
  <2>1. DOMAIN PendingView = {} /\ price = Nil /\ orderSeq = 0
    BY ViewFields DEF Init, NoMap
  <2>2. PendingView = [o \in {} |-> Nil]
    BY <2>1 DEF PendingView
  <2> QED
    BY <2>1, <2>2 DEF Abstract!Init
<1>2. IInv /\ ScanInv /\ [Next]_vars => [Abstract!Next]_(Abstract!vars)
  BY StepRefines
<1> QED
  BY <1>1, <1>2, Invariance, ScanInvariant, PTL
     DEF Spec, ImplementsPendingStops, Abstract!Spec
=============================================================================

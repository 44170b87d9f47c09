------------------------------ MODULE StopBook ------------------------------
(***************************************************************************)
(* The stop book (package stopbook) as it lies in memory: stop orders and  *)
(* trigger levels in the slots of two pools, each level a doubly linked    *)
(* list threaded through its orders, one tree of levels per side, and an   *)
(* index from order id to slot.  One step is one iteration of a loop of    *)
(* CheckTriggers or ExpireGTD, or a call that has no loop.                 *)
(*                                                                         *)
(* Acquire zeroes the slot it hands out; here Release does, which is the   *)
(* same to a program that never looks into a slot it has released.         *)
(***************************************************************************)
EXTENDS Integers, FiniteSets, Functions, Pool

CONSTANTS
    OrderIds,   \* the ids stop orders carry
    Users,      \* the users who own them
    Stops,      \* the stop orders that may arrive, validated as in processStopOrder
    Prices,     \* the prices trades have
    NodeCap,    \* capacity of nodePool
    LevelCap,   \* capacity of levelPool
    MaxSeq,     \* bound on SeqNum, to keep runs finite
    Nil         \* no order, no slot

Side == {"Ask", "Bid"}
StopOrder == [user : Users, side : Side, trigger : Prices, expireAt : Nat]

ASSUME StopsAssumption ==
    /\ Stops \subseteq StopOrder
    /\ Prices \subseteq Nat
    /\ {NodeCap, LevelCap, MaxSeq} \subseteq Nat
    /\ Nil \notin OrderIds \cup Users \cup Nat

NodeSlots == Slots(NodeCap)
LevelSlots == Slots(LevelCap)

VARIABLES
    nodes,       \* the store of nodePool: slot -> StopNode
    freeNodes,   \* its free stack
    levels,      \* the store of levelPool: slot -> StopLevel
    freeLevels,  \* its free stack
    tree,        \* stopSells and stopBuys: side -> trigger price -> level slot
    index,       \* order id -> node slot
    orderSeq,    \* the sequence counter
    pc,          \* the loop that is running
    price,       \* lastTradePrice of CheckTriggers
    best,        \* the level being drained
    cursor,      \* node: the order the drain looks at
    triggered,   \* the ids CheckTriggers has collected
    expired,     \* the nodes ExpireGTD has collected and not yet unlinked
    removed      \* nodes out of the book that the processor has still to release

pools == <<nodes, freeNodes, levels, freeLevels>>
scan == <<price, best, cursor, triggered>>
vars == <<nodes, freeNodes, levels, freeLevels, tree, index, orderSeq, pc, price, best,
          cursor, triggered, expired, removed>>

Put(f, k, v) == [x \in DOMAIN f \cup {k} |-> IF x = k THEN v ELSE f[x]]
Delete(f, k) == [x \in DOMAIN f \ {k} |-> f[x]]
NoMap == [x \in {} |-> x]

ZeroNode == [id |-> Nil, user |-> Nil, side |-> "Bid", trigger |-> 0, expireAt |-> 0,
             seq |-> 0, prev |-> Nil, next |-> Nil, level |-> Nil]
ZeroLevel == [price |-> 0, head |-> Nil, tail |-> Nil, count |-> 0]

------------------------------------------------------------------------------
(* Lists and levels.                                                         *)

\* StopLevel.Append on the stores ns of nodes and ls of levels.
Appended(ns, ls, n, l) ==
    LET tail == ls[l].tail
        linked == [ns EXCEPT ![n].prev = tail, ![n].next = Nil, ![n].level = l]
    IN  /\ nodes' = IF tail = Nil THEN linked ELSE [linked EXCEPT ![tail].next = n]
        /\ levels' = [ls EXCEPT ![l].head = IF tail = Nil THEN n ELSE @, ![l].tail = n,
                                ![l].count = @ + 1]

\* Fault: the neighbour in front still points to the order.
Unlinked_KeepsNext(n) ==
    LET next == nodes[n].next
        alone == [nodes EXCEPT ![n].prev = Nil, ![n].next = Nil, ![n].level = Nil]
    IN  IF next = Nil THEN alone ELSE [alone EXCEPT ![next].prev = nodes[n].prev]

\* StopLevel.Unlink: the nodes afterwards.
Unlinked(n) ==
    LET prev == nodes[n].prev
        next == nodes[n].next
        alone == [nodes EXCEPT ![n].prev = Nil, ![n].next = Nil, ![n].level = Nil]
    IN  [m \in NodeSlots |->
            [alone[m] EXCEPT !.next = IF m = prev THEN next ELSE @,
                             !.prev = IF m = next THEN prev ELSE @]]

\* Fault: the tail stays.
Shortened_KeepsTail(n) ==
    [levels[nodes[n].level] EXCEPT
        !.head = IF nodes[n].prev = Nil THEN nodes[n].next ELSE @, !.count = @ - 1]

\* StopLevel.Unlink: the level afterwards.
Shortened(n) ==
    [levels[nodes[n].level] EXCEPT
        !.head = IF nodes[n].prev = Nil THEN nodes[n].next ELSE @,
        !.tail = IF nodes[n].next = Nil THEN nodes[n].prev ELSE @,
        !.count = @ - 1]

\* Level l leaves the tree of side s and goes back to its pool.
DropLevel(s, l) ==
    /\ tree' = [tree EXCEPT ![s] = Delete(@, levels[l].price)]
    /\ levels' = [levels EXCEPT ![l] = ZeroLevel]
    /\ freeLevels' = Release(freeLevels, l)

\* What CancelStop and ExpireGTD do to one order.
TakeOut(n) ==
    /\ index' = Delete(index, nodes[n].id)
    /\ nodes' = Unlinked(n)
    /\ IF Shortened(n).head = Nil
       THEN DropLevel(nodes[n].side, nodes[n].level)
       ELSE /\ levels' = [levels EXCEPT ![nodes[n].level] = Shortened(n)]
            /\ UNCHANGED <<tree, freeLevels>>

\* Fault: both trees ascend.
Best_LowestFirst(s) == CHOOSE p \in DOMAIN tree[s] : \A q \in DOMAIN tree[s] : p <= q

\* The order of the side's B-tree: which level Min() returns.
Best(s) ==
    CHOOSE p \in DOMAIN tree[s] :
        \A q \in DOMAIN tree[s] : IF s = "Ask" THEN p >= q ELSE p <= q

Reaches(s, trigger) == IF s = "Ask" THEN price <= trigger ELSE price >= trigger

------------------------------------------------------------------------------
(* AddStop and CancelStop.                                                   *)

\* The slot processStopOrder acquires, or seedInitialOrders on a restart.
NewNode(o, c) ==
    [ZeroNode EXCEPT !.id = o, !.user = c.user, !.side = c.side, !.trigger = c.trigger,
                     !.expireAt = c.expireAt, !.seq = orderSeq + 1]

\* AddStop: the index is written first; then, when the price has no level and the pool
\* none to give, the process panics.
AddStop(o, c) ==
    /\ pc = "idle"
    /\ o \notin DOMAIN index
    /\ ~Exhausted(freeNodes)
    /\ orderSeq < MaxSeq
    /\ orderSeq' = orderSeq + 1
    /\ freeNodes' = Acquire(freeNodes)
    /\ index' = Put(index, o, NextSlot(freeNodes))
    /\ LET n == NextSlot(freeNodes)
           filled == [nodes EXCEPT ![n] = NewNode(o, c)]
       IN  \/ /\ c.trigger \in DOMAIN tree[c.side]
              /\ Appended(filled, levels, n, tree[c.side][c.trigger])
              /\ UNCHANGED <<tree, freeLevels, pc>>
           \/ /\ c.trigger \notin DOMAIN tree[c.side]
              /\ ~Exhausted(freeLevels)
              /\ LET l == NextSlot(freeLevels)
                 IN  /\ tree' = [tree EXCEPT ![c.side] = Put(@, c.trigger, l)]
                     /\ Appended(filled, [levels EXCEPT ![l].price = c.trigger], n, l)
              /\ freeLevels' = Acquire(freeLevels)
              /\ UNCHANGED pc
           \/ /\ c.trigger \notin DOMAIN tree[c.side]
              /\ Exhausted(freeLevels)
              /\ nodes' = filled
              /\ pc' = "panicked"
              /\ UNCHANGED <<levels, tree, freeLevels>>
    /\ UNCHANGED <<scan, expired, removed>>

\* CancelStop; the processor still reads the node for its event before it releases it.
CancelStop(o, u) ==
    /\ pc = "idle"
    /\ o \in DOMAIN index
    /\ nodes[index[o]].user = u
    /\ TakeOut(index[o])
    /\ removed' = <<index[o]>>
    /\ pc' = "release"
    /\ UNCHANGED <<freeNodes, orderSeq, scan, expired>>

\* Fault: the first node of the list is released for every event.
ReleaseNode_FirstOnly ==
    /\ pc = "release"
    /\ removed # <<>>
    /\ nodes' = [nodes EXCEPT ![Head(removed)] = ZeroNode]
    /\ freeNodes' = Release(freeNodes, Head(removed))
    /\ removed' = <<>>
    /\ pc' = "idle"
    /\ UNCHANGED <<levels, freeLevels, tree, index, orderSeq, scan, expired>>

\* The processor has emitted OrderCanceled or OrderExpired.
ReleaseNode ==
    /\ pc = "release"
    /\ removed # <<>>
    /\ nodes' = [nodes EXCEPT ![Head(removed)] = ZeroNode]
    /\ freeNodes' = Release(freeNodes, Head(removed))
    /\ removed' = Tail(removed)
    /\ pc' = IF Len(removed) = 1 THEN "idle" ELSE "release"
    /\ UNCHANGED <<levels, freeLevels, tree, index, orderSeq, scan, expired>>

------------------------------------------------------------------------------
(* CheckTriggers, below the cascade limit (above it nothing is done).        *)

CheckTriggers(p) ==
    /\ pc = "idle"
    /\ pc' = "Ask"
    /\ price' = p
    /\ UNCHANGED <<pools, tree, index, orderSeq, best, cursor, triggered, expired, removed>>

Scanning == pc \in Side
AtLevel == Scanning /\ best # Nil
Between == Scanning /\ best = Nil
NextReached == DOMAIN tree[pc] # {} /\ Reaches(pc, Best(pc))

EnterLevel ==
    /\ Between
    /\ NextReached
    /\ best' = tree[pc][Best(pc)]
    /\ cursor' = levels[tree[pc][Best(pc)]].head
    /\ UNCHANGED <<pools, tree, index, orderSeq, pc, price, triggered, expired, removed>>

\* One order of the level: the list is not mended behind it.
DrainNode ==
    /\ AtLevel
    /\ cursor # Nil
    /\ cursor' = nodes[cursor].next
    /\ triggered' = Append(triggered, nodes[cursor].id)
    /\ index' = Delete(index, nodes[cursor].id)
    /\ nodes' = [nodes EXCEPT ![cursor] = ZeroNode]
    /\ freeNodes' = Release(freeNodes, cursor)
    /\ UNCHANGED <<levels, freeLevels, tree, orderSeq, pc, price, best, expired, removed>>

LeaveLevel ==
    /\ AtLevel
    /\ cursor = Nil
    /\ DropLevel(pc, best)
    /\ best' = Nil
    /\ UNCHANGED <<nodes, freeNodes, index, orderSeq, pc, price, cursor, triggered, expired,
                   removed>>

SellsDone ==
    /\ Between
    /\ pc = "Ask"
    /\ ~NextReached
    /\ pc' = "Bid"
    /\ UNCHANGED <<pools, tree, index, orderSeq, scan, expired, removed>>

\* The triggered orders are returned; the processor runs them from its own copies.
BuysDone ==
    /\ Between
    /\ pc = "Bid"
    /\ ~NextReached
    /\ pc' = "idle"
    /\ price' = Nil
    /\ triggered' = <<>>
    /\ UNCHANGED <<pools, tree, index, orderSeq, best, cursor, expired, removed>>

------------------------------------------------------------------------------
(* ExpireGTD: collect, then unlink, in the random order of a Go map.         *)

Due(now) ==
    {index[o] : o \in {x \in DOMAIN index :
        nodes[index[x]].expireAt > 0 /\ nodes[index[x]].expireAt <= now}}

ExpireGTD(now) ==
    /\ pc = "idle"
    /\ Due(now) # {}
    /\ expired' = Due(now)
    /\ pc' = "expire"
    /\ UNCHANGED <<pools, tree, index, orderSeq, scan, removed>>

ExpireOne(n) ==
    /\ pc = "expire"
    /\ n \in expired
    /\ TakeOut(n)
    /\ expired' = expired \ {n}
    /\ removed' = Append(removed, n)
    /\ pc' = IF expired = {n} THEN "release" ELSE "expire"
    /\ UNCHANGED <<freeNodes, orderSeq, scan>>

------------------------------------------------------------------------------
Init ==
    /\ nodes = [n \in NodeSlots |-> ZeroNode]
    /\ freeNodes = NewPool(NodeCap)
    /\ levels = [l \in LevelSlots |-> ZeroLevel]
    /\ freeLevels = NewPool(LevelCap)
    /\ tree = [s \in Side |-> NoMap]
    /\ index = NoMap
    /\ orderSeq = 0
    /\ pc = "idle"
    /\ price = Nil
    /\ best = Nil
    /\ cursor = Nil
    /\ triggered = <<>>
    /\ expired = {}
    /\ removed = <<>>

Times == {c.expireAt : c \in Stops} \ {0}

Next ==
    \/ \E o \in OrderIds, c \in Stops : AddStop(o, c)
    \/ \E o \in OrderIds, u \in Users : CancelStop(o, u)
    \/ \E p \in Prices : CheckTriggers(p)
    \/ EnterLevel \/ DrainNode \/ LeaveLevel \/ SellsDone \/ BuysDone
    \/ \E t \in Times : ExpireGTD(t)
    \/ \E n \in NodeSlots : ExpireOne(n)
    \/ ReleaseNode

Spec == Init /\ [][Next]_vars

------------------------------------------------------------------------------
(* Properties.                                                               *)

Pointer(S) == S \cup {Nil}

\* Types of all variables.
TypeOK ==
    /\ nodes \in [NodeSlots ->
           [id : Pointer(OrderIds), user : Pointer(Users), side : Side, trigger : Nat,
            expireAt : Nat, seq : Nat, prev : Pointer(NodeSlots), next : Pointer(NodeSlots),
            level : Pointer(LevelSlots)]]
    /\ levels \in [LevelSlots -> [price : Nat, head : Pointer(NodeSlots),
                                  tail : Pointer(NodeSlots), count : Nat]]
    /\ freeNodes \in Seq(NodeSlots) /\ Len(freeNodes) <= NodeCap
    /\ freeLevels \in Seq(LevelSlots) /\ Len(freeLevels) <= LevelCap
    /\ DOMAIN tree = Side
    /\ \A s \in Side : DOMAIN tree[s] \subseteq Prices /\ Range(tree[s]) \subseteq LevelSlots
    /\ DOMAIN index \subseteq OrderIds /\ Range(index) \subseteq NodeSlots
    /\ orderSeq \in Nat
    /\ pc \in Side \cup {"idle", "release", "expire", "panicked"}
    /\ price \in Pointer(Prices)
    /\ best \in Pointer(LevelSlots)
    /\ cursor \in Pointer(NodeSlots)
    /\ triggered \in Seq(OrderIds)
    /\ expired \subseteq NodeSlots
    /\ removed \in Seq(NodeSlots)

\* The slots met from n along next, at most as many as there are.
Chain(n) ==
    LET walk[k \in 0..NodeCap] ==
            IF k = 0 THEN <<>>
            ELSE LET q == walk[k - 1]
                     m == IF q = <<>> THEN n ELSE nodes[Last(q)].next
                 IN  IF m = Nil THEN q ELSE Append(q, m)
    IN  walk[NodeCap]

\* The indexed orders of one side and trigger price.
SlotsAt(s, p) == {n \in Range(index) : nodes[n].side = s /\ nodes[n].trigger = p}

\* A list read forwards and backwards is the same, in order of arrival, and holds exactly
\* the indexed orders of its trigger price, each of which points back to the level; of the
\* level being drained this is true of what the drain has still to visit.
ListsAgree ==
    \A s \in Side : \A p \in DOMAIN tree[s] :
        LET l == tree[s][p]
            c == Chain(IF l = best THEN cursor ELSE levels[l].head)
        IN  /\ levels[l].price = p
            /\ ToSet(c) = SlotsAt(s, p)
            /\ \A i \in DOMAIN c : nodes[c[i]].level = l
            /\ \A i, j \in DOMAIN c : i < j => nodes[c[i]].seq < nodes[c[j]].seq
            /\ l # best =>
                  /\ c # <<>>
                  /\ levels[l].count = Len(c)
                  /\ levels[l].tail = Last(c)
                  /\ nodes[Head(c)].prev = Nil
                  /\ \A i \in 2..Len(c) : nodes[c[i]].prev = c[i - 1]

\* README invariant 8: every slot is either free, once, or in use, in one place: a node by
\* an indexed order or by the processor that has still to release it, a level by one price
\* of one side.
SlotsPartition ==
    /\ IsInjective(freeNodes) /\ IsInjective(index) /\ IsInjective(removed)
    /\ ToSet(removed) \cap Range(index) = {}
    /\ ToSet(freeNodes) = NodeSlots \ (Range(index) \cup ToSet(removed))
    /\ IsInjective(freeLevels) /\ \A s \in Side : IsInjective(tree[s])
    /\ Range(tree["Ask"]) \cap Range(tree["Bid"]) = {}
    /\ ToSet(freeLevels) = LevelSlots \ (Range(tree["Ask"]) \cup Range(tree["Bid"]))

------------------------------------------------------------------------------
(* The abstract stop book this module implements.                            *)

PendingView ==
    [o \in DOMAIN index |->
        [side |-> nodes[index[o]].side, trigger |-> nodes[index[o]].trigger,
         seq |-> nodes[index[o]].seq]]

Abstract == INSTANCE PendingStops WITH pending <- PendingView, scanned <- price,
                                       clock <- orderSeq

\* The promise of PendingStops.
ImplementsPendingStops == Abstract!Spec
=============================================================================

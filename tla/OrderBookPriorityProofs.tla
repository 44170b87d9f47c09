---------------------- MODULE OrderBookPriorityProofs ----------------------
(***************************************************************************)
(* Proofs about OrderBook beyond its data structures: time priority, no    *)
(* crossed book, conserved quantities, balanced pools, totals that are     *)
(* sums, trades in price-time priority, fill-or-kill, and that OrderBook   *)
(* implements PriceTimePriority. What the twenty-five actions do to the    *)
(* book is summed up in BookStep, what they do to the order in flight in   *)
(* TakerStep, and nearly every invariant is then proved from these two.    *)
(***************************************************************************)
EXTENDS OrderBookProofs, FiniteLemmas

------------------------------------------------------------------------------
(* The kinds of change a step makes to the book.                             *)

\* The order in flight holds one node of the pool.
Held == IF pc \in Matching THEN 1 ELSE 0

QueueAt(s, p) == IF p \in DOMAIN tree[s] THEN tree[s][p].queue ELSE <<>>

Stays ==
    /\ UNCHANGED <<tree, index, levelsInUse, haltQueued>>
    /\ orderSeq' \in {orderSeq, orderSeq + 1}
    /\ nodesInUse' = nodesInUse + Held' - Held

\* The level the match loop has emptied leaves its tree.
LevelLeaves ==
    /\ pc = "inner"
    /\ tree[OppSide][at].queue = <<>>
    /\ tree' = DeleteLevel(tree, OppSide, at)
    /\ levelsInUse' = levelsInUse - 1
    /\ Held' = Held
    /\ UNCHANGED <<index, nodesInUse, orderSeq, haltQueued>>

\* Order o rests as n at the end of its queue.
Joins(o, n) ==
    /\ o \notin DOMAIN index
    /\ index' = Put(index, o, n)
    /\ \E l \in Level : /\ tree' = PutLevel(tree, n.side, n.price, l)
                        /\ l.queue = Append(QueueAt(n.side, n.price), o)
    /\ levelsInUse' = levelsInUse + (IF HasLevel(n.side, n.price) THEN 0 ELSE 1)
    /\ nodesInUse' = nodesInUse + 1 + Held' - Held
    /\ pc' = "reply"

JoinsUnmatched(o, c) ==
    /\ Joins(o, NewNode(c, orderSeq + 1))
    /\ orderSeq' = orderSeq + 1
    /\ haltQueued' = haltQueued \cup {o}

JoinsMatched ==
    /\ Joins(taker, incoming)
    /\ MayRest
    /\ UNCHANGED <<orderSeq, haltQueued>>

\* Order o leaves the book, and its level with it if it was the last there.
Goes(o) ==
    LET s == index[o].side
        p == index[o].price
        q == tree[s][p].queue
    IN  /\ index' = Delete(index, o)
        /\ \E l \in Level :
              /\ l.queue = RemoveAt(q, PositionIn(q, o))
              /\ \/ tree' = PutLevel(tree, s, p, l) /\ levelsInUse' = levelsInUse
                 \/ tree' = DeleteLevel(tree, s, p) /\ levelsInUse' = levelsInUse - 1
        /\ nodesInUse' = nodesInUse - 1
        /\ haltQueued' = haltQueued \ {o}
        /\ Held' = Held
        /\ UNCHANGED orderSeq

\* Order o loses a part q of its visible quantity and keeps its place.
Shrinks(o, q) ==
    /\ q < index[o].remain
    /\ index' = [index EXCEPT ![o] = DecrementNode(@, q)]
    /\ \E l \in Level : /\ l.queue = tree[index[o].side][index[o].price].queue
                        /\ tree' = PutLevel(tree, index[o].side, index[o].price, l)
    /\ Held' = Held
    /\ UNCHANGED <<levelsInUse, nodesInUse, orderSeq, haltQueued>>

\* Order o shows its next slice, at the end of its queue.
Renews(o) ==
    /\ pc \in Matching
    /\ index[o].side = OppSide
    /\ index[o].hidden > 0
    /\ index' = [index EXCEPT ![o] =
                    Replenish(DecrementNode(@, index[o].remain), orderSeq + 1)]
    /\ \E l \in Level :
          LET q == tree[index[o].side][index[o].price].queue
          IN  /\ l.queue = Append(RemoveAt(q, PositionIn(q, o)), o)
              /\ tree' = PutLevel(tree, index[o].side, index[o].price, l)
    /\ orderSeq' = orderSeq + 1
    /\ Held' = Held
    /\ UNCHANGED <<levelsInUse, nodesInUse, haltQueued>>

BookStep ==
    \/ Stays
    \/ LevelLeaves
    \/ JoinsMatched
    \/ \E o \in OrderIds, c \in Commands : JoinsUnmatched(o, c)
    \/ \E o \in DOMAIN index : Goes(o) \/ Renews(o) \/ \E q \in Nat : Shrinks(o, q)

\* And to the order in flight: it enters, stays as it is, pays with or gains a quantity
\* q, is zeroed by self-trade prevention, or is in flight no more.
TakerPays(q) ==
    /\ q <= incoming.remain
    /\ incoming' = [incoming EXCEPT !.remain = @ - q, !.filled = @ + q]
    /\ pc' \in {"outer", "inner"}

TakerZeroed ==
    /\ incoming' = [incoming EXCEPT !.remain = 0]
    /\ pc' = "stpDone"

TakerStep ==
    \/ pc' \notin Matching
    \/ \E o \in OrderIds, c \in Commands : Place(o, c)
    \/ /\ pc \in Matching \ {"stpDone"}
       /\ taker' = taker
       /\ \/ TakerZeroed
          \/ incoming' = incoming /\ pc' \in {"outer", "inner"}
          \/ \E q \in Nat : TakerPays(q)
    \/ UNCHANGED vars

------------------------------------------------------------------------------
(* Every step is of one of these kinds.                                      *)

\* restNode is a joining.
LEMMA RestJoins ==
    ASSUME Inv, pc # "inner", NEW o \in OrderIds, o \notin DOMAIN index, NEW n \in Node,
           RestNode(o, n), nodesInUse' = nodesInUse + 1 + Held' - Held, pc' = "reply"
    PROVE  Joins(o, n)
<1> DEFINE l == IF HasLevel(n.side, n.price) THEN tree[n.side][n.price] ELSE EmptyLevel
           k == Enqueue(l, o, n)
<1>1. /\ tree' = PutLevel(tree, n.side, n.price, k) /\ index' = Put(index, o, n)
      /\ levelsInUse' = levelsInUse + (IF HasLevel(n.side, n.price) THEN 0 ELSE 1)
  BY DEF RestNode, WithLevel, PutLevel
<1>2. Shape(tree, index)' /\ n.side \in Side /\ DOMAIN tree = Side
  BY RestNodeInv DEF Inv, Shape, Node
<1>3. tree'[n.side][n.price] = k /\ n.price \in DOMAIN tree'[n.side]
  BY <1>1, <1>2, ReadPutLevel
<1>4. k \in Level
  BY <1>2, <1>3 DEF Shape
<1>5. k.queue = Append(QueueAt(n.side, n.price), o)
  BY DEF Enqueue, QueueAt, HasLevel, EmptyLevel
<1> QED
  BY <1>1, <1>4, <1>5 DEF Joins

\* Cancellation and expiry.
LEMMA RemoveGoes ==
    ASSUME Inv, pc # "inner", NEW o \in DOMAIN index, RemoveResting(o), pc' = pc,
           UNCHANGED orderSeq
    PROVE  Goes(o)
<1> DEFINE n == index[o]
           u == Unlink(tree[n.side][n.price], o, n)
<1>1. /\ index' = Delete(index, o) /\ nodesInUse' = nodesInUse - 1
      /\ haltQueued' = haltQueued \ {o}
      /\ \/ tree' = DeleteLevel(tree, n.side, n.price) /\ levelsInUse' = levelsInUse - 1
         \/ tree' = PutLevel(tree, n.side, n.price, u) /\ levelsInUse' = levelsInUse
  BY DEF RemoveResting, WithLevel, WithoutLevel, PutLevel, DeleteLevel
<1>2. Shape(tree, index) /\ n \in Node /\ tree[n.side][n.price] \in Level
  BY DEF Inv, Shape, IndexShape, Node
<1>3. /\ u \in Level
      /\ u.queue = RemoveAt(tree[n.side][n.price].queue,
                            PositionIn(tree[n.side][n.price].queue, o))
  BY <1>2, UnlinkLevel
<1>4. Held' = Held
  BY DEF Held
<1> HIDE DEF u
<1> QED
  BY <1>1, <1>3, <1>4 DEF Goes

\* A maker dropped by the inner loop.
LEMMA DropGoes ==
    ASSUME Inv, AtMaker, NEW l \in Level, l.queue = level.queue, NEW m \in Node,
           DropMaker(l, m), pc' \in Matching, UNCHANGED <<levelsInUse, orderSeq>>
    PROVE  Goes(cursor)
<1>1. /\ Unlink(l, cursor, m) \in Level
      /\ tree' = PutLevel(tree, OppSide, at, Unlink(l, cursor, m))
  BY DropMakerFacts
<1>2. /\ index[cursor].side = OppSide /\ index[cursor].price = at
      /\ level = tree[OppSide][at] /\ cursor \in DOMAIN index
  BY MakerFacts DEF maker
<1>3. /\ index' = Delete(index, cursor) /\ nodesInUse' = nodesInUse - 1
      /\ haltQueued' = haltQueued \ {cursor}
  BY DEF DropMaker
<1>4. Unlink(l, cursor, m).queue
        = RemoveAt(level.queue, PositionIn(level.queue, cursor))
  BY DEF Unlink
<1>5. Held' = Held
  BY DEF Held, AtMaker, Matching
<1> QED
  BY <1>1, <1>2, <1>3, <1>4, <1>5 DEF Goes

\* The makers the inner loop drops: self-trade prevention and exhausted orders.
LEMMA DroppedMaker ==
    ASSUME Inv, PreventMaker \/ DecrementTaker \/ FillAndRemove \/ PreventBoth
    PROVE  Goes(cursor) /\ cursor \in DOMAIN index
<1>1. AtMaker
  BY DEF PreventMaker, DecrementTaker, FillAndRemove, PreventBoth, Trade, Trades, Prevents
<1>2. /\ pc = "inner" /\ level \in Level /\ maker \in Node /\ cursor \in DOMAIN index
      /\ Shape(tree, index) /\ DOMAIN tree = Side
      /\ index[cursor].side = OppSide /\ index[cursor].price = at
      /\ level = tree[OppSide][at]
  BY <1>1, MakerFacts DEF AtMaker, maker
<1>3. CASE PreventMaker \/ DecrementTaker
  BY <1>1, <1>2, <1>3, DropGoes DEF PreventMaker, DecrementTaker, Matching
<1>4. CASE FillAndRemove
  <2>1. /\ Trade /\ UNCHANGED orderSeq
        /\ DropMaker(DecrementLevel(level, maker, FillQty), DecrementNode(maker, FillQty))
    BY <1>4 DEF FillAndRemove
  <2>2. /\ FillQty \in Nat /\ FillQty <= maker.remain /\ pc' \in Matching
        /\ UNCHANGED levelsInUse
    BY <2>1, TradeFacts DEF Matching
  <2>3. /\ DecrementLevel(level, maker, FillQty) \in Level
        /\ DecrementLevel(level, maker, FillQty).queue = level.queue
        /\ DecrementNode(maker, FillQty) \in Node
    BY <1>2, <2>2, DecrementTypes
  <2> QED
    BY <1>1, <1>2, <2>1, <2>2, <2>3, DropGoes
<1>5. CASE PreventBoth
  <2> DEFINE u == Unlink(level, cursor, maker)
  <2>1. /\ index' = Delete(index, cursor) /\ nodesInUse' = nodesInUse - 1
        /\ haltQueued' = haltQueued \ {cursor} /\ pc' = "stpDone" /\ UNCHANGED orderSeq
        /\ \/ tree' = DeleteLevel(tree, OppSide, at) /\ levelsInUse' = levelsInUse - 1
           \/ tree' = PutLevel(tree, OppSide, at, u) /\ levelsInUse' = levelsInUse
    BY <1>5 DEF PreventBoth, ZeroTaker, WithLevel, WithoutLevel, PutLevel, DeleteLevel
  <2>2. u \in Level /\ u.queue = RemoveAt(level.queue, PositionIn(level.queue, cursor))
    BY <1>2, UnlinkLevel
  <2>3. Held' = Held
    BY <1>2, <2>1 DEF Held, Matching
  <2> HIDE DEF u
  <2> QED
    BY <1>2, <2>1, <2>2, <2>3 DEF Goes
<1> QED
  BY <1>2, <1>3, <1>4, <1>5

\* The makers it leaves with less.
LEMMA ShrunkMaker ==
    ASSUME Inv, FillPartly \/ DecrementMaker
    PROVE  cursor \in DOMAIN index /\ \E q \in Nat : Shrinks(cursor, q)
<1>1. AtMaker
  BY DEF FillPartly, DecrementMaker, Trade, Trades, Prevents
<1>2. /\ pc = "inner" /\ level \in Level /\ maker \in Node /\ cursor \in DOMAIN index
      /\ index[cursor].side = OppSide /\ index[cursor].price = at
      /\ level = tree[OppSide][at] /\ maker = index[cursor] /\ incoming \in Node
  BY <1>1, MakerFacts DEF AtMaker, maker
<1> DEFINE q == IF FillPartly THEN FillQty ELSE incoming.remain
<1>3. /\ q \in Nat /\ q < maker.remain
      /\ tree' = WithLevel(OppSide, at, DecrementLevel(level, maker, q))
      /\ index' = [index EXCEPT ![cursor] = DecrementNode(@, q)]
      /\ pc' \in Matching
      /\ UNCHANGED <<levelsInUse, nodesInUse, orderSeq, haltQueued>>
  <2>1. CASE FillPartly
    <3>1. FillQty \in Nat /\ Trade /\ pc' = "inner" /\ UNCHANGED levelsInUse
      BY <2>1, TradeFacts DEF FillPartly
    <3>2. maker.remain \in Nat
      BY <1>2 DEF Node
    <3> QED
      BY <2>1, <3>1, <3>2 DEF FillPartly, Matching
  <2>2. CASE DecrementMaker /\ ~FillPartly
    <3>1. incoming.remain \in Nat /\ maker.remain \in Nat
      BY <1>2 DEF Node
    <3> QED
      BY <2>2, <3>1 DEF DecrementMaker, ZeroTaker, Matching
  <2> QED
    BY <2>1, <2>2
<1> HIDE DEF q
<1>4. /\ DecrementLevel(level, maker, q) \in Level
      /\ DecrementLevel(level, maker, q).queue = level.queue
  <2>1. q <= maker.remain
    BY <1>2, <1>3 DEF Node
  <2> QED
    BY <1>2, <1>3, <2>1, DecrementTypes
<1>5. Held' = Held
  BY <1>2, <1>3 DEF Held, Matching
<1>6. tree' = PutLevel(tree, OppSide, at, DecrementLevel(level, maker, q))
  BY <1>3 DEF WithLevel, PutLevel
<1>7. Shrinks(cursor, q)
  BY <1>2, <1>3, <1>4, <1>5, <1>6 DEF Shrinks
<1> QED
  BY <1>2, <1>3, <1>7

\* An exhausted slice of an iceberg.
LEMMA RenewedMaker ==
    ASSUME Inv, FillAndReplenish
    PROVE  Renews(cursor) /\ cursor \in DOMAIN index
<1> DEFINE d == DecrementLevel(level, maker, FillQty)
           left == DecrementNode(maker, FillQty)
           renewed == Replenish(left, orderSeq + 1)
           l == Enqueue(Unlink(d, cursor, left), cursor, renewed)
<1>1. /\ Trade /\ maker.remain = FillQty /\ maker.hidden > 0
      /\ tree' = PutLevel(tree, OppSide, at, l)
      /\ index' = [index EXCEPT ![cursor] = renewed]
      /\ orderSeq' = orderSeq + 1 /\ UNCHANGED <<nodesInUse, haltQueued>>
  BY DEF FillAndReplenish, WithLevel, PutLevel
<1>2. /\ AtMaker /\ pc = "inner" /\ pc' = "inner" /\ UNCHANGED levelsInUse
      /\ FillQty \in Nat /\ FillQty <= maker.remain
  BY <1>1, TradeFacts
<1>3. /\ level \in Level /\ maker \in Node /\ maker = index[cursor]
      /\ cursor \in DOMAIN index /\ level = tree[OppSide][at]
      /\ index[cursor].side = OppSide /\ index[cursor].price = at
      /\ DOMAIN tree = Side /\ OppSide \in Side
  BY <1>2, MakerFacts DEF maker
<1>4. l \in Level
  <2>1. Shape(tree, index)'
    BY FillAndReplenishInv DEF Inv
  <2>2. tree'[OppSide][at] = l /\ at \in DOMAIN tree'[OppSide]
    BY <1>1, <1>3, ReadPutLevel
  <2> QED
    BY <2>1, <2>2, <1>3 DEF Shape
<1>5. l.queue = Append(RemoveAt(level.queue, PositionIn(level.queue, cursor)), cursor)
  <2>1. d.queue = level.queue
    BY <1>2, <1>3, DecrementTypes
  <2> QED
    BY <2>1 DEF Enqueue, Unlink
<1>6. renewed = Replenish(DecrementNode(index[cursor], index[cursor].remain), orderSeq + 1)
  BY <1>1, <1>3
<1>7. Held' = Held
  BY <1>2 DEF Held, Matching
<1> HIDE DEF l, renewed
<1>8. pc \in Matching /\ index[cursor].hidden > 0
  BY <1>1, <1>2, <1>3 DEF Matching
<1>9. index' = [index EXCEPT ![cursor] =
                   Replenish(DecrementNode(@, index[cursor].remain), orderSeq + 1)]
  BY <1>1, <1>6
<1> QED
  BY <1>1, <1>2, <1>3, <1>4, <1>5, <1>7, <1>8, <1>9 DEF Renews

\* The steps that leave the book alone.
LEMMA StaysStep ==
    ASSUME Inv,
           \/ \E o \in OrderIds, c \in Commands : Place(o, c)
           \/ \E t \in ScanTimes : ExpireGTD(t)
           \/ ExpireEnds
           \/ DryRunFails \/ DryRunSucceeds \/ EnterLevel \/ PreventTaker
           \/ FinishSTP \/ FinishFilled \/ FinishIOC \/ FinishMarket \/ FinishNoLevel
           \/ Reply \/ UNCHANGED vars
    PROVE  Stays
<1>1. orderSeq \in Nat /\ nodesInUse \in Int
  BY DEF Inv, ScalarTypes
<1>2. CASE \E o \in OrderIds, c \in Commands : Place(o, c)
  BY <1>1, <1>2 DEF Place, Admit, Stays, Held, Matching, structure
<1>3. CASE (\E t \in ScanTimes : ExpireGTD(t)) \/ ExpireEnds
  BY <1>1, <1>3 DEF ExpireGTD, ExpireEnds, Stays, Held, Matching, structure
<1>4. CASE DryRunSucceeds \/ EnterLevel \/ Reply
  BY <1>1, <1>4 DEF DryRunSucceeds, EnterLevel, Reply, Stays, Held, Matching, structure
<1>5. CASE PreventTaker
  BY <1>1, <1>5 DEF PreventTaker, Prevents, AtMaker, ZeroTaker, Stays, Held, Matching,
                    structure
<1>6. ASSUME NEW d, Release(d), pc \in {"dryRun", "outer", "stpDone"} PROVE Stays
  BY <1>1, <1>6 DEF Release, Return, Stays, Held, Matching, structure
<1>7. CASE DryRunFails \/ FinishSTP \/ FinishFilled \/ FinishIOC \/ FinishMarket
           \/ FinishNoLevel
  BY <1>6, <1>7 DEF DryRunFails, FinishSTP, FinishFilled, FinishIOC, FinishMarket,
                    FinishNoLevel, MayRest, LoopEnds
<1>8. CASE UNCHANGED vars
  BY <1>1, <1>8 DEF vars, Stays, Held
<1> QED
  BY <1>2, <1>3, <1>4, <1>5, <1>7, <1>8

\* The end of an iteration of the outer loop.
LEMMA LeaveLevelStep ==
    ASSUME Inv, LeaveLevel
    PROVE  Stays \/ LevelLeaves
<1>1. /\ pc = "inner" /\ pc' = "outer"
      /\ UNCHANGED <<index, nodesInUse, orderSeq, haltQueued>>
      /\ \/ /\ tree[OppSide][at].queue = <<>>
            /\ tree' = DeleteLevel(tree, OppSide, at) /\ levelsInUse' = levelsInUse - 1
         \/ tree' = tree /\ levelsInUse' = levelsInUse
  BY DEF LeaveLevel, WithoutLevel, DeleteLevel
<1>2. Held' = Held /\ Held \in Int /\ nodesInUse \in Int
  BY <1>1 DEF Held, Matching, Inv, ScalarTypes
<1> QED
  BY <1>1, <1>2 DEF Stays, LevelLeaves

\* A limit order queued without matching, or turned away.
LEMMA PlaceRestingStep ==
    ASSUME Inv, NEW o \in OrderIds, NEW c \in Commands, PlaceResting(o, c)
    PROVE  Stays \/ JoinsUnmatched(o, c)
<1> DEFINE n == NewNode(c, orderSeq + 1)
<1>1. /\ pc = "idle" /\ pc' = "reply" /\ o \notin DOMAIN index /\ orderSeq' = orderSeq + 1
      /\ \/ /\ RestNode(o, n) /\ nodesInUse' = nodesInUse + 1
            /\ haltQueued' = haltQueued \cup {o}
         \/ UNCHANGED <<structure, nodesInUse, haltQueued>>
  BY DEF PlaceResting, Admit
<1>2. orderSeq + 1 \in Nat /\ nodesInUse \in Int
  BY DEF Inv, ScalarTypes
<1>3. n \in Node
  BY <1>2, NewNodeType
<1>4. Held = 0 /\ Held' = 0
  BY <1>1 DEF Held, Matching
<1> HIDE DEF n
<1>5. CASE RestNode(o, n) /\ nodesInUse' = nodesInUse + 1
           /\ haltQueued' = haltQueued \cup {o}
  <2>1. nodesInUse' = nodesInUse + 1 + Held' - Held
    BY <1>2, <1>4, <1>5
  <2>2. Joins(o, n)
    BY <1>1, <1>3, <1>5, <2>1, RestJoins
  <2> QED
    BY <1>1, <1>5, <2>2 DEF JoinsUnmatched, n
<1>6. CASE UNCHANGED <<structure, nodesInUse, haltQueued>>
  BY <1>1, <1>2, <1>4, <1>6 DEF Stays, structure
<1> QED
  BY <1>1, <1>5, <1>6

\* What is left of the order in flight rests.
LEMMA FinishRestedStep ==
    ASSUME Inv, FinishRested
    PROVE  JoinsMatched
<1>1. /\ MayRest /\ pc = "outer" /\ pc' = "reply" /\ RestNode(taker, incoming)
      /\ UNCHANGED <<orderSeq, nodesInUse, haltQueued>>
  BY DEF FinishRested, MayRest, LoopEnds, Return
<1>2. taker \in OrderIds /\ incoming \in Node /\ taker \notin DOMAIN index
  BY <1>1 DEF Inv, ScalarTypes, TakerApart, Matching
<1>3. nodesInUse' = nodesInUse + 1 + Held' - Held
  BY <1>1 DEF Held, Matching, Inv, ScalarTypes
<1>4. Joins(taker, incoming)
  BY <1>1, <1>2, <1>3, RestJoins
<1> QED
  BY <1>1, <1>4 DEF JoinsMatched

\* Cancellation, and one order of an expiry scan.
LEMMA CancelStep ==
    ASSUME Inv, NEW o \in OrderIds, (\E u \in Users : Cancel(o, u)) \/ ExpireOne(o)
    PROVE  Goes(o) /\ o \in DOMAIN index
<1>1. /\ pc # "inner" /\ o \in DOMAIN index /\ RemoveResting(o) /\ pc' = pc
      /\ UNCHANGED orderSeq
  BY DEF Cancel, ExpireOne
<1> QED
  BY <1>1, RemoveGoes

\* Every step changes the book in one of these ways.
LEMMA BookSteps == Inv /\ [Next]_vars => BookStep
<1> SUFFICES ASSUME Inv, [Next]_vars PROVE BookStep
  OBVIOUS
<1>1. CASE \E o \in OrderIds, c \in Commands : Place(o, c) \/ PlaceResting(o, c)
  BY <1>1, StaysStep, PlaceRestingStep DEF BookStep
<1>2. CASE \E o \in OrderIds, u \in Users : Cancel(o, u)
  BY <1>2, CancelStep DEF BookStep
<1>3. CASE \E t \in ScanTimes : ExpireGTD(t)
  BY <1>3, StaysStep DEF BookStep
<1>4. CASE MatchStep
  <2>1. CASE PreventMaker \/ DecrementTaker \/ FillAndRemove \/ PreventBoth
    BY <2>1, DroppedMaker DEF BookStep
  <2>2. CASE FillPartly \/ DecrementMaker
    BY <2>2, ShrunkMaker DEF BookStep
  <2>3. CASE FillAndReplenish
    BY <2>3, RenewedMaker DEF BookStep
  <2>4. CASE LeaveLevel \/ FinishRested
    BY <2>4, LeaveLevelStep, FinishRestedStep DEF BookStep
  <2>5. CASE \/ DryRunFails \/ DryRunSucceeds \/ EnterLevel \/ PreventTaker
             \/ FinishSTP \/ FinishFilled \/ FinishIOC \/ FinishMarket \/ FinishNoLevel
             \/ Reply
    BY <2>5, StaysStep DEF BookStep
  <2> QED
    BY <1>4, <2>1, <2>2, <2>3, <2>4, <2>5 DEF MatchStep
<1>5. CASE ExpireStep
  BY <1>5, CancelStep, StaysStep DEF ExpireStep, BookStep
<1>6. CASE UNCHANGED vars
  BY <1>6, StaysStep DEF BookStep
<1> QED
  BY <1>1, <1>2, <1>3, <1>4, <1>5, <1>6 DEF Next

\* And the order in flight in one of these.
LEMMA TakerSteps == Inv /\ [Next]_vars => TakerStep
<1> SUFFICES ASSUME Inv, [Next]_vars PROVE TakerStep
  OBVIOUS
<1>1. CASE \E o \in OrderIds, c \in Commands : Place(o, c)
  BY <1>1 DEF TakerStep
<1>2. CASE \E o \in OrderIds, c \in Commands : PlaceResting(o, c)
  BY <1>2 DEF TakerStep, PlaceResting, Matching
<1>3. CASE \/ \E o \in OrderIds, u \in Users : Cancel(o, u)
           \/ \E t \in ScanTimes : ExpireGTD(t)
           \/ ExpireStep
  BY <1>3 DEF TakerStep, Cancel, ExpireGTD, ExpireStep, ExpireEnds, ExpireOne, Matching
<1>4. CASE DryRunSucceeds \/ EnterLevel \/ LeaveLevel
  BY <1>4 DEF TakerStep, DryRunSucceeds, EnterLevel, LeaveLevel, Matching
<1>5. CASE PreventBoth \/ PreventTaker \/ DecrementMaker
  BY <1>5 DEF TakerStep, PreventBoth, PreventTaker, DecrementMaker, Prevents, AtMaker,
              ZeroTaker, TakerZeroed, Matching
<1>6. CASE PreventMaker
  BY <1>6 DEF TakerStep, PreventMaker, Prevents, AtMaker, Matching
<1>7. CASE DecrementTaker
  <2>1. /\ AtMaker /\ pc = "inner" /\ pc' = pc /\ taker' = taker
        /\ maker.remain <= incoming.remain
        /\ incoming' = [incoming EXCEPT !.remain = @ - maker.remain,
                                        !.filled = @ + maker.remain]
    BY <1>7 DEF DecrementTaker, Prevents, AtMaker
  <2>2. maker.remain \in Nat
    BY <2>1, MakerFacts DEF Node
  <2>3. TakerPays(maker.remain)
    BY <2>1 DEF TakerPays
  <2> QED
    BY <2>1, <2>2, <2>3 DEF TakerStep, Matching
<1>8. CASE FillPartly \/ FillAndRemove \/ FillAndReplenish
  <2>1. Trade
    BY <1>8 DEF FillPartly, FillAndRemove, FillAndReplenish
  <2>2. /\ pc = "inner" /\ pc' = "inner" /\ taker' = taker /\ FillQty \in Nat
        /\ maker \in Node /\ incoming \in Node
    BY <2>1, TradeFacts, MakerFacts
  <2>3. FillQty <= incoming.remain
    BY <2>2 DEF FillQty, Smaller, Node
  <2>4. TakerPays(FillQty)
    BY <2>1, <2>2, <2>3 DEF Trade, TakerPays
  <2> QED
    BY <2>2, <2>4 DEF TakerStep, Matching
<1>9. CASE \/ DryRunFails \/ FinishSTP \/ FinishFilled \/ FinishIOC \/ FinishMarket
           \/ FinishNoLevel \/ FinishRested \/ Reply
  BY <1>9 DEF TakerStep, DryRunFails, FinishSTP, FinishFilled, FinishIOC, FinishMarket,
              FinishNoLevel, FinishRested, Reply, Release, Return, Matching
<1>10. CASE UNCHANGED vars
  BY <1>10 DEF TakerStep
<1> QED
  BY <1>1, <1>2, <1>3, <1>4, <1>5, <1>6, <1>7, <1>8, <1>9, <1>10 DEF Next, MatchStep

------------------------------------------------------------------------------
(* Time priority.                                                            *)

\* The orders of queue q stand in the order of their sequence numbers.
Ascending(ix, q) == \A i, j \in DOMAIN q : i < j => ix[q[i]].seq < ix[q[j]].seq

SeqsBelowClock == \A o \in DOMAIN index : index[o].seq <= orderSeq

\* The order in flight came after everything that rests on its side.
TakerYoungest ==
    pc \in Matching =>
        /\ incoming.seq <= orderSeq
        /\ \A o \in DOMAIN index :
              index[o].side = incoming.side => index[o].seq < incoming.seq

\* A later order joins an ascending queue at its end.
LEMMA AscendingAppend ==
    ASSUME NEW S, NEW q \in Seq(S), NEW o \in S, NEW ix, Ascending(ix, q),
           \A x \in Range(q) : ix[x].seq < ix[o].seq
    PROVE  Ascending(ix, Append(q, o))
<1> DEFINE r == Append(q, o)
<1>1. Len(q) \in Nat /\ DOMAIN q = 1..Len(q)
  BY LenProperties
<1>2. /\ r \in Seq(S) /\ Len(r) = Len(q) + 1
      /\ \A k \in 1..Len(q) : r[k] = q[k]
      /\ r[Len(q) + 1] = o
  BY AppendProperties
<1>3. DOMAIN r = 1..(Len(q) + 1)
  BY <1>2, LenProperties
<1> HIDE DEF r
<1> SUFFICES ASSUME NEW i \in 1..(Len(q) + 1), NEW j \in 1..(Len(q) + 1), i < j
             PROVE  ix[r[i]].seq < ix[r[j]].seq
  BY <1>3 DEF Ascending, r
<1>4. i \in 1..Len(q) /\ r[i] = q[i] /\ q[i] \in Range(q)
  BY <1>1, <1>2 DEF Range
<1>5. CASE j = Len(q) + 1
  BY <1>2, <1>4, <1>5
<1>6. CASE j # Len(q) + 1
  <2>1. j \in 1..Len(q) /\ r[j] = q[j]
    BY <1>1, <1>2, <1>6
  <2> QED
    BY <2>1, <1>1, <1>4 DEF Ascending
<1> QED
  BY <1>5, <1>6

\* A queue ascends without any of its orders.
LEMMA AscendingRemove ==
    ASSUME NEW S, NEW q \in Seq(S), NEW i \in 1..Len(q), NEW ix, Ascending(ix, q)
    PROVE  Ascending(ix, RemoveAt(q, i))
<1> DEFINE r == RemoveAt(q, i)
<1>1. Len(q) \in Nat /\ DOMAIN q = 1..Len(q)
  BY LenProperties
<1>2. /\ r \in Seq(S) /\ Len(r) = Len(q) - 1
      /\ \A k \in 1..(Len(q) - 1) : r[k] = IF k < i THEN q[k] ELSE q[k + 1]
  BY RemoveAtShift
<1>3. DOMAIN r = 1..(Len(q) - 1)
  BY <1>2, LenProperties
<1> HIDE DEF r
<1> SUFFICES ASSUME NEW j \in 1..(Len(q) - 1), NEW k \in 1..(Len(q) - 1), j < k
             PROVE  ix[r[j]].seq < ix[r[k]].seq
  BY <1>3 DEF Ascending, r
<1> DEFINE old(n) == IF n < i THEN n ELSE n + 1
<1>4. /\ old(j) \in 1..Len(q) /\ old(k) \in 1..Len(q) /\ old(j) < old(k)
      /\ r[j] = q[old(j)] /\ r[k] = q[old(k)]
  BY <1>1, <1>2
<1> HIDE DEF old
<1> QED
  BY <1>1, <1>4 DEF Ascending

\* Only the sequence numbers of its orders decide whether a queue ascends.
LEMMA AscendingSameSeqs ==
    ASSUME NEW q, NEW ix, NEW jx, Ascending(ix, q),
           \A x \in Range(q) : jx[x].seq = ix[x].seq
    PROVE  Ascending(jx, q)
<1>1. \A i \in DOMAIN q : q[i] \in Range(q)
  BY DEF Range
<1> QED
  BY <1>1 DEF Ascending

\* Changing one order and the queue at one place leaves every queue ascending, if the
\* new queue does and the order stood nowhere else.
LEMMA OneQueueChanges ==
    ASSUME Shape(tree, index), TimeOrdered, NEW s \in Side, NEW p \in Price, NEW l, NEW o,
           o \in DOMAIN index => index[o].side = s /\ index[o].price = p,
           \A x \in DOMAIN index \ {o} : index'[x].seq = index[x].seq,
           \/ tree' = PutLevel(tree, s, p, l) /\ Ascending(index', l.queue)
           \/ tree' = DeleteLevel(tree, s, p)
    PROVE  TimeOrdered'
<1>1. DOMAIN tree = Side
  BY DEF Shape
<1>2. ASSUME NEW t \in Side, NEW r \in DOMAIN tree'[t]
      PROVE  Ascending(index', tree'[t][r].queue)
  <2>1. CASE t = s /\ r = p
    <3>1. tree' = PutLevel(tree, s, p, l) /\ Ascending(index', l.queue)
      BY <1>1, <2>1, ReadDeleteLevel
    <3> QED
      BY <1>1, <2>1, <3>1, ReadPutLevel
  <2>2. CASE ~(t = s /\ r = p)
    <3>1. r \in DOMAIN tree[t] /\ tree'[t][r] = tree[t][r]
      <4>1. CASE tree' = PutLevel(tree, s, p, l)
        BY <4>1, <2>2, <1>1, ReadPutLevel
      <4>2. CASE tree' = DeleteLevel(tree, s, p)
        BY <4>2, <2>2, <1>1, ReadDeleteLevel
      <4> QED
        BY <4>1, <4>2
    <3>2. \A x \in Range(tree[t][r].queue) : x \in DOMAIN index /\ x # o
      BY <2>2, <3>1 DEF Shape, OrdersAt
    <3>3. Ascending(index, tree[t][r].queue)
      BY <3>1 DEF TimeOrdered, Ascending
    <3> DEFINE q == tree[t][r].queue
    <3>4. Ascending(index', q)
      <4>1. \A x \in Range(q) : index'[x].seq = index[x].seq
        BY <3>2
      <4> HIDE DEF q
      <4>2. Ascending(index, q)
        BY <3>3 DEF q
      <4> QED
        BY <4>1, <4>2, AscendingSameSeqs
    <3> QED
      BY <3>1, <3>4
  <2> QED
    BY <2>1, <2>2
<1> QED
  BY <1>2 DEF TimeOrdered, Ascending

TimeInv == TimeOrdered /\ SeqsBelowClock /\ TakerYoungest

\* The node of a submission keeps its sequence number and its slice.
LEMMA NewNodeFields ==
    ASSUME NEW c \in Commands, NEW seq \in Nat
    PROVE  LET n == NewNode(c, seq) IN
           /\ n \in Node /\ n.seq = seq /\ n.side = c.side /\ n.price = c.price
           /\ n.type = c.type /\ n.tif = c.tif /\ n.lot = c.display /\ n.lot > 0
           /\ n.remain = c.display /\ n.remain > 0 /\ n.remain <= n.orig
           /\ n.orig = n.filled + n.remain + n.hidden
<1>1. c \in Command /\ c.display <= c.qty
  BY CommandsAssumption
<1>2. c.qty \in Nat \ {0} /\ c.display \in Nat \ {0}
  BY <1>1 DEF Command
<1> QED
  BY <1>1, <1>2, NewNodeType DEF NewNode

\* Taking a quantity off an order leaves the rest of it as it was.
LEMMA DecrementFields ==
    ASSUME NEW n \in Node, NEW q \in Nat, q <= n.remain
    PROVE  LET d == DecrementNode(n, q) IN
           /\ d \in Node /\ d.user = n.user /\ d.side = n.side /\ d.price = n.price
           /\ d.seq = n.seq /\ d.lot = n.lot /\ d.orig = n.orig /\ d.hidden = n.hidden
           /\ d.remain = n.remain - q /\ d.filled = n.filled + q
<1>1. n.remain \in Nat /\ n.filled \in Nat /\ n.display \in Nat
  BY DEF Node
<1>2. /\ n.remain - q \in Nat /\ n.filled + q \in Nat
      /\ n.display - Smaller(q, n.display) \in Nat
  BY <1>1 DEF Smaller
<1> QED
  BY <1>2 DEF DecrementNode, Node

\* The next slice moves quantity from the reserve into view and takes a new number.
LEMMA ReplenishFields ==
    ASSUME NEW n \in Node, NEW seq \in Nat
    PROVE  LET r == Replenish(n, seq)
               slice == Smaller(n.hidden, n.lot)
           IN  /\ r \in Node /\ r.user = n.user /\ r.side = n.side /\ r.price = n.price
               /\ r.seq = seq /\ r.lot = n.lot /\ r.orig = n.orig /\ r.filled = n.filled
               /\ r.remain = slice /\ r.hidden = n.hidden - slice
<1> DEFINE slice == Smaller(n.hidden, n.lot)
<1>1. n.hidden \in Nat /\ n.lot \in Nat
  BY DEF Node
<1>2. slice \in Nat /\ n.hidden - slice \in Nat
  BY <1>1 DEF Smaller
<1>3. Replenish(n, seq)
        = [n EXCEPT !.hidden = @ - slice, !.remain = slice, !.display = slice, !.seq = seq]
  BY DEF Replenish
<1> HIDE DEF slice
<1>4. LET r == Replenish(n, seq)
      IN  /\ r \in Node /\ r.user = n.user /\ r.side = n.side /\ r.price = n.price
          /\ r.seq = seq /\ r.lot = n.lot /\ r.orig = n.orig /\ r.filled = n.filled
          /\ r.remain = slice /\ r.hidden = n.hidden - slice
  BY <1>2, <1>3 DEF Node
<1> QED
  BY <1>4 DEF slice

\* Both ways of joining put an order behind everything at its place: the sequence
\* counter never runs back.
LEMMA JoinsTime ==
    ASSUME Inv, TimeInv, NEW o \in OrderIds, NEW n \in Node, Joins(o, n),
           n.seq <= orderSeq', orderSeq <= orderSeq', orderSeq' \in Nat,
           \A x \in DOMAIN index : index[x].side = n.side => index[x].seq < n.seq
    PROVE  TimeInv'
<1>1. PICK l \in Level : /\ tree' = PutLevel(tree, n.side, n.price, l)
                         /\ l.queue = Append(QueueAt(n.side, n.price), o)
  BY DEF Joins
<1>2. /\ o \notin DOMAIN index /\ DOMAIN index' = DOMAIN index \cup {o} /\ index'[o] = n
      /\ \A x \in DOMAIN index : index'[x] = index[x]
  BY DEF Joins, Put
<1>3. Shape(tree, index) /\ n.side \in Side /\ n.price \in Price
  BY DEF Inv, Node
<1> DEFINE q == QueueAt(n.side, n.price)
<1>4. /\ q \in Seq(OrderIds) /\ Ascending(index, q)
      /\ \A x \in Range(q) : x \in DOMAIN index /\ index[x].side = n.side
  <2>1. CASE n.price \in DOMAIN tree[n.side]
    BY <1>3, <2>1 DEF TimeInv, TimeOrdered, Ascending, QueueAt, Shape, Level, OrdersAt
  <2>2. CASE n.price \notin DOMAIN tree[n.side]
    <3>1. q = <<>> /\ <<>> \in Seq(OrderIds) /\ DOMAIN q = {}
      BY <2>2 DEF QueueAt
    <3> QED
      BY <3>1 DEF Ascending, Range
  <2> QED
    BY <2>1, <2>2
<1>5. Ascending(index', Append(q, o))
  <2> HIDE DEF q
  <2>1. \A x \in Range(q) : index'[x].seq = index[x].seq /\ index'[x].seq < index'[o].seq
    BY <1>2, <1>4
  <2>2. Ascending(index', q)
    BY <1>4, <2>1, AscendingSameSeqs
  <2> QED
    BY <1>4, <2>1, <2>2, AscendingAppend
<1>6. Ascending(index', l.queue)
  BY <1>1, <1>5
<1>7. TimeOrdered'
  <2>1. \A x \in DOMAIN index \ {o} : index'[x].seq = index[x].seq
    BY <1>2
  <2> QED
    BY <1>1, <1>2, <1>3, <1>6, <2>1, OneQueueChanges DEF TimeInv
<1>8. SeqsBelowClock'
  <2>1. \A x \in DOMAIN index : index[x].seq \in Nat /\ index[x].seq <= orderSeq
    BY <1>3 DEF TimeInv, SeqsBelowClock, Shape, IndexShape, Node
  <2>2. orderSeq \in Nat
    BY DEF Inv, ScalarTypes
  <2> QED
    BY <1>2, <2>1, <2>2 DEF SeqsBelowClock
<1>9. TakerYoungest'
  BY DEF Joins, TakerYoungest, Matching
<1> QED
  BY <1>7, <1>8, <1>9 DEF TimeInv

\* The order in flight keeps its side and its number while it is matched.
LEMMA TakerStaysYoungest ==
    ASSUME Inv, TakerYoungest, SeqsBelowClock, TakerStep,
           orderSeq <= orderSeq', orderSeq' \in Nat,
           \A x \in DOMAIN index' :
              /\ x \in DOMAIN index /\ index'[x].side = index[x].side
              /\ \/ index'[x].seq = index[x].seq
                 \/ pc \in Matching /\ index[x].side # incoming.side,
           (\E o \in OrderIds, c \in Commands : Place(o, c)) => index' = index
    PROVE  TakerYoungest'
<1>1. orderSeq \in Nat /\ IndexShape(index)
  BY DEF Inv, ScalarTypes, Shape
<1>2. CASE pc' \notin Matching
  BY <1>2 DEF TakerYoungest
<1>3. CASE \E o \in OrderIds, c \in Commands : Place(o, c)
  <2>1. PICK o \in OrderIds, c \in Commands : Place(o, c)
    BY <1>3
  <2>2. /\ incoming' = NewNode(c, orderSeq + 1) /\ orderSeq' = orderSeq + 1
        /\ index' = index
    BY <1>3, <2>1 DEF Place, Admit
  <2>3. incoming'.seq = orderSeq + 1
    BY <1>1, <2>2, NewNodeFields
  <2>4. \A x \in DOMAIN index : index[x].seq \in Nat /\ index[x].seq <= orderSeq
    BY <1>1 DEF SeqsBelowClock, IndexShape, Node
  <2> QED
    BY <1>1, <2>2, <2>3, <2>4 DEF TakerYoungest
<1>4. CASE pc \in Matching /\ (incoming' = incoming \/ TakerZeroed \/ \E q \in Nat : TakerPays(q))
  <2>1. incoming \in Node
    BY <1>4 DEF Inv, ScalarTypes
  <2>2. incoming'.seq = incoming.seq /\ incoming'.side = incoming.side
    BY <1>4, <2>1 DEF TakerZeroed, TakerPays, Node
  <2>3. incoming.seq <= orderSeq /\ incoming.seq \in Nat
    BY <1>4, <2>1 DEF TakerYoungest, Node
  <2>4. incoming.seq <= orderSeq'
    BY <1>1, <2>3
  <2> QED
    BY <1>4, <2>2, <2>4 DEF TakerYoungest
<1>5. CASE UNCHANGED vars
  BY <1>5 DEF vars, TakerYoungest
<1> QED
  BY <1>2, <1>3, <1>4, <1>5 DEF TakerStep

\* Every step keeps time priority.
LEMMA TimeStep == Inv /\ TimeInv /\ [Next]_vars => TimeInv'
<1> SUFFICES ASSUME Inv, TimeInv, [Next]_vars PROVE TimeInv'
  OBVIOUS
<1>1. BookStep /\ TakerStep
  BY BookSteps, TakerSteps
<1>2. /\ Shape(tree, index) /\ orderSeq \in Nat /\ DOMAIN tree = Side
      /\ \A x \in DOMAIN index : /\ index[x] \in Node /\ index[x].seq \in Nat
                                 /\ index[x].seq <= orderSeq
  BY DEF Inv, ScalarTypes, Shape, IndexShape, Node, TimeInv, SeqsBelowClock
<1>3. ASSUME NEW o \in OrderIds, NEW c \in Commands, Place(o, c) PROVE index' = index
  BY <1>3 DEF Place, structure
<1>4. CASE Stays
  <2>1. UNCHANGED <<tree, index>> /\ orderSeq' \in Nat /\ orderSeq <= orderSeq'
    BY <1>2, <1>4 DEF Stays
  <2>2. TimeOrdered' /\ SeqsBelowClock'
    BY <1>2, <2>1 DEF TimeInv, TimeOrdered, SeqsBelowClock
  <2>3. TakerYoungest'
    BY <1>1, <1>3, <2>1, TakerStaysYoungest DEF TimeInv
  <2> QED
    BY <2>2, <2>3 DEF TimeInv
<1>5. CASE LevelLeaves
  <2>1. /\ tree' = DeleteLevel(tree, OppSide, at) /\ UNCHANGED <<index, orderSeq>>
        /\ pc = "inner"
    BY <1>5 DEF LevelLeaves
  <2>2. incoming \in Node /\ OppSide \in Side
    BY <2>1 DEF Inv, ScalarTypes, Matching, Node, OppSide, Opposite, Side
  <2>3. \A t \in Side : \A r \in DOMAIN tree'[t] :
            r \in DOMAIN tree[t] /\ tree'[t][r] = tree[t][r]
    BY <1>2, <2>1, <2>2, ReadDeleteLevel
  <2>4. TimeOrdered' /\ SeqsBelowClock'
    BY <2>1, <2>3 DEF TimeInv, TimeOrdered, SeqsBelowClock
  <2>5. TakerYoungest'
    BY <1>1, <1>2, <1>3, <2>1, TakerStaysYoungest DEF TimeInv
  <2> QED
    BY <2>4, <2>5 DEF TimeInv
<1>6. CASE JoinsMatched
  <2>1. /\ Joins(taker, incoming) /\ pc = "outer" /\ orderSeq' = orderSeq
    BY <1>6 DEF JoinsMatched, MayRest, LoopEnds
  <2>2. taker \in OrderIds /\ incoming \in Node
    BY <2>1 DEF Inv, ScalarTypes, Matching
  <2>3. /\ incoming.seq <= orderSeq
        /\ \A x \in DOMAIN index : index[x].side = incoming.side => index[x].seq < incoming.seq
    BY <2>1 DEF TimeInv, TakerYoungest, Matching
  <2> QED
    BY <1>2, <2>1, <2>2, <2>3, JoinsTime
<1>7. CASE \E o \in OrderIds, c \in Commands : JoinsUnmatched(o, c)
  <2>1. PICK o \in OrderIds, c \in Commands : JoinsUnmatched(o, c)
    BY <1>7
  <2> DEFINE n == NewNode(c, orderSeq + 1)
  <2>2. Joins(o, n) /\ orderSeq' = orderSeq + 1 /\ n \in Node /\ n.seq = orderSeq + 1
    BY <1>2, <2>1, NewNodeFields DEF JoinsUnmatched
  <2> HIDE DEF n
  <2> QED
    BY <1>2, <2>2, JoinsTime
<1>8. ASSUME NEW o \in DOMAIN index, Goes(o) PROVE TimeInv'
  <2> DEFINE s == index[o].side
             p == index[o].price
             q == tree[s][p].queue
  <2>1. s \in Side /\ p \in DOMAIN tree[s] /\ p \in Price
    BY <1>2 DEF Shape, Node
  <2>2. /\ q \in Seq(OrderIds) /\ Ascending(index, q) /\ Range(q) = OrdersAt(index, s, p)
        /\ IsInjective(q)
    BY <1>2, <2>1 DEF Shape, Level, TimeInv, TimeOrdered, Ascending
  <2>3. PICK l \in Level :
           /\ l.queue = RemoveAt(q, PositionIn(q, o))
           /\ tree' = PutLevel(tree, s, p, l) \/ tree' = DeleteLevel(tree, s, p)
    BY <1>8 DEF Goes
  <2>4. /\ UNCHANGED orderSeq /\ DOMAIN index' = DOMAIN index \ {o}
        /\ \A x \in DOMAIN index \ {o} : index'[x] = index[x]
    BY <1>8 DEF Goes, Delete
  <2> HIDE DEF q, s, p
  <2>5. Ascending(index', l.queue)
    <3>1. o \in Range(q)
      BY <2>2 DEF OrdersAt, s, p
    <3>2. /\ PositionIn(q, o) \in 1..Len(q)
          /\ Range(RemoveAt(q, PositionIn(q, o))) = Range(q) \ {o}
      BY <2>2, <3>1, PositionInQueue, RemoveFromQueue
    <3>3. Ascending(index, RemoveAt(q, PositionIn(q, o)))
      BY <2>2, <3>2, AscendingRemove
    <3>4. Ascending(index, l.queue) /\ Range(l.queue) = Range(q) \ {o}
      BY <2>3, <3>2, <3>3
    <3>5. \A x \in Range(l.queue) : index'[x].seq = index[x].seq
      BY <2>2, <2>4, <3>4 DEF OrdersAt
    <3> QED
      BY <3>4, <3>5, AscendingSameSeqs
  <2>6. TimeOrdered'
    <3>1. index[o].side = s /\ index[o].price = p
      BY DEF s, p
    <3> QED
      BY <1>2, <2>1, <2>3, <2>4, <2>5, <3>1, OneQueueChanges DEF TimeInv
  <2>7. SeqsBelowClock'
    BY <1>2, <2>4 DEF SeqsBelowClock
  <2>8. TakerYoungest'
    BY <1>1, <1>2, <1>3, <2>4, TakerStaysYoungest DEF TimeInv
  <2> QED
    BY <2>6, <2>7, <2>8 DEF TimeInv
<1>9. ASSUME NEW o \in DOMAIN index, NEW k \in Nat, Shrinks(o, k) PROVE TimeInv'
  <2> DEFINE s == index[o].side
             p == index[o].price
             q == tree[s][p].queue
  <2>1. s \in Side /\ p \in DOMAIN tree[s] /\ p \in Price
    BY <1>2 DEF Shape, Node
  <2>2. Ascending(index, q)
    BY <2>1 DEF TimeInv, TimeOrdered, Ascending
  <2>3. PICK l \in Level : l.queue = q /\ tree' = PutLevel(tree, s, p, l)
    BY <1>9 DEF Shrinks
  <2>4. /\ UNCHANGED orderSeq /\ DOMAIN index' = DOMAIN index
        /\ \A x \in DOMAIN index : index'[x].seq = index[x].seq /\ index'[x].side = index[x].side
    <3>1. k <= index[o].remain
      BY <1>2, <1>9 DEF Shrinks, Node
    <3>2. /\ DecrementNode(index[o], k).seq = index[o].seq
          /\ DecrementNode(index[o], k).side = index[o].side
      BY <1>2, <3>1, DecrementFields
    <3> QED
      BY <1>9, <3>2 DEF Shrinks
  <2> HIDE DEF q, s, p
  <2>5. TimeOrdered'
    <3>1. Ascending(index', l.queue)
      <4>1. \A x \in Range(q) : index'[x].seq = index[x].seq
        BY <1>2, <2>1, <2>4 DEF Shape, OrdersAt, q, s, p
      <4> QED
        BY <2>2, <2>3, <4>1, AscendingSameSeqs
    <3>2. index[o].side = s /\ index[o].price = p
      BY DEF s, p
    <3> QED
      BY <1>2, <2>1, <2>3, <2>4, <3>1, <3>2, OneQueueChanges DEF TimeInv
  <2>6. SeqsBelowClock'
    BY <1>2, <2>4 DEF SeqsBelowClock
  <2>7. TakerYoungest'
    BY <1>1, <1>2, <1>3, <2>4, TakerStaysYoungest DEF TimeInv
  <2> QED
    BY <2>5, <2>6, <2>7 DEF TimeInv
<1>10. ASSUME NEW o \in DOMAIN index, Renews(o) PROVE TimeInv'
  <2> DEFINE s == index[o].side
             p == index[o].price
             q == tree[s][p].queue
             r == RemoveAt(q, PositionIn(q, o))
  <2>1. s \in Side /\ p \in DOMAIN tree[s] /\ p \in Price /\ o \in OrderIds
    BY <1>2 DEF Shape, IndexShape, Node
  <2>2. /\ q \in Seq(OrderIds) /\ Ascending(index, q) /\ Range(q) = OrdersAt(index, s, p)
        /\ IsInjective(q)
    BY <1>2, <2>1 DEF Shape, Level, TimeInv, TimeOrdered, Ascending
  <2>3. PICK l \in Level : l.queue = Append(r, o) /\ tree' = PutLevel(tree, s, p, l)
    BY <1>10 DEF Renews
  <2>4. /\ orderSeq' = orderSeq + 1 /\ DOMAIN index' = DOMAIN index
        /\ \A x \in DOMAIN index \ {o} : index'[x] = index[x]
        /\ index'[o].seq = orderSeq + 1 /\ index'[o].side = index[o].side
        /\ pc \in Matching /\ index[o].side = OppSide
    <3> DEFINE d == DecrementNode(index[o], index[o].remain)
               n == Replenish(d, orderSeq + 1)
    <3>1. index[o].remain \in Nat /\ index[o].remain <= index[o].remain
      BY <1>2 DEF Node
    <3>2. d \in Node /\ d.side = index[o].side
      BY <1>2, <3>1, DecrementFields
    <3> HIDE DEF d
    <3>3. n.seq = orderSeq + 1 /\ n.side = index[o].side
      BY <1>2, <3>2, ReplenishFields
    <3>4. index' = [index EXCEPT ![o] = n]
      BY <1>10 DEF Renews, d
    <3> HIDE DEF n
    <3> QED
      BY <1>10, <3>3, <3>4 DEF Renews
  <2> HIDE DEF q, s, p, r
  <2>5. TimeOrdered'
    <3>1. o \in Range(q)
      BY <2>2 DEF OrdersAt, s, p
    <3>2. PositionIn(q, o) \in 1..Len(q) /\ r \in Seq(OrderIds) /\ Range(r) = Range(q) \ {o}
      BY <2>2, <3>1, PositionInQueue, RemoveFromQueue DEF r
    <3>3. Ascending(index, r)
      BY <2>2, <3>2, AscendingRemove DEF r
    <3>4. \A x \in Range(r) : x \in DOMAIN index \ {o}
      BY <2>2, <3>2 DEF OrdersAt
    <3>5. Ascending(index', r)
      BY <2>4, <3>3, <3>4, AscendingSameSeqs
    <3>6. \A x \in Range(r) : index'[x].seq < index'[o].seq
      BY <1>2, <2>4, <3>4
    <3>7. Ascending(index', l.queue)
      BY <2>1, <2>3, <3>2, <3>5, <3>6, AscendingAppend
    <3>8. index[o].side = s /\ index[o].price = p
      BY DEF s, p
    <3> QED
      BY <1>2, <2>1, <2>3, <2>4, <3>7, <3>8, OneQueueChanges DEF TimeInv
  <2>6. SeqsBelowClock'
    BY <1>2, <2>4 DEF SeqsBelowClock
  <2>7. TakerYoungest'
    <3>1. orderSeq <= orderSeq' /\ orderSeq' \in Nat
      BY <1>2, <2>4
    <3>2. OppSide # incoming.side
      BY <2>4 DEF OppSide, Opposite, Inv, ScalarTypes, Node, Side
    <3> QED
      BY <1>1, <1>3, <2>4, <3>1, <3>2, TakerStaysYoungest DEF TimeInv
  <2> QED
    BY <2>5, <2>6, <2>7 DEF TimeInv
<1> QED
  BY <1>1, <1>4, <1>5, <1>6, <1>7, <1>8, <1>9, <1>10 DEF BookStep

\* In the empty book every queue ascends.
LEMMA TimeInit == Init => TimeInv
BY DEF Init, TimeInv, TimeOrdered, SeqsBelowClock, TakerYoungest, Matching, NoMap

\* Time priority is an invariant with its two companions.
LEMMA TimeInvariant == Spec => []TimeInv
<1>1. Inv /\ TimeInv /\ [Next]_vars => TimeInv'
  BY TimeStep
<1> QED
  BY TimeInit, <1>1, Invariant, PTL DEF Spec

\* node.go:34, for every set of orders and every capacity: at each price the queue is in
\* the order of the sequence numbers, also after icebergs went to the back with new ones.
THEOREM InTimeOrder == Spec => []TimeOrdered
<1>1. TimeInv => TimeOrdered
  BY DEF TimeInv
<1> QED
  BY <1>1, TimeInvariant, PTL

\* The maker the inner loop looks at comes before every other order of its side.
LEMMA MakerIsFirst ==
    ASSUME Inv, TimeInv, AtMaker, NEW o \in DOMAIN index \ {cursor}, index[o].side = OppSide
    PROVE  \/ Better(OppSide, index[cursor].price, index[o].price)
           \/ /\ index[cursor].price = index[o].price
              /\ index[cursor].seq < index[o].seq
<1> DEFINE q == level.queue
<1>1. /\ Shape(tree, index) /\ OppSide \in Side /\ at \in DOMAIN tree[OppSide]
      /\ level = tree[OppSide][at] /\ q \in Seq(OrderIds) /\ IsInjective(q) /\ q # <<>>
      /\ cursor = Head(q) /\ Range(q) = OrdersAt(index, OppSide, at)
      /\ index[cursor].price = at /\ at \in Price
  BY MakerFacts DEF maker
<1>2. \A r \in DOMAIN tree[OppSide] : ~Better(OppSide, r, at)
  BY DEF Inv, ScanAtBest, AtMaker
<1>3. index[o].price \in DOMAIN tree[OppSide] /\ index[o].price \in Price
  BY <1>1 DEF Shape
<1>4. CASE index[o].price = at
  <2>1. o \in Range(q)
    BY <1>1, <1>4 DEF OrdersAt
  <2>2. PICK j \in DOMAIN q : q[j] = o
    BY <2>1 DEF Range
  <2>3. cursor = q[1] /\ 1 \in DOMAIN q /\ j \in Nat /\ j > 1
    <3>1. /\ Len(q) \in Nat /\ Len(q) >= 1 /\ DOMAIN q = 1..Len(q)
      BY <1>1, LenProperties, EmptySeq
    <3>2. cursor = q[1]
      BY <1>1, HeadOfQueue
    <3>3. j # 1
      BY <2>2, <3>2
    <3> QED
      BY <3>1, <3>2, <3>3, <2>2
  <2>4. Ascending(index, q)
    BY <1>1 DEF TimeInv, TimeOrdered, Ascending
  <2> QED
    BY <1>1, <1>4, <2>2, <2>3, <2>4 DEF Ascending
<1>5. CASE index[o].price # at
  <2>1. at \in Int /\ index[o].price \in Int
    BY <1>1, <1>3, CapacityAssumption DEF Price
  <2>2. ~Better(OppSide, index[o].price, at)
    BY <1>2, <1>3
  <2> QED
    BY <1>1, <1>5, <2>1, <2>2 DEF Better
<1> QED
  BY <1>4, <1>5

\* Only a trade adds to the fills.
LEMMA OnlyTradesFill ==
    ASSUME Inv, [Next]_vars, Len(fills') > Len(fills)
    PROVE  Trade
<1>1. fills \in Seq(Fill) /\ Len(fills) \in Nat
  BY LenProperties DEF Inv, ScalarTypes
<1>2. fills' # fills
  BY <1>1
<1>3. fills' # <<>>
  BY <1>1
<1>4. CASE \E o \in OrderIds, c \in Commands : Place(o, c) \/ PlaceResting(o, c)
  BY <1>2, <1>4 DEF Place, PlaceResting, result
<1>5. CASE \/ \E o \in OrderIds, u \in Users : Cancel(o, u)
           \/ \E t \in ScanTimes : ExpireGTD(t)
           \/ ExpireStep
  BY <1>2, <1>5 DEF Cancel, ExpireGTD, ExpireStep, ExpireEnds, ExpireOne, result
<1>6. CASE MatchStep
  <2>1. CASE FillPartly \/ FillAndRemove \/ FillAndReplenish
    BY <2>1 DEF FillPartly, FillAndRemove, FillAndReplenish
  <2>2. CASE \/ DryRunFails \/ DryRunSucceeds \/ EnterLevel \/ LeaveLevel
             \/ PreventBoth \/ PreventMaker \/ PreventTaker \/ DecrementMaker
             \/ DecrementTaker
    BY <1>2, <2>2 DEF DryRunFails, DryRunSucceeds, EnterLevel, LeaveLevel, PreventBoth,
       PreventMaker, PreventTaker, DecrementMaker, DecrementTaker, Release, Return, result
  <2>3. CASE \/ FinishSTP \/ FinishFilled \/ FinishIOC \/ FinishMarket \/ FinishRested
             \/ FinishNoLevel \/ Reply
    BY <1>2, <1>3, <2>3 DEF FinishSTP, FinishFilled, FinishIOC, FinishMarket, FinishRested,
       FinishNoLevel, Reply, Release, Return
  <2> QED
    BY <1>6, <2>1, <2>2, <2>3 DEF MatchStep
<1>7. CASE UNCHANGED vars
  BY <1>2, <1>7 DEF vars
<1> QED
  BY <1>4, <1>5, <1>6, <1>7 DEF Next

\* The promise of price-time priority: whatever the orders, the capacities and the
\* self-trade prevention, every trade is with the best-priced opposite order and, among
\* those at its price, with the one that has waited longest.
THEOREM PriceTimePriorityHolds == Spec => FillsInPriorityOrder
<1> DEFINE A == Len(fills') > Len(fills) =>
          LET m == fills'[Len(fills')].maker
          IN  \A o \in DOMAIN index \ {m} : index[o].side = OppSide =>
                 \/ Better(OppSide, index[m].price, index[o].price)
                 \/ index[m].price = index[o].price /\ index[m].seq < index[o].seq
<1>1. Inv /\ TimeInv /\ [Next]_vars => [A]_vars
  <2> SUFFICES ASSUME Inv, TimeInv, [Next]_vars, Len(fills') > Len(fills) PROVE A
    OBVIOUS
  <2>1. Trade
    BY OnlyTradesFill
  <2>2. AtMaker /\ cursor \in OrderIds /\ at \in Price /\ FillQty \in Nat
    BY <2>1, TradeFacts, MakerFacts
  <2>3. [maker |-> cursor, price |-> at, qty |-> FillQty] \in Fill /\ fills \in Seq(Fill)
    BY <2>2 DEF Fill, Inv, ScalarTypes
  <2>4. fills'[Len(fills')] = [maker |-> cursor, price |-> at, qty |-> FillQty]
    BY <2>1, <2>3, AppendProperties DEF Trade
  <2>5. fills'[Len(fills')].maker = cursor
    BY <2>4
  <2> QED
    BY <2>2, <2>5, MakerIsFirst
<1> HIDE DEF A
<1>2. [][A]_vars => FillsInPriorityOrder
  BY DEF FillsInPriorityOrder, A
<1> QED
  BY <1>1, <1>2, Invariant, TimeInvariant, PTL DEF Spec

------------------------------------------------------------------------------
(* No crossed book.                                                          *)

\* When the best opposite level does not cross the order in flight, no resting order of
\* that side does.
LEMMA NothingCrosses ==
    ASSUME Inv, pc \in Matching, ~BestCrosses, NEW o \in DOMAIN index,
           index[o].side = OppSide
    PROVE  ~Crosses(index[o].price)
<1>1. /\ incoming \in Node /\ OppSide \in Side /\ Shape(tree, index)
  BY DEF Inv, ScalarTypes, Node, OppSide, Opposite, Side
<1>2. /\ index[o].price \in DOMAIN tree[OppSide] /\ DOMAIN tree[OppSide] \subseteq Price
  BY <1>1 DEF Shape
<1>3. /\ Best(OppSide) \in DOMAIN tree[OppSide]
      /\ ~Better(OppSide, index[o].price, Best(OppSide))
  BY <1>1, <1>2, BestLevel
<1>4. ~Crosses(Best(OppSide))
  BY <1>2 DEF BestCrosses
<1> DEFINE b == Best(OppSide)
           r == index[o].price
<1>5. b \in Int /\ r \in Int /\ incoming.price \in Int
  BY <1>1, <1>2, <1>3, CapacityAssumption DEF Price, Node
<1> HIDE DEF b, r
<1>6. ~Better(OppSide, r, b) /\ ~Crosses(b) /\ incoming.side \in Side
  BY <1>1, <1>3, <1>4 DEF b, r, Node
<1>7. ~Crosses(r)
  BY <1>5, <1>6 DEF Better, Crosses, OppSide, Opposite, Side
<1> QED
  BY <1>7 DEF r

\* Every step keeps the matched orders uncrossed.
LEMMA NotCrossedStep == Inv /\ NotCrossed /\ [Next]_vars => NotCrossed'
<1> SUFFICES ASSUME Inv, NotCrossed, [Next]_vars PROVE NotCrossed'
  OBVIOUS
<1>1. BookStep
  BY BookSteps
<1>2. \A x \in DOMAIN index : index[x] \in Node
  BY DEF Inv, Shape, IndexShape
<1>3. ASSUME \A x \in DOMAIN index' \ haltQueued' :
                /\ x \in DOMAIN index \ haltQueued
                /\ index'[x].side = index[x].side /\ index'[x].price = index[x].price
      PROVE  NotCrossed'
  BY <1>3 DEF NotCrossed
<1>4. CASE Stays \/ LevelLeaves
  BY <1>3, <1>4 DEF Stays, LevelLeaves
<1>5. CASE JoinsMatched
  <2>1. /\ taker \notin DOMAIN index /\ index' = Put(index, taker, incoming)
        /\ haltQueued' = haltQueued /\ pc = "outer" /\ incoming.remain > 0 /\ ~BestCrosses
        /\ incoming.type = "Limit" /\ incoming \in Node
    BY <1>5 DEF JoinsMatched, Joins, MayRest, LoopEnds, Inv, ScalarTypes, Matching, Node
  <2>2. /\ DOMAIN index' = DOMAIN index \cup {taker} /\ index'[taker] = incoming
        /\ \A x \in DOMAIN index : index'[x] = index[x]
    BY <2>1 DEF Put
  <2>3. ASSUME NEW x \in DOMAIN index, index[x].side = OppSide
        PROVE  ~Crosses(index[x].price)
    BY <2>1, <2>3, NothingCrosses DEF Matching
  <2>4. ASSUME NEW b \in DOMAIN index' \ haltQueued', NEW a \in DOMAIN index' \ haltQueued',
               index'[b].side = "Bid", index'[a].side = "Ask"
        PROVE  index'[b].price < index'[a].price
    <3>1. CASE b \in DOMAIN index /\ a \in DOMAIN index
      BY <2>1, <2>2, <2>4, <3>1 DEF NotCrossed
    <3>2. CASE b = taker /\ a \in DOMAIN index
      <4>1. ~Crosses(index[a].price) /\ index[a].price \in Int /\ incoming.price \in Int
        BY <1>2, <2>1, <2>2, <2>3, <2>4, <3>2, CapacityAssumption
           DEF OppSide, Opposite, Node, Price
      <4> QED
        BY <4>1, <2>1, <2>2, <2>4, <3>2 DEF Crosses
    <3>3. CASE a = taker /\ b \in DOMAIN index
      <4>1. ~Crosses(index[b].price) /\ index[b].price \in Int /\ incoming.price \in Int
        BY <1>2, <2>1, <2>2, <2>3, <2>4, <3>3, CapacityAssumption
           DEF OppSide, Opposite, Node, Price
      <4> QED
        BY <4>1, <2>1, <2>2, <2>4, <3>3 DEF Crosses
    <3> QED
      BY <2>2, <2>4, <3>1, <3>2, <3>3
  <2> QED
    BY <2>4 DEF NotCrossed
<1>6. CASE \E o \in OrderIds, c \in Commands : JoinsUnmatched(o, c)
  <2>1. PICK o \in OrderIds, c \in Commands : JoinsUnmatched(o, c)
    BY <1>6
  <2> QED
    BY <1>3, <2>1 DEF JoinsUnmatched, Joins, Put
<1>7. ASSUME NEW o \in DOMAIN index, Goes(o) PROVE NotCrossed'
  <2>1. \A x \in DOMAIN index' \ haltQueued' :
           x \in DOMAIN index \ haltQueued /\ index'[x] = index[x]
    BY <1>7 DEF Goes, Delete
  <2> QED
    BY <1>3, <2>1
<1>8. ASSUME NEW o \in DOMAIN index, NEW n \in Node, n.side = index[o].side,
             n.price = index[o].price, index' = [index EXCEPT ![o] = n],
             haltQueued' = haltQueued
      PROVE  NotCrossed'
  BY <1>3, <1>8
<1>9. ASSUME NEW o \in DOMAIN index, NEW k \in Nat, Shrinks(o, k) PROVE NotCrossed'
  <2>1. k <= index[o].remain
    BY <1>2, <1>9 DEF Shrinks, Node
  <2> QED
    BY <1>2, <1>8, <1>9, <2>1, DecrementFields DEF Shrinks
<1>10. ASSUME NEW o \in DOMAIN index, Renews(o) PROVE NotCrossed'
  <2> DEFINE d == DecrementNode(index[o], index[o].remain)
  <2>1. index[o].remain \in Nat /\ index[o].remain <= index[o].remain /\ orderSeq + 1 \in Nat
    BY <1>2 DEF Node, Inv, ScalarTypes
  <2>2. d \in Node /\ d.side = index[o].side /\ d.price = index[o].price
    BY <1>2, <2>1, DecrementFields
  <2>3. index' = [index EXCEPT ![o] = Replenish(d, orderSeq + 1)] /\ haltQueued' = haltQueued
    BY <1>10 DEF Renews
  <2> HIDE DEF d
  <2> DEFINE n == Replenish(d, orderSeq + 1)
  <2>4. n \in Node /\ n.side = index[o].side /\ n.price = index[o].price
    BY <2>1, <2>2, ReplenishFields
  <2>5. index' = [index EXCEPT ![o] = n]
    BY <2>3
  <2> HIDE DEF n
  <2> QED
    BY <1>8, <2>3, <2>4, <2>5
<1> QED
  BY <1>1, <1>4, <1>5, <1>6, <1>7, <1>9, <1>10 DEF BookStep

\* No two orders that both came through match() ever stand crossed, for every set of
\* orders: an order rests only when the best opposite price does not reach its own.
THEOREM NeverCrossed == Spec => []NotCrossed
<1>1. Init => NotCrossed
  BY DEF Init, NotCrossed, NoMap
<1> QED
  BY <1>1, NotCrossedStep, Invariant, PTL DEF Spec

------------------------------------------------------------------------------
(* Quantities.                                                               *)

\* Whatever shows a slice shows something: an exhausted slice is followed by another.
SlicesPositive ==
    /\ \A o \in DOMAIN index : index[o].lot > 0
    /\ pc \in Matching => incoming.lot > 0

\* A fill-or-kill order is dry-run before it trades; self-trade prevention leaves nothing
\* of an order it stops.
TakerWhole ==
    /\ pc = "dryRun" => /\ incoming.tif = "FOK"
                        /\ incoming.remain = Smaller(incoming.orig, incoming.lot)
    /\ pc = "stpDone" => incoming.remain = 0

QuantityInv == QuantityConserved /\ SlicesPositive /\ TakerWhole

Balanced(n) == n.orig = n.filled + n.remain + n.hidden /\ n.remain > 0 /\ n.lot > 0

\* What every step makes of the order in flight.
LEMMA TakerQuantities ==
    ASSUME Inv, QuantityInv, TakerStep
    PROVE  /\ pc' \in {"dryRun", "outer", "inner"} =>
                 incoming'.orig = incoming'.filled + incoming'.remain + incoming'.hidden
           /\ pc' \in Matching => incoming'.lot > 0
           /\ TakerWhole'
<1>1. CASE pc' \notin Matching
  BY <1>1 DEF TakerWhole, Matching
<1>2. CASE \E o \in OrderIds, c \in Commands : Place(o, c)
  <2>1. PICK o \in OrderIds, c \in Commands : Place(o, c)
    BY <1>2
  <2> DEFINE n == NewNode(c, orderSeq + 1)
  <2>2. incoming' = n /\ pc' = IF c.tif = "FOK" THEN "dryRun" ELSE "outer"
    BY <2>1 DEF Place, Admit
  <2>3. /\ n \in Node /\ n.tif = c.tif /\ n.lot > 0 /\ n.remain = n.lot
        /\ n.remain <= n.orig /\ n.orig = n.filled + n.remain + n.hidden
    BY NewNodeFields DEF Inv, ScalarTypes
  <2> HIDE DEF n
  <2>4. n.remain = Smaller(n.orig, n.lot)
    BY <2>3 DEF Smaller, Node
  <2> QED
    BY <2>2, <2>3, <2>4 DEF TakerWhole
<1>3. CASE pc \in Matching \ {"stpDone"} /\ incoming' = incoming /\ pc' \in {"outer", "inner"}
  BY <1>3 DEF QuantityInv, QuantityConserved, SlicesPositive, TakerWhole, Matching
<1>4. CASE pc \in Matching \ {"stpDone"} /\ TakerZeroed
  <2>1. incoming \in Node /\ incoming.lot > 0
    BY <1>4 DEF Inv, ScalarTypes, QuantityInv, SlicesPositive
  <2>2. incoming'.remain = 0 /\ incoming'.lot = incoming.lot /\ pc' = "stpDone"
    BY <1>4, <2>1 DEF TakerZeroed, Node
  <2> QED
    BY <2>1, <2>2 DEF TakerWhole
<1>5. ASSUME NEW q \in Nat, pc \in Matching \ {"stpDone"}, TakerPays(q)
      PROVE  /\ incoming'.orig = incoming'.filled + incoming'.remain + incoming'.hidden
             /\ incoming'.lot > 0 /\ TakerWhole'
  <2>1. /\ incoming \in Node /\ incoming.lot > 0
        /\ incoming.orig = incoming.filled + incoming.remain + incoming.hidden
    BY <1>5 DEF Inv, ScalarTypes, QuantityInv, QuantityConserved, SlicesPositive, Matching
  <2>2. /\ incoming'.remain = incoming.remain - q /\ incoming'.filled = incoming.filled + q
        /\ incoming'.lot = incoming.lot /\ incoming'.orig = incoming.orig
        /\ incoming'.hidden = incoming.hidden /\ pc' \in {"outer", "inner"}
    BY <1>5, <2>1 DEF TakerPays, Node
  <2>3. /\ incoming.filled \in Nat /\ incoming.remain \in Nat /\ incoming.hidden \in Nat
    BY <2>1 DEF Node
  <2> QED
    BY <2>1, <2>2, <2>3 DEF TakerWhole
<1>6. CASE UNCHANGED vars
  BY <1>6 DEF vars, QuantityInv, QuantityConserved, SlicesPositive, TakerWhole
<1> QED
  BY <1>1, <1>2, <1>3, <1>4, <1>5, <1>6 DEF TakerStep

\* What every step makes of the resting orders.
LEMMA RestingQuantities ==
    ASSUME Inv, QuantityInv, BookStep, NEW x \in DOMAIN index'
    PROVE  Balanced(index'[x])
<1>1. \A y \in DOMAIN index : index[y] \in Node /\ Balanced(index[y])
  BY DEF Inv, Shape, IndexShape, QuantityInv, QuantityConserved, SlicesPositive, Balanced
<1>2. orderSeq + 1 \in Nat
  BY DEF Inv, ScalarTypes
<1>3. CASE Stays \/ LevelLeaves
  BY <1>1, <1>3 DEF Stays, LevelLeaves
<1>4. CASE JoinsMatched
  <2>1. /\ index' = Put(index, taker, incoming) /\ pc = "outer" /\ incoming.remain > 0
    BY <1>4 DEF JoinsMatched, Joins, MayRest, LoopEnds
  <2>2. Balanced(incoming)
    BY <2>1 DEF QuantityInv, QuantityConserved, SlicesPositive, Balanced, Matching
  <2> QED
    BY <1>1, <2>1, <2>2 DEF Put
<1>5. CASE \E o \in OrderIds, c \in Commands : JoinsUnmatched(o, c)
  <2>1. PICK o \in OrderIds, c \in Commands : JoinsUnmatched(o, c)
    BY <1>5
  <2> DEFINE n == NewNode(c, orderSeq + 1)
  <2>2. Balanced(n) /\ index' = Put(index, o, n)
    BY <1>2, <2>1, NewNodeFields DEF Balanced, JoinsUnmatched, Joins
  <2> HIDE DEF n
  <2> QED
    BY <1>1, <2>2 DEF Put
<1>6. CASE \E o \in DOMAIN index : Goes(o)
  BY <1>1, <1>6 DEF Goes, Delete
<1>7. ASSUME NEW o \in DOMAIN index, NEW k \in Nat, Shrinks(o, k) PROVE Balanced(index'[x])
  <2> DEFINE d == DecrementNode(index[o], k)
  <2>1. k < index[o].remain /\ index' = [index EXCEPT ![o] = d]
    BY <1>7 DEF Shrinks
  <2>2. /\ index[o].remain \in Nat /\ index[o].filled \in Nat /\ index[o].hidden \in Nat
        /\ k <= index[o].remain
    BY <1>1, <2>1 DEF Node
  <2>3. /\ d.remain = index[o].remain - k /\ d.filled = index[o].filled + k
        /\ d.hidden = index[o].hidden /\ d.lot = index[o].lot /\ d.orig = index[o].orig
    BY <1>1, <2>2, DecrementFields
  <2> HIDE DEF d
  <2>4. Balanced(d)
    BY <1>1, <2>1, <2>2, <2>3 DEF Balanced
  <2> QED
    BY <1>1, <2>1, <2>4
<1>8. ASSUME NEW o \in DOMAIN index, Renews(o) PROVE Balanced(index'[x])
  <2> DEFINE d == DecrementNode(index[o], index[o].remain)
             r == Replenish(d, orderSeq + 1)
             slice == Smaller(d.hidden, d.lot)
  <2>1. index[o].hidden > 0 /\ index' = [index EXCEPT ![o] = r]
    BY <1>8 DEF Renews
  <2>2. /\ index[o].remain \in Nat /\ index[o].filled \in Nat /\ index[o].hidden \in Nat
        /\ index[o].remain <= index[o].remain /\ index[o].lot \in Nat
    BY <1>1 DEF Node
  <2>3. /\ d \in Node /\ d.filled = index[o].filled + index[o].remain
        /\ d.hidden = index[o].hidden /\ d.lot = index[o].lot /\ d.orig = index[o].orig
    BY <1>1, <2>2, DecrementFields
  <2> HIDE DEF d
  <2>4. /\ r.lot = d.lot /\ r.orig = d.orig /\ r.filled = d.filled
        /\ r.remain = slice /\ r.hidden = d.hidden - slice
    BY <1>2, <2>3, ReplenishFields
  <2>5. slice > 0 /\ slice \in Nat
    BY <1>1, <2>1, <2>2, <2>3 DEF Balanced, Smaller
  <2> HIDE DEF r, slice
  <2>6. Balanced(r)
    BY <1>1, <2>2, <2>3, <2>4, <2>5 DEF Balanced
  <2> QED
    BY <1>1, <2>1, <2>6
<1> QED
  BY <1>3, <1>4, <1>5, <1>6, <1>7, <1>8 DEF BookStep

\* Quantities are conserved, in every run and whatever is submitted.
LEMMA QuantityInvariant == Spec => []QuantityInv
<1>1. Init => QuantityInv
  BY DEF Init, QuantityInv, QuantityConserved, SlicesPositive, TakerWhole, Matching, NoMap
<1>2. Inv /\ QuantityInv /\ [Next]_vars => QuantityInv'
  <2> SUFFICES ASSUME Inv, QuantityInv, [Next]_vars PROVE QuantityInv'
    OBVIOUS
  <2>1. BookStep /\ TakerStep
    BY BookSteps, TakerSteps
  <2>2. \A x \in DOMAIN index' : Balanced(index'[x])
    BY <2>1, RestingQuantities
  <2>3. /\ pc' \in {"dryRun", "outer", "inner"} =>
              incoming'.orig = incoming'.filled + incoming'.remain + incoming'.hidden
        /\ pc' \in Matching => incoming'.lot > 0
        /\ TakerWhole'
    BY <2>1, TakerQuantities
  <2> QED
    BY <2>2, <2>3 DEF QuantityInv, QuantityConserved, SlicesPositive, Balanced
<1> QED
  BY <1>1, <1>2, Invariant, PTL DEF Spec

\* No fill, decrement or replenishment creates or loses quantity, and no order rests with
\* nothing to trade.
THEOREM QuantityIsConserved == Spec => []QuantityConserved
<1>1. QuantityInv => QuantityConserved
  BY DEF QuantityInv
<1> QED
  BY <1>1, QuantityInvariant, PTL

------------------------------------------------------------------------------
(* The pools.                                                                *)

FiniteBook == IsFiniteSet(DOMAIN index) /\ \A s \in Side : IsFiniteSet(DOMAIN tree[s])

PoolInv == FiniteBook /\ PoolAccounting

\* The number of levels after one is put into a tree or deleted from it.
LEMMA LevelCount ==
    ASSUME FiniteBook, DOMAIN tree = Side, NEW s \in Side, NEW p, NEW l,
           levelsInUse = Cardinality(DOMAIN tree["Bid"]) + Cardinality(DOMAIN tree["Ask"]),
           \/ /\ tree' = PutLevel(tree, s, p, l)
              /\ levelsInUse' = levelsInUse + (IF p \in DOMAIN tree[s] THEN 0 ELSE 1)
           \/ /\ tree' = DeleteLevel(tree, s, p) /\ p \in DOMAIN tree[s]
              /\ levelsInUse' = levelsInUse - 1
    PROVE  /\ levelsInUse'
                 = Cardinality(DOMAIN tree'["Bid"]) + Cardinality(DOMAIN tree'["Ask"])
           /\ \A t \in Side : IsFiniteSet(DOMAIN tree'[t])
<1> DEFINE card(t) == Cardinality(DOMAIN t)
<1>1. /\ \A t \in Side : IsFiniteSet(DOMAIN tree[t]) /\ card(tree[t]) \in Nat
      /\ "Bid" \in Side /\ "Ask" \in Side /\ s \in {"Bid", "Ask"}
  BY FS_CardinalityType DEF FiniteBook, Side
<1>2. levelsInUse \in Int
  BY <1>1
<1>3. /\ IsFiniteSet(DOMAIN tree'[s])
      /\ card(tree'[s]) \in Int
      /\ levelsInUse' - levelsInUse = card(tree'[s]) - card(tree[s])
      /\ \A t \in Side \ {s} : tree'[t] = tree[t]
  <2>1. CASE /\ tree' = PutLevel(tree, s, p, l)
             /\ levelsInUse' = levelsInUse + (IF p \in DOMAIN tree[s] THEN 0 ELSE 1)
    <3>1. DOMAIN tree'[s] = DOMAIN tree[s] \cup {p} /\ \A t \in Side \ {s} : tree'[t] = tree[t]
      BY <2>1, ReadPutLevel
    <3>2. /\ IsFiniteSet(DOMAIN tree'[s])
          /\ card(tree'[s]) = IF p \in DOMAIN tree[s] THEN card(tree[s])
                              ELSE card(tree[s]) + 1
      <4> DEFINE S == DOMAIN tree[s]
      <4>1. IsFiniteSet(S)
        BY <1>1
      <4> HIDE DEF S
      <4>2. /\ IsFiniteSet(S \cup {p})
            /\ Cardinality(S \cup {p}) = IF p \in S THEN Cardinality(S) ELSE Cardinality(S) + 1
        BY <4>1, FS_AddElement
      <4> QED
        BY <3>1, <4>2 DEF S
    <3> HIDE DEF card
    <3> QED
      BY <1>1, <1>2, <2>1, <3>1, <3>2
  <2>2. CASE /\ tree' = DeleteLevel(tree, s, p) /\ p \in DOMAIN tree[s]
             /\ levelsInUse' = levelsInUse - 1
    <3>1. DOMAIN tree'[s] = DOMAIN tree[s] \ {p} /\ \A t \in Side \ {s} : tree'[t] = tree[t]
      BY <2>2, ReadDeleteLevel
    <3>2. /\ IsFiniteSet(DOMAIN tree'[s])
          /\ card(tree'[s]) = card(tree[s]) - 1
      BY <1>1, <2>2, <3>1, FS_RemoveElement
    <3> HIDE DEF card
    <3> QED
      BY <1>1, <1>2, <2>2, <3>1, <3>2
  <2> QED
    BY <2>1, <2>2
<1> HIDE DEF card
<1>4. levelsInUse = card(tree["Bid"]) + card(tree["Ask"])
  BY DEF card
<1>5. levelsInUse' = card(tree'["Bid"]) + card(tree'["Ask"])
  <2>1. levelsInUse' \in Int
    BY <1>2
  <2>2. CASE s = "Bid"
    <3>1. tree'["Ask"] = tree["Ask"]
      BY <1>1, <1>3, <2>2
    <3> QED
      BY <1>1, <1>2, <1>3, <1>4, <2>1, <2>2, <3>1
  <2>3. CASE s = "Ask"
    <3>1. tree'["Bid"] = tree["Bid"]
      BY <1>1, <1>3, <2>3
    <3> QED
      BY <1>1, <1>2, <1>3, <1>4, <2>1, <2>3, <3>1
  <2> QED
    BY <1>1, <2>2, <2>3
<1> QED
  BY <1>1, <1>3, <1>5 DEF card

\* Every step keeps the pools balanced.
LEMMA PoolStep == Inv /\ PoolInv /\ [Next]_vars => PoolInv'
<1> SUFFICES ASSUME Inv, PoolInv, [Next]_vars PROVE PoolInv'
  OBVIOUS
<1> DEFINE Levels == Cardinality(DOMAIN tree["Bid"]) + Cardinality(DOMAIN tree["Ask"])
<1>1. BookStep
  BY BookSteps
<1>2. /\ DOMAIN tree = Side /\ Shape(tree, index) /\ FiniteBook
      /\ IsFiniteSet(DOMAIN index) /\ Cardinality(DOMAIN index) \in Nat
      /\ levelsInUse = Levels /\ levelsInUse \in Int /\ nodesInUse \in Int
      /\ nodesInUse = Cardinality(DOMAIN index) + Held /\ Held \in Int /\ Held' \in Int
  BY FS_CardinalityType
     DEF Inv, Shape, ScalarTypes, PoolInv, FiniteBook, PoolAccounting, Held
<1>3. ASSUME levelsInUse' = Levels', \A t \in Side : IsFiniteSet(DOMAIN tree'[t]),
             IsFiniteSet(DOMAIN index'), nodesInUse' = Cardinality(DOMAIN index') + Held'
      PROVE  PoolInv'
  BY <1>3 DEF PoolInv, FiniteBook, PoolAccounting, Held
<1>4. CASE Stays
  <2>1. UNCHANGED <<tree, index, levelsInUse>> /\ nodesInUse' = nodesInUse + Held' - Held
    BY <1>4 DEF Stays
  <2>2. nodesInUse' = Cardinality(DOMAIN index') + Held'
    BY <1>2, <2>1
  <2> QED
    BY <1>2, <1>3, <2>1, <2>2 DEF FiniteBook
<1>5. CASE LevelLeaves
  <2>1. /\ pc = "inner" /\ tree' = DeleteLevel(tree, OppSide, at)
        /\ levelsInUse' = levelsInUse - 1
        /\ Held' = Held /\ index' = index /\ nodesInUse' = nodesInUse
    BY <1>2, <1>5 DEF LevelLeaves
  <2>2. OppSide \in Side /\ at \in DOMAIN tree[OppSide]
    BY <2>1 DEF Inv, ScalarTypes, ScanAtBest, Matching, Node, OppSide, Opposite, Side
  <2>3. levelsInUse' = Levels' /\ \A t \in Side : IsFiniteSet(DOMAIN tree'[t])
    BY <1>2, <2>1, <2>2, LevelCount
  <2> QED
    BY <1>2, <1>3, <2>1, <2>3
<1>6. ASSUME NEW o, NEW n \in Node, Joins(o, n) PROVE PoolInv'
  <2>1. PICK l \in Level : tree' = PutLevel(tree, n.side, n.price, l)
    BY <1>6 DEF Joins
  <2>2. /\ o \notin DOMAIN index /\ DOMAIN index' = DOMAIN index \cup {o}
        /\ levelsInUse' = levelsInUse + (IF n.price \in DOMAIN tree[n.side] THEN 0 ELSE 1)
        /\ nodesInUse' = nodesInUse + 1 + Held' - Held /\ n.side \in Side
    BY <1>6 DEF Joins, Put, HasLevel, Node
  <2>3. levelsInUse' = Levels' /\ \A t \in Side : IsFiniteSet(DOMAIN tree'[t])
    BY <1>2, <2>1, <2>2, LevelCount
  <2>4. /\ IsFiniteSet(DOMAIN index')
        /\ Cardinality(DOMAIN index') = Cardinality(DOMAIN index) + 1
    BY <1>2, <2>2, FS_AddElement
  <2>5. nodesInUse' = Cardinality(DOMAIN index') + Held'
    BY <1>2, <2>2, <2>4
  <2> QED
    BY <1>3, <2>3, <2>4, <2>5
<1>7. CASE JoinsMatched \/ \E o \in OrderIds, c \in Commands : JoinsUnmatched(o, c)
  <2>1. CASE JoinsMatched
    BY <1>6, <2>1 DEF JoinsMatched, MayRest, LoopEnds, Inv, ScalarTypes, Matching
  <2>2. CASE \E o \in OrderIds, c \in Commands : JoinsUnmatched(o, c)
    BY <1>6, <2>2, NewNodeFields DEF JoinsUnmatched, Inv, ScalarTypes
  <2> QED
    BY <1>7, <2>1, <2>2
<1>8. ASSUME NEW o \in DOMAIN index, Goes(o) PROVE PoolInv'
  <2> DEFINE s == index[o].side
             p == index[o].price
  <2>1. s \in Side /\ p \in DOMAIN tree[s]
    BY <1>2 DEF Shape, IndexShape, Node
  <2>2. PICK l \in Level :
           \/ tree' = PutLevel(tree, s, p, l) /\ levelsInUse' = levelsInUse
           \/ tree' = DeleteLevel(tree, s, p) /\ levelsInUse' = levelsInUse - 1
    BY <1>8 DEF Goes
  <2>3. /\ DOMAIN index' = DOMAIN index \ {o} /\ Held' = Held
        /\ nodesInUse' = nodesInUse - 1
    BY <1>8 DEF Goes, Delete
  <2> HIDE DEF s, p
  <2>4. levelsInUse' = Levels' /\ \A t \in Side : IsFiniteSet(DOMAIN tree'[t])
    <3>1. CASE tree' = PutLevel(tree, s, p, l) /\ levelsInUse' = levelsInUse
      <4>1. levelsInUse' = levelsInUse + (IF p \in DOMAIN tree[s] THEN 0 ELSE 1)
        BY <1>2, <2>1, <3>1
      <4> QED
        BY <1>2, <2>1, <3>1, <4>1, LevelCount
    <3>2. CASE tree' = DeleteLevel(tree, s, p) /\ levelsInUse' = levelsInUse - 1
      BY <1>2, <2>1, <3>2, LevelCount
    <3> QED
      BY <1>2, <2>2, <3>1, <3>2
  <2>5. /\ IsFiniteSet(DOMAIN index')
        /\ Cardinality(DOMAIN index') = Cardinality(DOMAIN index) - 1
    BY <1>2, <2>3, FS_RemoveElement
  <2>6. nodesInUse' = Cardinality(DOMAIN index') + Held'
    BY <1>2, <2>3, <2>5
  <2> QED
    BY <1>3, <2>4, <2>5, <2>6
<1>9. ASSUME NEW o \in DOMAIN index, Renews(o) \/ \E k \in Nat : Shrinks(o, k) PROVE PoolInv'
  <2> DEFINE s == index[o].side
             p == index[o].price
  <2>1. s \in Side /\ p \in DOMAIN tree[s]
    BY <1>2 DEF Shape, IndexShape, Node
  <2>2. /\ \E l \in Level : tree' = PutLevel(tree, s, p, l)
        /\ levelsInUse' = levelsInUse /\ DOMAIN index' = DOMAIN index
        /\ Held' = Held /\ nodesInUse' = nodesInUse
    BY <1>9 DEF Renews, Shrinks
  <2> HIDE DEF s, p
  <2>3. levelsInUse' = Levels' /\ \A t \in Side : IsFiniteSet(DOMAIN tree'[t])
    <3>1. levelsInUse' = levelsInUse + (IF p \in DOMAIN tree[s] THEN 0 ELSE 1)
      BY <1>2, <2>1, <2>2
    <3> QED
      BY <1>2, <2>1, <2>2, <3>1, LevelCount
  <2> QED
    BY <1>2, <1>3, <2>2, <2>3
<1> QED
  BY <1>1, <1>4, <1>5, <1>7, <1>8, <1>9 DEF BookStep

\* The book is finite and its pools balance in every state.
LEMMA PoolInvariant == Spec => []PoolInv
<1>1. Init => PoolInv
  <2> SUFFICES ASSUME Init PROVE PoolInv
    OBVIOUS
  <2>1. /\ DOMAIN index = {} /\ \A s \in Side : DOMAIN tree[s] = {}
        /\ nodesInUse = 0 /\ levelsInUse = 0 /\ pc = "idle"
    BY DEF Init, NoMap
  <2>2. DOMAIN tree["Bid"] = {} /\ DOMAIN tree["Ask"] = {}
    BY <2>1 DEF Side
  <2>3. FiniteBook
    BY <2>1, FS_EmptySet DEF FiniteBook
  <2>4. PoolAccounting
    <3>1. Cardinality({}) = 0 /\ 0 + 0 = 0
      BY FS_EmptySet
    <3> QED
      BY <2>1, <2>2, <3>1 DEF PoolAccounting, Matching
  <2> QED
    BY <2>3, <2>4 DEF PoolInv
<1> QED
  BY <1>1, PoolStep, Invariant, PTL DEF Spec

\* Each slot acquired from a pool is held by one resting order, by the order in flight or
\* by one level: no sequence of orders leaks a slot or releases one twice.
THEOREM PoolsBalance == Spec => []PoolAccounting
<1>1. PoolInv => PoolAccounting
  BY DEF PoolInv
<1> QED
  BY <1>1, PoolInvariant, PTL

------------------------------------------------------------------------------
(* The totals of a level.                                                    *)

Remaining(ix) == [o \in DOMAIN ix |-> ix[o].remain]
Shown(ix) == [o \in DOMAIN ix |-> ix[o].display]

\* Level l sums up the orders the index ix has on side s at price p.
SumsUp(l, ix, s, p) ==
    /\ l.total = Sum(Remaining(ix), OrdersAt(ix, s, p))
    /\ l.display = Sum(Shown(ix), OrdersAt(ix, s, p))
    /\ l.count = Len(l.queue)

Totals(tr, ix) == \A s \in Side : \A p \in DOMAIN tr[s] : SumsUp(tr[s][p], ix, s, p)

LevelAt(s, p) == IF p \in DOMAIN tree[s] THEN tree[s][p] ELSE EmptyLevel

\* Level l differs from level k by what order o had in the index ix and has in jx.
Follows(l, k, o, ix, jx) ==
    /\ l.total = k.total - Part(Remaining(ix), DOMAIN ix, o)
                         + Part(Remaining(jx), DOMAIN jx, o)
    /\ l.display = k.display - Part(Shown(ix), DOMAIN ix, o)
                             + Part(Shown(jx), DOMAIN jx, o)
    /\ l.count - Len(l.queue) = k.count - Len(k.queue)

\* Only order o, of side s and price p, enters, changes or leaves, and its level follows.
Moves(o, s, p) ==
    /\ s \in Side /\ p \in Price
    /\ DOMAIN index \ {o} = DOMAIN index' \ {o}
    /\ \A x \in DOMAIN index \ {o} : index'[x] = index[x]
    /\ o \in DOMAIN index => index[o].side = s /\ index[o].price = p
    /\ o \in DOMAIN index' => index'[o].side = s /\ index'[o].price = p
    /\ \/ \E l \in Level : /\ tree' = PutLevel(tree, s, p, l)
                           /\ Follows(l, LevelAt(s, p), o, index, index')
       \/ tree' = DeleteLevel(tree, s, p)

\* What a place without a level sums up to.
LEMMA LevelAtSums ==
    ASSUME Shape(tree, index), Totals(tree, index), NEW s \in Side, NEW p \in Price
    PROVE  SumsUp(LevelAt(s, p), index, s, p) /\ LevelAt(s, p) \in Level
<1>1. CASE p \in DOMAIN tree[s]
  BY <1>1 DEF LevelAt, Totals, Shape
<1>2. CASE p \notin DOMAIN tree[s]
  <2>1. OrdersAt(index, s, p) = {}
    BY <1>2 DEF OrdersAt, Shape
  <2>2. LevelAt(s, p) = EmptyLevel /\ EmptyLevel \in Level
    BY <1>2 DEF LevelAt, EmptyLevel, Level
  <2>3. EmptyLevel.total = 0 /\ EmptyLevel.display = 0 /\ EmptyLevel.count = Len(EmptyLevel.queue)
    <3>1. Len(<<>>) = 0
      BY EmptySeq
    <3> QED
      BY <3>1 DEF EmptyLevel
  <2> QED
    BY <2>1, <2>2, <2>3, SumEmpty DEF SumsUp
<1> QED
  BY <1>1, <1>2

\* The sum of a quantity over the orders of one place follows one order.
LEMMA PlaceSum ==
    ASSUME NEW f, NEW g, NEW S, NEW T, NEW D, NEW E, NEW o,
           IsFiniteSet(S), IsFiniteSet(T), S \subseteq D, T \subseteq E,
           \A x \in D : f[x] \in Int, \A x \in E : g[x] \in Int,
           S \ {o} = T \ {o}, \A x \in S \ {o} : f[x] = g[x],
           o \in D => o \in S, o \in E => o \in T
    PROVE  /\ Sum(g, T) = Sum(f, S) - Part(f, D, o) + Part(g, E, o)
<1>1. Part(f, D, o) = Part(f, S, o) /\ Part(g, E, o) = Part(g, T, o)
  BY DEF Part
<1>2. (\A x \in S : f[x] \in Int) /\ (\A x \in T : g[x] \in Int)
  OBVIOUS
<1> QED
  BY <1>1, <1>2, SumChange

\* When one order moves, every level still sums up its orders.
LEMMA MovedTotals ==
    ASSUME Shape(tree, index), Shape(tree, index)', IsFiniteSet(DOMAIN index),
           IsFiniteSet(DOMAIN index'), Totals(tree, index), NEW o, NEW s, NEW p,
           Moves(o, s, p)
    PROVE  Totals(tree, index)'
<1> DEFINE ix == index
           jx == index'
<1>1. /\ s \in Side /\ p \in Price /\ DOMAIN ix \ {o} = DOMAIN jx \ {o}
      /\ \A x \in DOMAIN ix \ {o} : jx[x] = ix[x]
      /\ o \in DOMAIN ix => ix[o].side = s /\ ix[o].price = p
      /\ o \in DOMAIN jx => jx[o].side = s /\ jx[o].price = p
  BY DEF Moves
<1>2. DOMAIN tree = Side
  BY DEF Shape
<1>3. /\ \A x \in DOMAIN ix : Remaining(ix)[x] \in Int /\ Shown(ix)[x] \in Int
      /\ \A x \in DOMAIN jx : Remaining(jx)[x] \in Int /\ Shown(jx)[x] \in Int
  BY DEF Shape, IndexShape, Node, Remaining, Shown
<1>4. \A x \in DOMAIN ix \ {o} : /\ Remaining(ix)[x] = Remaining(jx)[x]
                                 /\ Shown(ix)[x] = Shown(jx)[x]
  BY <1>1 DEF Remaining, Shown
<1> SUFFICES ASSUME NEW t \in Side, NEW r \in DOMAIN tree'[t]
             PROVE  SumsUp(tree'[t][r], jx, t, r)
  BY DEF Totals
<1> DEFINE S == OrdersAt(ix, t, r)
           T == OrdersAt(jx, t, r)
<1>5. /\ IsFiniteSet(S) /\ IsFiniteSet(T) /\ S \subseteq DOMAIN ix /\ T \subseteq DOMAIN jx
      /\ S \ {o} = T \ {o}
  <2>1. S \subseteq DOMAIN ix /\ T \subseteq DOMAIN jx /\ S \ {o} = T \ {o}
    BY <1>1 DEF OrdersAt
  <2> QED
    BY <2>1, FS_Subset
<1>6. CASE t = s /\ r = p
  <2>1. (o \in DOMAIN ix => o \in S) /\ (o \in DOMAIN jx => o \in T)
    BY <1>1, <1>6 DEF OrdersAt
  <2>2. r \in DOMAIN tree'[t] /\ tree' # DeleteLevel(tree, s, p)
    BY <1>1, <1>2, <1>6, ReadDeleteLevel
  <2>3. PICK l \in Level : /\ tree' = PutLevel(tree, s, p, l)
                           /\ Follows(l, LevelAt(s, p), o, ix, jx)
    BY <2>2 DEF Moves
  <2>4. tree'[t][r] = l
    BY <1>1, <1>2, <1>6, <2>3, ReadPutLevel
  <2>5. SumsUp(LevelAt(s, p), ix, s, p) /\ LevelAt(s, p) \in Level /\ l \in Level
    BY <1>1, LevelAtSums
  <2> HIDE DEF S, T, ix, jx
  <2>6. Sum(Remaining(jx), T)
          = Sum(Remaining(ix), S) - Part(Remaining(ix), DOMAIN ix, o)
                                  + Part(Remaining(jx), DOMAIN jx, o)
    BY <1>3, <1>4, <1>5, <2>1, PlaceSum
  <2>7. Sum(Shown(jx), T)
          = Sum(Shown(ix), S) - Part(Shown(ix), DOMAIN ix, o)
                              + Part(Shown(jx), DOMAIN jx, o)
    BY <1>3, <1>4, <1>5, <2>1, PlaceSum
  <2>8. l.count = Len(l.queue)
    <3>1. /\ l.count - Len(l.queue) = LevelAt(s, p).count - Len(LevelAt(s, p).queue)
          /\ LevelAt(s, p).count = Len(LevelAt(s, p).queue)
      BY <2>3, <2>5 DEF Follows, SumsUp
    <3>2. l.count \in Int /\ Len(l.queue) \in Int /\ LevelAt(s, p).count \in Int
      BY <2>5, LenProperties DEF Level
    <3> QED
      BY <3>1, <3>2
  <2> QED
    BY <1>6, <2>3, <2>4, <2>5, <2>6, <2>7, <2>8 DEF Follows, SumsUp, S, T
<1>7. CASE ~(t = s /\ r = p)
  <2>1. r \in DOMAIN tree[t] /\ tree'[t][r] = tree[t][r]
    <3>1. (\E l : tree' = PutLevel(tree, s, p, l)) \/ tree' = DeleteLevel(tree, s, p)
      BY DEF Moves
    <3> QED
      BY <1>1, <1>2, <1>7, <3>1, ReadPutLevel, ReadDeleteLevel
  <2>2. S = T /\ o \notin S
    BY <1>1, <1>5, <1>7 DEF OrdersAt
  <2>3. SumsUp(tree[t][r], ix, t, r)
    BY <2>1 DEF Totals
  <2> HIDE DEF S, T, ix, jx
  <2>4. \A x \in S : Remaining(ix)[x] = Remaining(jx)[x] /\ Shown(ix)[x] = Shown(jx)[x]
    BY <1>4, <1>5, <2>2
  <2>5. Sum(Remaining(ix), S) = Sum(Remaining(jx), S)
    BY <1>5, <2>4, SumSame
  <2>6. Sum(Shown(ix), S) = Sum(Shown(jx), S)
    BY <1>5, <2>4, SumSame
  <2> QED
    BY <2>1, <2>2, <2>3, <2>5, <2>6 DEF SumsUp, S, T
<1> QED
  BY <1>6, <1>7

\* An order that enters the book adds its quantities to its level.
LEMMA RestMoves ==
    ASSUME Inv, pc # "inner", NEW o \in OrderIds, o \notin DOMAIN index, NEW n \in Node,
           RestNode(o, n)
    PROVE  Moves(o, n.side, n.price)
<1> DEFINE s == n.side
           p == n.price
           k == LevelAt(s, p)
           l == Enqueue(k, o, n)
<1>1. tree' = PutLevel(tree, s, p, l) /\ index' = Put(index, o, n)
  BY DEF RestNode, WithLevel, PutLevel, LevelAt, HasLevel
<1>2. /\ s \in Side /\ p \in Price /\ n.remain \in Nat /\ n.display \in Nat
      /\ Shape(tree, index) /\ DOMAIN tree = Side
  BY DEF Node, Inv, Shape
<1>3. k \in Level
  <2>1. EmptyLevel \in Level
    BY DEF EmptyLevel, Level
  <2> QED
    BY <2>1, <1>2 DEF LevelAt, Shape
<1>4. l \in Level
  <2>1. Shape(tree, index)'
    BY RestNodeInv
  <2>2. tree'[s][p] = l /\ p \in DOMAIN tree'[s]
    BY <1>1, <1>2, ReadPutLevel
  <2> QED
    BY <1>2, <2>1, <2>2 DEF Shape
<1>5. /\ DOMAIN index' = DOMAIN index \cup {o} /\ index'[o] = n
      /\ \A x \in DOMAIN index : index'[x] = index[x]
  BY <1>1 DEF Put
<1>6. /\ l.total = k.total + n.remain /\ l.display = k.display + n.display
      /\ l.count = k.count + 1 /\ l.queue = Append(k.queue, o)
  BY DEF Enqueue
<1>7. /\ k.queue \in Seq(OrderIds) /\ k.total \in Int /\ k.display \in Int /\ k.count \in Int
      /\ Len(k.queue) \in Nat /\ Len(l.queue) = Len(k.queue) + 1
  <2>1. k.queue \in Seq(OrderIds) /\ k.total \in Int /\ k.display \in Int /\ k.count \in Int
    BY <1>3 DEF Level
  <2> HIDE DEF k, l
  <2> QED
    BY <2>1, <1>6, AppendProperties, LenProperties
<1>8. /\ Part(Remaining(index), DOMAIN index, o) = 0
      /\ Part(Shown(index), DOMAIN index, o) = 0
      /\ Part(Remaining(index'), DOMAIN index', o) = n.remain
      /\ Part(Shown(index'), DOMAIN index', o) = n.display
  BY <1>5 DEF Part, Remaining, Shown
<1> HIDE DEF k, l
<1>9. Follows(l, k, o, index, index')
  <2>1. l.total = k.total - 0 + n.remain
    BY <1>2, <1>6, <1>7
  <2>2. l.display = k.display - 0 + n.display
    BY <1>2, <1>6, <1>7
  <2>3. l.count - Len(l.queue) = k.count - Len(k.queue)
    BY <1>6, <1>7
  <2> QED
    BY <1>8, <2>1, <2>2, <2>3 DEF Follows
<1> QED
  BY <1>1, <1>2, <1>4, <1>5, <1>9 DEF Moves, k

\* An order that leaves the book takes its quantities from its level.
LEMMA GoneMoves ==
    ASSUME Shape(tree, index), NEW o \in DOMAIN index, index' = Delete(index, o),
           NEW l \in Level, NEW k, k = tree[index[o].side][index[o].price],
           l.total = k.total - index[o].remain, l.display = k.display - index[o].display,
           l.count = k.count - 1, Len(l.queue) = Len(k.queue) - 1,
           \/ tree' = PutLevel(tree, index[o].side, index[o].price, l)
           \/ tree' = DeleteLevel(tree, index[o].side, index[o].price)
    PROVE  Moves(o, index[o].side, index[o].price)
<1> DEFINE s == index[o].side
           p == index[o].price
<1>1. /\ s \in Side /\ p \in DOMAIN tree[s] /\ p \in Price /\ k \in Level
      /\ index[o].remain \in Nat /\ index[o].display \in Nat
  BY DEF Shape, IndexShape, Node
<1>2. /\ k.total \in Int /\ k.display \in Int /\ k.count \in Int /\ Len(k.queue) \in Nat
      /\ k = LevelAt(s, p)
  BY <1>1, LenProperties DEF Level, LevelAt
<1>3. /\ DOMAIN index' = DOMAIN index \ {o}
      /\ \A x \in DOMAIN index \ {o} : index'[x] = index[x]
  BY DEF Delete
<1>4. /\ Part(Remaining(index), DOMAIN index, o) = index[o].remain
      /\ Part(Shown(index), DOMAIN index, o) = index[o].display
      /\ Part(Remaining(index'), DOMAIN index', o) = 0
      /\ Part(Shown(index'), DOMAIN index', o) = 0
  BY <1>3 DEF Part, Remaining, Shown
<1>5. Follows(l, k, o, index, index')
  BY <1>1, <1>2, <1>4 DEF Follows
<1> QED
  BY <1>1, <1>2, <1>3, <1>5 DEF Moves

\* An order that changes in the book passes the change on to its level.
LEMMA KeptMoves ==
    ASSUME Shape(tree, index), NEW o \in DOMAIN index, NEW n \in Node,
           n.side = index[o].side, n.price = index[o].price,
           index' = [index EXCEPT ![o] = n],
           NEW l \in Level, NEW k, k = tree[index[o].side][index[o].price],
           l.total = k.total - index[o].remain + n.remain,
           l.display = k.display - index[o].display + n.display,
           l.count = k.count, Len(l.queue) = Len(k.queue),
           tree' = PutLevel(tree, index[o].side, index[o].price, l)
    PROVE  Moves(o, index[o].side, index[o].price)
<1> DEFINE s == index[o].side
           p == index[o].price
<1>1. s \in Side /\ p \in DOMAIN tree[s] /\ p \in Price /\ k = LevelAt(s, p)
  BY DEF Shape, IndexShape, Node, LevelAt
<1>2. /\ DOMAIN index' = DOMAIN index /\ index'[o] = n
      /\ \A x \in DOMAIN index \ {o} : index'[x] = index[x]
  OBVIOUS
<1>3. /\ Part(Remaining(index), DOMAIN index, o) = index[o].remain
      /\ Part(Shown(index), DOMAIN index, o) = index[o].display
      /\ Part(Remaining(index'), DOMAIN index', o) = n.remain
      /\ Part(Shown(index'), DOMAIN index', o) = n.display
  BY <1>2 DEF Part, Remaining, Shown
<1>4. Follows(l, k, o, index, index')
  BY <1>3 DEF Follows
<1> QED
  BY <1>1, <1>2, <1>4 DEF Moves

\* What Unlink and a decrement leave of a level and of an order.
LEMMA UnlinkTotals ==
    ASSUME NEW tr, NEW ix, Shape(tr, ix), NEW o \in DOMAIN ix, NEW m \in Node,
           NEW l \in Level, l.queue = tr[ix[o].side][ix[o].price].queue
    PROVE  LET u == Unlink(l, o, m) IN
           /\ u \in Level
           /\ u.total = l.total - m.remain /\ u.display = l.display - m.display
           /\ u.count = l.count - 1 /\ Len(u.queue) = Len(l.queue) - 1
           /\ u.queue = RemoveAt(l.queue, PositionIn(l.queue, o))
<1> DEFINE u == Unlink(l, o, m)
<1>1. /\ u \in Level /\ u.queue = RemoveAt(l.queue, PositionIn(l.queue, o))
      /\ o \in Range(l.queue)
  BY UnlinkLevel
<1>2. l.queue \in Seq(OrderIds) /\ IsInjective(l.queue)
  BY DEF Level, Shape, IndexShape, Node
<1>3. Len(RemoveAt(l.queue, PositionIn(l.queue, o))) = Len(l.queue) - 1
  BY <1>1, <1>2, RemoveFromQueue
<1>4. u.total = l.total - m.remain /\ u.display = l.display - m.display /\ u.count = l.count - 1
  BY DEF Unlink
<1> QED
  BY <1>1, <1>3, <1>4

LEMMA DecrementTotals ==
    ASSUME NEW n \in Node, NEW q \in Nat, q <= n.remain, NEW l \in Level
    PROVE  LET m == DecrementNode(n, q)
               d == DecrementLevel(l, n, q)
           IN  /\ m \in Node /\ m.remain = n.remain - q /\ m.hidden = n.hidden
               /\ m.display = n.display - Smaller(q, n.display)
               /\ m.side = n.side /\ m.price = n.price
               /\ d \in Level /\ d.total = l.total - q
               /\ d.display = l.display - Smaller(q, n.display)
               /\ d.count = l.count /\ d.queue = l.queue
               /\ Smaller(q, n.display) \in Nat
<1>1. /\ DecrementNode(n, q) \in Node
      /\ DecrementNode(n, q).remain = n.remain - q
      /\ DecrementNode(n, q).hidden = n.hidden
      /\ DecrementNode(n, q).side = n.side
      /\ DecrementNode(n, q).price = n.price
  BY DecrementFields
<1>2. DecrementNode(n, q).display = n.display - Smaller(q, n.display)
  BY DEF DecrementNode, Node
<1>3. /\ DecrementLevel(l, n, q) \in Level /\ DecrementLevel(l, n, q).queue = l.queue
  BY DecrementTypes
<1>4. /\ DecrementLevel(l, n, q).total = l.total - q
      /\ DecrementLevel(l, n, q).display = l.display - Smaller(q, n.display)
      /\ DecrementLevel(l, n, q).count = l.count
  BY DEF DecrementLevel, Level
<1>5. Smaller(q, n.display) \in Nat
  BY DEF Smaller, Node
<1> QED
  BY <1>1, <1>2, <1>3, <1>4, <1>5

\* Cancellation and expiry move the order they remove.
LEMMA RemoveMoves ==
    ASSUME Inv, NEW o \in DOMAIN index, RemoveResting(o)
    PROVE  Moves(o, index[o].side, index[o].price)
<1> DEFINE n == index[o]
           k == tree[n.side][n.price]
           u == Unlink(k, o, n)
<1>1. /\ index' = Delete(index, o)
      /\ tree' = DeleteLevel(tree, n.side, n.price) \/ tree' = PutLevel(tree, n.side, n.price, u)
  BY DEF RemoveResting, WithLevel, WithoutLevel, PutLevel, DeleteLevel
<1>2. Shape(tree, index) /\ n \in Node /\ k \in Level
  BY DEF Inv, Shape, IndexShape, Node
<1>3. /\ u \in Level
      /\ u.total = k.total - n.remain /\ u.display = k.display - n.display
      /\ u.count = k.count - 1 /\ Len(u.queue) = Len(k.queue) - 1
  BY <1>2, UnlinkTotals
<1> HIDE DEF u
<1> QED
  BY <1>1, <1>2, <1>3, GoneMoves

\* So does the inner loop with a maker that self-trade prevention or a trade removes.
LEMMA DroppedMoves ==
    ASSUME Inv, PreventMaker \/ DecrementTaker \/ FillAndRemove \/ PreventBoth
    PROVE  Moves(cursor, OppSide, at)
<1>1. AtMaker
  BY DEF PreventMaker, DecrementTaker, FillAndRemove, PreventBoth, Trade, Trades, Prevents
<1>2. /\ level \in Level /\ maker \in Node /\ cursor \in DOMAIN index
      /\ Shape(tree, index) /\ index[cursor].side = OppSide /\ index[cursor].price = at
      /\ level = tree[OppSide][at] /\ maker = index[cursor]
  BY <1>1, MakerFacts DEF maker
<1>3. /\ maker.remain \in Nat /\ maker.display \in Nat
      /\ level.total \in Int /\ level.display \in Int
  BY <1>2 DEF Node, Level
<1>4. ASSUME NEW l \in Level, NEW m \in Node, l.queue = level.queue, l.count = level.count,
             l.total - m.remain = level.total - maker.remain,
             l.display - m.display = level.display - maker.display,
             index' = Delete(index, cursor),
             \/ tree' = PutLevel(tree, OppSide, at, Unlink(l, cursor, m))
             \/ tree' = DeleteLevel(tree, OppSide, at)
      PROVE  Moves(cursor, OppSide, at)
  <2> DEFINE u == Unlink(l, cursor, m)
  <2>1. l.queue = tree[index[cursor].side][index[cursor].price].queue
    BY <1>2, <1>4
  <2>2. /\ u \in Level
        /\ u.total = l.total - m.remain /\ u.display = l.display - m.display
        /\ u.count = l.count - 1 /\ Len(u.queue) = Len(l.queue) - 1
    BY <1>2, <2>1, UnlinkTotals
  <2>3. /\ u.total = level.total - index[cursor].remain
        /\ u.display = level.display - index[cursor].display
        /\ u.count = level.count - 1 /\ Len(u.queue) = Len(level.queue) - 1
    BY <1>2, <1>4, <2>2
  <2>4. \/ tree' = PutLevel(tree, index[cursor].side, index[cursor].price, u)
        \/ tree' = DeleteLevel(tree, index[cursor].side, index[cursor].price)
    BY <1>2, <1>4
  <2>5. level = tree[index[cursor].side][index[cursor].price]
    BY <1>2
  <2> HIDE DEF u
  <2>6. Moves(cursor, index[cursor].side, index[cursor].price)
    BY <1>2, <1>4, <2>2, <2>3, <2>4, <2>5, GoneMoves
  <2> QED
    BY <1>2, <2>6
<1>5. CASE PreventMaker \/ DecrementTaker \/ PreventBoth
  <2>1. /\ index' = Delete(index, cursor)
        /\ \/ tree' = PutLevel(tree, OppSide, at, Unlink(level, cursor, maker))
           \/ tree' = DeleteLevel(tree, OppSide, at)
    BY <1>5 DEF PreventMaker, DecrementTaker, PreventBoth, DropMaker, WithLevel,
                WithoutLevel, PutLevel, DeleteLevel
  <2> QED
    BY <1>2, <1>4, <2>1
<1>6. CASE FillAndRemove
  <2> DEFINE l == DecrementLevel(level, maker, FillQty)
             m == DecrementNode(maker, FillQty)
             shown == Smaller(FillQty, maker.display)
  <2>1. Trade /\ DropMaker(l, m)
    BY <1>6 DEF FillAndRemove
  <2>2. FillQty \in Nat /\ FillQty <= maker.remain
    BY <2>1, TradeFacts
  <2>3. /\ index' = Delete(index, cursor)
        /\ tree' = PutLevel(tree, OppSide, at, Unlink(l, cursor, m))
    BY <2>1 DEF DropMaker, WithLevel, PutLevel
  <2>4. /\ m \in Node /\ m.remain = maker.remain - FillQty
        /\ m.display = maker.display - shown
        /\ l \in Level /\ l.total = level.total - FillQty
        /\ l.display = level.display - shown
        /\ l.count = level.count /\ l.queue = level.queue /\ shown \in Nat
    BY <1>2, <2>2, DecrementTotals
  <2> HIDE DEF l, m, shown
  <2>5. /\ l.total - m.remain = level.total - maker.remain
        /\ l.display - m.display = level.display - maker.display
    BY <1>3, <2>2, <2>4
  <2> QED
    BY <1>4, <2>3, <2>4, <2>5
<1> QED
  BY <1>5, <1>6

\* A maker left with less.
LEMMA ShrunkMoves ==
    ASSUME Inv, FillPartly \/ DecrementMaker
    PROVE  Moves(cursor, OppSide, at)
<1>1. AtMaker
  BY DEF FillPartly, DecrementMaker, Trade, Trades, Prevents
<1>2. /\ level \in Level /\ maker \in Node /\ cursor \in DOMAIN index
      /\ Shape(tree, index) /\ index[cursor].side = OppSide /\ index[cursor].price = at
      /\ level = tree[OppSide][at] /\ maker = index[cursor] /\ incoming \in Node
      /\ maker.side = OppSide /\ maker.price = at
  BY <1>1, MakerFacts DEF maker
<1>3. /\ maker.remain \in Nat /\ maker.display \in Nat
      /\ level.total \in Int /\ level.display \in Int
  BY <1>2 DEF Node, Level
<1> DEFINE q == IF FillPartly THEN FillQty ELSE incoming.remain
           l == DecrementLevel(level, maker, q)
           m == DecrementNode(maker, q)
           shown == Smaller(q, maker.display)
<1>4. /\ q \in Nat /\ q <= maker.remain
      /\ tree' = WithLevel(OppSide, at, l)
      /\ index' = [index EXCEPT ![cursor] = DecrementNode(@, q)]
  <2>1. CASE FillPartly
    <3>1. FillQty \in Nat /\ FillQty <= maker.remain
      BY <2>1, TradeFacts DEF FillPartly
    <3> QED
      BY <2>1, <3>1 DEF FillPartly
  <2>2. CASE DecrementMaker /\ ~FillPartly
    <3>1. incoming.remain \in Nat /\ maker.remain \in Nat
      BY <1>2 DEF Node
    <3> QED
      BY <2>2, <3>1 DEF DecrementMaker
  <2> QED
    BY <2>1, <2>2
<1>5. tree' = PutLevel(tree, OppSide, at, l) /\ index' = [index EXCEPT ![cursor] = m]
  BY <1>2, <1>4 DEF WithLevel, PutLevel
<1> HIDE DEF q
<1>6. /\ m \in Node /\ m.remain = maker.remain - q
      /\ m.display = maker.display - shown /\ m.side = OppSide /\ m.price = at
      /\ l \in Level /\ l.total = level.total - q
      /\ l.display = level.display - shown
      /\ l.count = level.count /\ l.queue = level.queue /\ shown \in Nat
  BY <1>2, <1>4, DecrementTotals
<1> HIDE DEF l, m, shown
<1>7. /\ l.total = level.total - maker.remain + m.remain
      /\ l.display = level.display - maker.display + m.display
  BY <1>3, <1>4, <1>6
<1> QED
  BY <1>2, <1>5, <1>6, <1>7, KeptMoves

\* An iceberg that shows its next slice at the end of the queue.
LEMMA RenewedMoves ==
    ASSUME Inv, FillAndReplenish
    PROVE  Moves(cursor, OppSide, at)
<1> DEFINE d == DecrementLevel(level, maker, FillQty)
           left == DecrementNode(maker, FillQty)
           renewed == Replenish(left, orderSeq + 1)
           u == Unlink(d, cursor, left)
           l == Enqueue(u, cursor, renewed)
           shown == Smaller(FillQty, maker.display)
<1>1. /\ Trade /\ tree' = PutLevel(tree, OppSide, at, l)
      /\ index' = [index EXCEPT ![cursor] = renewed]
  BY DEF FillAndReplenish, WithLevel, PutLevel
<1>2. AtMaker /\ FillQty \in Nat /\ FillQty <= maker.remain
  BY <1>1, TradeFacts
<1>3. /\ level \in Level /\ maker \in Node /\ cursor \in DOMAIN index
      /\ Shape(tree, index) /\ index[cursor].side = OppSide /\ index[cursor].price = at
      /\ level = tree[OppSide][at] /\ maker = index[cursor]
      /\ maker.side = OppSide /\ maker.price = at /\ DOMAIN tree = Side /\ OppSide \in Side
  BY <1>2, MakerFacts DEF maker
<1>4. /\ maker.remain \in Nat /\ maker.display \in Nat
      /\ level.total \in Int /\ level.display \in Int /\ level.count \in Int
      /\ level.queue \in Seq(OrderIds)
  BY <1>3 DEF Node, Level
<1>5. /\ left \in Node /\ left.remain = maker.remain - FillQty
      /\ left.display = maker.display - shown /\ left.side = OppSide /\ left.price = at
      /\ d \in Level /\ d.total = level.total - FillQty
      /\ d.display = level.display - shown
      /\ d.count = level.count /\ d.queue = level.queue /\ shown \in Nat
  BY <1>2, <1>3, DecrementTotals
<1>6. l \in Level
  <2>1. Shape(tree, index)'
    BY FillAndReplenishInv DEF Inv
  <2>2. tree'[OppSide][at] = l /\ at \in DOMAIN tree'[OppSide]
    BY <1>1, <1>3, ReadPutLevel
  <2> QED
    BY <2>1, <2>2, <1>3 DEF Shape
<1> HIDE DEF d, left, shown
<1>7. /\ u \in Level
      /\ u.total = d.total - left.remain /\ u.display = d.display - left.display
      /\ u.count = d.count - 1 /\ Len(u.queue) = Len(d.queue) - 1
  <2>1. d.queue = tree[index[cursor].side][index[cursor].price].queue
    BY <1>3, <1>5
  <2> QED
    BY <1>3, <1>5, <2>1, UnlinkTotals
<1>8. renewed \in Node /\ renewed.side = OppSide /\ renewed.price = at
  <2>1. orderSeq + 1 \in Nat
    BY DEF Inv, ScalarTypes
  <2> QED
    BY <1>5, <2>1, ReplenishType
<1> HIDE DEF renewed, u
<1>9. /\ l.total = u.total + renewed.remain /\ l.display = u.display + renewed.display
      /\ l.count = u.count + 1 /\ l.queue = Append(u.queue, cursor)
  BY DEF Enqueue
<1> HIDE DEF l
<1>10. Len(l.queue) = Len(level.queue)
  <2>1. u.queue \in Seq(OrderIds) /\ cursor \in OrderIds /\ Len(level.queue) \in Nat
    BY <1>2, <1>4, <1>7, MakerFacts, LenProperties DEF Level
  <2>2. Len(l.queue) = Len(u.queue) + 1
    BY <1>9, <2>1, AppendProperties
  <2> QED
    BY <1>5, <1>7, <2>1, <2>2
<1>11. renewed.remain \in Nat /\ renewed.display \in Nat
  BY <1>8 DEF Node
<1>12. l.total = level.total - maker.remain + renewed.remain
  BY <1>2, <1>4, <1>5, <1>7, <1>9, <1>11
<1>13. l.display = level.display - maker.display + renewed.display
  BY <1>2, <1>4, <1>5, <1>7, <1>9, <1>11
<1>14. l.count = level.count
  BY <1>4, <1>5, <1>7, <1>9
<1> QED
  BY <1>1, <1>3, <1>6, <1>8, <1>10, <1>12, <1>13, <1>14, KeptMoves

TotalsInv == Totals(tree, index)

\* Every step keeps the totals right.
LEMMA TotalsStep ==
    ASSUME Inv, Inv', FiniteBook, FiniteBook', TotalsInv, [Next]_vars
    PROVE  TotalsInv'
<1>1. /\ Shape(tree, index) /\ Shape(tree, index)' /\ DOMAIN tree = Side
      /\ IsFiniteSet(DOMAIN index) /\ IsFiniteSet(DOMAIN index')
  BY DEF Inv, Shape, FiniteBook
<1>2. ASSUME NEW o, NEW s, NEW p, Moves(o, s, p) PROVE TotalsInv'
  BY <1>1, <1>2, MovedTotals DEF TotalsInv
<1>3. ASSUME UNCHANGED <<tree, index>> PROVE TotalsInv'
  BY <1>3 DEF TotalsInv
<1>4. CASE \E o \in OrderIds, c \in Commands : PlaceResting(o, c)
  <2>1. PICK o \in OrderIds, c \in Commands : PlaceResting(o, c)
    BY <1>4
  <2> DEFINE n == NewNode(c, orderSeq + 1)
  <2>2. /\ pc = "idle" /\ o \notin DOMAIN index
        /\ RestNode(o, n) \/ UNCHANGED <<tree, index>>
    BY <2>1 DEF PlaceResting, Admit, structure
  <2>3. n \in Node
    <3>1. orderSeq + 1 \in Nat
      BY DEF Inv, ScalarTypes
    <3> QED
      BY <3>1, NewNodeType
  <2> HIDE DEF n
  <2>4. CASE RestNode(o, n)
    <3>1. Moves(o, n.side, n.price)
      BY <2>2, <2>3, <2>4, RestMoves
    <3> QED
      BY <3>1, <1>2
  <2> QED
    BY <2>2, <2>4, <1>3
<1>5. CASE FinishRested
  <2>1. /\ pc = "outer" /\ RestNode(taker, incoming)
    BY <1>5 DEF FinishRested, MayRest, LoopEnds
  <2>2. taker \in OrderIds /\ incoming \in Node /\ taker \notin DOMAIN index
    BY <2>1 DEF Inv, ScalarTypes, TakerApart, Matching
  <2>3. Moves(taker, incoming.side, incoming.price)
    BY <2>1, <2>2, RestMoves
  <2> QED
    BY <2>3, <1>2
<1>6. CASE \E o \in OrderIds : (\E u \in Users : Cancel(o, u)) \/ ExpireOne(o)
  <2>1. PICK o \in DOMAIN index : RemoveResting(o)
    BY <1>6 DEF Cancel, ExpireOne
  <2>2. Moves(o, index[o].side, index[o].price)
    BY <2>1, RemoveMoves
  <2> QED
    BY <2>2, <1>2
<1>7. CASE PreventMaker \/ DecrementTaker \/ FillAndRemove \/ PreventBoth
           \/ FillPartly \/ DecrementMaker \/ FillAndReplenish
  <2>1. Moves(cursor, OppSide, at)
    BY <1>7, DroppedMoves, ShrunkMoves, RenewedMoves
  <2> QED
    BY <2>1, <1>2
<1>8. CASE LevelLeaves
  <2>1. tree' = DeleteLevel(tree, OppSide, at) /\ index' = index /\ pc = "inner"
    BY <1>8 DEF LevelLeaves
  <2>2. OppSide \in Side
    BY DEF OppSide, Opposite, Side
  <2>3. \A t \in Side : \A r \in DOMAIN tree'[t] :
            r \in DOMAIN tree[t] /\ tree'[t][r] = tree[t][r]
    BY <1>1, <2>1, <2>2, ReadDeleteLevel
  <2> QED
    BY <2>1, <2>3 DEF TotalsInv, Totals
<1>9. CASE Stays
  BY <1>3, <1>9 DEF Stays
<1>10. CASE LeaveLevel
  BY <1>8, <1>9, <1>10, LeaveLevelStep
<1>11. CASE \/ \E o \in OrderIds, c \in Commands : Place(o, c)
            \/ \E t \in ScanTimes : ExpireGTD(t)
            \/ ExpireEnds
            \/ DryRunFails \/ DryRunSucceeds \/ EnterLevel \/ PreventTaker
            \/ FinishSTP \/ FinishFilled \/ FinishIOC \/ FinishMarket \/ FinishNoLevel
            \/ Reply \/ UNCHANGED vars
  BY <1>9, <1>11, StaysStep
<1> QED
  BY <1>4, <1>5, <1>6, <1>7, <1>10, <1>11 DEF Next, MatchStep, ExpireStep

LEMMA TotalsInvariant == Spec => []TotalsInv
<1>1. Init => TotalsInv
  BY DEF Init, TotalsInv, Totals, NoMap
<1>2. Inv /\ Inv' /\ PoolInv /\ PoolInv' /\ TotalsInv /\ [Next]_vars => TotalsInv'
  BY TotalsStep DEF PoolInv
<1> QED
  BY <1>1, <1>2, Invariant, PoolInvariant, PTL DEF Spec

\* The running totals of every price level, total and displayed quantity and number of
\* orders, are the sums over the orders it queues, in every state: no fill, replenishment,
\* cancellation, expiry or self-trade prevention lets them drift.
THEOREM TotalsAreSums == Spec => []LevelTotals
<1>1. Inv /\ TotalsInv => LevelTotals
  <2> SUFFICES ASSUME Inv, TotalsInv, NEW s \in Side, NEW p \in DOMAIN tree[s]
               PROVE  LET l == tree[s][p] IN
                      /\ l.total = SumFunctionOnSet(Remaining(index), Range(l.queue))
                      /\ l.display = SumFunctionOnSet(Shown(index), Range(l.queue))
                      /\ l.count = Len(l.queue)
    BY DEF LevelTotals, Remaining, Shown
  <2>1. Range(tree[s][p].queue) = OrdersAt(index, s, p)
    BY DEF Inv, Shape
  <2>2. SumsUp(tree[s][p], index, s, p)
    BY DEF TotalsInv, Totals
  <2> QED
    BY <2>1, <2>2, SumUnfolded DEF SumsUp
<1> QED
  BY <1>1, Invariant, TotalsInvariant, PTL

------------------------------------------------------------------------------
(* Fill-or-kill orders.                                                      *)

\* The levels the order in flight may trade with.
Reach == {p \in DOMAIN tree[OppSide] : Crosses(p)}

\* A match starts with no fill and no prevented maker.
FreshStart == pc \in {"idle", "expire", "dryRun"} => fills = <<>> /\ stpCancels = <<>>

\* A fill-or-kill order shows all of itself, has bought what its fills say, and as long as
\* self-trade prevention has removed no maker, what is left of it is there to be had.
FOKServed ==
    pc \in {"dryRun", "outer", "inner"} /\ incoming.tif = "FOK" =>
        /\ incoming.hidden = 0
        /\ stpCancels = <<>> =>
              /\ incoming.filled = FilledQty
              /\ pc # "dryRun" => Sum(Shows(OppSide), Reach) >= incoming.remain

\* The quantities of a sequence of fills.
Quantities(fs) == [i \in DOMAIN fs |-> fs[i].qty]

LEMMA QuantitiesSum ==
    ASSUME NEW fs
    PROVE  SumFunction(Quantities(fs)) = Sum(Quantities(fs), DOMAIN fs)
<1>1. SumFunction(Quantities(fs)) = SumFunctionOnSet(Quantities(fs), DOMAIN Quantities(fs))
  BY DEF SumFunction
<1>2. DOMAIN Quantities(fs) = DOMAIN fs
  BY DEF Quantities
<1> QED
  BY <1>1, <1>2, SumUnfolded

LEMMA NothingFilled == ASSUME fills = <<>> PROVE FilledQty = 0
<1>1. DOMAIN fills = {} /\ FilledQty = SumFunction(Quantities(fills))
  BY DEF FilledQty, Quantities
<1> QED
  BY <1>1, QuantitiesSum, SumEmpty

\* One more fill adds its quantity.
LEMMA QuantitiesAppend ==
    ASSUME NEW fs \in Seq(Fill), NEW f \in Fill
    PROVE  /\ Sum(Quantities(Append(fs, f)), DOMAIN Append(fs, f))
                 = Sum(Quantities(fs), DOMAIN fs) + f.qty
           /\ Sum(Quantities(fs), DOMAIN fs) \in Int
<1> DEFINE gs == Append(fs, f)
           n == Len(fs)
<1>1. /\ gs \in Seq(Fill) /\ Len(gs) = n + 1 /\ n \in Nat
      /\ \A k \in 1..n : gs[k] = fs[k]
      /\ gs[n + 1] = f
  BY AppendProperties, LenProperties
<1>2. DOMAIN fs = 1..n /\ DOMAIN gs = 1..(n + 1)
  BY <1>1, LenProperties
<1> HIDE DEF gs, n
<1>3. /\ IsFiniteSet(1..n) /\ IsFiniteSet(1..(n + 1))
      /\ (1..n) \ {n + 1} = (1..(n + 1)) \ {n + 1}
      /\ n + 1 \notin 1..n /\ n + 1 \in 1..(n + 1)
  <2>1. 1 \in Int /\ n \in Int /\ n + 1 \in Int
    BY <1>1
  <2>2. IsFiniteSet(1..n) /\ IsFiniteSet(1..(n + 1))
    BY <2>1, FS_Interval
  <2>3. (1..n) \ {n + 1} = (1..(n + 1)) \ {n + 1}
    BY <1>1
  <2>4. n + 1 \notin 1..n /\ n + 1 \in 1..(n + 1)
    BY <1>1
  <2> QED
    BY <2>2, <2>3, <2>4
<1>4. /\ \A k \in 1..n : fs[k] \in Fill
      /\ \A k \in 1..(n + 1) : gs[k] \in Fill
  BY <1>1, <1>2, ElementOfSeq
<1>5. /\ \A k \in 1..n : Quantities(fs)[k] \in Int
      /\ \A k \in 1..(n + 1) : Quantities(gs)[k] \in Int
      /\ \A k \in (1..n) \ {n + 1} : Quantities(fs)[k] = Quantities(gs)[k]
      /\ Quantities(gs)[n + 1] = f.qty
  <2>1. \A k \in 1..n : k \in 1..(n + 1)
    BY <1>1
  <2> QED
    BY <1>1, <1>2, <1>3, <1>4, <2>1 DEF Quantities, Fill
<1>6. /\ Sum(Quantities(gs), 1..(n + 1))
           = Sum(Quantities(fs), 1..n) - Part(Quantities(fs), 1..n, n + 1)
                                       + Part(Quantities(gs), 1..(n + 1), n + 1)
      /\ Sum(Quantities(fs), 1..n) \in Int
  <2> DEFINE S == 1..n
             T == 1..(n + 1)
             x == n + 1
             q == Quantities(fs)
             r == Quantities(gs)
  <2>1. IsFiniteSet(S) /\ IsFiniteSet(T) /\ S \ {x} = T \ {x}
    BY <1>3
  <2>2. \A y \in S : q[y] \in Int
    BY <1>5
  <2>3. \A y \in T : r[y] \in Int
    BY <1>5
  <2>4. \A y \in S \ {x} : q[y] = r[y]
    BY <1>5
  <2> HIDE DEF S, T, x, q, r
  <2>5. Sum(r, T) = Sum(q, S) - Part(q, S, x) + Part(r, T, x) /\ Sum(q, S) \in Int
    BY <2>1, <2>2, <2>3, <2>4, SumChange
  <2> QED
    BY <2>5 DEF S, T, x, q, r
<1>7. Part(Quantities(fs), 1..n, n + 1) = 0 /\ Part(Quantities(gs), 1..(n + 1), n + 1) = f.qty
  BY <1>3, <1>5 DEF Part
<1>8. f.qty \in Int
  BY DEF Fill
<1> QED
  BY <1>2, <1>6, <1>7, <1>8 DEF gs

\* When the best opposite level does not cross, no level does.
LEMMA NothingInReach ==
    ASSUME Inv, pc \in Matching, ~BestCrosses
    PROVE  Reach = {}
<1> SUFFICES ASSUME NEW r \in DOMAIN tree[OppSide], Crosses(r) PROVE FALSE
  BY DEF Reach
<1>1. /\ incoming \in Node /\ OppSide \in Side /\ DOMAIN tree[OppSide] \subseteq Price
  BY DEF Inv, Shape, ScalarTypes, Node, OppSide, Opposite, Side
<1> DEFINE b == Best(OppSide)
<1>2. b \in DOMAIN tree[OppSide] /\ ~Better(OppSide, r, b)
  BY <1>1, BestLevel
<1>3. ~Crosses(b)
  BY DEF BestCrosses
<1>4. b \in Int /\ r \in Int /\ incoming.price \in Int /\ incoming.side \in Side
  BY <1>1, <1>2, CapacityAssumption DEF Price, Node
<1> HIDE DEF b
<1> QED
  BY <1>2, <1>3, <1>4 DEF Better, Crosses, OppSide, Opposite, Side

\* What the levels in reach show when one of them changes.
LEMMA ReachChanges ==
    ASSUME Inv, FiniteBook, pc \in {"outer", "inner"}, NEW p \in Reach, NEW l \in Level,
           tree' = PutLevel(tree, OppSide, p, l), incoming'.side = incoming.side,
           incoming'.type = incoming.type, incoming'.price = incoming.price
    PROVE  /\ Sum(Shows(OppSide), Reach)'
                 = Sum(Shows(OppSide), Reach) - tree[OppSide][p].total + l.total
           /\ Sum(Shows(OppSide), Reach) \in Int
           /\ tree[OppSide][p].total \in Int /\ l.total \in Int
<1> DEFINE s == OppSide
           f == Shows(s)
           g == Shows(s)'
           R == Reach
<1>1. /\ s \in Side /\ DOMAIN tree = Side /\ IsFiniteSet(DOMAIN tree[s])
      /\ \A r \in DOMAIN tree[s] : tree[s][r] \in Level
  BY DEF Inv, Shape, FiniteBook, OppSide, Opposite, Side
<1>2. R \subseteq DOMAIN tree[s] /\ p \in R /\ IsFiniteSet(R)
  <2>1. R \subseteq DOMAIN tree[s] /\ p \in R
    BY DEF Reach
  <2> QED
    BY <1>1, <2>1, FS_Subset
<1>3. /\ DOMAIN tree'[s] = DOMAIN tree[s] /\ tree'[s][p] = l
      /\ \A r \in DOMAIN tree[s] \ {p} : tree'[s][r] = tree[s][r]
  <2>1. DOMAIN tree'[s] = DOMAIN tree[s] \cup {p}
    BY <1>1, ReadPutLevel
  <2> QED
    BY <1>1, <1>2, <2>1, ReadPutLevel
<1>4. OppSide' = s
  BY DEF OppSide
<1>5. Reach' = R
  <2>1. \A r : Crosses(r)' <=> Crosses(r)
    BY DEF Crosses
  <2> QED
    BY <1>3, <1>4, <2>1 DEF Reach
<1>6. Shows(OppSide)' = [r \in DOMAIN tree'[s] |-> tree'[s][r].total]
  BY <1>4 DEF Shows
<1> DEFINE h == [r \in DOMAIN tree'[s] |-> tree'[s][r].total]
<1>7. /\ \A r \in R : f[r] \in Int /\ h[r] \in Int
      /\ \A r \in R \ {p} : f[r] = h[r]
      /\ f[p] = tree[s][p].total /\ h[p] = l.total
  BY <1>1, <1>2, <1>3 DEF Shows, Level
<1> HIDE DEF f, g, h, R
<1>8. /\ Sum(h, R) = Sum(f, R) - Part(f, R, p) + Part(h, R, p)
      /\ Sum(f, R) \in Int
  <2>1. \A r \in R : f[r] \in Int
    BY <1>7
  <2>2. \A r \in R : h[r] \in Int
    BY <1>7
  <2> QED
    BY <1>2, <1>7, <2>1, <2>2, SumChange
<1>9. Part(f, R, p) = f[p] /\ Part(h, R, p) = h[p]
  BY <1>2 DEF Part
<1>10. Sum(Shows(OppSide), Reach)' = Sum(h, R)
  BY <1>5, <1>6 DEF h
<1>11. Sum(Shows(OppSide), Reach) = Sum(f, R)
  BY DEF f, R
<1> QED
  BY <1>2, <1>7, <1>8, <1>9, <1>10, <1>11

\* A trade takes no more from what its level shows than it gives the taker.
LEMMA TradeKeepsTotal ==
    ASSUME Inv, FillPartly \/ FillAndRemove \/ FillAndReplenish
    PROVE  \E l \in Level : /\ tree' = PutLevel(tree, OppSide, at, l)
                            /\ l.total >= level.total - FillQty
<1>1. Trade
  BY DEF FillPartly, FillAndRemove, FillAndReplenish
<1>2. AtMaker /\ FillQty \in Nat /\ FillQty <= maker.remain
  BY <1>1, TradeFacts
<1>3. /\ level \in Level /\ maker \in Node /\ cursor \in DOMAIN index
      /\ Shape(tree, index) /\ index[cursor].side = OppSide /\ index[cursor].price = at
      /\ level = tree[OppSide][at] /\ maker = index[cursor]
      /\ DOMAIN tree = Side /\ OppSide \in Side /\ at \in DOMAIN tree[OppSide]
  BY <1>2, MakerFacts DEF maker
<1>4. Moves(cursor, OppSide, at)
  BY DroppedMoves, ShrunkMoves, RenewedMoves
<1>5. \E k : tree' = PutLevel(tree, OppSide, at, k)
  BY DEF FillPartly, FillAndRemove, FillAndReplenish, DropMaker, WithLevel, PutLevel
<1>6. at \in DOMAIN tree'[OppSide]
  BY <1>3, <1>5, ReadPutLevel
<1>7. tree' # DeleteLevel(tree, OppSide, at)
  BY <1>3, <1>6, ReadDeleteLevel
<1>8. PICK l \in Level : /\ tree' = PutLevel(tree, OppSide, at, l)
                         /\ Follows(l, LevelAt(OppSide, at), cursor, index, index')
  BY <1>4, <1>7 DEF Moves
<1>9. LevelAt(OppSide, at) = level /\ Part(Remaining(index), DOMAIN index, cursor) = maker.remain
  BY <1>3 DEF LevelAt, Part, Remaining
<1> DEFINE left == Part(Remaining(index'), DOMAIN index', cursor)
<1>10. left \in Int /\ left >= maker.remain - FillQty
  <2>1. maker.remain \in Nat
    BY <1>3 DEF Node
  <2>2. CASE FillPartly
    <3>1. index' = [index EXCEPT ![cursor] = DecrementNode(@, FillQty)]
      BY <2>2 DEF FillPartly
    <3>2. DecrementNode(maker, FillQty).remain = maker.remain - FillQty
      BY <1>2, <1>3, DecrementFields
    <3>3. cursor \in DOMAIN index' /\ index'[cursor].remain = maker.remain - FillQty
      BY <1>3, <3>1, <3>2
    <3> QED
      BY <1>2, <2>1, <3>3 DEF Part, Remaining
  <2>3. CASE FillAndRemove
    <3>1. maker.remain = FillQty /\ index' = Delete(index, cursor)
      BY <2>3 DEF FillAndRemove, DropMaker
    <3>2. left = 0
      BY <3>1 DEF Part, Delete
    <3> QED
      BY <2>1, <3>1, <3>2
  <2>4. CASE FillAndReplenish
    <3>1. maker.remain = FillQty
      BY <2>4 DEF FillAndReplenish
    <3>2. IndexShape(index)'
      BY <2>4, FillAndReplenishInv DEF Inv, Shape
    <3>3. left \in Nat
      BY <3>2 DEF Part, Remaining, IndexShape, Node
    <3> QED
      BY <2>1, <3>1, <3>3
  <2> QED
    BY <2>2, <2>3, <2>4
<1>11. l.total = level.total - maker.remain + left
  BY <1>8, <1>9 DEF Follows
<1> HIDE DEF left
<1>12. level.total \in Int /\ maker.remain \in Int
  BY <1>3 DEF Level, Node
<1>13. l.total >= level.total - FillQty
  BY <1>2, <1>10, <1>11, <1>12
<1> QED
  BY <1>8, <1>13

\* So after a trade enough is still in reach for what is left of the taker.
LEMMA TradeServes ==
    ASSUME Inv, FiniteBook, FOKServed, FillPartly \/ FillAndRemove \/ FillAndReplenish
    PROVE  FOKServed'
<1>1. Trade
  BY DEF FillPartly, FillAndRemove, FillAndReplenish
<1>2. /\ AtMaker /\ pc = "inner" /\ pc' = "inner" /\ stpCancels' = stpCancels
      /\ FillQty \in Nat /\ incoming'.side = incoming.side
      /\ incoming'.type = incoming.type /\ incoming'.price = incoming.price
  BY <1>1, TradeFacts
<1>3. /\ incoming \in Node /\ at \in DOMAIN tree[OppSide] /\ level = tree[OppSide][at]
      /\ cursor \in OrderIds /\ at \in Price
  BY <1>2, MakerFacts
<1>4. /\ incoming' = [incoming EXCEPT !.remain = @ - FillQty, !.filled = @ + FillQty]
      /\ fills' = Append(fills, [maker |-> cursor, price |-> at, qty |-> FillQty])
  BY <1>1 DEF Trade
<1>5. /\ incoming'.tif = incoming.tif /\ incoming'.hidden = incoming.hidden
      /\ incoming'.remain = incoming.remain - FillQty
      /\ incoming'.filled = incoming.filled + FillQty
      /\ incoming.remain \in Nat /\ incoming.filled \in Nat
  BY <1>3, <1>4 DEF Node
<1>6. at \in Reach
  BY <1>2, <1>3 DEF Inv, ScanAtBest, Reach
<1> DEFINE before == Sum(Shows(OppSide), Reach)
           after == Sum(Shows(OppSide), Reach)'
<1>7. before \in Int /\ after \in Int /\ after >= before - FillQty
  <2>1. PICK l \in Level : /\ tree' = PutLevel(tree, OppSide, at, l)
                           /\ l.total >= level.total - FillQty
    BY TradeKeepsTotal
  <2>2. /\ after = before - level.total + l.total
        /\ before \in Int /\ level.total \in Int /\ l.total \in Int
    BY <1>2, <1>3, <1>6, <2>1, ReachChanges
  <2> HIDE DEF before, after
  <2>3. after >= before - FillQty
    BY <1>2, <2>1, <2>2
  <2> QED
    BY <2>2, <2>3
<1>8. FilledQty' = FilledQty + FillQty /\ FilledQty \in Int
  <2> DEFINE f == [maker |-> cursor, price |-> at, qty |-> FillQty]
  <2>1. f \in Fill /\ fills \in Seq(Fill) /\ f.qty = FillQty
    BY <1>2, <1>3 DEF Fill, Inv, ScalarTypes
  <2> HIDE DEF f
  <2>2. /\ Sum(Quantities(Append(fills, f)), DOMAIN Append(fills, f))
             = Sum(Quantities(fills), DOMAIN fills) + f.qty
        /\ Sum(Quantities(fills), DOMAIN fills) \in Int
    BY <2>1, QuantitiesAppend
  <2>3. FilledQty = Sum(Quantities(fills), DOMAIN fills)
    <3>1. FilledQty = SumFunction(Quantities(fills))
      BY DEF FilledQty, Quantities
    <3> QED
      BY <3>1, QuantitiesSum
  <2>4. FilledQty' = Sum(Quantities(fills'), DOMAIN fills')
    <3>1. FilledQty' = SumFunction(Quantities(fills'))
      BY DEF FilledQty, Quantities
    <3> QED
      BY <3>1, QuantitiesSum
  <2>5. fills' = Append(fills, f)
    BY <1>4 DEF f
  <2> QED
    BY <2>1, <2>2, <2>3, <2>4, <2>5
<1> SUFFICES ASSUME incoming'.tif = "FOK"
             PROVE  /\ incoming'.hidden = 0
                    /\ stpCancels = <<>> =>
                          incoming'.filled = FilledQty' /\ after >= incoming'.remain
  BY <1>2 DEF FOKServed
<1>9. /\ incoming.hidden = 0
      /\ stpCancels = <<>> => incoming.filled = FilledQty /\ before >= incoming.remain
  BY <1>2, <1>5 DEF FOKServed
<1> HIDE DEF before, after
<1> QED
  BY <1>2, <1>5, <1>7, <1>8, <1>9

\* The end of a level: what leaves the tree shows nothing.
LEMMA LeavingServes ==
    ASSUME Inv, FiniteBook, TotalsInv, FOKServed, LeaveLevel
    PROVE  FOKServed'
<1>1. /\ pc = "inner" /\ pc' = "outer" /\ UNCHANGED <<incoming, fills, stpCancels>>
      /\ Stays \/ LevelLeaves
  BY LeaveLevelStep DEF LeaveLevel, result
<1>2. OppSide' = OppSide /\ FilledQty' = FilledQty /\ \A r : Crosses(r)' <=> Crosses(r)
  BY <1>1 DEF OppSide, FilledQty, Crosses
<1>3. ASSUME Sum(Shows(OppSide), Reach)' = Sum(Shows(OppSide), Reach)
      PROVE  FOKServed'
  BY <1>1, <1>2, <1>3 DEF FOKServed
<1>4. CASE Stays
  <2>1. Shows(OppSide)' = Shows(OppSide) /\ Reach' = Reach
    BY <1>2, <1>4 DEF Stays, Shows, Reach
  <2> QED
    BY <1>3, <2>1
<1>5. CASE LevelLeaves
  <2> DEFINE s == OppSide
             f == Shows(s)
             h == [r \in DOMAIN tree'[s] |-> tree'[s][r].total]
             S == Reach
             T == {r \in DOMAIN tree'[s] : Crosses(r)}
  <2>1. /\ s \in Side /\ DOMAIN tree = Side /\ IsFiniteSet(DOMAIN tree[s])
        /\ \A r \in DOMAIN tree[s] : tree[s][r] \in Level
        /\ tree[s][at].queue = <<>> /\ tree' = DeleteLevel(tree, s, at)
        /\ at \in DOMAIN tree[s] /\ Shape(tree, index)
    BY <1>1, <1>5 DEF Inv, Shape, ScanAtBest, FiniteBook, LevelLeaves, OppSide, Opposite, Side
  <2>2. /\ DOMAIN tree'[s] = DOMAIN tree[s] \ {at}
        /\ \A r \in DOMAIN tree[s] \ {at} : tree'[s][r] = tree[s][r]
    BY <2>1, ReadDeleteLevel
  <2>3. tree[s][at].total = 0
    <3>1. OrdersAt(index, s, at) = {}
      <4>1. Range(tree[s][at].queue) = {}
        BY <2>1 DEF Range
      <4>2. Range(tree[s][at].queue) = OrdersAt(index, s, at)
        BY <2>1 DEF Shape
      <4> QED
        BY <4>1, <4>2
    <3>2. SumsUp(tree[s][at], index, s, at)
      BY <2>1 DEF TotalsInv, Totals
    <3> QED
      BY <3>1, <3>2, SumEmpty DEF SumsUp
  <2>4. S \subseteq DOMAIN tree[s] /\ T \subseteq DOMAIN tree[s] /\ S \ {at} = T \ {at} /\ at \notin T
    BY <2>2 DEF Reach
  <2>5. IsFiniteSet(S) /\ IsFiniteSet(T)
    BY <2>1, <2>4, FS_Subset
  <2>6. /\ \A r \in S : f[r] \in Int
        /\ \A r \in T : h[r] \in Int
        /\ \A r \in S \ {at} : f[r] = h[r]
        /\ f[at] = 0
    BY <2>1, <2>2, <2>3, <2>4 DEF Shows, Level
  <2>7. Reach' = T
    BY <1>2 DEF Reach
  <2>8. Shows(OppSide)' = h
    BY <1>2 DEF Shows
  <2> HIDE DEF s, f, h, S, T
  <2>9. Sum(h, T) = Sum(f, S) - Part(f, S, at) + Part(h, T, at) /\ Sum(f, S) \in Int
    <3>1. \A r \in S : f[r] \in Int
      BY <2>6
    <3>2. \A r \in T : h[r] \in Int
      BY <2>6
    <3>3. \A r \in S \ {at} : f[r] = h[r]
      BY <2>6
    <3>4. S \ {at} = T \ {at}
      BY <2>4
    <3> QED
      BY <2>5, <3>1, <3>2, <3>3, <3>4, SumChange
  <2>10. Part(f, S, at) = 0 /\ Part(h, T, at) = 0
    BY <2>4, <2>6 DEF Part
  <2>11. Sum(h, T) = Sum(f, S)
    BY <2>9, <2>10
  <2>12. Sum(Shows(OppSide), Reach)' = Sum(h, T)
    BY <2>7, <2>8
  <2>13. Sum(Shows(OppSide), Reach) = Sum(f, S)
    BY DEF s, f, S
  <2> QED
    BY <1>3, <2>11, <2>12, <2>13
<1> QED
  BY <1>1, <1>4, <1>5

\* A match starts fresh.
LEMMA FreshStep ==
    ASSUME Inv, FreshStart, [Next]_vars
    PROVE  FreshStart'
<1>1. CASE \E o \in OrderIds, c \in Commands : Place(o, c) \/ PlaceResting(o, c)
  BY <1>1 DEF FreshStart, Place, PlaceResting, Admit, result
<1>2. CASE \/ \E o \in OrderIds, u \in Users : Cancel(o, u)
           \/ \E t \in ScanTimes : ExpireGTD(t)
           \/ ExpireStep
  BY <1>2 DEF FreshStart, Cancel, ExpireGTD, ExpireStep, ExpireEnds, ExpireOne, result
<1>3. CASE DryRunSucceeds \/ EnterLevel \/ LeaveLevel
  BY <1>3 DEF FreshStart, DryRunSucceeds, EnterLevel, LeaveLevel
<1>4. CASE PreventBoth \/ PreventTaker \/ DecrementMaker
  BY <1>4 DEF FreshStart, PreventBoth, PreventTaker, DecrementMaker, ZeroTaker
<1>5. CASE PreventMaker \/ DecrementTaker
  BY <1>5 DEF FreshStart, PreventMaker, DecrementTaker, Prevents, AtMaker
<1>6. CASE FillPartly \/ FillAndRemove \/ FillAndReplenish
  BY <1>6, TradeFacts DEF FreshStart, FillPartly, FillAndRemove, FillAndReplenish
<1>7. CASE DryRunFails \/ FinishSTP \/ FinishFilled \/ FinishIOC \/ FinishMarket
           \/ FinishNoLevel \/ FinishRested
  BY <1>7 DEF FreshStart, DryRunFails, FinishSTP, FinishFilled, FinishIOC, FinishMarket,
              FinishNoLevel, FinishRested, Release, Return
<1>8. CASE Reply
  BY <1>8 DEF FreshStart, Reply
<1>9. CASE UNCHANGED vars
  BY <1>9 DEF FreshStart, vars
<1> QED
  BY <1>1, <1>2, <1>3, <1>4, <1>5, <1>6, <1>7, <1>8, <1>9 DEF Next, MatchStep

\* Orders that are to be filled or killed have no reserve.
FOKShowAll == \A c \in Commands : c.tif = "FOK" => c.display = c.qty

\* Every step keeps what a fill-or-kill order was promised.
LEMMA ServedStep ==
    ASSUME FOKShowAll, Inv, FiniteBook, TotalsInv, FreshStart, FOKServed, [Next]_vars
    PROVE  FOKServed'
<1>1. ASSUME pc' \notin {"dryRun", "outer", "inner"} PROVE FOKServed'
  BY <1>1 DEF FOKServed
<1>2. ASSUME NEW o \in OrderIds, NEW c \in Commands, Place(o, c) PROVE FOKServed'
  <2>1. /\ pc = "idle" /\ incoming' = NewNode(c, orderSeq + 1)
        /\ UNCHANGED <<fills, stpCancels>>
        /\ pc' = IF c.tif = "FOK" THEN "dryRun" ELSE "outer"
    BY <1>2 DEF Place, Admit, result
  <2>2. incoming'.tif = c.tif /\ incoming'.hidden = c.qty - c.display /\ incoming'.filled = 0
    BY <2>1 DEF NewNode
  <2>3. c.qty \in Nat
    BY CommandsAssumption DEF Command
  <2>4. FilledQty' = 0
    <3>1. fills = <<>>
      BY <2>1 DEF FreshStart
    <3> QED
      BY <2>1, <3>1, NothingFilled DEF FilledQty
  <2> SUFFICES ASSUME incoming'.tif = "FOK" PROVE incoming'.hidden = 0
    BY <2>1, <2>2, <2>4 DEF FOKServed
  <2> QED
    BY <2>2, <2>3 DEF FOKShowAll
<1>3. CASE DryRunSucceeds
  <2>1. /\ pc = "dryRun" /\ pc' = "outer" /\ CanFillFull
        /\ UNCHANGED <<tree, incoming, fills, stpCancels>>
    BY <1>3 DEF DryRunSucceeds, structure, result
  <2>2. Sum(Shows(OppSide), Reach) >= incoming.remain
    BY <2>1, SumUnfolded DEF CanFillFull, Reach
  <2>3. /\ FilledQty' = FilledQty
        /\ Shows(OppSide)' = Shows(OppSide) /\ Reach' = Reach
    BY <2>1 DEF FilledQty, Shows, OppSide, Reach, Crosses
  <2> QED
    BY <2>1, <2>2, <2>3 DEF FOKServed
<1>4. CASE EnterLevel
  <2>1. /\ pc = "outer" /\ pc' = "inner" /\ UNCHANGED <<tree, incoming, fills, stpCancels>>
    BY <1>4 DEF EnterLevel, structure, result
  <2>2. /\ FilledQty' = FilledQty
        /\ Shows(OppSide)' = Shows(OppSide) /\ Reach' = Reach
    BY <2>1 DEF FilledQty, Shows, OppSide, Reach, Crosses
  <2> QED
    BY <2>1, <2>2 DEF FOKServed
<1>5. CASE PreventMaker \/ DecrementTaker
  <2>1. /\ AtMaker /\ pc = "inner" /\ pc' = "inner"
        /\ stpCancels' = Append(stpCancels, cursor)
        /\ \/ incoming' = incoming
           \/ incoming' = [incoming EXCEPT !.remain = @ - maker.remain,
                                           !.filled = @ + maker.remain]
    BY <1>5 DEF PreventMaker, DecrementTaker, Prevents, AtMaker
  <2>2. incoming \in Node /\ cursor \in OrderIds /\ stpCancels \in Seq(OrderIds)
    BY <2>1, MakerFacts DEF Inv, ScalarTypes
  <2>3. stpCancels' # <<>>
    BY <2>1, <2>2, AppendProperties
  <2>4. incoming'.tif = incoming.tif /\ incoming'.hidden = incoming.hidden
    BY <2>1, <2>2 DEF Node
  <2> QED
    BY <2>1, <2>3, <2>4 DEF FOKServed
<1>6. CASE UNCHANGED vars
  <2>1. UNCHANGED <<pc, tree, incoming, fills, stpCancels>>
    BY <1>6 DEF vars
  <2>2. /\ FilledQty' = FilledQty
        /\ Shows(OppSide)' = Shows(OppSide) /\ Reach' = Reach
    BY <2>1 DEF FilledQty, Shows, OppSide, Reach, Crosses
  <2> QED
    BY <2>1, <2>2 DEF FOKServed
<1>7. CASE \/ \E o \in OrderIds, c \in Commands : PlaceResting(o, c)
           \/ \E o \in OrderIds, u \in Users : Cancel(o, u)
           \/ \E t \in ScanTimes : ExpireGTD(t)
           \/ ExpireStep
  BY <1>1, <1>7 DEF PlaceResting, Cancel, ExpireGTD, ExpireStep, ExpireEnds, ExpireOne
<1>8. CASE \/ PreventBoth \/ PreventTaker \/ DecrementMaker \/ Reply
           \/ DryRunFails \/ FinishSTP \/ FinishFilled \/ FinishIOC \/ FinishMarket
           \/ FinishNoLevel \/ FinishRested
  BY <1>1, <1>8 DEF PreventBoth, PreventTaker, DecrementMaker, ZeroTaker, Reply,
                    DryRunFails, FinishSTP, FinishFilled, FinishIOC, FinishMarket,
                    FinishNoLevel, FinishRested, Release, Return
<1> QED
  BY <1>2, <1>3, <1>4, <1>5, <1>6, <1>7, <1>8, LeavingServes, TradeServes
     DEF Next, MatchStep

\* How a match of a fill-or-kill order may end.
LEMMA FOKEnds ==
    ASSUME Inv, QuantityInv, FreshStart, FOKServed, [Next]_vars,
           pc \in Matching, pc' = "reply", incoming.tif = "FOK"
    PROVE  KilledOrFilled \/ stpCancels # <<>> \/ outcome' = "STPCanceled_Taker"
<1>1. incoming \in Node /\ incoming.remain \in Nat
  BY DEF Inv, ScalarTypes, Node
<1>2. CASE DryRunFails
  BY <1>2 DEF DryRunFails, Release, Return, FreshStart, KilledOrFilled
<1>3. CASE FinishSTP
  BY <1>3 DEF FinishSTP, Release, Return
<1>4. CASE FinishFilled
  <2>1. /\ pc = "outer" /\ incoming.remain = 0 /\ outcome' = "FullyFilled"
    BY <1>4 DEF FinishFilled, LoopEnds, Release, Return
  <2>2. incoming.orig = incoming.filled + incoming.remain + incoming.hidden
    BY <2>1 DEF QuantityInv, QuantityConserved
  <2>3. incoming.hidden = 0 /\ (stpCancels = <<>> => incoming.filled = FilledQty)
    BY <2>1 DEF FOKServed
  <2>4. incoming.filled \in Nat
    BY <1>1 DEF Node
  <2>5. incoming.orig = incoming.filled
    BY <2>1, <2>2, <2>3, <2>4
  <2> QED
    BY <2>1, <2>3, <2>5 DEF KilledOrFilled
<1>5. CASE FinishIOC
  BY <1>5 DEF FinishIOC
<1>6. CASE FinishMarket \/ FinishNoLevel \/ FinishRested
  <2>1. pc = "outer" /\ incoming.remain > 0 /\ ~BestCrosses
    BY <1>1, <1>6 DEF FinishMarket, FinishNoLevel, FinishRested, MayRest, LoopEnds
  <2>2. Sum(Shows(OppSide), Reach) = 0
    BY <2>1, NothingInReach, SumEmpty
  <2>3. stpCancels # <<>>
    BY <1>1, <2>1, <2>2 DEF FOKServed
  <2> QED
    BY <2>3
<1>7. CASE \/ \E o \in OrderIds, c \in Commands : Place(o, c) \/ PlaceResting(o, c)
           \/ \E o \in OrderIds, u \in Users : Cancel(o, u)
           \/ \E t \in ScanTimes : ExpireGTD(t)
           \/ ExpireStep \/ Reply \/ UNCHANGED vars
  BY <1>7 DEF Place, PlaceResting, Admit, Cancel, ExpireGTD, ExpireStep, ExpireEnds,
              ExpireOne, Reply, vars, Matching
<1>8. CASE DryRunSucceeds \/ EnterLevel \/ LeaveLevel \/ PreventBoth \/ PreventTaker
           \/ DecrementMaker \/ PreventMaker \/ DecrementTaker
  BY <1>8 DEF DryRunSucceeds, EnterLevel, LeaveLevel, PreventBoth, PreventTaker,
              DecrementMaker, PreventMaker, DecrementTaker, ZeroTaker, Prevents, AtMaker
<1>9. CASE FillPartly \/ FillAndRemove \/ FillAndReplenish
  BY <1>9, TradeFacts DEF FillPartly, FillAndRemove, FillAndReplenish
<1> QED
  BY <1>2, <1>3, <1>4, <1>5, <1>6, <1>7, <1>8, <1>9 DEF Next, MatchStep

\* The promise of the dry run: a fill-or-kill order without a reserve is either turned
\* away without a trace or filled whole, unless self-trade prevention met it on the way.
\* (With a reserve it is not: the dry run looks at the visible slice alone.)
THEOREM FOKIsAllOrNothing == FOKShowAll => (Spec => FOKUnlessPrevented)
<1> SUFFICES ASSUME FOKShowAll PROVE Spec => FOKUnlessPrevented
  OBVIOUS
<1> DEFINE A == (pc \in Matching /\ pc' = "reply" /\ incoming.tif = "FOK") =>
                   KilledOrFilled \/ stpCancels # <<>> \/ outcome' = "STPCanceled_Taker"
<1>1. Init => FreshStart /\ FOKServed
  BY DEF Init, FreshStart, FOKServed
<1>2. Inv /\ PoolInv /\ TotalsInv /\ FreshStart /\ FOKServed /\ [Next]_vars
        => FreshStart' /\ FOKServed'
  BY FreshStep, ServedStep DEF PoolInv
<1>3. Inv /\ QuantityInv /\ FreshStart /\ FOKServed /\ [Next]_vars => [A]_vars
  BY FOKEnds
<1> HIDE DEF A
<1>4. [][A]_vars => FOKUnlessPrevented
  BY DEF FOKUnlessPrevented, A
<1> QED
  BY <1>1, <1>2, <1>3, <1>4, Invariant, PoolInvariant, TotalsInvariant, QuantityInvariant,
     PTL DEF Spec

------------------------------------------------------------------------------
(* What the abstract book sees of an order.                                  *)

RestingOf(n) ==
    [user |-> n.user, side |-> n.side, price |-> n.price, seq |-> n.seq,
     qty |-> n.remain, reserve |-> n.hidden, slice |-> n.lot]

TakerOf(o, n) ==
    [id |-> o, user |-> n.user, side |-> n.side, market |-> n.type = "Market",
     price |-> n.price, tif |-> n.tif, seq |-> n.seq, orig |-> n.orig,
     qty |-> n.remain, reserve |-> n.hidden, slice |-> n.lot]

\* Both views have the types the abstract book gives them.
LEMMA ViewTypes ==
    ASSUME NEW n \in Node, NEW o \in OrderIds
    PROVE  /\ RestingOf(n) \in Abstract!Resting
           /\ TakerOf(o, n) \in Abstract!Taker
           /\ TakerOf(o, n) # Nil
<1>1. n.price \in Nat
  BY CapacityAssumption DEF Node, Price
<1>2. RestingOf(n) \in Abstract!Resting
  BY <1>1 DEF RestingOf, Abstract!Resting, Abstract!Side, Node, Side
<1>3. TakerOf(o, n) \in Abstract!Taker
  BY <1>1 DEF TakerOf, Abstract!Taker, Abstract!Side, Node, Side, TIF
<1> QED
  BY <1>2, <1>3, NoTakerAssumption

\* The views of one state and of the next.
LEMMA Views ==
    /\ RestingView = [o \in DOMAIN index |-> RestingOf(index[o])]
    /\ RestingView' = [o \in DOMAIN index' |-> RestingOf(index'[o])]
    /\ TakerView = IF pc \in Matching THEN TakerOf(taker, incoming) ELSE Nil
    /\ TakerView' = IF pc' \in Matching THEN TakerOf(taker', incoming') ELSE Nil
BY DEF RestingView, TakerView, RestingOf, TakerOf

\* Field by field.
LEMMA RestingFields ==
    ASSUME NEW o \in DOMAIN index
    PROVE  /\ o \in DOMAIN RestingView /\ RestingView[o] = RestingOf(index[o])
           /\ RestingView[o].user = index[o].user /\ RestingView[o].side = index[o].side
           /\ RestingView[o].price = index[o].price /\ RestingView[o].seq = index[o].seq
           /\ RestingView[o].qty = index[o].remain
           /\ RestingView[o].reserve = index[o].hidden /\ RestingView[o].slice = index[o].lot
<1>1. o \in DOMAIN RestingView /\ RestingView[o] = RestingOf(index[o])
  BY Views
<1> QED
  BY <1>1 DEF RestingOf

LEMMA TakerFields ==
    ASSUME pc \in Matching
    PROVE  /\ TakerView = TakerOf(taker, incoming)
           /\ TakerView.id = taker /\ TakerView.user = incoming.user
           /\ TakerView.side = incoming.side /\ TakerView.price = incoming.price
           /\ TakerView.market = (incoming.type = "Market") /\ TakerView.tif = incoming.tif
           /\ TakerView.seq = incoming.seq /\ TakerView.orig = incoming.orig
           /\ TakerView.qty = incoming.remain /\ TakerView.reserve = incoming.hidden
           /\ TakerView.slice = incoming.lot
<1>1. TakerView = TakerOf(taker, incoming)
  BY Views
<1> QED
  BY <1>1 DEF TakerOf

\* The abstract book's questions are the ones match() asks.
LEMMA MarketableMeans ==
    ASSUME pc \in Matching, NEW o \in DOMAIN index
    PROVE  Abstract!Marketable(o)
             <=> index[o].side # incoming.side /\ Crosses(index[o].price)
<1>1. /\ RestingView[o].side = index[o].side /\ RestingView[o].price = index[o].price
      /\ TakerView.side = incoming.side /\ TakerView.price = incoming.price
      /\ TakerView.market <=> incoming.type = "Market"
  BY RestingFields, TakerFields
<1> QED
  BY <1>1 DEF Abstract!Marketable, Crosses

LEMMA BeforeMeans ==
    ASSUME NEW m \in DOMAIN index, NEW o \in DOMAIN index, index[m].side \in Side
    PROVE  Abstract!Before(m, o)
             <=> \/ Better(index[m].side, index[m].price, index[o].price)
                 \/ index[m].price = index[o].price /\ index[m].seq < index[o].seq
<1>1. /\ RestingView[o].price = index[o].price /\ RestingView[o].seq = index[o].seq
      /\ RestingView[m].price = index[m].price /\ RestingView[m].seq = index[m].seq
      /\ RestingView[m].side = index[m].side
  BY RestingFields
<1> QED
  BY <1>1 DEF Abstract!Before, Better, Side

\* An order added to the index or rewritten in it.
LEMMA ViewWith ==
    ASSUME NEW o, NEW n,
           \/ index' = Put(index, o, n)
           \/ o \in DOMAIN index /\ index' = [index EXCEPT ![o] = n]
    PROVE  RestingView' = Abstract!With(o, RestingOf(n))
<1>1. /\ DOMAIN index' = DOMAIN index \cup {o} /\ index'[o] = n
      /\ \A x \in DOMAIN index \ {o} : index'[x] = index[x]
  BY DEF Put
<1>2. DOMAIN RestingView = DOMAIN index
  BY Views
<1> QED
  BY <1>1, <1>2, Views DEF Abstract!With

\* An order deleted from it.
LEMMA ViewWithout ==
    ASSUME NEW o, index' = Delete(index, o)
    PROVE  RestingView' = Abstract!Without(o)
<1>1. DOMAIN index' = DOMAIN index \ {o} /\ \A x \in DOMAIN index \ {o} : index'[x] = index[x]
  BY DEF Delete
<1>2. DOMAIN RestingView = DOMAIN index
  BY Views
<1> QED
  BY <1>1, <1>2, Views DEF Abstract!Without

\* The maker the inner loop looks at is the first of its side and can be traded with.
LEMMA MakerIsTradable ==
    ASSUME Inv, TimeInv, AtMaker
    PROVE  /\ TakerView = TakerOf(taker, incoming) /\ TakerView # Nil
           /\ TakerView.qty > 0 /\ cursor \in DOMAIN RestingView
           /\ RestingView[cursor] = RestingOf(maker)
           /\ Abstract!First(cursor) /\ Abstract!Marketable(cursor)
<1>1. /\ pc = "inner" /\ incoming.remain > 0 /\ incoming \in Node /\ taker \in OrderIds
      /\ cursor \in DOMAIN index /\ maker = index[cursor]
      /\ maker.side = OppSide /\ maker.price = at /\ OppSide \in Side
  BY MakerFacts DEF AtMaker, maker
<1>2. pc \in Matching
  BY <1>1 DEF Matching
<1>3. TakerView = TakerOf(taker, incoming) /\ TakerView # Nil /\ TakerView.qty > 0
  BY <1>1, <1>2, TakerFields, ViewTypes
<1>4. cursor \in DOMAIN RestingView /\ RestingView[cursor] = RestingOf(maker)
  BY <1>1, RestingFields
<1>5. Abstract!First(cursor)
  <2>1. ASSUME NEW o \in DOMAIN RestingView \ {cursor},
               RestingView[o].side = RestingView[cursor].side
        PROVE  Abstract!Before(cursor, o)
    <3>1. o \in DOMAIN index \ {cursor}
      BY <2>1, Views
    <3>2. index[o].side = OppSide
      BY <1>1, <2>1, <3>1, RestingFields
    <3>3. \/ Better(OppSide, index[cursor].price, index[o].price)
          \/ index[cursor].price = index[o].price /\ index[cursor].seq < index[o].seq
      BY <3>1, <3>2, MakerIsFirst
    <3> QED
      BY <1>1, <3>1, <3>3, BeforeMeans
  <2> QED
    BY <1>4, <2>1 DEF Abstract!First
<1>6. Abstract!Marketable(cursor)
  <2>1. Crosses(at)
    BY <1>1 DEF Inv, ScanAtBest
  <2>2. OppSide # incoming.side
    BY <1>1 DEF OppSide, Opposite, Node, Side
  <2> QED
    BY <1>1, <1>2, <2>1, <2>2, MarketableMeans
<1> QED
  BY <1>3, <1>4, <1>5, <1>6

\* When the outer loop ends with something left, nothing resting can be traded with.
LEMMA NothingLeftToTrade ==
    ASSUME Inv, LoopEnds, incoming.remain > 0
    PROVE  Abstract!NothingToTrade
<1>1. pc = "outer" /\ pc \in Matching /\ ~BestCrosses /\ incoming \in Node
  BY DEF LoopEnds, Inv, ScalarTypes, Matching, Node
<1>2. ASSUME NEW o \in DOMAIN index, Abstract!Marketable(o) PROVE FALSE
  <2>1. index[o].side # incoming.side /\ Crosses(index[o].price)
    BY <1>1, <1>2, MarketableMeans
  <2>2. index[o].side \in Side /\ incoming.side \in Side
    BY <1>1 DEF Inv, Shape, IndexShape, Node
  <2>3. index[o].side = OppSide
    BY <2>1, <2>2 DEF OppSide, Opposite, Side
  <2> QED
    BY <1>1, <2>1, <2>3, NothingCrosses
<1>3. DOMAIN RestingView = DOMAIN index
  BY Views
<1> QED
  BY <1>2, <1>3 DEF Abstract!NothingToTrade

------------------------------------------------------------------------------
(* Each step of the book is a step of the abstract book.                     *)

\* An untouched index and no order in flight.
LEMMA SameResting == UNCHANGED index => RestingView' = RestingView
BY DEF RestingView

\* The order in flight after its remaining quantity changed to q.
LEMMA TakerChanges ==
    ASSUME NEW o, NEW n \in Node, NEW m \in Node, NEW q,
           m.user = n.user, m.side = n.side, m.type = n.type, m.price = n.price,
           m.tif = n.tif, m.seq = n.seq, m.orig = n.orig, m.hidden = n.hidden,
           m.lot = n.lot, m.remain = q
    PROVE  TakerOf(o, m) = [TakerOf(o, n) EXCEPT !.qty = q]
BY DEF TakerOf

\* A resting order after its remaining quantity changed to q.
LEMMA RestingChanges ==
    ASSUME NEW n \in Node, NEW m \in Node, NEW q,
           m.user = n.user, m.side = n.side, m.price = n.price, m.seq = n.seq,
           m.hidden = n.hidden, m.lot = n.lot, m.remain = q
    PROVE  RestingOf(m) = [RestingOf(n) EXCEPT !.qty = q]
BY DEF RestingOf

\* A submission is an arrival.
LEMMA PlaceArrives ==
    ASSUME Inv, NEW o \in OrderIds, NEW c \in Commands, Place(o, c)
    PROVE  Abstract!Arrive
<1> DEFINE n == NewNode(c, orderSeq + 1)
<1>1. /\ pc = "idle" /\ pc' \in {"dryRun", "outer"} /\ o \notin DOMAIN index
      /\ taker' = o /\ incoming' = n /\ orderSeq' = orderSeq + 1 /\ index' = index
  BY DEF Place, Admit, structure
<1>2. orderSeq + 1 \in Nat
  BY DEF Inv, ScalarTypes
<1>3. n \in Node /\ n.seq = orderSeq + 1 /\ n.remain > 0
  BY <1>2, NewNodeFields
<1> HIDE DEF n
<1>4. TakerView = Nil /\ TakerView' = TakerOf(o, n)
  BY <1>1, Views DEF Matching
<1>5. TakerOf(o, n) \in Abstract!Taker
  BY <1>3, ViewTypes
<1>6. TakerOf(o, n).id = o /\ TakerOf(o, n).seq = n.seq /\ TakerOf(o, n).qty = n.remain
  BY DEF TakerOf
<1>7. RestingView' = RestingView /\ DOMAIN RestingView = DOMAIN index
  BY <1>1, Views, SameResting
<1> QED
  BY <1>1, <1>3, <1>4, <1>5, <1>6, <1>7 DEF Abstract!Arrive

\* An order queued without matching, or turned away.
LEMMA PlaceRestingQueues ==
    ASSUME Inv, NEW o \in OrderIds, NEW c \in Commands, PlaceResting(o, c)
    PROVE  Abstract!Queue(o)
<1> DEFINE n == NewNode(c, orderSeq + 1)
<1>1. /\ pc = "idle" /\ pc' = "reply" /\ o \notin DOMAIN index /\ orderSeq' = orderSeq + 1
      /\ index' = Put(index, o, n) \/ index' = index
  BY DEF PlaceResting, Admit, RestNode, structure
<1>2. orderSeq + 1 \in Nat
  BY DEF Inv, ScalarTypes
<1>3. n \in Node /\ n.seq = orderSeq + 1
  BY <1>2, NewNodeFields
<1> HIDE DEF n
<1>4. TakerView = Nil /\ TakerView' = TakerView
  BY <1>1, Views DEF Matching
<1>5. DOMAIN RestingView = DOMAIN index
  BY Views
<1>6. CASE index' = index
  BY <1>1, <1>4, <1>5, <1>6, SameResting DEF Abstract!Queue
<1>7. CASE index' = Put(index, o, n)
  <2>1. RestingView' = Abstract!With(o, RestingOf(n))
    BY <1>7, ViewWith
  <2>2. RestingView'[o] = RestingOf(n) /\ o \in DOMAIN RestingView'
    BY <2>1 DEF Abstract!With
  <2>3. RestingOf(n) \in Abstract!Resting /\ RestingOf(n).seq = orderSeq + 1
    BY <1>3, ViewTypes DEF RestingOf
  <2> QED
    BY <1>1, <1>4, <1>5, <2>1, <2>2, <2>3 DEF Abstract!Queue
<1> QED
  BY <1>1, <1>6, <1>7

\* An order that gives its node back leaves the abstract book: it is used up, or nothing
\* is left to trade with, or it is a fill-or-kill order still whole.
LEMMA ReleaseLeaves ==
    ASSUME Inv, pc \in Matching, NEW d, Release(d),
           \/ incoming.remain = 0
           \/ Abstract!NothingToTrade
           \/ incoming.tif = "FOK" /\ incoming.remain = Smaller(incoming.orig, incoming.lot)
    PROVE  Abstract!Leave
<1>1. pc' = "reply" /\ UNCHANGED <<index, orderSeq>>
  BY DEF Release, Return, structure
<1>2. TakerView' = Nil /\ RestingView' = RestingView
  BY <1>1, Views, SameResting DEF Matching
<1>3. taker \in OrderIds /\ incoming \in Node
  BY DEF Inv, ScalarTypes
<1>4. TakerView # Nil
  BY <1>3, TakerFields, ViewTypes
<1>5. \/ TakerView.qty = 0
      \/ Abstract!NothingToTrade
      \/ TakerView.tif = "FOK"
         /\ TakerView.qty = Abstract!Lesser(TakerView.orig, TakerView.slice)
  BY TakerFields DEF Smaller, Abstract!Lesser
<1> QED
  BY <1>1, <1>2, <1>4, <1>5 DEF Abstract!Leave

\* Every disposition but a resting one.
LEMMA FinishLeaves ==
    ASSUME Inv, QuantityInv,
           \/ DryRunFails \/ FinishSTP \/ FinishFilled \/ FinishIOC \/ FinishMarket
           \/ FinishNoLevel
    PROVE  Abstract!Leave
<1>1. CASE DryRunFails
  <2>1. pc = "dryRun" /\ pc \in Matching /\ Release("Rejected")
    BY <1>1 DEF DryRunFails, Matching
  <2> QED
    BY <2>1, ReleaseLeaves DEF QuantityInv, TakerWhole
<1>2. CASE FinishSTP
  <2>1. pc = "stpDone" /\ pc \in Matching /\ Release("STPCanceled_Taker")
    BY <1>2 DEF FinishSTP, Matching
  <2> QED
    BY <2>1, ReleaseLeaves DEF QuantityInv, TakerWhole
<1>3. CASE FinishFilled
  <2>1. pc \in Matching /\ Release("FullyFilled") /\ incoming.remain = 0
    BY <1>3 DEF FinishFilled, LoopEnds, Matching
  <2> QED
    BY <2>1, ReleaseLeaves
<1>4. CASE FinishIOC \/ FinishMarket \/ FinishNoLevel
  <2>1. LoopEnds /\ pc \in Matching /\ incoming.remain > 0
    BY <1>4 DEF FinishIOC, FinishMarket, FinishNoLevel, MayRest, LoopEnds, Matching
  <2>2. \E d : Release(d)
    BY <1>4 DEF FinishIOC, FinishMarket, FinishNoLevel
  <2> QED
    BY <2>1, <2>2, NothingLeftToTrade, ReleaseLeaves
<1> QED
  BY <1>1, <1>2, <1>3, <1>4

\* What is left of the order in flight rests.
LEMMA FinishRests ==
    ASSUME Inv, FinishRested
    PROVE  Abstract!Rest
<1>1. /\ LoopEnds /\ incoming.remain > 0 /\ incoming.tif # "IOC"
      /\ incoming.type = "Limit" /\ pc \in Matching /\ pc' = "reply"
      /\ index' = Put(index, taker, incoming) /\ orderSeq' = orderSeq
  BY DEF FinishRested, MayRest, LoopEnds, RestNode, Return, Matching
<1>2. taker \in OrderIds /\ incoming \in Node
  BY <1>1 DEF Inv, ScalarTypes
<1>3. TakerView # Nil /\ TakerView' = Nil
  BY <1>1, <1>2, TakerFields, ViewTypes, Views DEF Matching
<1>4. Abstract!NothingToTrade
  BY <1>1, NothingLeftToTrade
<1>5. TakerView.qty > 0 /\ ~TakerView.market /\ TakerView.tif # "IOC"
  BY <1>1, TakerFields
<1>6. RestingView' = Abstract!With(TakerView.id, RestingOf(incoming))
  BY <1>1, ViewWith, TakerFields
<1>7. RestingOf(incoming)
        = [user |-> TakerView.user, side |-> TakerView.side, price |-> TakerView.price,
           seq |-> TakerView.seq, qty |-> TakerView.qty, reserve |-> TakerView.reserve,
           slice |-> TakerView.slice]
  BY <1>1, TakerFields DEF RestingOf
<1> QED
  BY <1>1, <1>3, <1>4, <1>5, <1>6, <1>7 DEF Abstract!Rest

\* Cancellation and expiry.
LEMMA RemoveWithdraws ==
    ASSUME Inv, NEW o \in OrderIds, (\E u \in Users : Cancel(o, u)) \/ ExpireOne(o)
    PROVE  Abstract!Withdraw(o)
<1>1. /\ pc \in {"idle", "expire"} /\ pc' = pc /\ o \in DOMAIN index
      /\ index' = Delete(index, o) /\ orderSeq' = orderSeq
  BY DEF Cancel, ExpireOne, RemoveResting
<1>2. TakerView = Nil /\ TakerView' = TakerView
  BY <1>1, Views DEF Matching
<1>3. RestingView' = Abstract!Without(o) /\ o \in DOMAIN RestingView
  BY <1>1, ViewWithout, RestingFields
<1> QED
  BY <1>1, <1>2, <1>3 DEF Abstract!Withdraw

\* The steps the abstract book does not see.
LEMMA InvisibleSteps ==
    ASSUME \/ \E t \in ScanTimes : ExpireGTD(t)
           \/ ExpireEnds \/ DryRunSucceeds \/ EnterLevel \/ LeaveLevel \/ Reply
           \/ UNCHANGED vars
    PROVE  UNCHANGED Abstract!vars
<1>1. CASE (\E t \in ScanTimes : ExpireGTD(t)) \/ ExpireEnds
  BY <1>1, Views, SameResting DEF ExpireGTD, ExpireEnds, structure, Matching, Abstract!vars
<1>2. CASE DryRunSucceeds \/ EnterLevel \/ LeaveLevel
  BY <1>2, Views, SameResting
     DEF DryRunSucceeds, EnterLevel, LeaveLevel, structure, Matching, Abstract!vars
<1>3. CASE Reply
  BY <1>3, Views, SameResting DEF Reply, structure, Matching, Abstract!vars
<1>4. CASE UNCHANGED vars
  BY <1>4, Views, SameResting DEF vars, Abstract!vars
<1> QED
  BY <1>1, <1>2, <1>3, <1>4

------------------------------------------------------------------------------
(* One maker.                                                                *)

\* What a step between the taker and the maker at the cursor finds.
LEMMA MakerSeen ==
    ASSUME Inv, TimeInv, AtMaker
    PROVE  /\ incoming \in Node /\ maker \in Node /\ taker \in OrderIds
           /\ cursor \in OrderIds /\ cursor \in DOMAIN index /\ maker = index[cursor]
           /\ incoming.remain \in Nat /\ maker.remain \in Nat
           /\ pc = "inner" /\ orderSeq \in Nat
           /\ RestingView[cursor] = RestingOf(maker)
           /\ RestingView[cursor].qty = maker.remain
           /\ RestingView[cursor].user = maker.user
           /\ RestingView[cursor].reserve = maker.hidden
           /\ RestingView[cursor].slice = maker.lot
           /\ TakerView.qty = incoming.remain /\ TakerView.user = incoming.user
<1>1. /\ incoming \in Node /\ maker \in Node /\ taker \in OrderIds /\ cursor \in OrderIds
      /\ cursor \in DOMAIN index /\ maker = index[cursor] /\ pc = "inner"
  BY MakerFacts DEF maker, AtMaker
<1>2. incoming.remain \in Nat /\ maker.remain \in Nat /\ orderSeq \in Nat
  BY <1>1 DEF Node, Inv, ScalarTypes
<1>3. pc \in Matching
  BY <1>1 DEF Matching
<1> QED
  BY <1>1, <1>2, <1>3, RestingFields, TakerFields

\* What the taker becomes when it pays q or is zeroed.
LEMMA TakerPaysView ==
    ASSUME Inv, TimeInv, AtMaker, NEW q \in Nat, q <= incoming.remain, pc' \in Matching,
           taker' = taker,
           \/ incoming' = [incoming EXCEPT !.remain = @ - q, !.filled = @ + q]
           \/ q = incoming.remain /\ incoming' = [incoming EXCEPT !.remain = 0]
    PROVE  TakerView' = [TakerView EXCEPT !.qty = incoming.remain - q]
<1>1. /\ incoming \in Node /\ incoming.remain \in Nat /\ pc \in Matching
      /\ incoming.filled \in Nat
  BY MakerSeen DEF Matching, Node
<1> DEFINE r == incoming.remain - q
<1>2. r \in Nat /\ incoming.filled + q \in Nat
  BY <1>1
<1>3. \/ incoming' = [incoming EXCEPT !.remain = r, !.filled = incoming.filled + q]
      \/ incoming' = [incoming EXCEPT !.remain = r]
  <2>1. q = incoming.remain => r = 0
    BY <1>1
  <2> QED
    BY <2>1
<1> HIDE DEF r
<1>4. incoming' \in Node /\ incoming'.remain = r
  BY <1>1, <1>2, <1>3 DEF Node
<1>5. /\ incoming'.user = incoming.user /\ incoming'.side = incoming.side
      /\ incoming'.type = incoming.type /\ incoming'.price = incoming.price
      /\ incoming'.tif = incoming.tif /\ incoming'.seq = incoming.seq
      /\ incoming'.orig = incoming.orig /\ incoming'.hidden = incoming.hidden
      /\ incoming'.lot = incoming.lot
  BY <1>1, <1>3 DEF Node
<1>6. TakerView = TakerOf(taker, incoming) /\ TakerView' = TakerOf(taker, incoming')
  BY <1>1, Views
<1> QED
  BY <1>1, <1>4, <1>5, <1>6, TakerChanges DEF r

\* What the maker becomes when it loses a part q of its visible quantity.
LEMMA MakerPaysView ==
    ASSUME Inv, TimeInv, AtMaker, NEW q \in Nat, q <= maker.remain,
           index' = [index EXCEPT ![cursor] = DecrementNode(@, q)]
    PROVE  RestingView'
             = Abstract!With(cursor, [RestingView[cursor] EXCEPT !.qty = maker.remain - q])
<1> DEFINE d == DecrementNode(maker, q)
<1>1. /\ maker \in Node /\ cursor \in DOMAIN index /\ maker = index[cursor]
      /\ RestingView[cursor] = RestingOf(maker)
  BY MakerSeen
<1>2. /\ d \in Node /\ d.user = maker.user /\ d.side = maker.side /\ d.price = maker.price
      /\ d.seq = maker.seq /\ d.lot = maker.lot /\ d.hidden = maker.hidden
      /\ d.remain = maker.remain - q
  BY <1>1, DecrementFields
<1>3. index' = [index EXCEPT ![cursor] = d]
  BY <1>1
<1> HIDE DEF d
<1>4. RestingView' = Abstract!With(cursor, RestingOf(d))
  BY <1>1, <1>3, ViewWith
<1>5. RestingOf(d) = [RestingOf(maker) EXCEPT !.qty = maker.remain - q]
  BY <1>1, <1>2, RestingChanges
<1> QED
  BY <1>1, <1>4, <1>5

\* Self-trade prevention: maker, taker or both give way.
LEMMA PreventsMaker ==
    ASSUME Inv, TimeInv,
           \/ PreventBoth \/ PreventMaker \/ PreventTaker \/ DecrementMaker
           \/ DecrementTaker
    PROVE  Abstract!Prevent(cursor)
<1>1. AtMaker /\ STPEnabled(maker)
  BY DEF PreventBoth, PreventMaker, PreventTaker, DecrementMaker, DecrementTaker, Prevents
<1>2. /\ TakerView # Nil /\ TakerView.qty > 0 /\ Abstract!First(cursor)
      /\ Abstract!Marketable(cursor) /\ cursor \in DOMAIN index
      /\ RestingView[cursor].user = TakerView.user
      /\ incoming \in Node /\ incoming.remain \in Nat /\ maker.remain \in Nat /\ pc = "inner"
      /\ TakerView.qty = incoming.remain /\ RestingView[cursor].qty = maker.remain
  BY <1>1, MakerIsTradable, MakerSeen DEF STPEnabled
<1>3. 0 \in Nat /\ incoming.remain <= incoming.remain
      /\ incoming.remain - incoming.remain = 0
  BY <1>2
<1>4. CASE PreventBoth
  <2>1. /\ index' = Delete(index, cursor) /\ pc' = "stpDone" /\ taker' = taker
        /\ incoming' = [incoming EXCEPT !.remain = 0] /\ orderSeq' = orderSeq
    BY <1>4 DEF PreventBoth, ZeroTaker
  <2>2. TakerView' = [TakerView EXCEPT !.qty = 0]
    BY <1>1, <1>2, <1>3, <2>1, TakerPaysView DEF Matching
  <2> QED
    BY <1>2, <2>1, <2>2, ViewWithout DEF Abstract!Prevent
<1>5. CASE PreventMaker
  <2>1. /\ index' = Delete(index, cursor) /\ UNCHANGED <<pc, taker, incoming, orderSeq>>
    BY <1>5 DEF PreventMaker, DropMaker
  <2>2. TakerView' = TakerView
    BY <2>1, Views
  <2> QED
    BY <1>2, <2>1, <2>2, ViewWithout DEF Abstract!Prevent
<1>6. CASE PreventTaker
  <2>1. /\ index' = index /\ pc' = "stpDone" /\ taker' = taker
        /\ incoming' = [incoming EXCEPT !.remain = 0] /\ orderSeq' = orderSeq
    BY <1>6 DEF PreventTaker, ZeroTaker, structure
  <2>2. TakerView' = [TakerView EXCEPT !.qty = 0]
    BY <1>1, <1>2, <1>3, <2>1, TakerPaysView DEF Matching
  <2> QED
    BY <1>2, <2>1, <2>2, SameResting DEF Abstract!Prevent
<1>7. CASE DecrementMaker
  <2>1. /\ index' = [index EXCEPT ![cursor] = DecrementNode(@, incoming.remain)]
        /\ pc' = "stpDone" /\ taker' = taker /\ maker.remain > incoming.remain
        /\ incoming' = [incoming EXCEPT !.remain = 0] /\ orderSeq' = orderSeq
    BY <1>7 DEF DecrementMaker, ZeroTaker
  <2>2. TakerView' = [TakerView EXCEPT !.qty = 0]
    BY <1>1, <1>2, <1>3, <2>1, TakerPaysView DEF Matching
  <2>3. RestingView'
          = Abstract!With(cursor,
                [RestingView[cursor] EXCEPT !.qty = maker.remain - incoming.remain])
    <3>1. incoming.remain <= maker.remain
      BY <1>2, <2>1
    <3> QED
      BY <1>1, <1>2, <2>1, <3>1, MakerPaysView
  <2>4. RestingView'
          = Abstract!With(cursor, [RestingView[cursor] EXCEPT !.qty = @ - TakerView.qty])
    BY <1>2, <2>3
  <2> QED
    BY <1>2, <2>1, <2>2, <2>4 DEF Abstract!Prevent
<1>8. CASE DecrementTaker
  <2>1. /\ index' = Delete(index, cursor) /\ UNCHANGED <<pc, taker, orderSeq>>
        /\ maker.remain <= incoming.remain
        /\ incoming' = [incoming EXCEPT !.remain = @ - maker.remain,
                                        !.filled = @ + maker.remain]
    BY <1>8 DEF DecrementTaker, DropMaker
  <2>2. TakerView' = [TakerView EXCEPT !.qty = incoming.remain - maker.remain]
    BY <1>1, <1>2, <2>1, TakerPaysView DEF Matching
  <2>3. TakerView' = [TakerView EXCEPT !.qty = @ - RestingView[cursor].qty]
    BY <1>2, <2>2
  <2> QED
    BY <1>2, <2>1, <2>3, ViewWithout DEF Abstract!Prevent
<1> QED
  BY <1>4, <1>5, <1>6, <1>7, <1>8

\* A trade is with the first order of the other side, for what both have.
LEMMA FillsTrade ==
    ASSUME Inv, TimeInv, FillPartly \/ FillAndRemove \/ FillAndReplenish
    PROVE  Abstract!Trade(cursor)
<1>1. Trade /\ AtMaker
  BY DEF FillPartly, FillAndRemove, FillAndReplenish, Trade, Trades
<1>2. /\ TakerView # Nil /\ TakerView.qty > 0 /\ Abstract!First(cursor)
      /\ Abstract!Marketable(cursor) /\ cursor \in DOMAIN index /\ maker = index[cursor]
      /\ incoming.remain \in Nat /\ maker.remain \in Nat /\ pc = "inner"
      /\ maker \in Node /\ orderSeq \in Nat /\ RestingView[cursor] = RestingOf(maker)
      /\ TakerView.qty = incoming.remain /\ RestingView[cursor].qty = maker.remain
      /\ RestingView[cursor].reserve = maker.hidden /\ RestingView[cursor].slice = maker.lot
  BY <1>1, MakerIsTradable, MakerSeen
<1> DEFINE q == Abstract!Lesser(RestingView[cursor].qty, TakerView.qty)
<1>3. q = FillQty /\ q \in Nat /\ q <= maker.remain /\ q <= incoming.remain
  BY <1>2 DEF FillQty, Smaller, Abstract!Lesser
<1> HIDE DEF q
<1>4. /\ incoming' = [incoming EXCEPT !.remain = @ - q, !.filled = @ + q]
      /\ pc' = "inner" /\ taker' = taker
  BY <1>1, <1>2, <1>3 DEF Trade
<1>5. TakerView' = [TakerView EXCEPT !.qty = incoming.remain - q]
  BY <1>1, <1>3, <1>4, TakerPaysView DEF Matching
<1>6. TakerView' = [TakerView EXCEPT !.qty = @ - q]
  BY <1>2, <1>5
<1>7. CASE FillPartly
  <2>1. /\ index' = [index EXCEPT ![cursor] = DecrementNode(@, q)] /\ q < maker.remain
        /\ orderSeq' = orderSeq
    BY <1>2, <1>3, <1>7 DEF FillPartly
  <2>2. RestingView'
          = Abstract!With(cursor, [RestingView[cursor] EXCEPT !.qty = maker.remain - q])
    BY <1>1, <1>3, <2>1, MakerPaysView
  <2>3. RestingView' = Abstract!With(cursor, [RestingView[cursor] EXCEPT !.qty = @ - q])
    BY <1>2, <2>2
  <2> QED
    BY <1>2, <1>6, <2>1, <2>3 DEF Abstract!Trade, q
<1>8. CASE FillAndRemove
  <2>1. /\ index' = Delete(index, cursor) /\ q = maker.remain /\ maker.hidden = 0
        /\ orderSeq' = orderSeq
    BY <1>3, <1>8 DEF FillAndRemove, DropMaker
  <2> QED
    BY <1>2, <1>6, <2>1, ViewWithout DEF Abstract!Trade, q
<1>9. CASE FillAndReplenish
  <2> DEFINE left == DecrementNode(maker, FillQty)
             renewed == Replenish(left, orderSeq + 1)
             slice == Abstract!Lesser(RestingView[cursor].reserve,
                                      RestingView[cursor].slice)
  <2>1. /\ index' = [index EXCEPT ![cursor] = renewed] /\ q = maker.remain
        /\ maker.hidden > 0 /\ orderSeq' = orderSeq + 1
    BY <1>3, <1>9 DEF FillAndReplenish
  <2>2. /\ left \in Node /\ left.user = maker.user /\ left.side = maker.side
        /\ left.price = maker.price /\ left.lot = maker.lot /\ left.hidden = maker.hidden
    BY <1>2, <1>3, DecrementFields
  <2>3. slice = Smaller(left.hidden, left.lot) /\ orderSeq + 1 \in Nat
    BY <1>2, <2>2 DEF Smaller, Abstract!Lesser
  <2> HIDE DEF left
  <2>4. /\ renewed \in Node /\ renewed.user = left.user /\ renewed.side = left.side
        /\ renewed.price = left.price /\ renewed.seq = orderSeq + 1
        /\ renewed.lot = left.lot /\ renewed.remain = slice
        /\ renewed.hidden = left.hidden - slice
    BY <2>2, <2>3, ReplenishFields
  <2> HIDE DEF renewed, slice
  <2>5. RestingView' = Abstract!With(cursor, RestingOf(renewed))
    BY <1>2, <2>1, ViewWith
  <2>6. RestingOf(renewed)
          = [RestingOf(maker) EXCEPT !.qty = slice, !.reserve = maker.hidden - slice,
                                     !.seq = orderSeq + 1]
    <3> DEFINE h == maker.hidden - slice
               t == orderSeq + 1
    <3>1. /\ maker \in Node /\ renewed \in Node
          /\ renewed.user = maker.user /\ renewed.side = maker.side
          /\ renewed.price = maker.price /\ renewed.lot = maker.lot
          /\ renewed.remain = slice /\ renewed.hidden = h /\ renewed.seq = t
      BY <1>2, <2>2, <2>4
    <3> HIDE DEF h, t
    <3> DEFINE f == [x \in DOMAIN RestingOf(maker) |->
                        IF x = "qty" THEN slice ELSE IF x = "reserve" THEN h
                        ELSE IF x = "seq" THEN t ELSE RestingOf(maker)[x]]
    <3>2. RestingOf(renewed) = f
      BY <3>1 DEF RestingOf
    <3>3. [RestingOf(maker) EXCEPT !.qty = slice, !.reserve = h, !.seq = t] = f
      OBVIOUS
    <3> QED
      BY <3>2, <3>3 DEF h, t
  <2>7. RestingOf(renewed)
          = [RestingView[cursor] EXCEPT !.qty = slice, !.reserve = @ - slice,
                                        !.seq = orderSeq + 1]
    BY <1>2, <2>6
  <2> QED
    BY <1>2, <1>6, <2>1, <2>5, <2>7 DEF Abstract!Trade, q, slice
<1> QED
  BY <1>7, <1>8, <1>9

\* Every step of the book is a step of the abstract book or invisible to it.
LEMMA StepRefines ==
    Inv /\ TimeInv /\ QuantityInv /\ [Next]_vars => [Abstract!Next]_(Abstract!vars)
<1> SUFFICES ASSUME Inv, TimeInv, QuantityInv, [Next]_vars
             PROVE  Abstract!Next \/ UNCHANGED Abstract!vars
  OBVIOUS
<1>1. CASE \E o \in OrderIds, c \in Commands : Place(o, c) \/ PlaceResting(o, c)
  <2>1. PICK o \in OrderIds, c \in Commands : Place(o, c) \/ PlaceResting(o, c)
    BY <1>1
  <2> QED
    BY <2>1, PlaceArrives, PlaceRestingQueues DEF Abstract!Next
<1>2. CASE (\E o \in OrderIds, u \in Users : Cancel(o, u))
           \/ (\E o \in OrderIds : ExpireOne(o))
  <2>1. PICK o \in OrderIds : (\E u \in Users : Cancel(o, u)) \/ ExpireOne(o)
    BY <1>2
  <2> QED
    BY <2>1, RemoveWithdraws DEF Abstract!Next
<1>3. CASE \/ DryRunFails \/ FinishSTP \/ FinishFilled \/ FinishIOC \/ FinishMarket
           \/ FinishNoLevel
  BY <1>3, FinishLeaves DEF Abstract!Next
<1>4. CASE FinishRested
  BY <1>4, FinishRests DEF Abstract!Next
<1>5. CASE \/ PreventBoth \/ PreventMaker \/ PreventTaker \/ DecrementMaker
           \/ DecrementTaker
  <2>1. AtMaker
    BY <1>5 DEF PreventBoth, PreventMaker, PreventTaker, DecrementMaker, DecrementTaker,
                Prevents
  <2> QED
    BY <1>5, <2>1, MakerFacts, PreventsMaker DEF Abstract!Next
<1>6. CASE FillPartly \/ FillAndRemove \/ FillAndReplenish
  <2>1. AtMaker
    BY <1>6 DEF FillPartly, FillAndRemove, FillAndReplenish, Trade, Trades
  <2> QED
    BY <1>6, <2>1, MakerFacts, FillsTrade DEF Abstract!Next
<1>7. CASE \/ \E t \in ScanTimes : ExpireGTD(t)
           \/ ExpireEnds \/ DryRunSucceeds \/ EnterLevel \/ LeaveLevel \/ Reply
           \/ UNCHANGED vars
  BY <1>7, InvisibleSteps
<1> QED
  BY <1>1, <1>2, <1>3, <1>4, <1>5, <1>6, <1>7 DEF Next, MatchStep, ExpireStep

\* The book of trees, queues, slots and counters behaves as the set of resting orders
\* with one order executing against it: it trades with the best-priced and then the oldest
\* order only, leaves or rests only when it is used up or finds nothing to trade with,
\* and loses no quantity on the way.
THEOREM ImplementsPriceTime == Spec => ImplementsPriority
<1>1. Init => Abstract!Init
  <2> SUFFICES ASSUME Init PROVE Abstract!Init
    OBVIOUS
  <2>1. TakerView = Nil /\ orderSeq = 0
    BY Views DEF Init, Matching
  <2>2. DOMAIN RestingView = {}
    BY Views DEF Init, NoMap
  <2>3. RestingView = [o \in {} |-> Nil]
    BY <2>2 DEF RestingView
  <2> QED
    BY <2>1, <2>3 DEF Abstract!Init
<1>2. Inv /\ TimeInv /\ QuantityInv /\ [Next]_vars => [Abstract!Next]_(Abstract!vars)
  BY StepRefines
<1> QED
  BY <1>1, <1>2, Invariant, TimeInvariant, QuantityInvariant, PTL
     DEF Spec, ImplementsPriority, Abstract!Spec
=============================================================================

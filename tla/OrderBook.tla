----------------------------- MODULE OrderBook -----------------------------
(***************************************************************************)
(* The continuous limit order book (package book): two trees of price      *)
(* levels, each a FIFO queue of resting orders, an index from order id to  *)
(* order, and two fixed-capacity pools for orders and levels.  One step is *)
(* one iteration of a loop of match(), so what a snapshot taken from       *)
(* another goroutine can see between two iterations is a state here.       *)
(***************************************************************************)
EXTENDS Integers, FiniteSets, Sequences, SequencesExt, FiniteSetsExt, Functions

CONSTANTS
    OrderIds,   \* the ids orders carry
    Users,      \* the users who own them
    Commands,   \* the orders the engine may submit, validated as in processLimitOrder
    MaxPrice,   \* the largest price a Decimal carries
    NodeCap,    \* capacity of nodePool
    LevelCap,   \* capacity of levelPool
    MarketSTP,  \* config.STPMode, the market's default
    MaxSeq,     \* bound on orderSeq at submission, to keep runs finite
    Nil         \* no order

Side == {"Bid", "Ask"}
TIF == {"GTC", "GTD", "IOC", "FOK"}
STPMode == {"Disabled", "CancelBoth", "CancelMaker", "CancelTaker", "DecrementCancel"}

Price == 0..MaxPrice

\* A submission: display = qty for every order that is not an iceberg.
Command ==
    [user : Users, side : Side, type : {"Limit", "Market"}, tif : TIF, price : Price,
     qty : Nat \ {0}, display : Nat \ {0}, stp : STPMode, expireAt : Nat]

ASSUME CapacityAssumption ==
    NodeCap \in Nat /\ LevelCap \in Nat /\ MaxSeq \in Nat /\ MaxPrice \in Nat
ASSUME ModeAssumption == MarketSTP \in STPMode
ASSUME NilAssumption == Nil \notin OrderIds
ASSUME CommandsAssumption == \A c \in Commands : c \in Command /\ c.display <= c.qty

\* OrderNode: remain is the visible slice of an iceberg, hidden its reserve, lot the
\* slice it replenishes by.
Node ==
    [user : Users, side : Side, type : {"Limit", "Market"}, tif : TIF, price : Price,
     orig : Nat, remain : Nat, filled : Nat, display : Nat, hidden : Nat, lot : Nat,
     seq : Nat, stp : STPMode, expireAt : Nat]

Level == [queue : Seq(OrderIds), total : Int, display : Int, count : Int]
Fill == [maker : OrderIds, price : Price, qty : Nat]

Outcome == {"FullyFilled", "PartialFill_Rested", "PartialFill_Canceled", "Rested",
            "Canceled", "Rejected", "STPCanceled_Taker"}

VARIABLES
    tree,        \* bids and asks: side -> price -> level
    index,       \* order id -> resting order
    nodesInUse,  \* nodePool.Len()
    levelsInUse, \* levelPool.Len()
    orderSeq,    \* the shared sequence counter
    pc,          \* where match() stands
    taker,       \* id of the order being matched
    incoming,    \* that order
    at,          \* bestLevel.Price
    cursor,      \* node: the maker the inner loop looks at
    fills,       \* the fills of this match
    stpCancels,  \* the makers self-trade prevention removed in this match
    outcome,     \* the disposition returned
    now,         \* the time an expiry scan compares with
    haltQueued   \* history: the resting orders that PlaceResting put there

structure == <<tree, index, levelsInUse>>
scan == <<at, cursor>>
result == <<fills, stpCancels, outcome>>
vars == <<tree, index, nodesInUse, levelsInUse, orderSeq, pc, taker, incoming, at,
          cursor, fills, stpCancels, outcome, now, haltQueued>>

------------------------------------------------------------------------------
(* Maps, price levels and the tree.                                          *)

Put(f, k, v) == [x \in DOMAIN f \cup {k} |-> IF x = k THEN v ELSE f[x]]
Delete(f, k) == [x \in DOMAIN f \ {k} |-> f[x]]
NoMap == [x \in {} |-> x]

Smaller(a, b) == IF a <= b THEN a ELSE b
Opposite(s) == IF s = "Bid" THEN "Ask" ELSE "Bid"

\* Price p comes before price q on side s: the order of the side's B-tree.
Better(s, p, q) == IF s = "Bid" THEN p > q ELSE p < q

HasLevel(s, p) == p \in DOMAIN tree[s]
LevelPoolFull == levelsInUse >= LevelCap

Best(s) == CHOOSE p \in DOMAIN tree[s] : \A q \in DOMAIN tree[s] : ~Better(s, q, p)

EmptyLevel == [queue |-> <<>>, total |-> 0, display |-> 0, count |-> 0]

PositionIn(q, o) == CHOOSE i \in DOMAIN q : q[i] = o

\* node.next
NextAfter(q, o) ==
    LET i == PositionIn(q, o) IN IF i < Len(q) THEN q[i + 1] ELSE Nil

\* Fault: orders enter at the head of the queue.
Enqueue_AtHead(l, o, n) ==
    [queue |-> <<o>> \o l.queue, total |-> l.total + n.remain,
     display |-> l.display + n.display, count |-> l.count + 1]

Enqueue(l, o, n) ==
    [queue |-> Append(l.queue, o), total |-> l.total + n.remain,
     display |-> l.display + n.display, count |-> l.count + 1]

Unlink(l, o, n) ==
    [queue |-> RemoveAt(l.queue, PositionIn(l.queue, o)), total |-> l.total - n.remain,
     display |-> l.display - n.display, count |-> l.count - 1]

\* DecrementQty on the order and on its level.
DecrementNode(n, q) ==
    [n EXCEPT !.remain = @ - q, !.filled = @ + q, !.display = @ - Smaller(q, @)]

\* Fault: only the total follows.
DecrementLevel_TotalOnly(l, n, q) == [l EXCEPT !.total = @ - q]

DecrementLevel(l, n, q) ==
    [l EXCEPT !.total = @ - q, !.display = @ - Smaller(q, n.display)]

\* Faults: a full slice although less is left; the old place in time is kept.
Replenish_FullLot(n, seq) ==
    [n EXCEPT !.hidden = @ - n.lot, !.remain = n.lot, !.display = n.lot, !.seq = seq]
Replenish_KeepsSeq(n, seq) ==
    LET slice == Smaller(n.hidden, n.lot)
    IN  [n EXCEPT !.hidden = @ - slice, !.remain = slice, !.display = slice]

\* ReplenishIceberg: the next slice of the reserve, with a new place in time.
Replenish(n, seq) ==
    LET slice == Smaller(n.hidden, n.lot)
    IN  [n EXCEPT !.hidden = @ - slice, !.remain = slice, !.display = slice, !.seq = seq]

\* The tree of side s after level l replaces the level at p, or after an emptied
\* level leaves the tree.
WithLevel(s, p, l) == [tree EXCEPT ![s] = Put(@, p, l)]
WithoutLevel(s, p) == [tree EXCEPT ![s] = Delete(@, p)]

------------------------------------------------------------------------------
(* What the match loop asks of the book.                                     *)

\* Fault: equal prices do not trade.
Crosses_Strictly(p) ==
    \/ incoming.type = "Market"
    \/ incoming.side = "Bid" /\ incoming.price > p
    \/ incoming.side = "Ask" /\ incoming.price < p

Crosses(p) ==
    \/ incoming.type = "Market"
    \/ incoming.side = "Bid" /\ incoming.price >= p
    \/ incoming.side = "Ask" /\ incoming.price <= p

OppSide == Opposite(incoming.side)
BestCrosses == DOMAIN tree[OppSide] # {} /\ Crosses(Best(OppSide))

\* What the levels of a side show: remaining quantity without the reserves of icebergs.
Shows(s) == [p \in DOMAIN tree[s] |-> tree[s][p].total]

\* Fault: levels beyond the limit price count too.
CanFillFull_AnyPrice ==
    SumFunction(Shows(OppSide)) >= incoming.remain

\* The FOK dry run: only what levels show counts.
CanFillFull ==
    LET crossing == {p \in DOMAIN tree[OppSide] : Crosses(p)}
    IN  SumFunctionOnSet(Shows(OppSide), crossing) >= incoming.remain

EffectiveSTPMode(n) ==
    IF incoming.stp # "Disabled" THEN incoming.stp
    ELSE IF n.stp # "Disabled" THEN n.stp ELSE MarketSTP

\* Fault: prevention acts on other users' orders as well.
STPEnabled_AnyUser(n) == EffectiveSTPMode(n) # "Disabled"

STPEnabled(n) == incoming.user = n.user /\ EffectiveSTPMode(n) # "Disabled"

------------------------------------------------------------------------------
(* Orders come in.                                                           *)

NewNode(c, seq) ==
    [user |-> c.user, side |-> c.side, type |-> c.type, tif |-> c.tif, price |-> c.price,
     orig |-> c.qty, remain |-> c.display, filled |-> 0, display |-> c.display,
     hidden |-> c.qty - c.display, lot |-> c.display, seq |-> seq, stp |-> c.stp,
     expireAt |-> c.expireAt]

CanRestNode(n) == HasLevel(n.side, n.price) \/ ~LevelPoolFull

RestNode(o, n) ==
    /\ tree' = WithLevel(n.side, n.price,
                   Enqueue(IF HasLevel(n.side, n.price) THEN tree[n.side][n.price]
                           ELSE EmptyLevel, o, n))
    /\ levelsInUse' = levelsInUse + (IF HasLevel(n.side, n.price) THEN 0 ELSE 1)
    /\ index' = Put(index, o, n)

\* A node of the pool, filled in from the command; the id rests nowhere yet.
Admit(o, c) ==
    /\ pc = "idle"
    /\ o \notin DOMAIN index
    /\ nodesInUse < NodeCap
    /\ orderSeq < MaxSeq
    /\ orderSeq' = orderSeq + 1
    /\ taker' = o
    /\ incoming' = NewNode(c, orderSeq + 1)

\* PlaceLimit and PlaceMarket: into match().
Place(o, c) ==
    /\ Admit(o, c)
    /\ nodesInUse' = nodesInUse + 1
    /\ pc' = IF c.tif = "FOK" THEN "dryRun" ELSE "outer"
    /\ UNCHANGED <<structure, scan, result, now, haltQueued>>

\* PlaceResting, in a halted or not yet open market; the caller takes the node back
\* when there is no level for it.
PlaceResting(o, c) ==
    /\ c.type = "Limit"
    /\ Admit(o, c)
    /\ pc' = "reply"
    /\ IF CanRestNode(NewNode(c, orderSeq + 1))
       THEN /\ RestNode(o, NewNode(c, orderSeq + 1))
            /\ nodesInUse' = nodesInUse + 1
            /\ outcome' = "Rested"
            /\ haltQueued' = haltQueued \cup {o}
       ELSE /\ outcome' = "Canceled"
            /\ UNCHANGED <<structure, nodesInUse, haltQueued>>
    /\ UNCHANGED <<scan, fills, stpCancels, now>>

------------------------------------------------------------------------------
(* match(): the dry run and the outer loop.                                  *)

Return(d) ==
    /\ pc' = "reply"
    /\ outcome' = d
    /\ UNCHANGED <<taker, incoming, scan, fills, stpCancels, now, orderSeq>>

\* The node goes back to nodePool with disposition d.
Release(d) ==
    /\ Return(d)
    /\ nodesInUse' = nodesInUse - 1
    /\ UNCHANGED <<structure, haltQueued>>

DryRunFails == pc = "dryRun" /\ ~CanFillFull /\ Release("Rejected")

DryRunSucceeds ==
    /\ pc = "dryRun"
    /\ CanFillFull
    /\ pc' = "outer"
    /\ UNCHANGED <<structure, nodesInUse, orderSeq, taker, incoming, scan, result, now,
                   haltQueued>>

EnterLevel ==
    /\ pc = "outer"
    /\ incoming.remain > 0
    /\ BestCrosses
    /\ at' = Best(OppSide)
    /\ cursor' = Head(tree[OppSide][Best(OppSide)].queue)
    /\ pc' = "inner"
    /\ UNCHANGED <<structure, nodesInUse, orderSeq, taker, incoming, result, now,
                   haltQueued>>

\* Fault: the inner loop does not look at what is left of the taker.
LeaveLevel_AtQueueEnd ==
    /\ pc = "inner"
    /\ cursor = Nil
    /\ pc' = "outer"
    /\ tree' = WithoutLevel(OppSide, at)
    /\ levelsInUse' = levelsInUse - 1
    /\ at' = 0
    /\ UNCHANGED <<index, nodesInUse, orderSeq, taker, incoming, cursor, result, now,
                   haltQueued>>

\* The end of an iteration of the outer loop: an emptied level leaves its tree.
LeaveLevel ==
    /\ pc = "inner"
    /\ cursor = Nil \/ incoming.remain = 0
    /\ pc' = "outer"
    /\ IF tree[OppSide][at].queue = <<>>
       THEN /\ tree' = WithoutLevel(OppSide, at)
            /\ levelsInUse' = levelsInUse - 1
       ELSE UNCHANGED <<tree, levelsInUse>>
    /\ at' = 0
    /\ cursor' = Nil
    /\ UNCHANGED <<index, nodesInUse, orderSeq, taker, incoming, result, now, haltQueued>>

------------------------------------------------------------------------------
(* The inner loop: one maker.                                                *)

level == tree[OppSide][at]
maker == index[cursor]

AtMaker == pc = "inner" /\ cursor # Nil /\ incoming.remain > 0
Prevents(mode) == AtMaker /\ STPEnabled(maker) /\ EffectiveSTPMode(maker) = mode
Trades == AtMaker /\ ~STPEnabled(maker)

\* Fault: the index keeps the removed order.
DropMaker_KeepsIndex(l, m) ==
    /\ tree' = WithLevel(OppSide, at, Unlink(l, cursor, m))
    /\ nodesInUse' = nodesInUse - 1
    /\ cursor' = NextAfter(l.queue, cursor)
    /\ UNCHANGED <<index, haltQueued>>

\* cancelMakerNode, and the same removal of an exhausted maker l, m.
DropMaker(l, m) ==
    /\ tree' = WithLevel(OppSide, at, Unlink(l, cursor, m))
    /\ index' = Delete(index, cursor)
    /\ nodesInUse' = nodesInUse - 1
    /\ haltQueued' = haltQueued \ {cursor}
    /\ cursor' = NextAfter(l.queue, cursor)

\* goto done with the taker zeroed.
ZeroTaker ==
    /\ incoming' = [incoming EXCEPT !.remain = 0]
    /\ pc' = "stpDone"
    /\ at' = 0
    /\ cursor' = Nil

\* Fault: the emptied level is left to an outer loop that is never reached.
PreventBoth_LeavesLevel ==
    /\ Prevents("CancelBoth")
    /\ tree' = WithLevel(OppSide, at, Unlink(level, cursor, maker))
    /\ index' = Delete(index, cursor)
    /\ nodesInUse' = nodesInUse - 1
    /\ haltQueued' = haltQueued \ {cursor}
    /\ stpCancels' = Append(stpCancels, cursor)
    /\ ZeroTaker
    /\ UNCHANGED <<levelsInUse, orderSeq, taker, fills, outcome, now>>

PreventBoth ==
    /\ Prevents("CancelBoth")
    /\ LET l == Unlink(level, cursor, maker)
       IN  IF l.queue = <<>>
           THEN /\ tree' = WithoutLevel(OppSide, at)
                /\ levelsInUse' = levelsInUse - 1
           ELSE /\ tree' = WithLevel(OppSide, at, l)
                /\ UNCHANGED levelsInUse
    /\ index' = Delete(index, cursor)
    /\ nodesInUse' = nodesInUse - 1
    /\ haltQueued' = haltQueued \ {cursor}
    /\ stpCancels' = Append(stpCancels, cursor)
    /\ ZeroTaker
    /\ UNCHANGED <<orderSeq, taker, fills, outcome, now>>

PreventMaker ==
    /\ Prevents("CancelMaker")
    /\ DropMaker(level, maker)
    /\ stpCancels' = Append(stpCancels, cursor)
    /\ UNCHANGED <<levelsInUse, orderSeq, pc, taker, incoming, at, fills, outcome, now>>

PreventTaker ==
    /\ Prevents("CancelTaker")
    /\ ZeroTaker
    /\ UNCHANGED <<structure, nodesInUse, orderSeq, taker, result, now, haltQueued>>

\* The taker is the smaller side: the maker keeps the difference.
DecrementMaker ==
    /\ Prevents("DecrementCancel")
    /\ maker.remain > incoming.remain
    /\ tree' = WithLevel(OppSide, at, DecrementLevel(level, maker, incoming.remain))
    /\ index' = [index EXCEPT ![cursor] = DecrementNode(@, incoming.remain)]
    /\ ZeroTaker
    /\ UNCHANGED <<levelsInUse, nodesInUse, orderSeq, taker, result, now, haltQueued>>

\* Fault: what the taker gives up is not counted.
DecrementTaker_Uncounted ==
    /\ Prevents("DecrementCancel")
    /\ maker.remain <= incoming.remain
    /\ incoming' = [incoming EXCEPT !.remain = @ - maker.remain]
    /\ DropMaker(level, maker)
    /\ stpCancels' = Append(stpCancels, cursor)
    /\ UNCHANGED <<levelsInUse, orderSeq, pc, taker, at, fills, outcome, now>>

\* The maker is the smaller side, or both are equal.
DecrementTaker ==
    /\ Prevents("DecrementCancel")
    /\ maker.remain <= incoming.remain
    /\ incoming' = [incoming EXCEPT !.remain = @ - maker.remain, !.filled = @ + maker.remain]
    /\ DropMaker(level, maker)
    /\ stpCancels' = Append(stpCancels, cursor)
    /\ UNCHANGED <<levelsInUse, orderSeq, pc, taker, at, fills, outcome, now>>

FillQty == Smaller(maker.remain, incoming.remain)

\* Both sides of a trade at the level's price.
Trade ==
    /\ Trades
    /\ incoming' = [incoming EXCEPT !.remain = @ - FillQty, !.filled = @ + FillQty]
    /\ fills' = Append(fills, [maker |-> cursor, price |-> at, qty |-> FillQty])
    /\ UNCHANGED <<levelsInUse, pc, taker, at, stpCancels, outcome, now>>

FillPartly ==
    /\ Trade
    /\ maker.remain > FillQty
    /\ tree' = WithLevel(OppSide, at, DecrementLevel(level, maker, FillQty))
    /\ index' = [index EXCEPT ![cursor] = DecrementNode(@, FillQty)]
    /\ UNCHANGED <<nodesInUse, orderSeq, cursor, haltQueued>>

FillAndRemove ==
    /\ Trade
    /\ maker.remain = FillQty
    /\ maker.hidden = 0
    /\ DropMaker(DecrementLevel(level, maker, FillQty), DecrementNode(maker, FillQty))
    /\ UNCHANGED orderSeq

\* An exhausted slice: the iceberg goes to the tail with a new sequence number.
FillAndReplenish ==
    /\ Trade
    /\ maker.remain = FillQty
    /\ maker.hidden > 0
    /\ LET left == DecrementNode(maker, FillQty)
           renewed == Replenish(left, orderSeq + 1)
           l == Enqueue(Unlink(DecrementLevel(level, maker, FillQty), cursor, left),
                        cursor, renewed)
       IN  /\ tree' = WithLevel(OppSide, at, l)
           /\ index' = [index EXCEPT ![cursor] = renewed]
           /\ cursor' = Head(l.queue)
    /\ orderSeq' = orderSeq + 1
    /\ UNCHANGED <<nodesInUse, haltQueued>>

------------------------------------------------------------------------------
(* match(): the disposition.                                                 *)

LoopEnds == pc = "outer" /\ (incoming.remain = 0 \/ ~BestCrosses)

IfFilled(partial, none) == IF fills # <<>> THEN partial ELSE none

\* Fault: the taker's node is not given back.
FinishSTP_Leaks ==
    pc = "stpDone" /\ Return("STPCanceled_Taker")
                   /\ UNCHANGED <<structure, nodesInUse, haltQueued>>
FinishSTP == pc = "stpDone" /\ Release("STPCanceled_Taker")

FinishFilled == LoopEnds /\ incoming.remain = 0 /\ Release("FullyFilled")

FinishIOC ==
    /\ LoopEnds
    /\ incoming.remain > 0
    /\ incoming.tif = "IOC"
    /\ Release(IfFilled("PartialFill_Canceled", "Canceled"))

FinishMarket ==
    /\ LoopEnds
    /\ incoming.remain > 0
    /\ incoming.tif # "IOC"
    /\ incoming.type = "Market"
    /\ Release("Canceled")

MayRest ==
    LoopEnds /\ incoming.remain > 0 /\ incoming.tif # "IOC" /\ incoming.type = "Limit"

FinishRested ==
    /\ MayRest
    /\ CanRestNode(incoming)
    /\ RestNode(taker, incoming)
    /\ Return(IfFilled("PartialFill_Rested", "Rested"))
    /\ UNCHANGED <<nodesInUse, haltQueued>>

\* The level pool is exhausted: the remainder is dropped.
FinishNoLevel ==
    /\ MayRest
    /\ ~CanRestNode(incoming)
    /\ Release(IfFilled("PartialFill_Canceled", "Canceled"))

\* The caller has read what match() returned.
Reply ==
    /\ pc = "reply"
    /\ pc' = "idle"
    /\ taker' = Nil
    /\ incoming' = Nil
    /\ fills' = <<>>
    /\ stpCancels' = <<>>
    /\ outcome' = "none"
    /\ UNCHANGED <<structure, nodesInUse, orderSeq, scan, now, haltQueued>>

------------------------------------------------------------------------------
(* Cancellation and expiry.                                                  *)

\* Unlink, delete from the index, drop an emptied level, release the node.
RemoveResting(o) ==
    LET n == index[o]
        l == Unlink(tree[n.side][n.price], o, n)
    IN  /\ index' = Delete(index, o)
        /\ nodesInUse' = nodesInUse - 1
        /\ haltQueued' = haltQueued \ {o}
        /\ IF l.queue = <<>>
           THEN /\ tree' = WithoutLevel(n.side, n.price)
                /\ levelsInUse' = levelsInUse - 1
           ELSE /\ tree' = WithLevel(n.side, n.price, l)
                /\ UNCHANGED levelsInUse

Cancel(o, u) ==
    /\ pc = "idle"
    /\ o \in DOMAIN index
    /\ index[o].user = u
    /\ RemoveResting(o)
    /\ UNCHANGED <<orderSeq, pc, taker, incoming, scan, result, now>>

Expired(o) == index[o].expireAt > 0 /\ index[o].expireAt <= now

\* ExpireGTD(t) visits the index in the random order of a Go map.
ExpireGTD(t) ==
    /\ pc = "idle"
    /\ pc' = "expire"
    /\ now' = t
    /\ UNCHANGED <<structure, nodesInUse, orderSeq, taker, incoming, scan, result,
                   haltQueued>>

ExpireOne(o) ==
    /\ pc = "expire"
    /\ o \in DOMAIN index
    /\ Expired(o)
    /\ RemoveResting(o)
    /\ UNCHANGED <<orderSeq, pc, taker, incoming, scan, result, now>>

ExpireEnds ==
    /\ pc = "expire"
    /\ \A o \in DOMAIN index : ~Expired(o)
    /\ pc' = "idle"
    /\ now' = 0
    /\ UNCHANGED <<structure, nodesInUse, orderSeq, taker, incoming, scan, result,
                   haltQueued>>

------------------------------------------------------------------------------
Init ==
    /\ tree = [s \in Side |-> NoMap]
    /\ index = NoMap
    /\ nodesInUse = 0
    /\ levelsInUse = 0
    /\ orderSeq = 0
    /\ pc = "idle"
    /\ taker = Nil
    /\ incoming = Nil
    /\ at = 0
    /\ cursor = Nil
    /\ fills = <<>>
    /\ stpCancels = <<>>
    /\ outcome = "none"
    /\ now = 0
    /\ haltQueued = {}

ScanTimes == {c.expireAt : c \in Commands} \ {0}

MatchStep ==
    \/ DryRunFails \/ DryRunSucceeds \/ EnterLevel \/ LeaveLevel
    \/ PreventBoth \/ PreventMaker \/ PreventTaker \/ DecrementMaker \/ DecrementTaker
    \/ FillPartly \/ FillAndRemove \/ FillAndReplenish
    \/ FinishSTP \/ FinishFilled \/ FinishIOC \/ FinishMarket \/ FinishRested
    \/ FinishNoLevel \/ Reply

ExpireStep == ExpireEnds \/ \E o \in OrderIds : ExpireOne(o)

Next ==
    \/ \E o \in OrderIds, c \in Commands : Place(o, c) \/ PlaceResting(o, c)
    \/ \E o \in OrderIds, u \in Users : Cancel(o, u)
    \/ \E t \in ScanTimes : ExpireGTD(t)
    \/ MatchStep
    \/ ExpireStep

\* A match and an expiry scan run to their end on the command goroutine; nothing
\* obliges a client to send the next command.
Fairness == WF_vars(MatchStep) /\ WF_vars(ExpireStep)

Spec == Init /\ [][Next]_vars /\ Fairness

------------------------------------------------------------------------------
(* Properties.                                                               *)

Matching == {"dryRun", "outer", "inner", "stpDone"}

\* Types of all variables.
TypeOK ==
    /\ DOMAIN tree = Side
    /\ \A s \in Side : /\ DOMAIN tree[s] \subseteq Price
                       /\ \A p \in DOMAIN tree[s] : tree[s][p] \in Level
    /\ DOMAIN index \subseteq OrderIds
    /\ \A o \in DOMAIN index : index[o] \in Node
    /\ nodesInUse \in Int
    /\ levelsInUse \in Int
    /\ orderSeq \in Nat
    /\ pc \in Matching \cup {"idle", "reply", "expire"}
    /\ pc \in Matching \cup {"reply"} => taker \in OrderIds /\ incoming \in Node
    /\ at \in Price
    /\ cursor \in OrderIds \cup {Nil}
    /\ fills \in Seq(Fill)
    /\ stpCancels \in Seq(OrderIds)
    /\ outcome \in Outcome \cup {"none"}
    /\ now \in Nat
    /\ haltQueued \subseteq DOMAIN index

\* The queue of a level holds, once each, exactly the indexed orders of its side and
\* price, and every indexed order has a level: what Cancel and ExpireGTD rely on when
\* they follow an order's back-pointer to its level.
QueuesMatchIndex ==
    /\ \A s \in Side : \A p \in DOMAIN tree[s] :
          /\ IsInjective(tree[s][p].queue)
          /\ Range(tree[s][p].queue)
                = {o \in DOMAIN index : index[o].side = s /\ index[o].price = p}
    /\ \A o \in DOMAIN index : index[o].price \in DOMAIN tree[index[o].side]

\* No level without orders stays in a tree, the one the match loop is working on excepted.
NoEmptyLevel ==
    \A s \in Side : \A p \in DOMAIN tree[s] :
        tree[s][p].queue = <<>> => pc = "inner" /\ s = OppSide /\ p = at

\* Each acquired pool slot is held by one resting order, by the order in flight, or by
\* one level: nothing is leaked and nothing is released twice.
PoolAccounting ==
    /\ nodesInUse = Cardinality(DOMAIN index) + (IF pc \in Matching THEN 1 ELSE 0)
    /\ levelsInUse = Cardinality(DOMAIN tree["Bid"]) + Cardinality(DOMAIN tree["Ask"])

\* The incrementally maintained totals of a level are the sums over the orders it queues.
LevelTotals ==
    LET remaining == [o \in DOMAIN index |-> index[o].remain]
        shown == [o \in DOMAIN index |-> index[o].display]
    IN  \A s \in Side : \A p \in DOMAIN tree[s] : LET l == tree[s][p] IN
           /\ l.total = SumFunctionOnSet(remaining, Range(l.queue))
           /\ l.display = SumFunctionOnSet(shown, Range(l.queue))
           /\ l.count = Len(l.queue)

\* node.go:34: the sequence number alone decides time priority, so every queue ascends
\* in it, also after an iceberg slice went to the back.
TimeOrdered ==
    \A s \in Side : \A p \in DOMAIN tree[s] : LET q == tree[s][p].queue IN
        \A i, j \in DOMAIN q : i < j => index[q[i]].seq < index[q[j]].seq

\* Two orders that both came through match() never stand crossed.
NotCrossed ==
    \A b, a \in DOMAIN index \ haltQueued :
        index[b].side = "Bid" /\ index[a].side = "Ask" => index[b].price < index[a].price

\* What an order was submitted for is filled, visible or in reserve, and every resting
\* order has something visible to trade.
QuantityConserved ==
    /\ \A o \in DOMAIN index : LET n == index[o] IN
          n.orig = n.filled + n.remain + n.hidden /\ n.remain > 0
    /\ pc \in {"dryRun", "outer", "inner"} =>
          incoming.orig = incoming.filled + incoming.remain + incoming.hidden

FilledQty == SumFunction([i \in DOMAIN fills |-> fills[i].qty])

KilledOrFilled ==
    \/ outcome' = "Rejected" /\ fills = <<>> /\ stpCancels = <<>>
    \/ outcome' = "FullyFilled" /\ incoming.orig = FilledQty

\* matching.go:39-44, README invariant 7: a FOK order that enters match() is either
\* rejected without a trace or filled whole.
FOKAllOrNothing ==
    [][(pc \in Matching /\ pc' = "reply" /\ incoming.tif = "FOK") => KilledOrFilled]_vars

\* The same, of a FOK order that self-trade prevention did not meet: prevention is what
\* the dry run of canFillFull does not foresee, and nothing else.
FOKUnlessPrevented ==
    [][(pc \in Matching /\ pc' = "reply" /\ incoming.tif = "FOK") =>
          KilledOrFilled \/ stpCancels # <<>> \/ outcome' = "STPCanceled_Taker"]_vars

\* A trade is with the best-priced opposite order and, at that price, the oldest.
FillsInPriorityOrder ==
    [][Len(fills') > Len(fills) =>
          LET m == fills'[Len(fills')].maker
          IN  \A o \in DOMAIN index \ {m} : index[o].side = OppSide =>
                 \/ Better(OppSide, index[m].price, index[o].price)
                 \/ index[m].price = index[o].price /\ index[m].seq < index[o].seq]_vars

\* README, iceberg orders: an order reported as fully filled was filled for its whole
\* quantity, reserve included.
FullyFilledMeansAll ==
    pc = "reply" /\ outcome = "FullyFilled" => incoming.filled = incoming.orig

\* Every match and every expiry scan ends.
CommandsFinish == pc # "idle" ~> pc = "idle"

------------------------------------------------------------------------------
(* The abstract book this module implements.                                 *)

RestingView ==
    [o \in DOMAIN index |->
        [user |-> index[o].user, side |-> index[o].side, price |-> index[o].price,
         seq |-> index[o].seq, qty |-> index[o].remain, reserve |-> index[o].hidden,
         slice |-> index[o].lot]]

TakerView ==
    IF pc \in Matching
    THEN [id |-> taker, user |-> incoming.user, side |-> incoming.side,
          market |-> incoming.type = "Market", price |-> incoming.price,
          tif |-> incoming.tif, seq |-> incoming.seq, orig |-> incoming.orig,
          qty |-> incoming.remain, reserve |-> incoming.hidden, slice |-> incoming.lot]
    ELSE Nil

Abstract == INSTANCE PriceTimePriority
                WITH resting <- RestingView, taker <- TakerView, clock <- orderSeq

\* Nil stands for no order being executed.
ASSUME NoTakerAssumption == Nil \notin Abstract!Taker

\* The promise of PriceTimePriority.
ImplementsPriority == Abstract!Spec
=============================================================================

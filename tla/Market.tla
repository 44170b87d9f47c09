------------------------------- MODULE Market -------------------------------
(***************************************************************************)
(* One market: the command processor with the continuous book, the stop    *)
(* book, the auction book, the state machine and the timers it drives.  A  *)
(* step is one command, one timer, or one triggered stop of a cascade.     *)
(*                                                                         *)
(* The continuous book is taken at the level of PriceTimePriority, which   *)
(* OrderBook implements: a match is one step.  Icebergs and self-trade     *)
(* prevention are in OrderBook and left out here, and the level pool is    *)
(* taken to be as large as the node pool, so that it never runs out first. *)
(* A rejected command changes nothing but the event stream: it is a        *)
(* stuttering step.                                                        *)
(***************************************************************************)
EXTENDS Auction

CONSTANTS
    OrderIds,
    Users,
    Commands,        \* the commands clients may send
    NodeCap,         \* capacity of nodePool
    StopCap,         \* capacity of the stop book's node pool
    MaxCascadeDepth,
    AuctionsEnabled, \* FeatureAuctions, with an AuctionConfig
    ReferencePrice,  \* AuctionConfig.ReferencePrice, 0 for none
    BreakerEnabled,  \* a CircuitBreakerConfig is given
    MaxTime,         \* bound on the clock
    MaxRestarts,     \* bound on restarts
    MaxSeq           \* bound on orderSeq at submission

Side == {"Bid", "Ask"}
TIF == {"GTC", "GTD", "IOC", "FOK"}
MarketState == {"PreOpen", "Auction", "Open", "Halted", "Closed"}
Flag == {"None", "PostOnly", "ReduceOnly"}

\* price 0: a market order, or a stop that converts to one; trigger 0: no stop.
Command ==
    [id : OrderIds, user : Users, side : Side, price : Nat, trigger : Nat,
     qty : Nat \ {0}, tif : TIF, flag : Flag, expireAt : Nat]

ASSUME BoundAssumption ==
    /\ {NodeCap, StopCap, MaxTime, MaxRestarts, MaxSeq} \subseteq Nat
    /\ MaxCascadeDepth \in Nat \ {0} /\ ReferencePrice \in Nat
ASSUME FeatureAssumption == AuctionsEnabled \in BOOLEAN /\ BreakerEnabled \in BOOLEAN
ASSUME CommandAssumption == \A c \in Commands : c \in Command

\* place: where the order stands in the queue of its level, 0 before it rests.
Order ==
    [user : Users, side : Side, price : Nat, qty : Nat \ {0}, tif : TIF, seq : Nat,
     place : Nat, expireAt : Nat]

Stop ==
    [user : Users, side : Side, price : Nat, trigger : Nat, qty : Nat \ {0}, tif : TIF,
     seq : Nat, expireAt : Nat]

VARIABLES
    state,        \* statemachine.Machine
    preHaltState,
    book,         \* the continuous book: id -> resting order
    stops,        \* the stop book: id -> pending stop
    auctionBook,  \* id -> order; the sweep does not empty it
    swept,        \* history: the ids the sweep has dealt with
    openTimer,    \* auctionOpenC is armed
    clearTimer,   \* auctionClearC is armed
    cascade,      \* the calls of checkStopsAndBreaker that have not returned
    orderSeq,
    positions,    \* user -> net position
    window,       \* the prices the breaker has seen since its last reset
    clock,        \* wall-clock time
    restarts,     \* how often the engine has been restarted
    ledger        \* history: what a client that follows the events believes is open

vars == <<state, preHaltState, book, stops, auctionBook, swept, openTimer, clearTimer,
          cascade, orderSeq, positions, window, clock, restarts, ledger>>
timers == <<openTimer, clearTimer>>
auction == <<auctionBook, swept>>
lifecycle == <<state, preHaltState>>
world == <<clock, restarts>>

NoMap == [x \in {} |-> x]
Put(f, k, v) == [x \in DOMAIN f \cup {k} |-> IF x = k THEN v ELSE f[x]]
Drop(f, S) == Restrict(f, DOMAIN f \ S)

------------------------------------------------------------------------------
(* The state machine.                                                        *)

\* Fault: an open market may go back to its auction.
CanTransition_Reopens(from, to) ==
    \/ from \in {"PreOpen", "Halted", "Open"} /\ to = "Auction"
    \/ from \in {"PreOpen", "Halted", "Auction"} /\ to = "Open"
    \/ from \in {"PreOpen", "Auction", "Open"} /\ to = "Halted"

\* validTransitions
CanTransition(from, to) ==
    to \in CASE from = "PreOpen" -> {"Auction", "Open", "Halted", "Closed"}
             [] from = "Auction" -> {"Open", "Halted", "Closed"}
             [] from = "Open"    -> {"Halted", "Closed"}
             [] from = "Halted"  -> {"Open", "Auction", "PreOpen", "Closed"}
             [] from = "Closed"  -> {"PreOpen"}

\* preHaltState is written first, whether or not the transition is valid.
Halt ==
    /\ preHaltState' = state
    /\ state' = IF CanTransition(state, "Halted") THEN "Halted" ELSE state

CanAcceptLimitOrder == state \in {"Open", "Auction", "PreOpen", "Halted"}

\* Fault: the rule of stop orders.
CanAcceptMarketOrder_LikeStops == state \in {"Open", "Halted"}

CanAcceptMarketOrder == state = "Open"
CanAcceptStopOrder == state \in {"Open", "Halted"}

------------------------------------------------------------------------------
(* The continuous book: a match of order n against resting orders b.         *)

Marketable(n, r) ==
    /\ n.side # r.side
    /\ \/ n.price = 0
       \/ n.side = "Bid" /\ n.price >= r.price
       \/ n.side = "Ask" /\ n.price <= r.price

\* The order of the book: best price first, then the queue of the level.
Precedes(b, k, m) ==
    \/ b[k].price = b[m].price /\ b[k].place < b[m].place
    \/ b[k].side = "Bid" /\ b[k].price > b[m].price
    \/ b[k].side = "Ask" /\ b[k].price < b[m].price

\* PlaceLimit appends: order n named o stands behind all that rest.  A place is the order's
\* own number as long as the numbers grow; a carried-over order has an old one.
Enter(b, o, n) == Put(b, o, [n EXCEPT !.place = Max({n.seq} \cup {b[m].place + 1 : m \in DOMAIN b})])

Makers(b, n) == {m \in DOMAIN b : Marketable(n, b[m])}

\* What maker m trades: the makers ahead of it come first.
Traded(b, n, m) ==
    IF m \notin Makers(b, n) THEN 0 ELSE
    LET before == Volume(b, {k \in Makers(b, n) : Precedes(b, k, m)})
    IN  IF before >= n.qty THEN 0 ELSE Lesser(b[m].qty, n.qty - before)

Available(b, n) == Volume(b, Makers(b, n))

\* Fault: makers that trade in full stay.
MakersAfter_AllStay(b, n) == [m \in DOMAIN b |-> [b[m] EXCEPT !.qty = @ - Traded(b, n, m)]]

\* The resting orders after order n has traded.
MakersAfter(b, n) ==
    [m \in {k \in DOMAIN b : Traded(b, n, k) < b[k].qty} |->
        [b[m] EXCEPT !.qty = @ - Traded(b, n, m)]]

Fills(b, o, n) ==
    {[maker |-> m, taker |-> o, qty |-> Traded(b, n, m),
      buyer |-> IF n.side = "Bid" THEN n.user ELSE b[m].user,
      seller |-> IF n.side = "Ask" THEN n.user ELSE b[m].user] :
        m \in {k \in DOMAIN b : Traded(b, n, k) > 0}}

\* The price of the last fill, 0 if there is none.
LastPrice(b, F) ==
    IF F = {} THEN 0
    ELSE LET makers == {f.maker : f \in F}
         IN  b[CHOOSE m \in makers : \A k \in makers \ {m} : Precedes(b, k, m)].price

\* match(): the book, what is left of order n named o, its fills and the last price.
Match(b, o, n) ==
    IF n.tif = "FOK" /\ Available(b, n) < n.qty
    THEN [book |-> b, left |-> n.qty, fills |-> {}, price |-> 0]
    ELSE LET left == n.qty - Lesser(n.qty, Available(b, n))
             rests == left > 0 /\ n.price > 0 /\ n.tif # "IOC"
         IN  [book |-> IF rests THEN Enter(MakersAfter(b, n), o, [n EXCEPT !.qty = left])
                       ELSE MakersAfter(b, n),
              left |-> left,
              fills |-> Fills(b, o, n),
              price |-> LastPrice(b, Fills(b, o, n))]

------------------------------------------------------------------------------
(* What the events say.                                                      *)

TotalQty(F) == SumFunctionOnSet([f \in F |-> f.qty], F)

\* emitFillEvents: positions follow the fills.
Settled(pos, F) ==
    [u \in DOMAIN pos |->
        pos[u] + TotalQty({f \in F : f.buyer = u}) - TotalQty({f \in F : f.seller = u})]

\* A client that follows the events: TradeFill reduces both orders, and an order is gone
\* when nothing remains of it.
Filled(led, F) ==
    LET left == [o \in DOMAIN led |->
                    led[o] - TotalQty({f \in F : o \in {f.maker, f.taker}})]
    IN  Drop(left, {o \in DOMAIN led : left[o] = 0})

\* emitDisposition: an order that neither rests nor is used up is cancelled or rejected.
Disposed(led, r, o) ==
    IF r.left > 0 /\ o \notin DOMAIN r.book THEN Drop(led, {o}) ELSE led

------------------------------------------------------------------------------
(* Stops.                                                                    *)

Reached(s, p) == IF s.side = "Ask" THEN p <= s.trigger ELSE p >= s.trigger
Fired(p) == {o \in DOMAIN stops : Reached(stops[o], p)}

\* The sells from the highest trigger down, then the buys from the lowest up; first in,
\* first out at one trigger.
FiresBefore(o, q) ==
    LET s == stops[o]
        t == stops[q]
    IN  \/ s.side = "Ask" /\ t.side = "Bid"
        \/ /\ s.side = t.side
           /\ \/ s.trigger = t.trigger /\ s.seq < t.seq
              \/ s.side = "Ask" /\ s.trigger > t.trigger
              \/ s.side = "Bid" /\ s.trigger < t.trigger

\* TriggeredOrder.  Its code has no number, trigger or expiry time: no step reads them here
\* but Restart, which has them from the log.
Convert(o) == [id |-> o, stop |-> stops[o]]

Triggered(p) ==
    LET order == Ranked(Fired(p), {x \in Fired(p) \X Fired(p) : FiresBefore(x[1], x[2])})
    IN  [i \in DOMAIN order |-> Convert(order[i])]

\* Fault: the triggered stops stay in the stop book.
CheckStops_KeepsStops(frames, p) ==
    IF p = 0 THEN cascade' = frames /\ UNCHANGED <<stops, lifecycle>>
    ELSE IF Len(frames) >= MaxCascadeDepth THEN Halt /\ cascade' = frames /\ UNCHANGED stops
    ELSE /\ cascade' = Append(frames, [price |-> p, todo |-> Triggered(p)])
         /\ UNCHANGED <<stops, lifecycle>>

\* checkStopsAndBreaker(p, depth) up to its loop, where the calls in frames are in
\* progress; price 0 means that nothing traded.
CheckStops(frames, p) ==
    IF p = 0
    THEN cascade' = frames /\ UNCHANGED <<stops, lifecycle>>
    ELSE IF Len(frames) >= MaxCascadeDepth
    THEN Halt /\ cascade' = frames /\ UNCHANGED stops
    ELSE /\ cascade' = Append(frames, [price |-> p, todo |-> Triggered(p)])
         /\ stops' = Drop(stops, Fired(p))
         /\ UNCHANGED lifecycle

\* Match an accepted order and report it.
Execute(frames, o, n) ==
    \E r \in {Match(book, o, n)} :
        /\ book' = r.book
        /\ positions' = Settled(positions, r.fills)
        /\ ledger' = Disposed(Filled(Put(ledger, o, n.qty), r.fills), r, o)
        /\ CheckStops(frames, r.price)

------------------------------------------------------------------------------
(* Commands.                                                                 *)

Idle == cascade = <<>>
NodeFree == Cardinality(DOMAIN book) < NodeCap

NewOrder(c, seq) ==
    [user |-> c.user, side |-> c.side, price |-> c.price, qty |-> c.qty, tif |-> c.tif,
     seq |-> seq, place |-> 0, expireAt |-> c.expireAt]

\* Fault: the quantity of the order is left out.
WouldIncrease_NoQty(c) ==
    IF c.side = "Bid" THEN positions[c.user] > 0 ELSE positions[c.user] < 0

WouldIncrease(c) ==
    IF c.side = "Bid" THEN positions[c.user] + c.qty > 0 ELSE positions[c.user] - c.qty < 0

\* Checks every handler makes; the duplicate check is one of them, on known ids.
Accepts(c, known) ==
    /\ Idle
    /\ orderSeq < MaxSeq
    /\ c.id \notin known
    /\ c.tif = "GTD" => c.expireAt > clock
    /\ orderSeq' = orderSeq + 1

\* Fault: the auction book is not asked for the id.
AcceptsLimit_NoAuction(c) ==
    /\ c.price > 0 /\ c.trigger = 0
    /\ CanAcceptLimitOrder
    /\ c.flag = "ReduceOnly" => ~WouldIncrease(c)
    /\ Accepts(c, DOMAIN book \cup DOMAIN stops)
    /\ c.flag = "PostOnly" /\ state # "Auction" => Makers(book, c) = {}

AcceptsLimit(c) ==
    /\ c.price > 0 /\ c.trigger = 0
    /\ CanAcceptLimitOrder
    /\ c.flag = "ReduceOnly" => ~WouldIncrease(c)
    /\ Accepts(c, DOMAIN book \cup DOMAIN stops \cup DOMAIN auctionBook)
    /\ c.flag = "PostOnly" /\ state # "Auction" => Makers(book, c) = {}

JoinAuction(c) ==
    /\ AcceptsLimit(c)
    /\ state = "Auction"
    /\ auctionBook' = Put(auctionBook, c.id, NewOrder(c, orderSeq + 1))
    /\ ledger' = Put(ledger, c.id, c.qty)
    /\ UNCHANGED <<lifecycle, book, stops, swept, timers, cascade, positions, window, world>>

\* Not open: every order rests, whatever its time in force.
QueueLimit(c) ==
    /\ AcceptsLimit(c)
    /\ state \in {"PreOpen", "Halted"}
    /\ NodeFree
    /\ book' = Enter(book, c.id, NewOrder(c, orderSeq + 1))
    /\ ledger' = Put(ledger, c.id, c.qty)
    /\ UNCHANGED <<lifecycle, stops, auction, timers, cascade, positions, window, world>>

MatchLimit(c) ==
    /\ AcceptsLimit(c)
    /\ state = "Open"
    /\ NodeFree
    /\ Execute(<<>>, c.id, NewOrder(c, orderSeq + 1))
    /\ UNCHANGED <<auction, timers, window, world>>

MatchMarket(c) ==
    /\ c.price = 0 /\ c.trigger = 0
    /\ CanAcceptMarketOrder
    /\ c.flag = "ReduceOnly" => ~WouldIncrease(c)
    /\ c.tif \in {"IOC", "FOK"}
    /\ Accepts(c, DOMAIN book \cup DOMAIN stops)
    /\ NodeFree
    /\ Execute(<<>>, c.id, NewOrder(c, orderSeq + 1))
    /\ UNCHANGED <<auction, timers, window, world>>

AddStop(c) ==
    /\ c.trigger > 0
    /\ CanAcceptStopOrder
    /\ Accepts(c, DOMAIN book \cup DOMAIN stops)
    /\ Cardinality(DOMAIN stops) < StopCap
    /\ stops' = Put(stops, c.id,
                    [user |-> c.user, side |-> c.side, price |-> c.price,
                     trigger |-> c.trigger, qty |-> c.qty, tif |-> c.tif,
                     seq |-> orderSeq + 1, expireAt |-> c.expireAt])
    /\ ledger' = Put(ledger, c.id, c.qty)
    /\ UNCHANGED <<lifecycle, book, auction, timers, cascade, positions, window, world>>

\* The book is asked first, then the stop book; the auction book is not asked.
CancelOrder(o, u) ==
    /\ Idle
    /\ \/ /\ o \in DOMAIN book
          /\ book[o].user = u
          /\ book' = Drop(book, {o})
          /\ UNCHANGED stops
       \/ /\ o \in DOMAIN stops \ DOMAIN book
          /\ stops[o].user = u
          /\ stops' = Drop(stops, {o})
          /\ UNCHANGED book
    /\ ledger' = Drop(ledger, {o})
    /\ UNCHANGED <<lifecycle, auction, timers, cascade, orderSeq, positions, window, world>>

AdminHalt ==
    /\ Idle
    /\ Halt
    /\ UNCHANGED <<book, stops, auction, timers, cascade, orderSeq, positions, window, world, ledger>>

ResumeTarget == IF preHaltState \in {"Open", "Auction"} THEN preHaltState ELSE "Open"

\* Not only from Halted: whatever state may go to the target.
AdminResume ==
    /\ Idle
    /\ CanTransition(state, ResumeTarget)
    /\ state' = ResumeTarget
    /\ UNCHANGED <<preHaltState, book, stops, auction, timers, cascade, orderSeq,
                   positions, window, world, ledger>>

------------------------------------------------------------------------------
(* The cascade: calls of checkStopsAndBreaker, the innermost last.           *)

Current == Last(cascade)
Rest == Append(Front(cascade), [Current EXCEPT !.todo = Tail(@)])

NextTriggered == Head(Current.todo)

\* The order a triggered stop becomes: it has no expiry time.
TriggeredOrder ==
    LET s == NextTriggered.stop
    IN  [user |-> s.user, side |-> s.side, price |-> s.price, qty |-> s.qty, tif |-> s.tif,
         seq |-> orderSeq + 1, place |-> 0, expireAt |-> 0]

\* Fault: a halted market is left alone in the middle of the loop.
RunTriggered_WhileOpen ==
    /\ state = "Open"
    /\ ~Idle
    /\ Current.todo # <<>>
    /\ NodeFree
    /\ orderSeq' = orderSeq + 1
    /\ Execute(Rest, NextTriggered.id, TriggeredOrder)
    /\ UNCHANGED <<auction, timers, window, world>>

\* processTriggeredOrder; nothing asks whether the market still trades.
RunTriggered ==
    /\ ~Idle
    /\ Current.todo # <<>>
    /\ NodeFree
    /\ orderSeq' = orderSeq + 1
    /\ Execute(Rest, NextTriggered.id, TriggeredOrder)
    /\ UNCHANGED <<auction, timers, window, world>>

RejectTriggered ==
    /\ ~Idle
    /\ Current.todo # <<>>
    /\ ~NodeFree
    /\ ledger' = Drop(ledger, {NextTriggered.id})
    /\ cascade' = Rest
    /\ UNCHANGED <<lifecycle, book, stops, auction, timers, orderSeq, positions, window,
                   world>>

\* The loop is done: breaker.Check records the price, and may halt the market when some
\* earlier sample differs from it (by how much, and how old it is, is left open).
CheckReturns ==
    /\ ~Idle
    /\ Current.todo = <<>>
    /\ cascade' = Front(cascade)
    /\ \/ /\ window' = IF BreakerEnabled THEN window \cup {Current.price} ELSE {}
          /\ UNCHANGED lifecycle
       \/ /\ BreakerEnabled
          /\ \E p \in window : p # Current.price
          /\ Halt
          /\ window' = IF CanTransition(state, "Halted") THEN {} ELSE window \cup {Current.price}
    /\ UNCHANGED <<book, stops, auction, timers, orderSeq, positions, world, ledger>>

------------------------------------------------------------------------------
(* Time, the expiry ticker and the auction timers.                           *)

TimePasses ==
    /\ clock < MaxTime
    /\ clock' = clock + 1
    /\ UNCHANGED <<lifecycle, book, stops, auction, timers, cascade, orderSeq, positions,
                   window, restarts, ledger>>

Overdue(f) == {o \in DOMAIN f : f[o].expireAt > 0 /\ f[o].expireAt <= clock}

\* Fault: the stop book is forgotten.
RunExpiryCheck_BookOnly ==
    /\ Idle
    /\ book' = Drop(book, Overdue(book))
    /\ ledger' = Drop(ledger, Overdue(book))
    /\ UNCHANGED <<lifecycle, stops, auction, timers, cascade, orderSeq, positions, window, world>>

RunExpiryCheck ==
    /\ Idle
    /\ book' = Drop(book, Overdue(book))
    /\ stops' = Drop(stops, Overdue(stops))
    /\ ledger' = Drop(ledger, Overdue(book) \cup Overdue(stops))
    /\ UNCHANGED <<lifecycle, auction, timers, cascade, orderSeq, positions, window, world>>

OpenAuction ==
    /\ Idle
    /\ openTimer
    /\ openTimer' = FALSE
    /\ state' = IF CanTransition(state, "Auction") THEN "Auction" ELSE state
    /\ UNCHANGED <<preHaltState, book, stops, auction, clearTimer, cascade, orderSeq,
                   positions, window, world, ledger>>

ClearingPrice == ComputeClearingPrice(auctionBook, ReferencePrice)

\* The fills of the sweep with their parties.
SweepFills ==
    {[maker |-> f.maker, taker |-> f.taker, qty |-> f.qty,
      buyer |-> auctionBook[f.taker].user, seller |-> auctionBook[f.maker].user] :
        f \in Range(SweepResult(auctionBook, ClearingPrice).fills)}

\* An unmatched order goes through the continuous book under its old sequence number.
CarriedOrder(o, q) ==
    [user |-> auctionBook[o].user, side |-> auctionBook[o].side, qty |-> q,
     price |-> auctionBook[o].price, tif |-> "GTC", seq |-> auctionBook[o].seq, place |-> 0,
     expireAt |-> 0]

CarryInto(acc, o, n) ==
    LET r == Match(acc.book, o, n)
    IN  IF Cardinality(DOMAIN acc.book) >= NodeCap
        THEN [acc EXCEPT !.ledger = Drop(@, {o})]
        ELSE [book |-> r.book,
              positions |-> Settled(acc.positions, r.fills),
              ledger |-> Disposed(Filled(acc.ledger, r.fills), r, o)]

\* Fault: what the sweep has filled is forgotten.
CarryOver_FullQty(acc, o) == CarryInto(acc, o, CarriedOrder(o, auctionBook[o].qty))

CarryOver(acc, o) ==
    CarryInto(acc, o, CarriedOrder(o, SweepResult(auctionBook, ClearingPrice).left[o]))

\* What the clearing leaves behind.
Cleared ==
    LET start == [book |-> book, positions |-> Settled(positions, SweepFills),
                  ledger |-> Filled(ledger, SweepFills)]
        orders == Unmatched(auctionBook, ClearingPrice)
        carried[i \in 0..Len(orders)] ==
            IF i = 0 THEN start ELSE CarryOver(carried[i - 1], orders[i])
    IN  [carried[Len(orders)] EXCEPT !.ledger = Drop(@, Canceled(auctionBook, ClearingPrice))]

\* clearAuction, from PreOpen through Auction if need be; otherwise the timer is spent.
ClearAuction ==
    /\ Idle
    /\ clearTimer
    /\ clearTimer' = FALSE
    /\ IF state \in {"PreOpen", "Auction"}
       THEN /\ book' = Cleared.book
            /\ positions' = Cleared.positions
            /\ ledger' = Cleared.ledger
            /\ swept' = DOMAIN auctionBook
            /\ state' = "Open"
       ELSE UNCHANGED <<state, book, positions, ledger, swept>>
    /\ UNCHANGED <<preHaltState, stops, auctionBook, openTimer, cascade, orderSeq,
                   window, world>>

------------------------------------------------------------------------------
(* The engine stops, or crashes between two events, and a new one is started with the open *)
(* orders that the log of events tells.                                                    *)

Waiting == DOMAIN auctionBook \ swept

Todo == UNION {Range(cascade[i].todo) : i \in DOMAIN cascade}
TriggeredIds == {t.id : t \in Todo}

\* The resting orders; to the log, an order waiting in the auction is one of them.
OpenOrders == [o \in DOMAIN book \cup Waiting |-> IF o \in Waiting THEN auctionBook[o] ELSE book[o]]

\* Fault: the stops that have triggered and not yet run are left out.
OpenStops_NotTriggered == stops

\* The pending stops; to the log, one that has triggered and not yet run is one of them.
OpenStops ==
    [o \in DOMAIN stops \cup TriggeredIds |->
        IF o \in DOMAIN stops THEN stops[o] ELSE (CHOOSE t \in Todo : t.id = o).stop]

\* The log tells three kinds of order: resting, waiting in the auction, and stops.
Section(o) == IF o \in Waiting THEN 2 ELSE IF o \in DOMAIN book THEN 1 ELSE 3

\* Fault: the log is read in the order of acceptance.
Rank_AsAccepted(o) ==
    CASE Section(o) = 1 -> book[o].seq
      [] Section(o) = 2 -> auctionBook[o].seq
      [] Section(o) = 3 -> OpenStops[o].seq

\* Their original time priority: a resting order has it from its place.
Rank(o) ==
    CASE Section(o) = 1 -> book[o].place
      [] Section(o) = 2 -> auctionBook[o].seq
      [] Section(o) = 3 -> OpenStops[o].seq

\* The order in which seedInitialOrders is given them and numbers them afresh.
Open == DOMAIN OpenOrders \cup DOMAIN OpenStops
SeededBefore(o, p) ==
    \/ Section(o) < Section(p)
    \/ Section(o) = Section(p) /\ Rank(o) < Rank(p)
FreshSeq(o) == orderSeq + Cardinality({p \in Open : SeededBefore(p, o)}) + 1

\* Nothing is matched, no event is emitted, the positions are forgotten and the timers armed
\* again.  The pools are large enough for the log, as WithInitialOrders asks.
Restart ==
    /\ restarts < MaxRestarts
    /\ restarts' = restarts + 1
    /\ Cardinality(DOMAIN OpenOrders) <= NodeCap
    /\ book' = [o \in DOMAIN OpenOrders |->
                   [OpenOrders[o] EXCEPT !.seq = FreshSeq(o), !.place = FreshSeq(o)]]
    /\ stops' = [o \in DOMAIN OpenStops |-> [OpenStops[o] EXCEPT !.seq = FreshSeq(o)]]
    /\ orderSeq' = orderSeq + Cardinality(Open)
    /\ state' = "PreOpen" /\ preHaltState' = "None"
    /\ auctionBook' = NoMap /\ swept' = {}
    /\ openTimer' = AuctionsEnabled /\ clearTimer' = AuctionsEnabled
    /\ cascade' = <<>>
    /\ positions' = [u \in Users |-> 0]
    /\ window' = {}
    /\ UNCHANGED <<clock, ledger>>

------------------------------------------------------------------------------
Init ==
    /\ state = "PreOpen"
    /\ preHaltState = "None"
    /\ book = NoMap
    /\ stops = NoMap
    /\ auctionBook = NoMap
    /\ swept = {}
    /\ openTimer = AuctionsEnabled
    /\ clearTimer = AuctionsEnabled
    /\ cascade = <<>>
    /\ orderSeq = 0
    /\ positions = [u \in Users |-> 0]
    /\ window = {}
    /\ clock = 0
    /\ restarts = 0
    /\ ledger = NoMap

CascadeStep == RunTriggered \/ RejectTriggered \/ CheckReturns

Next ==
    \/ \E c \in Commands :
          JoinAuction(c) \/ QueueLimit(c) \/ MatchLimit(c) \/ MatchMarket(c) \/ AddStop(c)
    \/ \E o \in OrderIds, u \in Users : CancelOrder(o, u)
    \/ AdminHalt \/ AdminResume
    \/ CascadeStep
    \/ TimePasses \/ RunExpiryCheck \/ OpenAuction \/ ClearAuction
    \/ Restart

\* The timer is served: exactly the ClearAuction steps, for they alone change clearTimer.
ClearTimerFires == Idle /\ clearTimer /\ clearTimer' = FALSE

\* The command goroutine finishes what it has begun, and its select takes a ready timer
\* or tick in the end.  Clients, administrators and the clock owe nothing.
Fairness ==
    /\ WF_vars(CascadeStep)
    /\ SF_vars(RunExpiryCheck)
    /\ SF_vars(OpenAuction)
    /\ SF_clearTimer(ClearTimerFires)

Spec == Init /\ [][Next]_vars /\ Fairness

------------------------------------------------------------------------------
(* Properties.                                                               *)

\* Types of all variables.
TypeOK ==
    /\ state \in MarketState
    /\ preHaltState \in MarketState \cup {"None"}
    /\ DOMAIN book \subseteq OrderIds /\ \A o \in DOMAIN book : book[o] \in Order
    /\ DOMAIN stops \subseteq OrderIds /\ \A o \in DOMAIN stops : stops[o] \in Stop
    /\ DOMAIN auctionBook \subseteq OrderIds
    /\ \A o \in DOMAIN auctionBook : auctionBook[o] \in Order
    /\ swept \subseteq DOMAIN auctionBook
    /\ openTimer \in BOOLEAN /\ clearTimer \in BOOLEAN
    /\ \A i \in DOMAIN cascade : \A k \in DOMAIN cascade[i].todo :
          cascade[i].todo[k].id \in OrderIds
    /\ orderSeq \in Nat
    /\ positions \in [Users -> Int]
    /\ window \subseteq Nat
    /\ clock \in 0..MaxTime /\ restarts \in 0..MaxRestarts
    /\ DOMAIN ledger \subseteq OrderIds /\ \A o \in DOMAIN ledger : ledger[o] \in Nat \ {0}

\* No id is live twice: resting, pending as a stop, triggered and not yet executed, or
\* waiting in the auction.  The duplicate checks of the handlers promise it, each looking
\* at some of these places.
LiveOnce ==
    /\ DOMAIN book \cap DOMAIN stops = {}
    /\ TriggeredIds \cap (DOMAIN book \cup DOMAIN stops) = {}
    /\ Waiting \cap (DOMAIN book \cup DOMAIN stops \cup TriggeredIds) = {}
    /\ \A i, j \in DOMAIN cascade : \A k \in DOMAIN cascade[i].todo, l \in DOMAIN cascade[j].todo :
          cascade[i].todo[k].id = cascade[j].todo[l].id => i = j /\ k = l

\* AddStop does not look for its id in the auction, so LiveOnce needs clients that never send
\* a stop under the id of a limit order.
StopIdsApart ==
    AuctionsEnabled =>
        \A c, d \in Commands : c.trigger > 0 /\ d.trigger = 0 /\ d.price > 0 => c.id # d.id

\* Nor does MatchMarket.  Its order never rests, but a client would take its fills for those of
\* the order that waits, so that EventsTellTheBook needs the same of market orders.
MarketIdsApart ==
    AuctionsEnabled =>
        \A c, d \in Commands :
            c.trigger = 0 /\ c.price = 0 /\ d.trigger = 0 /\ d.price > 0 => c.id # d.id

\* README, design invariant 6 (events are the only output): a client that adds up
\* OrderAccepted, TradeFill, OrderCanceled, OrderExpired and the rejections of accepted
\* orders knows which orders are open and how much is left of each.
EventsTellTheBook ==
    /\ DOMAIN ledger = DOMAIN book \cup DOMAIN stops \cup TriggeredIds \cup Waiting
    /\ \A o \in DOMAIN book : ledger[o] = book[o].qty
    /\ \A o \in DOMAIN stops : ledger[o] = stops[o].qty
    /\ \A o \in Waiting : ledger[o] = auctionBook[o].qty

\* Every command that sets off a cascade ends, whatever halts the market on the way.
CascadeEnds == cascade # <<>> ~> cascade = <<>>

\* README, FeatureReduceOnly: an order that executes on arrival with the flag never takes
\* its user further from a flat position, whatever it trades with.
ReduceOnlyReduces ==
    [][\A c \in Commands :
        c.flag = "ReduceOnly" /\ (MatchLimit(c) \/ MatchMarket(c))
        => Distance(positions'[c.user], 0) <= Distance(positions[c.user], 0)]_vars

\* WithInitialOrders, "orders must be supplied in time-priority order": a restart that honours
\* it leaves every resting order where it stood, carried-over ones included.
RestartKeepsPriority ==
    [][restarts' # restarts =>
        \A o, p \in DOMAIN book :
            o \in DOMAIN book' /\ p \in DOMAIN book'
            /\ (Precedes(book, o, p) <=> Precedes(book', o, p))]_vars

\* A good-till-date order or stop whose time has come leaves (it may be filled first).
OverdueLeaves == Overdue(book) \cup Overdue(stops) # {} ~> Overdue(book) \cup Overdue(stops) = {}

\* README, call auction: when the auction closes its orders trade, move to the book or are
\* cancelled.  An accepted auction order is dealt with in the end ...
EveryAuctionClears == Waiting # {} ~> Waiting = {}

\* ... provided that the market is not halted once the clearing timer has fired, and that no
\* administrator has taken it out of its auction.
AuctionClears ==
    [](/\ ~clearTimer => state # "Halted"
       /\ Waiting # {} => state \in {"Auction", "Halted"})
    => EveryAuctionClears

\* README, admin commands, as far as it holds: in a halted market nothing trades any more,
\* except the stops that fire in the cascade still running, which goes on regardless.
HaltHolds ==
    [][state = "Halted" /\ restarts' = restarts /\ positions' # positions
       => TriggeredIds # {}]_vars

\* README, design invariant 5: the sequence number is the only time-priority determinant.
\* Of two orders of one side and price the older does not stand by while the younger trades.
OlderTradesFirst ==
    [][\A o, p \in DOMAIN book :
        /\ book[o].side = book[p].side /\ book[o].price = book[p].price
        /\ book[o].seq < book[p].seq
        /\ positions' # positions
        /\ p \in DOMAIN book' => book'[p].qty < book[p].qty
        => o \notin DOMAIN book']_vars
=============================================================================

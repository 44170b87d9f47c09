------------------------------- MODULE Auction -------------------------------
(***************************************************************************)
(* The algorithms of the call auction (package auction) as operators on    *)
(* an auction book: a function from order ids to orders.  Both walk sorted *)
(* slices in the code; here a slice is a sequence of ids in priority order.*)
(***************************************************************************)
EXTENDS Integers, Sequences, FiniteSets, SequencesExt, FiniteSetsExt, Functions

Lesser(a, b) == IF a <= b THEN a ELSE b
Distance(a, b) == IF a <= b THEN b - a ELSE a - b

\* The order AddOrder keeps: best price first, then the older sequence number.
Ahead(ab, o, p) ==
    \/ ab[o].price = ab[p].price /\ ab[o].seq < ab[p].seq
    \/ ab[o].side = "Bid" /\ ab[o].price > ab[p].price
    \/ ab[o].side = "Ask" /\ ab[o].price < ab[p].price

Bids(ab) == {o \in DOMAIN ab : ab[o].side = "Bid"}
Asks(ab) == {o \in DOMAIN ab : ab[o].side = "Ask"}

\* S as a sequence in the order R: the i-th has i - 1 before it.
Ranked(S, R) ==
    [i \in 1..Cardinality(S) |-> CHOOSE o \in S : Cardinality({p \in S : <<p, o>> \in R}) = i - 1]

InPriority(ab, S) == Ranked(S, {x \in S \X S : Ahead(ab, x[1], x[2])})
Volume(ab, S) == SumFunctionOnSet([o \in DOMAIN ab |-> ab[o].qty], S)

------------------------------------------------------------------------------
(* ComputeClearingPrice.                                                     *)

CumBid(ab, p) == Volume(ab, {o \in Bids(ab) : ab[o].price >= p})
CumAsk(ab, p) == Volume(ab, {o \in Asks(ab) : ab[o].price <= p})
ExecQty(ab, p) == Lesser(CumBid(ab, p), CumAsk(ab, p))
Imbalance(ab, p) == Distance(CumBid(ab, p), CumAsk(ab, p))

\* Fault: the first price at which anything trades is kept.
Improves_FirstCross(ab, ref, best, p) == best = 0 /\ ExecQty(ab, p) > 0

\* Fault: a larger imbalance wins.
Improves_Imbalance(ab, ref, best, p) ==
    /\ ExecQty(ab, p) > 0
    /\ \/ best = 0
       \/ ExecQty(ab, p) > ExecQty(ab, best)
       \/ ExecQty(ab, p) = ExecQty(ab, best) /\ Imbalance(ab, p) > Imbalance(ab, best)

\* Candidate p replaces the best price so far; 0 stands for none.
Improves(ab, ref, best, p) ==
    /\ ExecQty(ab, p) > 0
    /\ \/ best = 0
       \/ ExecQty(ab, p) > ExecQty(ab, best)
       \/ ExecQty(ab, p) = ExecQty(ab, best) /\ Imbalance(ab, p) < Imbalance(ab, best)
       \/ /\ ref # 0
          /\ ExecQty(ab, p) = ExecQty(ab, best)
          /\ Imbalance(ab, p) = Imbalance(ab, best)
          /\ Distance(p, ref) < Distance(best, ref)

\* The candidates are visited in ascending order; 0 when nothing crosses.
ComputeClearingPrice(ab, ref) ==
    LET quoted == {ab[o].price : o \in DOMAIN ab}
        best[p \in 0..Max(quoted)] ==
            IF p = 0 THEN 0
            ELSE LET b == best[p - 1]
                 IN  IF p \in quoted /\ Improves(ab, ref, b, p) THEN p ELSE b
    IN  IF Bids(ab) = {} \/ Asks(ab) = {} THEN 0 ELSE best[Max(quoted)]

------------------------------------------------------------------------------
(* Sweep: two cursors walk the eligible bids and asks.                       *)

EligibleBids(ab, p) == InPriority(ab, {o \in Bids(ab) : ab[o].price >= p})
EligibleAsks(ab, p) == InPriority(ab, {o \in Asks(ab) : ab[o].price <= p})

\* What is left of every order, where the cursors stand, and the fills.
SweepStart(ab) == [left |-> [o \in DOMAIN ab |-> ab[o].qty], bi |-> 1, ai |-> 1, fills |-> <<>>]

\* Fault: the bid's quantity is not compared with the ask's.
SweepStep_BidQty(p, bids, asks, w) ==
    LET bid == bids[w.bi]
        ask == asks[w.ai]
        q == w.left[ask]
    IN  IF w.left[bid] <= 0 THEN [w EXCEPT !.bi = @ + 1]
        ELSE IF w.left[ask] = 0 THEN [w EXCEPT !.ai = @ + 1]
        ELSE [left |-> [w.left EXCEPT ![bid] = @ - q, ![ask] = @ - q],
              bi |-> w.bi, ai |-> w.ai,
              fills |-> Append(w.fills, [maker |-> ask, taker |-> bid, price |-> p, qty |-> q])]

\* One iteration of the loop.
SweepStep(p, bids, asks, w) ==
    LET bid == bids[w.bi]
        ask == asks[w.ai]
        q == Lesser(w.left[bid], w.left[ask])
    IN  IF w.left[bid] = 0 THEN [w EXCEPT !.bi = @ + 1]
        ELSE IF w.left[ask] = 0 THEN [w EXCEPT !.ai = @ + 1]
        ELSE [left |-> [w.left EXCEPT ![bid] = @ - q, ![ask] = @ - q],
              bi |-> w.bi, ai |-> w.ai,
              fills |-> Append(w.fills, [maker |-> ask, taker |-> bid, price |-> p, qty |-> q])]

SweepEnds(bids, asks, w) == w.bi > Len(bids) \/ w.ai > Len(asks)

\* Each iteration advances a cursor or uses up an order, so this many are enough.
SweepResult(ab, p) ==
    LET bids == EligibleBids(ab, p)
        asks == EligibleAsks(ab, p)
        state[i \in 0..(2 * (Len(bids) + Len(asks)))] ==
            IF i = 0 THEN SweepStart(ab)
            ELSE LET w == state[i - 1]
                 IN  IF SweepEnds(bids, asks, w) THEN w ELSE SweepStep(p, bids, asks, w)
    IN  state[2 * (Len(bids) + Len(asks))]

Leftover(ab, p) == {o \in DOMAIN ab : SweepResult(ab, p).left[o] > 0}

\* The eligible orders first, bids before asks.
Unmatched(ab, p) ==
    LET kept == {o \in Leftover(ab, p) : ab[o].tif = "GTC"}
        bids == kept \cap Bids(ab)
        asks == kept \cap Asks(ab)
    IN  InPriority(ab, {o \in bids : ab[o].price >= p})
        \o InPriority(ab, {o \in asks : ab[o].price <= p})
        \o InPriority(ab, {o \in bids : ab[o].price < p})
        \o InPriority(ab, {o \in asks : ab[o].price > p})

Canceled(ab, p) == {o \in Leftover(ab, p) : ab[o].tif # "GTC"}
=============================================================================

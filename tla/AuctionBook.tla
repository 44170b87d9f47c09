---------------------------- MODULE AuctionBook ----------------------------
(***************************************************************************)
(* The auction book filled one order at a time, as AddOrder does, and what *)
(* ComputeClearingPrice and Sweep would make of it at any moment.          *)
(***************************************************************************)
EXTENDS Auction

CONSTANTS
    MaxOrders,
    Prices,
    Quantities,
    TIFs,
    ReferencePrice  \* AuctionConfig.ReferencePrice, 0 for none

ASSUME AuctionAssumption ==
    /\ MaxOrders \in Nat /\ ReferencePrice \in Nat
    /\ Prices \subseteq Nat \ {0} /\ IsFiniteSet(Prices)
    /\ Quantities \subseteq Nat \ {0}

AuctionOrder ==
    [side : {"Bid", "Ask"}, price : Prices, qty : Quantities, tif : TIFs, seq : 1..MaxOrders]

VARIABLE ab  \* the orders, named by their sequence numbers

Init == ab = <<>>

AddOrder(order) ==
    /\ Cardinality(DOMAIN ab) < MaxOrders
    /\ order.seq = Cardinality(DOMAIN ab) + 1
    /\ ab' = Append(ab, order)

Next == \E order \in AuctionOrder : AddOrder(order)

Spec == Init /\ [][Next]_ab

------------------------------------------------------------------------------
(* Properties.                                                               *)

ClearingPrice == ComputeClearingPrice(ab, ReferencePrice)
Swept == SweepResult(ab, ClearingPrice)

\* README, call auction: the clearing price maximises the executable volume, among all
\* prices and not only those somebody quotes; among the quoted prices of that volume it
\* leaves the smallest imbalance and is then nearest to the reference.
ClearingIsBest ==
    LET p == ClearingPrice
        quoted == {ab[o].price : o \in DOMAIN ab}
        tied == {q \in quoted : ExecQty(ab, q) = ExecQty(ab, p)}
        even == {q \in tied : Imbalance(ab, q) = Imbalance(ab, p)}
    IN  IF p = 0 THEN \A q \in quoted : ExecQty(ab, q) = 0
        ELSE /\ \A q \in 1..Max(Prices) : ExecQty(ab, q) <= ExecQty(ab, p)
             /\ \A q \in tied : Imbalance(ab, p) <= Imbalance(ab, q)
             /\ ReferencePrice # 0 =>
                    \A q \in even : Distance(p, ReferencePrice) <= Distance(q, ReferencePrice)

\* The sweep executes the whole executable volume, every fill between a bid and an ask
\* that accept the price, and fills nobody while an order of the same side with priority
\* still has quantity left.
SweepIsFair ==
    LET p == ClearingPrice
        w == Swept
        touched == {o \in DOMAIN ab : w.left[o] < ab[o].qty}
    IN  p # 0 =>
        /\ SumFunction([i \in DOMAIN w.fills |-> w.fills[i].qty]) = ExecQty(ab, p)
        /\ \A i \in DOMAIN w.fills :
              /\ w.fills[i].qty > 0
              /\ ab[w.fills[i].maker].price <= p
              /\ ab[w.fills[i].taker].price >= p
        /\ \A o \in touched, a \in DOMAIN ab :
              ab[a].side = ab[o].side /\ Ahead(ab, a, o) => w.left[a] = 0

\* README, call auction: what the auction leaves over goes to the continuous book, where
\* it cannot trade with itself: no leftover bid crosses a leftover ask.  The price and the
\* sweep promise this together.
NothingLeftCrosses ==
    LET left == Swept.left
    IN  \A b \in Bids(ab), a \in Asks(ab) :
            left[b] > 0 /\ left[a] > 0 => ab[b].price < ab[a].price
=============================================================================

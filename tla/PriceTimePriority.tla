------------------------- MODULE PriceTimePriority -------------------------
(***************************************************************************)
(* What a limit order book promises, without trees, queues, pools or       *)
(* counters: a set of resting orders and at most one order being executed  *)
(* (the taker).  A taker trades only with the resting order that has the   *)
(* best price and, at that price, the smallest sequence number; it stops   *)
(* only when nothing is left of it or nothing it may trade with; and only  *)
(* then may it rest.  OrderBook is shown to implement this module.         *)
(***************************************************************************)
EXTENDS Integers

CONSTANTS OrderIds, Users, Nil

VARIABLES
    resting,  \* id -> resting order
    taker,    \* the order being executed, or Nil
    clock     \* the last sequence number given out

vars == <<resting, taker, clock>>

Side == {"Bid", "Ask"}
Resting == [user : Users, side : Side, price : Nat, seq : Nat, qty : Nat,
            reserve : Nat, slice : Nat]
Taker == [id : OrderIds, user : Users, side : Side, market : BOOLEAN, price : Nat,
          tif : {"GTC", "GTD", "IOC", "FOK"}, seq : Nat, orig : Nat, qty : Nat,
          reserve : Nat, slice : Nat]

Lesser(a, b) == IF a <= b THEN a ELSE b
With(o, r) == [x \in DOMAIN resting \cup {o} |-> IF x = o THEN r ELSE resting[x]]
Without(o) == [x \in DOMAIN resting \ {o} |-> resting[x]]

Marketable(o) ==
    /\ resting[o].side # taker.side
    /\ \/ taker.market
       \/ taker.side = "Bid" /\ taker.price >= resting[o].price
       \/ taker.side = "Ask" /\ taker.price <= resting[o].price

\* m comes before o in the queue they share.
Before(m, o) ==
    \/ resting[m].price = resting[o].price /\ resting[m].seq < resting[o].seq
    \/ resting[m].side = "Bid" /\ resting[m].price > resting[o].price
    \/ resting[m].side = "Ask" /\ resting[m].price < resting[o].price

First(m) ==
    /\ m \in DOMAIN resting
    /\ \A o \in DOMAIN resting \ {m} : resting[o].side = resting[m].side => Before(m, o)

NothingToTrade == \A o \in DOMAIN resting : ~Marketable(o)

Init ==
    /\ resting = [o \in {} |-> Nil]
    /\ taker = Nil
    /\ clock = 0

------------------------------------------------------------------------------
\* An order arrives; its id rests nowhere.
Arrive ==
    /\ taker = Nil
    /\ taker' \in Taker
    /\ taker'.id \notin DOMAIN resting
    /\ taker'.seq = clock + 1
    /\ taker'.qty > 0
    /\ clock' = clock + 1
    /\ UNCHANGED resting

\* An order queues without executing, or is turned away.
Queue(o) ==
    /\ taker = Nil
    /\ o \notin DOMAIN resting
    /\ clock' = clock + 1
    /\ o \in DOMAIN resting' => /\ resting'[o] \in Resting
                                /\ resting'[o].seq = clock + 1
                                /\ resting' = With(o, resting'[o])
    /\ o \notin DOMAIN resting' => resting' = resting
    /\ UNCHANGED taker

Trade(m) ==
    /\ taker # Nil
    /\ taker.qty > 0
    /\ First(m)
    /\ Marketable(m)
    /\ LET r == resting[m]
           q == Lesser(r.qty, taker.qty)
           slice == Lesser(r.reserve, r.slice)
       IN  /\ taker' = [taker EXCEPT !.qty = @ - q]
           /\ \/ /\ q < r.qty
                 /\ resting' = With(m, [r EXCEPT !.qty = @ - q])
                 /\ clock' = clock
              \/ /\ q = r.qty /\ r.reserve = 0
                 /\ resting' = Without(m)
                 /\ clock' = clock
              \/ /\ q = r.qty /\ r.reserve > 0
                 /\ resting' = With(m, [r EXCEPT !.qty = slice, !.reserve = @ - slice,
                                                 !.seq = clock + 1])
                 /\ clock' = clock + 1

\* Self-trade prevention: instead of trading with the first order of the same user
\* one of the two gives way, or both do.
Prevent(m) ==
    /\ taker # Nil
    /\ taker.qty > 0
    /\ First(m)
    /\ Marketable(m)
    /\ resting[m].user = taker.user
    /\ \/ /\ resting' = Without(m)
          /\ \/ taker' = taker
             \/ taker' = [taker EXCEPT !.qty = 0]
             \/ /\ resting[m].qty <= taker.qty
                /\ taker' = [taker EXCEPT !.qty = @ - resting[m].qty]
       \/ /\ taker' = [taker EXCEPT !.qty = 0]
          /\ \/ resting' = resting
             \/ /\ resting[m].qty > taker.qty
                /\ resting' = With(m, [resting[m] EXCEPT !.qty = @ - taker.qty])
    /\ UNCHANGED clock

\* A fill-or-kill order may be killed whole; any other taker leaves when it is used up
\* or finds nothing to trade with.
Leave ==
    /\ taker # Nil
    /\ \/ taker.qty = 0
       \/ NothingToTrade
       \/ taker.tif = "FOK" /\ taker.qty = Lesser(taker.orig, taker.slice)
    /\ taker' = Nil
    /\ UNCHANGED <<resting, clock>>

Rest ==
    /\ taker # Nil
    /\ taker.qty > 0
    /\ ~taker.market
    /\ taker.tif # "IOC"
    /\ NothingToTrade
    /\ resting' = With(taker.id,
           [user |-> taker.user, side |-> taker.side, price |-> taker.price,
            seq |-> taker.seq, qty |-> taker.qty, reserve |-> taker.reserve,
            slice |-> taker.slice])
    /\ taker' = Nil
    /\ UNCHANGED clock

\* Cancelled or expired.
Withdraw(o) ==
    /\ taker = Nil
    /\ o \in DOMAIN resting
    /\ resting' = Without(o)
    /\ UNCHANGED <<taker, clock>>

Next ==
    \/ Arrive \/ Leave \/ Rest
    \/ \E o \in OrderIds : Queue(o) \/ Trade(o) \/ Prevent(o) \/ Withdraw(o)

Spec == Init /\ [][Next]_vars
=============================================================================

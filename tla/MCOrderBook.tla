---------------------------- MODULE MCOrderBook ----------------------------
(* Small instances of OrderBook: the sets of orders that may be submitted. *)
EXTENDS OrderBook

CONSTANTS o1, o2, o3, u1, u2

Order(u, s, type, tif, p, q, d, stp, t) ==
    [user |-> u, side |-> s, type |-> type, tif |-> tif, price |-> p, qty |-> q,
     display |-> d, stp |-> stp, expireAt |-> t]

Limit(u, s, tif, p, q) == Order(u, s, "Limit", tif, p, q, q, "Disabled", 0)

\* Every time in force, an iceberg, market orders, and every self-trade prevention mode,
\* taken from the taker or (CancelMaker) from the market.
BookCommands ==
    {Limit(u1, "Ask", "GTC", 1, 1), Limit(u2, "Ask", "GTC", 1, 1),
     Limit(u1, "Ask", "GTC", 2, 2), Limit(u1, "Bid", "GTC", 2, 1),
     Limit(u2, "Bid", "FOK", 1, 2),
     Order(u2, "Ask", "Limit", "GTC", 2, 3, 2, "Disabled", 0),
     Order(u1, "Bid", "Limit", "GTD", 1, 1, 1, "Disabled", 1),
     Order(u2, "Bid", "Limit", "GTC", 2, 2, 2, "CancelBoth", 0),
     Order(u2, "Bid", "Limit", "GTC", 2, 2, 2, "DecrementCancel", 0),
     Order(u2, "Bid", "Limit", "IOC", 2, 1, 1, "CancelTaker", 0),
     Order(u1, "Ask", "Market", "FOK", 0, 2, 2, "Disabled", 0),
     Order(u2, "Bid", "Market", "GTC", 0, 3, 3, "Disabled", 0)}

\* A fill-or-kill order against the user's own resting order and another's.
FOKCommands ==
    {Limit(u, "Ask", "GTC", 1, 1) : u \in {u1, u2}}
    \cup {Limit(u1, "Bid", "FOK", 1, 2)}

\* An iceberg that trades on arrival.
IcebergCommands ==
    {Limit(u1, "Ask", "GTC", 1, q) : q \in 1..2}
    \cup {Limit(u1, "Bid", "GTC", 1, 2),
          Order(u1, "Bid", "Limit", "GTC", 1, 2, 1, "Disabled", 0)}
=============================================================================

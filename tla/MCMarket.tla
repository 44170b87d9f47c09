------------------------------ MODULE MCMarket ------------------------------
(* Small instances of Market: the commands each order id may be sent with.   *)
EXTENDS Market

CONSTANTS o1, o2, o3, o4, o5, u1, u2

Cmd(o, u, s, p, trigger, q, tif, flag, t) ==
    [id |-> o, user |-> u, side |-> s, price |-> p, trigger |-> trigger, qty |-> q,
     tif |-> tif, flag |-> flag, expireAt |-> t]

Limit(o, u, s, p, q) == Cmd(o, u, s, p, 0, q, "GTC", "None", 0)

\* Asks at rising prices, a buyer, and stops that fire one another.
CascadeCommands ==
    {Limit(o1, u1, "Ask", 1, 1), Limit(o1, u1, "Bid", 1, 1), Limit(o2, u1, "Ask", 2, 2)}
    \cup {Cmd(o3, u2, "Bid", 0, 1, 1, "IOC", "None", 0)}
    \cup {Cmd(o4, u2, "Bid", 2, 2, 1, "GTC", "None", 0), Cmd(o4, u1, "Ask", 2, 2, 1, "GTC", "None", 0)}
    \cup {Cmd(o5, u2, "Bid", 0, 0, 1, "IOC", "None", 0), Cmd(o5, u2, "Ask", 0, 0, 1, "FOK", "ReduceOnly", 0)}

\* Two orders at one price and a buyer who takes one of them.
PriorityCommands ==
    {Limit(o1, u1, "Ask", 1, 1), Limit(o2, u1, "Ask", 1, 1), Limit(o3, u2, "Bid", 1, 1)}

\* Both sides of an auction at overlapping prices, a good-till-date order, a post-only
\* order, and a stop; the stop has an id of its own (see the README).
AuctionCommands ==
    {Limit(o1, u1, "Bid", 2, q) : q \in 1..2}
    \cup {Limit(o2, u2, "Ask", p, 2) : p \in 1..2}
    \cup {Cmd(o3, u2, "Bid", 2, 0, 1, "IOC", "None", 0),
          Cmd(o3, u1, "Ask", 2, 0, 1, "GTD", "PostOnly", 1)}
    \cup {Cmd(o4, u2, "Bid", 0, 2, 1, "GTD", "None", 1)}

\* The conditions of SeparateIdsSuffice and SeparateIdsTell.
ASSUME IdsAssumption == StopIdsApart /\ MarketIdsApart
=============================================================================

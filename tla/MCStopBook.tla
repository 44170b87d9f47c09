----------------------------- MODULE MCStopBook -----------------------------
(* A small instance of StopBook: sells of one user, buys of another.         *)
EXTENDS StopBook, TLC

CONSTANTS o1, o2, o3, o4, u1, u2

MCStops ==
    [user : {u1}, side : {"Ask"}, trigger : Prices, expireAt : 0..1]
    \cup [user : {u2}, side : {"Bid"}, trigger : Prices, expireAt : {0}]
    \cup [user : {u2}, side : {"Bid"}, trigger : {1}, expireAt : {1}]

Renamings == Permutations(OrderIds)
=============================================================================

--------------------------- MODULE MCAuctionBook ---------------------------
(* Every auction book of at most MaxOrders orders.                           *)
EXTENDS AuctionBook
=============================================================================

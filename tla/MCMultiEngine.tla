--------------------------- MODULE MCMultiEngine ---------------------------
(* A small instance of MultiEngine.                                          *)
EXTENDS MultiEngine

CONSTANTS m1, m2, k1, k2
=============================================================================

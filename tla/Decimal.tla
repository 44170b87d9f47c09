------------------------------- MODULE Decimal -------------------------------
(***************************************************************************)
(* Fixed-point arithmetic (types.Decimal): a decimal is its raw integer,   *)
(* at a precision that the caller knows.  Raw integers are machine words:  *)
(* a product of two of them wraps around without notice.                   *)
(***************************************************************************)
EXTENDS Integers

CONSTANT MaxInt \* the largest machine integer, 2^63 - 1 in the code

ASSUME MaxIntAssumption == MaxInt \in Nat

\* Two's complement: what a word holds of the integer n.
Wrap(n) == ((n + MaxInt + 1) % (2 * (MaxInt + 1))) - (MaxInt + 1)

\* Decimal.Abs: the smallest word is its own negation.
Magnitude(n) == IF n < 0 THEN Wrap(-n) ELSE n

\* The quotient of words, truncated toward zero.
Quotient(a, b) == IF a >= 0 THEN a \div b ELSE -((-a) \div b)

\* Decimal.Div by a positive decimal of the same precision, where scale is ten to the
\* power of the precision of the result.  The numerator is a word.
Div(a, b, scale) == Quotient(Wrap(a * scale), b)
=============================================================================

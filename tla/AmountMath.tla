----------------------------- MODULE AmountMath -----------------------------
(***************************************************************************)
(* Arithmetic on AFC base units, the way the protocol package does it:     *)
(* sums over a record of amounts, and Math.round of a quotient.  Amounts   *)
(* are integers; the largest one, the total supply of 2.1 * 10^15 base     *)
(* units, is below 2^53, so JavaScript numbers represent them exactly.     *)
(***************************************************************************)
EXTENDS Integers

\* w[1] + ... + w[n]: sumRecord over a record whose n entries are numbered.
SumTo(w, n) ==
  LET acc[k \in 0 .. n] == IF k = 0 THEN 0 ELSE acc[k - 1] + w[k]
  IN  acc[n]

\* Math.round(num / den) for den > 0: the nearest integer, halves upwards.
Round(num, den) == (2 * num + den) \div (2 * den)

\* Math.min and Math.max of two amounts.
Lesser(x, y) == IF x <= y THEN x ELSE y
Greater(x, y) == IF x >= y THEN x ELSE y
=============================================================================

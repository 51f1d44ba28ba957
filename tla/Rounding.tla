------------------------------- MODULE Rounding -------------------------------
(* round() of a quotient: to the nearest integer, a tie to the even one. *)
EXTENDS Integers

\* n / d to the nearest integer, d positive.
Rounded(n, d) ==
  LET up == (2 * n + d) \div (2 * d)
      isTie == (2 * n + d) % (2 * d) = 0
  IN  IF isTie /\ up % 2 = 1 THEN up - 1 ELSE up
===============================================================================

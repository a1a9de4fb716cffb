------------------------------- MODULE Powers --------------------------------
(***************************************************************************)
(* Powers as a function of the exponent: the weights of bits and digits.   *)
(***************************************************************************)
EXTENDS Integers

\* b^0, b^1, ..., b^m.
Powers(b, m) ==
  LET p[n \in 0 .. m] == IF n = 0 THEN 1 ELSE b * p[n - 1] IN p
=============================================================================

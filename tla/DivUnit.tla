-------------------------------- MODULE DivUnit ------------------------------
(***************************************************************************)
(* rtl/core/div_unit.sv: the iterative divider, one quotient bit per     *)
(* clock edge, for W-bit operands.  All assignments of an edge read the    *)
(* registers of before the edge, also where the code subtracts from the    *)
(* remainder it has just shifted.                                          *)
(***************************************************************************)
EXTENDS Powers

CONSTANT W   \* operand width (64 in the code)

ASSUME WidthAssumption == W \in Nat \ {0}

Pow2    == Powers(2, W)
Val     == 0 .. (Pow2[W] - 1)
AllOnes == Pow2[W] - 1
MinInt  == Pow2[W - 1]

VARIABLE div   \* state and registers

DivTypeOK ==
  div \in [st : {"IDLE", "RUN", "FINISH"},
           dividend : Val, divisor : Val, a_neg : BOOLEAN, b_neg : BOOLEAN,
           hi : Val, lo : Val, quot : Val, bit_idx : 0 .. W,
           q : Val, r : Val, done : BOOLEAN]

\* A divider at rest.  What the registers of an earlier division hold is
\* written before it is read; only the results stay on the wires.
Rest(q, r, done) ==
  [st |-> "IDLE", dividend |-> 0, divisor |-> 0, a_neg |-> FALSE,
   b_neg |-> FALSE, hi |-> 0, lo |-> 0, quot |-> 0, bit_idx |-> 0,
   q |-> q, r |-> r, done |-> done]

DivInit == div = Rest(0, 0, FALSE)

\* Mutant: the carry of the negation is kept.
NegWithCarry(x) == Pow2[W] - x

Neg(x)          == (Pow2[W] - x) % Pow2[W]
IsNeg(x)        == x >= MinInt
BitOf(x, i)     == (x \div Pow2[i]) % 2
SetBit(x, i, b) == x + (b - BitOf(x, i)) * Pow2[i]

\* busy, done, y.
div_busy       == div.st # "IDLE"
div_y(is_rem)  == IF is_rem THEN div.r ELSE div.q

-----------------------------------------------------------------------------
DivStart(sgn, a, b) ==
  /\ div.st = "IDLE"
  /\ div' = [Rest(div.q, div.r, FALSE) EXCEPT
               !.st = "RUN",
               !.a_neg = sgn /\ IsNeg(a), !.b_neg = sgn /\ IsNeg(b),
               !.dividend = IF sgn /\ IsNeg(a) THEN Neg(a) ELSE a,
               !.divisor  = IF sgn /\ IsNeg(b) THEN Neg(b) ELSE b,
               !.bit_idx = W]

\* Mutant: quotient and remainder swapped.
DivByZeroSwapped(a) ==
  /\ div.st = "RUN" /\ div.divisor = 0
  /\ div' = [div EXCEPT !.st = "FINISH", !.q = a, !.r = AllOnes]

\* The two special cases; a and b are the wires as they are now.
DivByZero(a) ==
  /\ div.st = "RUN" /\ div.divisor = 0
  /\ div' = [div EXCEPT !.st = "FINISH", !.q = AllOnes, !.r = a]

DivOverflow(sgn, a, b) ==
  /\ div.st = "RUN" /\ div.divisor # 0
  /\ sgn /\ a = MinInt /\ b = AllOnes
  /\ div' = [div EXCEPT !.st = "FINISH", !.q = MinInt, !.r = 0]

\* One step: the remainder shifts in the next dividend bit, but where the
\* subtraction is done its high half is the old one less the divisor.
Step ==
  LET sub == div.hi >= div.divisor
      i   == div.bit_idx - 1
  IN [div EXCEPT
        !.lo   = (2 * @ + BitOf(div.dividend, i)) % Pow2[W],
        !.hi   = IF sub THEN @ - div.divisor
                 ELSE (2 * @ + BitOf(div.lo, W - 1)) % Pow2[W],
        !.quot = SetBit(@, i, IF sub THEN 1 ELSE 0),
        !.bit_idx = i]

\* In the last step the results are taken from the registers as they were
\* before it.
Signed(neg, x) == IF neg THEN Neg(x) ELSE x

DivStep(sgn, a, b) ==
  /\ div.st = "RUN" /\ div.divisor # 0
  /\ ~(sgn /\ a = MinInt /\ b = AllOnes)
  /\ div' = IF div.bit_idx # 1 THEN Step
            ELSE [Step EXCEPT
                    !.st = "FINISH",
                    !.q = Signed(sgn /\ div.a_neg # div.b_neg, div.quot),
                    !.r = Signed(sgn /\ div.a_neg, div.hi)]

\* Mutant: done is never raised.
DivFinishSilent ==
  /\ div.st = "FINISH"
  /\ div' = Rest(div.q, div.r, FALSE)

DivFinish ==
  /\ div.st = "FINISH"
  /\ div' = Rest(div.q, div.r, TRUE)

DivIdle ==
  /\ div.st = "IDLE"
  /\ div' = [div EXCEPT !.done = FALSE]

\* One clock edge, on the wires start, is_signed, a and b.
DivEdge(start, sgn, a, b) ==
  \/ start /\ DivStart(sgn, a, b)
  \/ DivByZero(a)
  \/ DivOverflow(sgn, a, b)
  \/ DivStep(sgn, a, b)
  \/ DivFinish
  \/ ~start /\ DivIdle

-----------------------------------------------------------------------------
(* What DIV[U] and REM[U] return, as the RISC-V manual defines them: the    *)
(* quotient is rounded towards zero, the remainder has the dividend's sign. *)
Magnitude(s, x) == IF s /\ IsNeg(x) THEN Neg(x) ELSE x

Quotient(s, a, b) ==
  IF b = 0 THEN AllOnes
  ELSE Signed(s /\ IsNeg(a) # IsNeg(b), Magnitude(s, a) \div Magnitude(s, b))

Remainder(s, a, b) ==
  IF b = 0 THEN a
  ELSE Signed(s /\ IsNeg(a), Magnitude(s, a) % Magnitude(s, b))
=============================================================================

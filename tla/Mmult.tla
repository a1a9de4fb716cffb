-------------------------------- MODULE Mmult --------------------------------
(***************************************************************************)
(* mmult.c: S = A B for the identity A and B[k][j] = j, both DIM x DIM,    *)
(* where the multiplication of two elements is times(), by shift and add.  *)
(* A step is one round of a loop.  Only the element s of S that is being   *)
(* summed is kept: no other is read again.                                 *)
(***************************************************************************)
EXTENDS Integers

CONSTANT DIM    \* DIM_SIZE

ASSUME DimAssumption == DIM \in Nat \ {0}

VARIABLES
  mpc,                 \* "loop", "times", "done"
  mi, mj, mk, s, sum,  \* mmult()
  ta, tb, product      \* times()

mmultVars == <<mpc, mi, mj, mk, s, sum, ta, tb, product>>

A(i, k) == IF i = k THEN 1 ELSE 0
B(k, j) == j

MmultInit(pc) ==
  /\ mpc = pc /\ mi = 0 /\ mj = 0 /\ mk = 0 /\ s = 0 /\ sum = 0
  /\ ta = 0 /\ tb = 0 /\ product = 0

MmultMain(pc) ==
  /\ mpc' = pc /\ mi' = 0 /\ mj' = 0 /\ mk' = 0 /\ s' = 0 /\ sum' = 0
  /\ ta' = 0 /\ tb' = 0 /\ product' = 0

\* The absolute values of the operands; the sign is put back at the end.
Abs(x) == IF x < 0 THEN -x ELSE x
Signed(x, a, b) == IF (a < 0) # (b < 0) THEN -x ELSE x

CallTimes ==
  /\ mpc = "loop" /\ mi < DIM /\ mj < DIM /\ mk < DIM
  /\ mpc' = "times" /\ ta' = Abs(A(mi, mk)) /\ tb' = Abs(B(mk, mj)) /\ product' = 0
  /\ UNCHANGED <<mi, mj, mk, s, sum>>

TimesRound ==
  /\ mpc = "times" /\ tb # 0
  /\ product' = IF tb % 2 = 1 THEN product + ta ELSE product
  /\ ta' = 2 * ta /\ tb' = tb \div 2
  /\ UNCHANGED <<mpc, mi, mj, mk, s, sum>>

TimesReturns ==
  /\ mpc = "times" /\ tb = 0
  /\ mpc' = "loop" /\ mk' = mk + 1
  /\ s' = s + Signed(product, A(mi, mk), B(mk, mj))
  /\ UNCHANGED <<mi, mj, sum, ta, tb, product>>

ElementEnds ==
  /\ mpc = "loop" /\ mi < DIM /\ mj < DIM /\ mk >= DIM
  /\ sum' = sum + s /\ mj' = mj + 1 /\ mk' = 0 /\ s' = 0
  /\ UNCHANGED <<mpc, mi, ta, tb, product>>

RowEnds ==
  /\ mpc = "loop" /\ mi < DIM /\ mj >= DIM
  /\ mi' = mi + 1 /\ mj' = 0
  /\ UNCHANGED <<mpc, mk, s, sum, ta, tb, product>>

MmultEnds ==
  /\ mpc = "loop" /\ mi >= DIM
  /\ mpc' = "done"
  /\ UNCHANGED <<mi, mj, mk, s, sum, ta, tb, product>>

mmult == CallTimes \/ TimesRound \/ TimesReturns \/ ElementEnds \/ RowEnds \/ MmultEnds

MmultSpec == MmultInit("loop") /\ [][mmult]_mmultVars

-----------------------------------------------------------------------------
\* What mmult() returns is the sum of all elements of B: DIM rows of 0 .. DIM-1.
SumIsThatOfB == mpc = "done" => 2 * sum = DIM * (DIM * (DIM - 1))
=============================================================================

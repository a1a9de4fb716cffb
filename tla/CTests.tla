------------------------------- MODULE CTests --------------------------------
(***************************************************************************)
(* The test programs of c_tests, which a test bench runs in the place of   *)
(* the BIOS: each computes something, writes 1 to the tohost register if   *)
(* it is what the source says and 2 if not, and then spins.  A step is one *)
(* round of a loop; loops that only fill arrays are part of the start.     *)
(* Element i of an array is x[i + 1].                                      *)
(***************************************************************************)
EXTENDS Integers, SequencesExt

CONSTANT FIBELTS    \* elements that fib computes (150, with wrap-around)

ASSUME FibAssumption == FIBELTS \in 36 .. 46

VARIABLE tst   \* the test that runs: its name, the tohost register, the loop
              \* counter i, the array x, and the other array, or a sum, y

Tests == {"sum", "replace", "vecadd", "cachetest", "fib", "strcmp"}

NUMELTS == 64
SIZE_vecadd == 1024
PRBS == 10
NUMELTS_cachetest == 2 ^ PRBS - 1

Begun(t, i, x, y) == [test |-> t, tohost |-> 0, i |-> i, x |-> x, y |-> y]

NoTest == Begun("none", 0, <<>>, 0)

\* The state in which main() has filled the arrays.
Main(t) ==
  CASE t \in {"sum", "replace"} -> Begun(t, 0, [k \in 1 .. NUMELTS |-> k],
                                               [k \in 1 .. NUMELTS |-> 0])
    [] t = "vecadd" -> Begun(t, 0, [k \in 1 .. SIZE_vecadd |-> k], 0)   \* C; A is all 1
    [] t = "cachetest" -> Begun(t, 0, <<1>>, 0)
    [] t = "fib" -> Begun(t, 0, <<0, 1>>, 0)
    [] t = "strcmp" -> Begun(t, 0, "EECS151", "EECS151")

\* One round of the loops, counting on, with the arrays as they are after it.
Running(t) == tst.test = t /\ tst.tohost = 0
Round(i, x, y) == tst' = [tst EXCEPT !.i = i, !.x = x, !.y = y]

\* y[i] is the sum of x[0] to x[i].
Summed == [tst.y EXCEPT ![tst.i + 1] = FoldLeft(+, 0, SubSeq(tst.x, 1, tst.i + 1))]

sum_round ==
  Running("sum") /\ tst.i < NUMELTS /\ Round(tst.i + 1, tst.x, Summed)

\* The same in four loops, each over every fourth element.
\* Mutant: goes on after the fourth.
NextReplaced_always(i) == IF i + 4 < NUMELTS THEN i + 4 ELSE (i % 4) + 1
NextReplaced(i) ==
  IF i + 4 < NUMELTS THEN i + 4 ELSE IF i % 4 < 3 THEN (i % 4) + 1 ELSE NUMELTS

replace_round ==
  Running("replace") /\ tst.i < NUMELTS /\ Round(NextReplaced(tst.i), tst.x, Summed)

vecadd_round ==
  /\ Running("vecadd") /\ tst.i < SIZE_vecadd
  /\ Round(tst.i + 1, tst.x, tst.y + tst.x[tst.i + 1])

\* The next number of a shift register with feedback.  Each of its numbers is
\* added twice, once from the front and once from the back.
Shifted(v) ==
  LET low == (v \div 2) % 2 ^ (PRBS - 1)
      feedback == (v + (v \div 2)) % 2
  IN low + feedback * 2 ^ (PRBS - 1)

cachetest_round ==
  /\ Running("cachetest")
  /\ IF Len(tst.x) < NUMELTS_cachetest
     THEN Round(0, Append(tst.x, Shifted(Last(tst.x))), tst.y)
     ELSE /\ tst.i < NUMELTS_cachetest
          /\ Round(tst.i + 1, tst.x,
                   tst.y + tst.x[tst.i + 1] + tst.x[NUMELTS_cachetest - tst.i])

fib_round ==
  LET n == Len(tst.x)
  IN Running("fib") /\ n < FIBELTS /\ Round(0, Append(tst.x, tst.x[n] + tst.x[n - 1]), 0)

\* The comparison behind the loops, by assert_equals() or in place.
Passed(t) ==
  CASE t \in {"sum", "replace"} -> tst.y[NUMELTS] = 2080
    [] t = "vecadd" -> tst.y = 8 * 16 ^ 4 + 2 * 16 ^ 2     \* 0x80200
    [] t = "cachetest" -> tst.y = 1011556
    [] t = "fib" -> tst.x[36] = 9227465
    [] t = "strcmp" -> tst.x = tst.y

Over(t) ==
  CASE t \in {"sum", "replace"} -> tst.i = NUMELTS
    [] t = "vecadd" -> tst.i = SIZE_vecadd
    [] t = "cachetest" -> tst.i = NUMELTS_cachetest
    [] t = "fib" -> Len(tst.x) = FIBELTS
    [] t = "strcmp" -> TRUE

csr_tohost ==
  \E t \in Tests :
    /\ Running(t) /\ Over(t)
    /\ tst' = [tst EXCEPT !.tohost = IF Passed(t) THEN 1 ELSE 2]

TestRound ==
  sum_round \/ replace_round \/ vecadd_round \/ cachetest_round \/ fib_round \/ csr_tohost
=============================================================================

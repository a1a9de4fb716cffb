------------------------------ MODULE Firmware -------------------------------
(***************************************************************************)
(* The software on the system: the BIOS, the programs that it loads and    *)
(* starts, and the test programs that a test bench runs in its place.  A   *)
(* program owns the processor from its start until it jumps back to the    *)
(* BIOS.  A reset may come at any time; main() of a program prepares all   *)
(* the memory that the program reads, so what an interrupted run has left  *)
(* behind is not kept here.                                                *)
(***************************************************************************)
EXTENDS Bios, Sorts, Mmult, Bdd, CTests

ASSUME ProgramsAssumption == Programs = {"bsort", "ssort", "mmult", "bdd"}

programVars == <<bsortVars, ssortVars, mmultVars, bddVars>>
vars == <<biosVars, programVars, tst>>

Init ==
  /\ BsortInit("off") /\ SsortInit("off") /\ MmultInit("off") /\ BddInit("off")
  /\ \/ BiosInit /\ tst = NoTest
     \/ /\ Idle("test") /\ mem = [k \in Cells |-> 0]
        /\ \E t \in Tests : tst = Main(t)

ProgramsOff == BsortMain("off") /\ SsortMain("off") /\ MmultMain("off") /\ BddMain("off")

\* The BIOS takes a character.  If it starts a program, that runs its main().
Begins(p, main, v) == IF running' = p THEN main ELSE UNCHANGED v

BiosActs ==
  /\ BiosStep
  /\ Begins("bsort", BsortMain("sort"), bsortVars)
  /\ Begins("ssort", SsortMain("scan"), ssortVars)
  /\ Begins("mmult", MmultMain("loop"), mmultVars)
  /\ Begins("bdd", BddMain("rows"), bddVars)
  /\ UNCHANGED tst

\* A step of what runs.
ProgramRuns ==
  /\ \/ bubble_sort /\ UNCHANGED <<ssortVars, mmultVars, bddVars, tst>>
     \/ selection_sort /\ UNCHANGED <<bsortVars, mmultVars, bddVars, tst>>
     \/ mmult /\ UNCHANGED <<bsortVars, ssortVars, bddVars, tst>>
     \/ BddCountNodesArray /\ UNCHANGED <<bsortVars, ssortVars, mmultVars, tst>>
     \/ TestRound /\ UNCHANGED programVars
  /\ UNCHANGED biosVars

BddRuns == bdd_rows /\ UNCHANGED <<biosVars, bsortVars, ssortVars, mmultVars, tst>>

\* run_and_time() prints the result, and main() jumps to the BIOS.
run_and_time(p, over, result) ==
  /\ running = p /\ over
  /\ MainStarts(Typed(p, <<>>, <<result>>))
  /\ ProgramsOff /\ UNCHANGED tst

ProgramEnds ==
  \/ run_and_time("bsort", bpc = "done", compare_arrays(barray))
  \/ run_and_time("ssort", spc = "done", compare_arrays(sarray))
  \/ run_and_time("mmult", mpc = "done", sum)
  \/ run_and_time("bdd", dpc = "done", bddResult)

Reset ==
  \/ running # "test" /\ MainStarts(Nothing) /\ ProgramsOff /\ UNCHANGED tst
  \/ running = "test" /\ tst' = Main(tst.test) /\ UNCHANGED <<biosVars, programVars>>

Next == BiosActs \/ ProgramRuns \/ BddRuns \/ ProgramEnds \/ Reset

Spec == Init /\ [][Next]_vars

\* The processor runs.  Nothing is assumed of who types.  The last conjunct is
\* WF_vars(BddRuns) with the condition that enables BddRuns written out.
FairSpec ==
  /\ Spec
  /\ WF_vars(ProgramRuns) /\ WF_vars(ProgramEnds)
  /\ []<>(dpc # "rows" \/ m = 0) \/ []<><<BddRuns>>_vars

-----------------------------------------------------------------------------
\* Every program prints the result its source gives: no mismatch for the sorts,
\* the sum of B for mmult (0xe0 for DIM 8), and as many nodes as the table has
\* places for bdd (0x4f for N 4).  No test program reports a failure.
SortsReport == last.cmd \in {"bsort", "ssort"} => last.printed = <<0>>
ProductReported == last.cmd = "mmult" => 2 * last.printed[1] = DIM * (DIM * (DIM - 1))
NodesReported == last.cmd = "bdd" => last.printed = <<ALLOC>>

ProgramsReport ==
  SortsReport /\ ProductReported /\ NodesReported /\ tst.tohost # 2

\* A program returns to the BIOS and a test program reports, unless resets keep
\* coming.
ProgramsEnd ==
  <>[][~Reset]_vars => (running # "bios" ~> running = "bios" \/ tst.tohost # 0)
=============================================================================

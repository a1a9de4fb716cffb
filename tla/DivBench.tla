-------------------------------- MODULE DivBench -----------------------------
(***************************************************************************)
(* The divider with its test bench, tb/tb_div_unit.sv: operands are put on *)
(* the wires with a one-cycle start pulse and stay there until done; then  *)
(* the answer is compared.                                                 *)
(***************************************************************************)
EXTENDS DivUnit

VARIABLE tb   \* the phase of do_div, and is_rem, is_signed, a, b

vars == <<div, tb>>

Phases == {"start", "wait", "compare"}

TypeOK ==
  /\ DivTypeOK
  /\ tb \in [phase : Phases, rem : BOOLEAN, sgn : BOOLEAN, a : Val, b : Val]

Calls == [phase : {"start"}, rem : BOOLEAN, sgn : BOOLEAN, a : Val, b : Val]

Init == DivInit /\ tb \in Calls

\* One clock edge of the test bench.
TbEdge ==
  \/ tb.phase = "start" /\ tb' = [tb EXCEPT !.phase = "wait"]
  \/ tb.phase = "wait" /\ tb' = [tb EXCEPT !.phase = IF div.done THEN "compare" ELSE @]
  \/ tb.phase = "compare" /\ tb' \in Calls

Next == TbEdge /\ DivEdge(tb.phase = "start", tb.sgn, tb.a, tb.b)

Spec == Init /\ [][Next]_vars

-----------------------------------------------------------------------------
\* tb_div_unit.sv:43, `if (y !== exp)`: the answer is the quotient or the
\* remainder, for every pair of operands.
AnswersAsExpected ==
  tb.phase = "compare" =>
    div_y(tb.rem) = IF tb.rem THEN Remainder(tb.sgn, tb.a, tb.b)
                    ELSE Quotient(tb.sgn, tb.a, tb.b)
=============================================================================

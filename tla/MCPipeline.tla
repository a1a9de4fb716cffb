------------------------------ MODULE MCPipeline -----------------------------
EXTENDS PipelineHistory

I(op, rd, a, b) == [op |-> op, rd |-> rd, rs |-> <<a, b>>]

\* A program on integer registers, one of which every kind of producer writes
\* and every kind of consumer reads; x0 is a source that is not used.
IntInstrs ==
  { I("alu", 1, 1, 0), I("word", 1, 0, 0), I("div", 1, 1, 0), I("load", 1, 1, 0),
    I("store", 0, 0, 1) }

\* A program on the ciphertext register e0, which enables and disables SE.
SeInstrs ==
  { I("se", 0, 0, 0), I("se_ld", 0, 0, 0), I("se_sd", 0, 0, 0), I("csr", 0, 0, 0) }

\* The two kinds of program are explored side by side, not mixed.
DataInstrs == IntInstrs \union SeInstrs
Runs(instrs) == {if2.i, id.i, ex1.i} \subseteq instrs \union {Bubble}
OneKind ==
  \/ Runs(IntInstrs) /\ ~seEnable /\ arch["e"][0] = 0 /\ rf["e"][0] = 0
     /\ mem1.file # "e" /\ ex2.file # "e" /\ wb.file # "e"
  \/ Runs(SeInstrs) /\ arch["x"][1] = 0 /\ rf["x"][1] = 0
     /\ mem1.file # "x" /\ ex2.file # "x" /\ wb.file # "x"

\* Instructions that move the pc, trap, write CSRs, or hold EX1 or MEM1.
ControlInstrs ==
  { I("branch", 0, 0, 0), I("mret", 0, 0, 0), I("trap", 0, 0, 0),
    I("csr", 0, 0, 0), I("load", 0, 0, 0), I("div", 0, 0, 0) }

\* A load and an instruction that uses what it loaded.
LoadUseInstrs == { I("load", 1, 0, 0), I("alu", 0, 1, 0) }
=============================================================================

------------------------------ MODULE MCLongOps ------------------------------
EXTENDS LongOps

\* Keystreams that differ between counters 0 and 1.
MCKS     == [k \in Keys |-> [c \in Ctrs |-> IF c = 1 THEN Bits ELSE {}]]
MCFpCalc == [p \in Payload \X Payload |-> p[1] \ p[2]]

\* One integer and one floating-point operation.
MCSeReqs ==
  {[op |-> "SEOP_XOR", a |-> [ctr |-> 0, pay |-> {}], b |-> [ctr |-> 1, pay |-> {}]],
   [op |-> "SEOP_FADD", a |-> [ctr |-> 1, pay |-> Bits], b |-> [ctr |-> 0, pay |-> {}]]}
=============================================================================

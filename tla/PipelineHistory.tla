--------------------------- MODULE PipelineHistory ---------------------------
(***************************************************************************)
(* What the pipeline owes to the program.  The program's order is the      *)
(* order in which instructions leave EX1.  History variables, which        *)
(* influence nothing, follow it: the registers and the next pc as the      *)
(* program has them, the instructions on their way to retirement, and the  *)
(* operands of EX1 whose register was written after they were read.        *)
(***************************************************************************)
EXTENDS Pipeline

VARIABLES
  arch,    \* the registers after the instructions that left EX1
  expect,  \* the pc of the next instruction of the program
  flying,  \* instructions that left EX1 less instructions counted in instret
  missed   \* sources of EX1 written back after ID read them, and not since

hvars == <<vars, arch, expect, flying, missed>>

HInit ==
  /\ Init
  /\ arch = rf /\ expect = pc /\ flying = 0 /\ missed = {}

-----------------------------------------------------------------------------
Entering(misaligned) == ex1_to_mem1(misaligned) /\ ~mem1_fault_trap

\* The result of an instruction is the program's when it leaves EX1, that of a
\* load when the memory has answered; nothing leaves EX1 in between.
Result(stage) == IF stage.op = "word" THEN Sext(stage.res) ELSE stage.res
Produces(misaligned) ==
  \/ Entering(misaligned) /\ mem1'.op \notin Loads
  \/ mem1.op \in Loads /\ mem1.access = "sent" /\ mem1'.access = "ok"
ArchStep(misaligned) ==
  arch' = IF Produces(misaligned) /\ mem1'.file # "none"
          THEN [arch EXCEPT ![mem1'.file] = [@ EXCEPT ![mem1'.rd] = Result(mem1')]]
          ELSE arch

ExpectStep(target, misaligned, fault) ==
  expect' = IF trap_enter(misaligned, fault) THEN mtvec
            ELSE IF ex1_commit_en THEN act_next_pc(target) ELSE expect

\* WB retires one instruction on every edge on which it holds one.
FlyingStep(misaligned) ==
  flying' = flying + (IF Entering(misaligned) THEN 1 ELSE 0)
                   - (IF wb.valid THEN 1 ELSE 0)
                   - (IF mem1_fault_trap THEN 1 ELSE 0)

\* The register of source k of instruction i is written on this edge.
Overwritten(i, k) ==
  LET f == ReadFile(i, k) IN f # "none" /\ wb.file = f /\ wb.rd = i.rs[k]
MissedStep(redir) ==
  missed' = IF ~ex1_enable THEN missed \union {k \in Source : Overwritten(ex1.i, k)}
            ELSE IF redir \/ stall_id THEN {}
            ELSE {k \in Source : Overwritten(id.i, k)}

HClock(target, misaligned, fault) ==
  /\ Clock(target, misaligned, fault)
  /\ ArchStep(misaligned)
  /\ ExpectStep(target, misaligned, fault)
  /\ FlyingStep(misaligned)
  /\ MissedStep(redirect(target, misaligned, fault))

HNext == \E target \in Targets, misaligned \in Misaligned, fault \in Faults :
           HClock(target, misaligned, fault)

HSpec == HInit /\ [][HNext]_hvars

-----------------------------------------------------------------------------
\* The instruction in EX1 uses its operands on the edge on which it leaves, one
\* for a long-latency unit before the unit has started.
UsesNow ==
  IF ex1.i.op \in LongOps THEN ex1.unit = "idle" ELSE ex1_commit_en

\* The value source k should have, and the producers from which EX1 does not
\* forward: a load in MEM1, and every writer of a ciphertext register.
Wanted(k) == arch[ReadFile(ex1.i, k)][ex1.i.rs[k]]
LoadOwes(k) ==
  ReadFile(ex1.i, k) = "x" /\ mem1.op = "load" /\ Writes(mem1, ex1.i.rs[k])
CiphertextOwed(k) ==
  /\ ReadFile(ex1.i, k) = "e"
  /\ \E stage \in {mem1, ex2, wb} : stage.file = "e" /\ stage.rd = ex1.i.rs[k]
Unextended(k) ==
  \/ fwd_sel(k) = "MEM1" /\ mem1.op = "word"
  \/ fwd_sel(k) = "EX2" /\ ex2.word

\* An operand that EX1 takes from MEM1, EX2 or WB is the program's value, not an
\* older one, unless the youngest producer is a load in MEM1, or the value is an
\* OP-32 result that has not reached WB (hazard_unit.sv:65-94, core line 1284).
ForwardedIsCurrent ==
  \A k \in Source :
    UsesNow /\ fwd_sel(k) # "NONE" /\ ~LoadOwes(k) /\ ~Unextended(k)
      => do_fwd(k) = Wanted(k)

\* An operand that EX1 takes as ID read it is the program's value, unless its
\* register was written back on that edge or later, or a producer from which
\* EX1 does not forward owes it.  Nothing else makes it stale: no stall, no
\* bubble, no redirect (core lines 438-450, 1033-1120).
LatchedIsCurrent ==
  \A k \in Source :
    (/\ UsesNow /\ ReadFile(ex1.i, k) # "none" /\ fwd_sel(k) = "NONE"
     /\ ~LoadOwes(k) /\ ~CiphertextOwed(k) /\ k \notin missed)
      => do_fwd(k) = Wanted(k)

\* Every result reaches its register: a register that no instruction behind EX1
\* is going to write has the program's value, whatever stalled or was killed
\* (core lines 1154-1288).
RegistersCatchUp ==
  \A f \in {"x", "e"}, r \in Reg :
    (\A stage \in {mem1, ex2, wb} : ~(stage.file = f /\ stage.rd = r))
      => rf[f][r] = arch[f][r]

\* Instructions that leave EX1 are counted in instret exactly once: those in
\* MEM1, EX2 and WB are all that is owed (csr_file.sv:138, core line 459).
RetiredOnce ==
  flying = (IF Mem1Holds THEN 1 ELSE 0) + (IF ex2.valid THEN 1 ELSE 0)
           + (IF wb.valid THEN 1 ELSE 0)

\* The instruction that leaves EX1 is the one the program orders next: behind
\* branches, traps, mret and wrong predictions, nothing is skipped, repeated or
\* taken from the wrong path (core lines 745-764, 998-1120).
CommitsFollowProgram == ex1_commit_en => ex1.pc = expect

\* "Detects classic load-use hazard", "letting load advance to EX2"
\* (hazard_unit.sv:5, 47): an instruction is not in EX1, using its operand,
\* while the load of that operand is in MEM1.
LoadUseDetected == \A k \in Source : UsesNow => ~LoadOwes(k)
=============================================================================

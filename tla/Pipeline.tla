------------------------------- MODULE Pipeline ------------------------------
(***************************************************************************)
(* The control of rtl/core/rv64_core_7stage.sv from the fetch pc to the    *)
(* register files: stalls, forwarding (hazard_unit.sv), redirects, traps,  *)
(* and the CSRs they use (csr_file.sv).                                    *)
(*                                                                         *)
(* Instructions are decoded already: an operation, a destination and two   *)
(* sources, 0 for a source that is not used.  The program is arbitrary: a  *)
(* fetch finds any instruction of Instrs.  Results, branch targets, loaded *)
(* data and the answers of the memory and of the long-latency units are    *)
(* chosen where the code takes them; IfetchPort, Mem1Port and LongOps say  *)
(* how they come about.                                                    *)
(***************************************************************************)
EXTENDS Integers

CONSTANTS
  PCS,          \* number of instruction addresses
  REGS,         \* number of registers in each of the two files
  Instrs,       \* instructions a fetch may find
  BusFaults,    \* TRUE: data accesses and fetches may be answered with an error
  StaleTargets  \* TRUE: the predictor may predict a jump at an instruction
                \* that is not one

Pc == 0 .. (PCS - 1)
Reg == 0 .. (REGS - 1)
Source == {1, 2}

\* pc + 4
Inc(p) == (p + 1) % PCS

\* Values of registers: 0 and 1, and the same two with an upper half that is
\* not the extension of the lower one, as the 64-bit ALU leaves it for an OP-32
\* operation.
Narrow == {0, 1}
Val == 0 .. 3
Sext(v) == v % 2

Loads == {"load", "se_ld"}
MemOps == Loads \union {"store", "se_sd"}
LongOps == {"div", "se"}
Jumps == {"branch", "jump", "mret"}
Ops == MemOps \union LongOps \union Jumps \union {"alu", "word", "csr", "trap"}

Instruction == [op : Ops, rd : Reg, rs : [Source -> Reg]]
Bubble == [op |-> "none", rd |-> 0, rs |-> [k \in Source |-> 0]]

ASSUME PcAssumption == PCS \in Nat \ {0}
ASSUME RegAssumption == REGS \in Nat \ {0}
ASSUME InstrsAssumption == Instrs \subseteq Instruction
ASSUME SwitchAssumption == BusFaults \in BOOLEAN /\ StaleTargets \in BOOLEAN

\* The register file a source is read from and the one the result goes to: the
\* integer registers "x", where x0 is no register, or the ciphertext registers
\* "e", where e0 is one.
ReadFile(i, k) ==
  IF i.op = "se" \/ (i.op = "se_sd" /\ k = 2) THEN "e"
  ELSE IF i.rs[k] # 0 THEN "x" ELSE "none"

WriteFile(i) ==
  IF i.op \in {"se", "se_ld"} THEN "e"
  ELSE IF i.op \in {"alu", "word", "div", "csr", "load", "jump"} /\ i.rd # 0
       THEN "x" ELSE "none"

VARIABLES
  pc,        \* pc_if1
  if2, id,   \* instruction, its pc and the pc predicted to follow
  ex1,       \* the same, its operands and the state of its unit
  mem1,      \* operation, pc, destination, result, state of its access
  ex2, wb,   \* destination and value
  rf,        \* the register files, "x" and "e"
  mtvec, mepc, seEnable  \* CSRs; the last is se_ctrl[0]

csrs == <<mtvec, mepc, seEnable>>
vars == <<pc, if2, id, ex1, mem1, ex2, wb, rf, csrs>>

-----------------------------------------------------------------------------
Slot(i, p, n) == [i |-> i, pc |-> p, next |-> n]
NoSlot == Slot(Bubble, 0, 0)
NoEx1 == [i |-> Bubble, pc |-> 0, next |-> 0, val |-> [k \in Source |-> 0],
          unit |-> "idle"]
NoMem1 == [op |-> "none", pc |-> 0, file |-> "none", rd |-> 0, res |-> 0,
           access |-> "idle"]
NoWrite == [valid |-> FALSE, file |-> "none", rd |-> 0, val |-> 0, word |-> FALSE]

Holds(slot) == slot.i.op # "none"
Mem1Holds == mem1.op # "none"

Init ==
  /\ pc = 0 /\ if2 = NoSlot /\ id = NoSlot /\ ex1 = NoEx1 /\ mem1 = NoMem1
  /\ ex2 = NoWrite /\ wb = NoWrite
  /\ rf = [f \in {"x", "e"} |-> [r \in Reg |-> 0]]
  /\ mtvec = 0 /\ mepc = 0 /\ seEnable = FALSE

-----------------------------------------------------------------------------
\* Stalls.
stall_mem1 == mem1.op \in MemOps /\ mem1.access \in {"idle", "sent"}
stall_ex1 == ex1.i.op \in LongOps /\ ex1.unit # "done"
stall_id ==
  \E k \in Source : /\ ReadFile(id.i, k) = "x"
                    /\ mem1.op = "load" /\ mem1.file = "x"
                    /\ mem1.rd = id.i.rs[k]

if2_enable == ~(stall_id \/ stall_ex1 \/ stall_mem1)
ex1_enable == ~(stall_ex1 \/ stall_mem1)
ex1_commit_en == Holds(ex1) /\ ~stall_ex1 /\ ~stall_mem1

\* Forwarding: the youngest of MEM1 (never a load), EX2 and WB that writes the
\* register, else the value read in ID.
Writes(stage, r) == stage.file = "x" /\ stage.rd = r

\* Mutant: an older producer in EX2 is preferred to a younger one in MEM1.
fwd_sel_oldest(k) ==
  LET r == ex1.i.rs[k]
  IN  IF ReadFile(ex1.i, k) # "x" THEN "NONE"
      ELSE IF Writes(ex2, r) THEN "EX2"
      ELSE IF Writes(mem1, r) /\ mem1.op \notin Loads THEN "MEM1"
      ELSE IF Writes(wb, r) THEN "WB" ELSE "NONE"

\* Mutant: a producer in WB is not forwarded, as if ID had read it.
fwd_sel_no_wb(k) ==
  LET r == ex1.i.rs[k]
  IN  IF ReadFile(ex1.i, k) # "x" THEN "NONE"
      ELSE IF Writes(mem1, r) /\ mem1.op \notin Loads THEN "MEM1"
      ELSE IF Writes(ex2, r) THEN "EX2" ELSE "NONE"

fwd_sel(k) ==
  LET r == ex1.i.rs[k]
  IN  IF ReadFile(ex1.i, k) # "x" THEN "NONE"
      ELSE IF Writes(mem1, r) /\ mem1.op \notin Loads THEN "MEM1"
      ELSE IF Writes(ex2, r) THEN "EX2"
      ELSE IF Writes(wb, r) THEN "WB" ELSE "NONE"
do_fwd(k) ==
  LET sel == fwd_sel(k)
  IN  IF sel = "MEM1" THEN mem1.res
      ELSE IF sel = "EX2" THEN ex2.val
      ELSE IF sel = "WB" THEN wb.val ELSE ex1.val[k]

\* Reading a register file in ID.
Read(i, k) ==
  LET f == ReadFile(i, k) IN IF f = "none" THEN 0 ELSE rf[f][i.rs[k]]

-----------------------------------------------------------------------------
\* Traps and redirects.  target is where a control instruction in EX1 goes,
\* misaligned that the address of a memory operation in EX1 is, fault that a
\* fetch is answered with an error on this edge.
mem1_fault_trap == mem1.access = "err"
ex1_take_trap_raw(misaligned) == ex1.i.op = "trap" \/ misaligned
ex1_take_trap(misaligned) == ex1_commit_en /\ ex1_take_trap_raw(misaligned)
trap_enter(misaligned, fault) ==
  mem1_fault_trap \/ ex1_take_trap(misaligned) \/ fault
mret == ex1_commit_en /\ ex1.i.op = "mret"

act_next_pc(target) ==
  IF ex1.i.op = "mret" THEN mepc
  ELSE IF ex1.i.op \in Jumps THEN target ELSE Inc(ex1.pc)
mispredict_commit(target) ==
  ex1_commit_en /\ ex1.i.op \in Jumps /\ act_next_pc(target) # ex1.next

redirect(target, misaligned, fault) ==
  trap_enter(misaligned, fault) \/ mret \/ mispredict_commit(target)
redirect_pc(target, misaligned, fault) ==
  IF trap_enter(misaligned, fault) THEN mtvec ELSE act_next_pc(target)

-----------------------------------------------------------------------------
\* The predictor is told of branches and jumps only: at any other instruction it
\* predicts pc + 4, unless the code at that address has changed.
Predicted(i) ==
  IF StaleTargets \/ i.op \in Jumps \ {"mret"} THEN Pc ELSE {Inc(pc)}

\* pc_if1 and IF2, when the line buffer has the instruction and when not.
Fetch(redir, goto) ==
  \/ redir /\ pc' = goto /\ if2' = NoSlot
  \/ /\ ~redir /\ if2_enable
     /\ \E i \in Instrs : \E n \in Predicted(i) :
          if2' = Slot(i, pc, n) /\ pc' = n
  \/ ~redir /\ if2_enable /\ if2' = NoSlot /\ UNCHANGED pc
  \/ ~redir /\ ~if2_enable /\ UNCHANGED <<pc, if2>>

\* Mutant: a redirect does not flush ID.
DecodeUnflushed(redir) == id' = IF if2_enable THEN if2 ELSE id

Decode(redir) ==
  id' = IF redir THEN NoSlot ELSE IF if2_enable THEN if2 ELSE id

\* The divider takes its operands at once; the SE unit takes them when it is
\* ready, and only if SE is enabled.
UnitStep ==
  \/ ex1.unit = "idle" /\ ex1.i.op = "div" /\ ex1' = [ex1 EXCEPT !.unit = "busy"]
  \/ /\ ex1.unit = "idle" /\ ex1.i.op = "se" /\ seEnable
     /\ ex1' = [ex1 EXCEPT !.unit = "busy"]
  \/ ex1.unit = "busy" /\ ex1' = [ex1 EXCEPT !.unit = "done"]
  \/ ~(ex1.unit = "idle" /\ ex1.i.op = "div") /\ UNCHANGED ex1

\* A redirect empties EX1 only if EX1 is not held.
Execute(redir) ==
  \/ ex1_enable /\ (redir \/ stall_id) /\ ex1' = NoEx1
  \/ /\ ex1_enable /\ ~redir /\ ~stall_id
     /\ ex1' = [i |-> id.i, pc |-> id.pc, next |-> id.next,
                val |-> [k \in Source |-> Read(id.i, k)], unit |-> "idle"]
  \/ ~ex1_enable /\ UnitStep

-----------------------------------------------------------------------------
\* What the instruction in EX1 hands to MEM1; a load has its result later.
Results(i) ==
  IF WriteFile(i) = "none" \/ i.op \in Loads THEN {0}
  ELSE IF i.op = "word" THEN Val ELSE Narrow

\* The SE unit may refuse an operation: nothing is written then.
Destinations(i) == {WriteFile(i)} \union (IF i.op = "se" THEN {"none"} ELSE {})

Mem1Empties == ~stall_mem1 /\ mem1' = NoMem1

Mem1Shifts ==
  /\ ~stall_mem1
  /\ \E v \in Results(ex1.i), f \in Destinations(ex1.i) :
       mem1' = [op |-> ex1.i.op, pc |-> ex1.pc, file |-> f,
                rd |-> IF f = "none" THEN 0 ELSE ex1.i.rd,
                res |-> IF f = "none" THEN 0 ELSE v, access |-> "idle"]

\* The access of MEM1: the request is accepted, the response comes.
Mem1Waits == stall_mem1 /\ UNCHANGED mem1
Mem1Sends == stall_mem1 /\ mem1.access = "idle" /\ mem1' = [mem1 EXCEPT !.access = "sent"]
Mem1Answered ==
  /\ stall_mem1 /\ mem1.access = "sent"
  /\ \/ \E d \in IF mem1.file = "none" THEN {0} ELSE Narrow :
          mem1' = [mem1 EXCEPT !.access = "ok", !.res = d]
     \/ BusFaults /\ mem1' = [mem1 EXCEPT !.access = "err"]

ex1_to_mem1(misaligned) == ex1_commit_en /\ ~ex1_take_trap_raw(misaligned)

Memory(misaligned) ==
  \/ ex1_to_mem1(misaligned) /\ ~mem1_fault_trap /\ Mem1Shifts
  \/ ~(ex1_to_mem1(misaligned) /\ ~mem1_fault_trap) /\ Mem1Empties
  \/ Mem1Waits \/ Mem1Sends \/ Mem1Answered

\* EX2 and WB always shift, WB narrows an OP-32 result, and the register file
\* is written from WB.

\* Mutant: MEM1 hands its instruction to EX2 on every edge on which it waits.
WritebackRepeating ==
  /\ ex2' = IF ~Mem1Holds \/ mem1_fault_trap THEN NoWrite
            ELSE [valid |-> TRUE, file |-> mem1.file, rd |-> mem1.rd,
                  val |-> mem1.res, word |-> mem1.op = "word"]
  /\ wb' = [ex2 EXCEPT !.val = IF ex2.word THEN Sext(@) ELSE @, !.word = FALSE]
  /\ rf' = IF wb.file = "none" THEN rf
           ELSE [rf EXCEPT ![wb.file] = [@ EXCEPT ![wb.rd] = wb.val]]

\* Mutant: WB does not narrow an OP-32 result.
WritebackUnextended ==
  /\ ex2' = IF ~Mem1Holds \/ stall_mem1 \/ mem1_fault_trap THEN NoWrite
            ELSE [valid |-> TRUE, file |-> mem1.file, rd |-> mem1.rd,
                  val |-> mem1.res, word |-> mem1.op = "word"]
  /\ wb' = [ex2 EXCEPT !.word = FALSE]
  /\ rf' = IF wb.file = "none" THEN rf
           ELSE [rf EXCEPT ![wb.file] = [@ EXCEPT ![wb.rd] = wb.val]]

Writeback ==
  /\ ex2' = IF ~Mem1Holds \/ stall_mem1 \/ mem1_fault_trap THEN NoWrite
            ELSE [valid |-> TRUE, file |-> mem1.file, rd |-> mem1.rd,
                  val |-> mem1.res, word |-> mem1.op = "word"]
  /\ wb' = [ex2 EXCEPT !.val = IF ex2.word THEN Sext(@) ELSE @, !.word = FALSE]
  /\ rf' = IF wb.file = "none" THEN rf
           ELSE [rf EXCEPT ![wb.file] = [@ EXCEPT ![wb.rd] = wb.val]]

-----------------------------------------------------------------------------
\* CSRs: a trap comes before mret, and both before a CSR instruction.
TrapPc(misaligned) ==
  IF mem1_fault_trap THEN mem1.pc
  ELSE IF ex1_take_trap(misaligned) THEN ex1.pc ELSE pc

CsrWrite ==
  \/ mtvec' \in Pc /\ UNCHANGED <<mepc, seEnable>>
  \/ mepc' \in Pc /\ UNCHANGED <<mtvec, seEnable>>
  \/ seEnable' \in BOOLEAN /\ UNCHANGED <<mtvec, mepc>>

Csr(misaligned, fault) ==
  LET trap == trap_enter(misaligned, fault)
      write == ex1_commit_en /\ ex1.i.op = "csr"
  IN  \/ trap /\ mepc' = TrapPc(misaligned) /\ UNCHANGED <<mtvec, seEnable>>
      \/ ~trap /\ ~mret /\ write /\ CsrWrite
      \/ ~trap /\ (mret \/ ~write) /\ UNCHANGED csrs

Clock(target, misaligned, fault) ==
  LET redir == redirect(target, misaligned, fault)
  IN  /\ Writeback
      /\ Decode(redir)
      /\ Memory(misaligned)
      /\ Csr(misaligned, fault)
      /\ Execute(redir)
      /\ Fetch(redir, redirect_pc(target, misaligned, fault))

\* The choices that matter on this edge.
Targets == IF ex1_commit_en /\ ex1.i.op \in Jumps \ {"mret"} THEN Pc ELSE {0}
Misaligned == IF ex1_commit_en /\ ex1.i.op \in MemOps THEN BOOLEAN ELSE {FALSE}
Faults == IF BusFaults THEN BOOLEAN ELSE {FALSE}

Next == \E target \in Targets, misaligned \in Misaligned, fault \in Faults :
          Clock(target, misaligned, fault)

Spec == Init /\ [][Next]_vars

-----------------------------------------------------------------------------
\* What each latch of the pipeline may hold; only operations that use a unit or
\* the memory have one at work.
Held == Instrs \union {Bubble}
SlotType == [i : Held, pc : Pc, next : Pc]
Ex1Type == [i : Held, pc : Pc, next : Pc, val : [Source -> Val],
            unit : {"idle", "busy", "done"}]
Mem1Type == [op : Ops \union {"none"}, pc : Pc, file : {"x", "e", "none"},
             rd : Reg, res : Val, access : {"idle", "sent", "ok", "err"}]
WriteType == [valid : BOOLEAN, file : {"x", "e", "none"}, rd : Reg, val : Val,
              word : BOOLEAN]

TypeOK ==
  /\ pc \in Pc /\ mtvec \in Pc /\ mepc \in Pc /\ seEnable \in BOOLEAN
  /\ if2 \in SlotType /\ id \in SlotType
  /\ ex1 \in Ex1Type /\ (ex1.unit # "idle" => ex1.i.op \in LongOps)
  /\ mem1 \in Mem1Type /\ (mem1.access # "idle" => mem1.op \in MemOps)
  /\ ex2 \in WriteType /\ wb \in WriteType
  /\ rf \in [{"x", "e"} -> [Reg -> Val]]
=============================================================================

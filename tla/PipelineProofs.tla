---------------------------- MODULE PipelineProofs ---------------------------
(***************************************************************************)
(* The pipeline for every program, any number of registers and addresses:  *)
(* types, the order of commits, what forwarding and the register file      *)
(* deliver, and the count of retired instructions.                         *)
(***************************************************************************)
EXTENDS PipelineHistory, TLAPS

USE PcAssumption, RegAssumption, InstrsAssumption, SwitchAssumption

-----------------------------------------------------------------------------
\* A bubble is no instruction, and reads and writes no register.
LEMMA Bubbles ==
  /\ Bubble \notin Instrs
  /\ \A i \in Held : /\ i.op \in Ops \union {"none"} /\ i.rd \in Reg
                     /\ \A k \in Source : i.rs[k] \in Reg
                     /\ i.op # "none" => i \in Instrs
  /\ Bubble.op = "none" /\ 0 \in Reg /\ 0 \in Pc
<1>1. \A i \in Instruction : i.op # "none" /\ i.op \in Ops /\ i.rd \in Reg
                             /\ i.rs \in [Source -> Reg]
  BY DEF Instruction, Ops, MemOps, LongOps, Jumps, Loads
<1>2. 0 \in Reg /\ 0 \in Pc
  BY DEF Reg, Pc
<1>3. Bubble.op = "none" /\ Bubble.rd = 0 /\ \A k \in Source : Bubble.rs[k] = 0
  BY DEF Bubble
<1> QED
  BY <1>1, <1>2, <1>3 DEF Held

LEMMA Numbers ==
  /\ 0 \in Val /\ Narrow \subseteq Val
  /\ \A v \in Val : Sext(v) \in Val
  /\ \A p \in Pc : Inc(p) \in Pc
  /\ \A i, k : ReadFile(i, k) \in {"x", "e", "none"}
  /\ \A i : WriteFile(i) \in {"x", "e", "none"}
BY DEF Val, Narrow, Sext, Pc, Inc, ReadFile, WriteFile

\* Everything a redirect can lead to is an address.
LEMMA RedirectPc ==
  ASSUME TypeOK, NEW target \in Pc, NEW misaligned, NEW fault
  PROVE  /\ redirect_pc(target, misaligned, fault) \in Pc
         /\ act_next_pc(target) \in Pc
         /\ TrapPc(misaligned) \in Pc
BY Numbers
   DEF TypeOK, redirect_pc, act_next_pc, TrapPc, Ex1Type, Mem1Type

LEMMA InitType == Init => TypeOK
<1> SUFFICES ASSUME Init PROVE TypeOK
  OBVIOUS
<1>1. NoSlot \in SlotType
  BY Bubbles DEF NoSlot, Slot, SlotType, Held
<1>2. NoEx1 \in Ex1Type /\ NoEx1.unit = "idle"
  BY Bubbles, Numbers DEF NoEx1, Ex1Type, Held
<1>3. NoMem1 \in Mem1Type /\ NoMem1.access = "idle"
  BY Bubbles, Numbers DEF NoMem1, Mem1Type
<1>4. NoWrite \in WriteType
  BY Bubbles, Numbers DEF NoWrite, WriteType
<1>5. rf \in [{"x", "e"} -> [Reg -> Val]]
  BY Numbers DEF Init
<1> QED
  BY <1>1, <1>2, <1>3, <1>4, <1>5, Bubbles DEF Init, TypeOK

-----------------------------------------------------------------------------
\* One step per part of the clock edge.
LEMMA FetchType ==
  ASSUME TypeOK, NEW redir \in BOOLEAN, NEW goto \in Pc, Fetch(redir, goto), Decode(redir)
  PROVE  pc' \in Pc /\ if2' \in SlotType /\ id' \in SlotType
<1>1. NoSlot \in SlotType
  BY Bubbles DEF NoSlot, Slot, SlotType, Held
<1>2. \A i \in Instrs : Predicted(i) \subseteq Pc
  BY Numbers DEF Predicted, TypeOK
<1>3. \A i \in Instrs, n \in Pc : Slot(i, pc, n) \in SlotType
  BY DEF Slot, SlotType, Held, TypeOK
<1>4. pc' \in Pc /\ if2' \in SlotType
  BY <1>1, <1>2, <1>3 DEF Fetch, TypeOK
<1>5. id' \in SlotType
  BY <1>1 DEF Decode, TypeOK
<1> QED
  BY <1>4, <1>5

LEMMA ReadType ==
  ASSUME TypeOK, NEW i \in Held, NEW k \in Source
  PROVE  Read(i, k) \in Val
BY Bubbles, Numbers DEF Read, TypeOK

LEMMA ExecuteType ==
  ASSUME TypeOK, NEW redir \in BOOLEAN, Execute(redir)
  PROVE  ex1' \in Ex1Type /\ (ex1'.unit # "idle" => ex1'.i.op \in LongOps)
<1>1. NoEx1 \in Ex1Type /\ NoEx1.unit = "idle"
  BY Bubbles, Numbers DEF NoEx1, Ex1Type, Held
<1>2. ASSUME ex1' = [i |-> id.i, pc |-> id.pc, next |-> id.next,
                     val |-> [k \in Source |-> Read(id.i, k)], unit |-> "idle"]
      PROVE  ex1' \in Ex1Type /\ ex1'.unit = "idle"
  <2>1. id.i \in Held /\ id.pc \in Pc /\ id.next \in Pc
    BY DEF TypeOK, SlotType
  <2>2. [k \in Source |-> Read(id.i, k)] \in [Source -> Val]
    BY <2>1, ReadType
  <2> QED
    BY <1>2, <2>1, <2>2 DEF Ex1Type
<1>3. ASSUME UnitStep
      PROVE  ex1' \in Ex1Type /\ (ex1'.unit # "idle" => ex1'.i.op \in LongOps)
  BY <1>3 DEF UnitStep, TypeOK, Ex1Type, LongOps
<1> QED
  BY <1>1, <1>2, <1>3 DEF Execute

LEMMA MemoryType ==
  ASSUME TypeOK, NEW misaligned \in BOOLEAN, Memory(misaligned)
  PROVE  mem1' \in Mem1Type /\ (mem1'.access # "idle" => mem1'.op \in MemOps)
<1>1. NoMem1 \in Mem1Type /\ NoMem1.access = "idle"
  BY Bubbles, Numbers DEF NoMem1, Mem1Type
<1>2. ASSUME Mem1Shifts
      PROVE  mem1' \in Mem1Type /\ mem1'.access = "idle"
  <2>1. /\ ex1.i \in Held /\ ex1.pc \in Pc
        /\ ex1.i.op \in Ops \union {"none"} /\ ex1.i.rd \in Reg
    BY Bubbles DEF TypeOK, Ex1Type
  <2>2. Results(ex1.i) \subseteq Val /\ Destinations(ex1.i) \subseteq {"x", "e", "none"}
    BY Numbers DEF Results, Destinations
  <2>3. PICK v \in Results(ex1.i), f \in Destinations(ex1.i) :
          mem1' = [op |-> ex1.i.op, pc |-> ex1.pc, file |-> f,
                   rd |-> IF f = "none" THEN 0 ELSE ex1.i.rd,
                   res |-> IF f = "none" THEN 0 ELSE v, access |-> "idle"]
    BY <1>2 DEF Mem1Shifts
  <2> QED
    BY <2>1, <2>2, <2>3, Bubbles, Numbers DEF Mem1Type
<1>3. ASSUME Mem1Waits \/ Mem1Sends \/ Mem1Answered
      PROVE  mem1' \in Mem1Type /\ mem1'.op \in MemOps
  <2>1. (IF mem1.file = "none" THEN {0} ELSE Narrow) \subseteq Val
    BY Numbers
  <2>2. mem1 \in Mem1Type /\ mem1.op \in MemOps
    BY <1>3 DEF Mem1Waits, Mem1Sends, Mem1Answered, stall_mem1, TypeOK
  <2> QED
    BY <1>3, <2>1, <2>2 DEF Mem1Waits, Mem1Sends, Mem1Answered, Mem1Type
<1> QED
  BY <1>1, <1>2, <1>3 DEF Memory, Mem1Empties

LEMMA WritebackType ==
  ASSUME TypeOK, Writeback
  PROVE  /\ ex2' \in WriteType /\ wb' \in WriteType
         /\ rf' \in [{"x", "e"} -> [Reg -> Val]]
<1>1. NoWrite \in WriteType
  BY Bubbles, Numbers DEF NoWrite, WriteType
<1>2. ex2' \in WriteType
  BY <1>1 DEF Writeback, TypeOK, Mem1Type, WriteType
<1>3. wb' \in WriteType
  BY Numbers DEF Writeback, TypeOK, WriteType
<1>4. wb.rd \in Reg /\ wb.val \in Val /\ wb.file \in {"x", "e", "none"}
  BY DEF TypeOK, WriteType
<1>5. rf' \in [{"x", "e"} -> [Reg -> Val]]
  BY <1>4 DEF Writeback, TypeOK
<1> QED
  BY <1>2, <1>3, <1>5

LEMMA NextType == TypeOK /\ [Next]_vars => TypeOK'
<1> SUFFICES ASSUME TypeOK, [Next]_vars PROVE TypeOK'
  OBVIOUS
<1>1. CASE UNCHANGED vars
  BY <1>1 DEF vars, csrs, TypeOK
<1>2. CASE Next
  <2>1. PICK target \in Targets, misaligned \in Misaligned, fault \in Faults :
          Clock(target, misaligned, fault)
    BY <1>2 DEF Next
  <2>2. target \in Pc /\ misaligned \in BOOLEAN /\ fault \in BOOLEAN
    BY Bubbles DEF Targets, Misaligned, Faults
  <2> DEFINE redir == redirect(target, misaligned, fault)
             goto == redirect_pc(target, misaligned, fault)
  <2>3. /\ Fetch(redir, goto) /\ Decode(redir) /\ Execute(redir)
        /\ Memory(misaligned) /\ Writeback /\ Csr(misaligned, fault)
    BY <2>1 DEF Clock
  <2>4. redir \in BOOLEAN /\ goto \in Pc
    BY <2>2, RedirectPc
       DEF redirect, trap_enter, ex1_take_trap, ex1_take_trap_raw, ex1_commit_en,
           mem1_fault_trap, mret, mispredict_commit, Holds, stall_ex1, stall_mem1
  <2>5. mtvec' \in Pc /\ mepc' \in Pc /\ seEnable' \in BOOLEAN
    BY <2>2, <2>3, RedirectPc DEF Csr, CsrWrite, csrs, TypeOK
  <2> HIDE DEF redir, goto
  <2>6. pc' \in Pc /\ if2' \in SlotType /\ id' \in SlotType
    BY <2>3, <2>4, FetchType
  <2>7. ex1' \in Ex1Type /\ (ex1'.unit # "idle" => ex1'.i.op \in LongOps)
    BY <2>3, <2>4, ExecuteType
  <2>8. mem1' \in Mem1Type /\ (mem1'.access # "idle" => mem1'.op \in MemOps)
    BY <2>2, <2>3, MemoryType
  <2>9. /\ ex2' \in WriteType /\ wb' \in WriteType
        /\ rf' \in [{"x", "e"} -> [Reg -> Val]]
    BY <2>3, WritebackType
  <2> QED
    BY <2>5, <2>6, <2>7, <2>8, <2>9 DEF TypeOK
<1> QED
  BY <1>1, <1>2

\* The history follows the pipeline and does not disturb it.
LEMMA HistoryStep == [HNext]_hvars => [Next]_vars
BY DEF HNext, HClock, hvars, Next

\* Every latch, register and CSR of the pipeline has its type, whatever the
\* program, the memory and the units do.
THEOREM TypeCorrect == HSpec => []TypeOK
<1>1. HInit => TypeOK
  BY InitType DEF HInit
<1>2. TypeOK /\ [HNext]_hvars => TypeOK'
  BY NextType, HistoryStep
<1> QED
  BY <1>1, <1>2, PTL DEF HSpec

-----------------------------------------------------------------------------
(***************************************************************************)
(* The order of commits.  The instructions in front of EX1 form one        *)
(* stream: each holds the pc that was predicted after the one before it,   *)
(* and pc_if1 is predicted after the last.  The oldest of them is the      *)
(* program's next.                                                         *)
(***************************************************************************)
AfterId == IF Holds(if2) THEN if2.pc ELSE pc
AfterEx1 == IF Holds(id) THEN id.pc ELSE AfterId
Oldest == IF Holds(ex1) THEN ex1.pc ELSE AfterEx1

\* Away from jumps the prediction is pc + 4.
Straight(slot) == slot.i.op \in Jumps \cup {"none"} \/ slot.next = Inc(slot.pc)

StreamInv ==
  /\ Holds(if2) => if2.next = pc
  /\ Holds(id) => id.next = AfterId
  /\ Holds(ex1) => ex1.next = AfterEx1
  /\ Straight(if2) /\ Straight(id) /\ Straight(ex1)
  /\ mem1.access # "err"
  /\ expect = Oldest

LEMMA StreamInit == HInit => StreamInv
BY Bubbles
   DEF HInit, Init, StreamInv, NoSlot, Slot, NoEx1, NoMem1, Holds, AfterId, AfterEx1,
       Oldest, Straight

\* A redirect empties the stream and starts it again at the program's next pc.
LEMMA StreamRestart ==
  ASSUME StreamInv, NEW target, NEW misaligned, HClock(target, misaligned, FALSE),
         redirect(target, misaligned, FALSE)
  PROVE  /\ ~Holds(if2)' /\ ~Holds(id)' /\ ~Holds(ex1)' /\ expect' = pc'
         /\ Straight(if2)' /\ Straight(id)' /\ Straight(ex1)'
<1> DEFINE goto == redirect_pc(target, misaligned, FALSE)
<1>0. /\ Fetch(TRUE, goto) /\ Decode(TRUE) /\ Execute(TRUE)
      /\ ExpectStep(target, misaligned, FALSE)
  BY DEF HClock, Clock, Fetch, Decode, Execute
<1>1. ex1_commit_en
  BY DEF StreamInv, redirect, trap_enter, mem1_fault_trap, ex1_take_trap, mret,
         mispredict_commit
<1>2. ex1_enable
  BY <1>1 DEF ex1_commit_en, ex1_enable
<1>3. if2' = NoSlot /\ id' = NoSlot /\ ex1' = NoEx1
  BY <1>0, <1>2 DEF Fetch, Decode, Execute
<1>4. pc' = goto
  BY <1>0 DEF Fetch
<1>5. expect' = pc'
  BY <1>0, <1>1, <1>4 DEF ExpectStep, redirect_pc
<1> QED
  BY <1>3, <1>5, Bubbles DEF NoSlot, Slot, NoEx1, Holds, Straight

\* Otherwise the stream moves on by one stage, or part of it waits.
LEMMA StreamMoves ==
  ASSUME StreamInv, TypeOK, ~StaleTargets, NEW target, NEW misaligned,
         HClock(target, misaligned, FALSE), ~redirect(target, misaligned, FALSE)
  PROVE  /\ Holds(if2)' => if2'.next = pc'
         /\ Holds(id)' => id'.next = AfterId'
         /\ Holds(ex1)' => ex1'.next = AfterEx1'
         /\ Straight(if2)' /\ Straight(id)' /\ Straight(ex1)'
         /\ expect' = Oldest'
<1>0. /\ \E goto : Fetch(FALSE, goto)
      /\ Decode(FALSE) /\ Execute(FALSE) /\ ExpectStep(target, misaligned, FALSE)
  BY DEF HClock, Clock, Fetch, Decode, Execute
<1>1. expect' = IF ex1_commit_en THEN AfterEx1 ELSE Oldest
  <2>1. ~trap_enter(misaligned, FALSE) /\ ~mret /\ ~mispredict_commit(target)
    BY DEF redirect
  <2>2. ASSUME ex1_commit_en PROVE act_next_pc(target) = ex1.next /\ Holds(ex1)
    <3>1. Holds(ex1) /\ ex1.i.op # "mret"
      BY <2>1, <2>2 DEF ex1_commit_en, mret
    <3>2. CASE ex1.i.op \in Jumps
      BY <2>1, <2>2, <3>1, <3>2 DEF mispredict_commit
    <3>3. CASE ex1.i.op \notin Jumps
      BY <3>1, <3>3 DEF act_next_pc, StreamInv, Straight, Holds
    <3> QED
      BY <3>1, <3>2, <3>3
  <2> QED
    BY <1>0, <2>1, <2>2 DEF ExpectStep, StreamInv
<1>2. ex1_enable /\ Holds(ex1) <=> ex1_commit_en
  BY DEF ex1_enable, ex1_commit_en
<1>3. CASE ~ex1_enable
  <2>1. /\ pc' = pc /\ if2' = if2 /\ id' = id
    BY <1>0, <1>3 DEF ex1_enable, if2_enable, Fetch, Decode
  <2>2. ex1'.i = ex1.i /\ ex1'.pc = ex1.pc /\ ex1'.next = ex1.next
    BY <1>0, <1>3 DEF Execute, UnitStep, TypeOK, Ex1Type
  <2> QED
    BY <1>1, <1>2, <1>3, <2>1, <2>2
       DEF StreamInv, Holds, AfterId, AfterEx1, Oldest, Straight
<1>4. CASE ex1_enable /\ stall_id
  <2>1. /\ pc' = pc /\ if2' = if2 /\ id' = id
    BY <1>0, <1>4 DEF if2_enable, Fetch, Decode
  <2>2. ex1' = NoEx1
    BY <1>0, <1>4 DEF Execute
  <2>3. ~Holds(ex1)' /\ Straight(ex1)'
    BY <2>2, Bubbles DEF NoEx1, Holds, Straight
  <2>4. Oldest' = AfterEx1
    BY <2>1, <2>3 DEF Holds, AfterId, AfterEx1, Oldest
  <2>5. expect' = AfterEx1
    BY <1>1, <1>2, <1>4 DEF Oldest
  <2> QED
    BY <2>1, <2>3, <2>4, <2>5 DEF StreamInv, Holds, AfterId, Straight
<1>5. CASE ex1_enable /\ ~stall_id
  <2>1. if2_enable
    BY <1>5 DEF ex1_enable, if2_enable
  <2>2. id' = if2
    BY <1>0, <2>1 DEF Decode
  <2>3. ex1'.i = id.i /\ ex1'.pc = id.pc /\ ex1'.next = id.next
    BY <1>0, <1>5 DEF Execute
  <2>4. AfterId' = pc /\ (Holds(if2)' => if2'.next = pc') /\ Straight(if2)'
    <3>1. CASE if2' = NoSlot /\ UNCHANGED pc
      BY <3>1, Bubbles DEF NoSlot, Slot, Holds, AfterId, Straight
    <3>2. ASSUME NEW i \in Instrs, NEW n \in Predicted(i),
                 if2' = Slot(i, pc, n), pc' = n
          PROVE  AfterId' = pc /\ (Holds(if2)' => if2'.next = pc') /\ Straight(if2)'
      <4>1. if2'.i = i /\ if2'.pc = pc /\ if2'.next = n
        BY <3>2 DEF Slot
      <4>2. i.op # "none"
        BY Bubbles DEF Instruction, Ops, MemOps, LongOps, Jumps, Loads
      <4>3. i.op \in Jumps \/ n = Inc(pc)
        BY <3>2 DEF Predicted
      <4> QED
        BY <3>2, <4>1, <4>2, <4>3 DEF Holds, AfterId, Straight
    <3> QED
      BY <1>0, <2>1, <3>1, <3>2 DEF Fetch
  <2>5. AfterEx1' = AfterId /\ Oldest' = AfterEx1
    BY <2>2, <2>3, <2>4 DEF Holds, AfterId, AfterEx1, Oldest, StreamInv
  <2>6. expect' = AfterEx1
    BY <1>1, <1>2, <1>5 DEF Oldest
  <2> QED
    BY <2>2, <2>3, <2>4, <2>5, <2>6 DEF StreamInv, Holds, Straight
<1> QED
  BY <1>3, <1>4, <1>5

LEMMA StreamStep ==
  ASSUME ~BusFaults, ~StaleTargets, TypeOK, StreamInv, [HNext]_hvars
  PROVE  StreamInv'
<1>1. CASE UNCHANGED hvars
  BY <1>1 DEF hvars, vars, StreamInv, Holds, AfterId, AfterEx1, Oldest, Straight
<1>2. CASE HNext
  <2>1. PICK target \in Targets, misaligned \in Misaligned, fault \in Faults :
          HClock(target, misaligned, fault)
    BY <1>2 DEF HNext
  <2>2. HClock(target, misaligned, FALSE)
    BY <2>1 DEF Faults
  <2>3. Memory(misaligned)
    BY <2>2 DEF HClock, Clock
  <2>4. mem1'.access # "err"
    <3>1. mem1 \in Mem1Type /\ mem1.access # "err"
      BY DEF TypeOK, StreamInv
    <3>2. CASE Mem1Shifts \/ Mem1Empties
      BY <3>2 DEF Mem1Shifts, Mem1Empties, NoMem1
    <3>3. CASE Mem1Waits \/ Mem1Sends
      BY <3>1, <3>3 DEF Mem1Waits, Mem1Sends, Mem1Type
    <3>4. CASE Mem1Answered
      <4>1. PICK d : mem1' = [mem1 EXCEPT !.access = "ok", !.res = d]
        BY <3>4 DEF Mem1Answered
      <4> QED
        BY <3>1, <4>1 DEF Mem1Type
    <3> QED
      BY <2>3, <3>2, <3>3, <3>4 DEF Memory
  <2>5. CASE redirect(target, misaligned, FALSE)
    <3>1. /\ ~Holds(if2)' /\ ~Holds(id)' /\ ~Holds(ex1)' /\ expect' = pc'
          /\ Straight(if2)' /\ Straight(id)' /\ Straight(ex1)'
      BY <2>2, <2>5, StreamRestart
    <3> QED
      BY <2>4, <3>1 DEF StreamInv, AfterId, AfterEx1, Oldest
  <2>6. CASE ~redirect(target, misaligned, FALSE)
    <3>1. /\ Holds(if2)' => if2'.next = pc'
          /\ Holds(id)' => id'.next = AfterId'
          /\ Holds(ex1)' => ex1'.next = AfterEx1'
          /\ Straight(if2)' /\ Straight(id)' /\ Straight(ex1)'
          /\ expect' = Oldest'
      BY <2>2, <2>6, StreamMoves
    <3> QED
      BY <2>4, <3>1 DEF StreamInv
  <2> QED
    BY <2>5, <2>6
<1> QED
  BY <1>1, <1>2

\* If no access and no fetch fails and the predictor's targets belong to jumps,
\* the instruction that leaves EX1 is always the program's next.
THEOREM CommitsAreTheProgram ==
  ASSUME ~BusFaults, ~StaleTargets
  PROVE  HSpec => []CommitsFollowProgram
<1>1. HInit => TypeOK /\ StreamInv
  BY InitType, StreamInit DEF HInit
<1>2. TypeOK /\ StreamInv /\ [HNext]_hvars => (TypeOK /\ StreamInv)'
  BY NextType, HistoryStep, StreamStep
<1>3. StreamInv => CommitsFollowProgram
  BY DEF StreamInv, CommitsFollowProgram, Oldest, ex1_commit_en
<1> QED
  BY <1>1, <1>2, <1>3, PTL DEF HSpec

-----------------------------------------------------------------------------
(***************************************************************************)
(* What the registers hold.  The program's value of a register is the one  *)
(* of its youngest writer behind EX1, or the register file's if there is   *)
(* none; a load that is not answered is no writer yet.                     *)
(***************************************************************************)
Aims(stage, f, r) == stage.file = f /\ stage.rd = r
Ready(f, r) == Aims(mem1, f, r) /\ (mem1.op \notin Loads \/ mem1.access = "ok")
Extended(stage) == IF stage.word THEN Sext(stage.val) ELSE stage.val

BehindEx2(f, r) == IF Aims(wb, f, r) THEN wb.val ELSE rf[f][r]
BehindMem1(f, r) == IF Aims(ex2, f, r) THEN Extended(ex2) ELSE BehindEx2(f, r)
BehindEx1(f, r) == IF Ready(f, r) THEN Result(mem1) ELSE BehindMem1(f, r)

Mem1Kinds ==
  /\ mem1.op = "load" => mem1.file # "e"
  /\ mem1.op = "se_ld" => mem1.file = "e"
  /\ mem1.op \in (MemOps \ Loads) \union {"none"} => mem1.file = "none"
Delivered == \A f \in {"x", "e"}, r \in Reg : arch[f][r] = BehindEx1(f, r)
Latched ==
  \A k \in Source :
    ReadFile(ex1.i, k) # "none" /\ k \notin missed
      => ex1.val[k] = rf[ReadFile(ex1.i, k)][ex1.i.rs[k]]

DataInv ==
  /\ arch \in [{"x", "e"} -> [Reg -> Val]]
  /\ Mem1Kinds /\ Delivered /\ Latched

LEMMA DataInit == HInit => DataInv
<1> SUFFICES ASSUME HInit PROVE DataInv
  OBVIOUS
<1>1. TypeOK
  BY InitType DEF HInit
<1>2. mem1.op = "none" /\ mem1.file = "none" /\ ex2.file = "none" /\ wb.file = "none"
  BY DEF HInit, Init, NoMem1, NoWrite
<1>3. Mem1Kinds
  BY <1>2 DEF Mem1Kinds, MemOps, Loads
<1>4. Delivered
  BY <1>2 DEF Delivered, BehindEx1, BehindMem1, BehindEx2, Ready, Aims, HInit
<1>5. Latched
  BY Bubbles DEF HInit, Init, NoEx1, Latched, ReadFile, Bubble
<1> QED
  BY <1>1, <1>3, <1>4, <1>5 DEF DataInv, HInit, TypeOK

\* What leaves EX1 has the kind of file its operation writes.
LEMMA ShiftedKind ==
  ASSUME TypeOK, Mem1Shifts
  PROVE  /\ mem1' \in Mem1Type /\ mem1'.access = "idle" /\ Mem1Kinds'
<1>1. /\ ex1.i \in Held /\ ex1.pc \in Pc
      /\ ex1.i.op \in Ops \union {"none"} /\ ex1.i.rd \in Reg
  BY Bubbles DEF TypeOK, Ex1Type
<1>2. Results(ex1.i) \subseteq Val /\ Destinations(ex1.i) \subseteq {"x", "e", "none"}
  BY Numbers DEF Results, Destinations
<1>3. PICK v \in Results(ex1.i), f \in Destinations(ex1.i) :
        mem1' = [op |-> ex1.i.op, pc |-> ex1.pc, file |-> f,
                 rd |-> IF f = "none" THEN 0 ELSE ex1.i.rd,
                 res |-> IF f = "none" THEN 0 ELSE v, access |-> "idle"]
  BY DEF Mem1Shifts
<1>4. mem1' \in Mem1Type /\ mem1'.access = "idle"
  BY <1>1, <1>2, <1>3, Bubbles, Numbers DEF Mem1Type
<1>5. mem1'.op = ex1.i.op /\ mem1'.file \in Destinations(ex1.i)
  BY <1>3
<1>6. Mem1Kinds'
  BY <1>5 DEF Mem1Kinds, Destinations, WriteFile, MemOps, Loads
<1> QED
  BY <1>4, <1>6

\* EX2, WB and the register file move on together.
LEMMA BehindMoves ==
  ASSUME TypeOK, Writeback, NEW f \in {"x", "e"}, NEW r \in Reg
  PROVE  BehindEx2(f, r)' = BehindMem1(f, r)
<1>1. /\ wb'.file = ex2.file /\ wb'.rd = ex2.rd /\ wb'.val = Extended(ex2)
  BY DEF Writeback, TypeOK, WriteType, Extended
<1>2. rf'[f][r] = BehindEx2(f, r)
  <2>1. wb.file \in {"x", "e", "none"} /\ wb.rd \in Reg
        /\ rf \in [{"x", "e"} -> [Reg -> Val]]
    BY DEF TypeOK, WriteType
  <2>2. CASE wb.file = "none"
    BY <2>2 DEF Writeback, BehindEx2, Aims
  <2>3. CASE wb.file # "none"
    BY <2>1, <2>3 DEF Writeback, BehindEx2, Aims
  <2> QED
    BY <2>2, <2>3
<1> QED
  BY <1>1, <1>2 DEF BehindEx2, BehindMem1, Aims

\* What leaves MEM1 is what EX2 then holds, and nothing else does.
LEMMA Mem1Moves ==
  ASSUME TypeOK, Mem1Kinds, Writeback, NEW f \in {"x", "e"}, NEW r \in Reg
  PROVE  /\ BehindMem1(f, r)' = BehindEx1(f, r)
         /\ stall_mem1 \/ mem1_fault_trap => ~Ready(f, r)
<1>1. BehindEx2(f, r)' = BehindMem1(f, r)
  BY BehindMoves
<1>2. mem1.op \in Loads \/ mem1.op \in MemOps \ Loads \/ mem1.op \notin MemOps
  OBVIOUS
<1>3. CASE stall_mem1 \/ mem1_fault_trap
  <2>1. mem1.op \in MemOps /\ mem1.access # "ok"
    BY <1>3 DEF stall_mem1, mem1_fault_trap, TypeOK
  <2>2. ~Ready(f, r)
    BY <1>2, <2>1 DEF Ready, Aims, Mem1Kinds
  <2>3. ex2' = NoWrite
    BY <1>3 DEF Writeback
  <2>4. ~Aims(ex2, f, r)'
    BY <2>3 DEF Aims, NoWrite
  <2> QED
    BY <1>1, <2>2, <2>4 DEF BehindEx1, BehindMem1
<1>4. CASE ~stall_mem1 /\ ~mem1_fault_trap /\ Mem1Holds
  <2>1. ex2' = [valid |-> TRUE, file |-> mem1.file, rd |-> mem1.rd, val |-> mem1.res,
                word |-> mem1.op = "word"]
    BY <1>4 DEF Writeback
  <2>2. ex2'.file = mem1.file /\ ex2'.rd = mem1.rd /\ Extended(ex2)' = Result(mem1)
    BY <2>1 DEF Extended, Result
  <2>3. mem1.op \in Loads => mem1.access = "ok"
    BY <1>4 DEF stall_mem1, mem1_fault_trap, MemOps, TypeOK, Mem1Type
  <2>4. Aims(ex2, f, r)' <=> Ready(f, r)
    BY <2>2, <2>3 DEF Aims, Ready
  <2> QED
    BY <1>1, <1>4, <2>2, <2>4 DEF BehindEx1, BehindMem1
<1>5. CASE ~stall_mem1 /\ ~mem1_fault_trap /\ ~Mem1Holds
  <2>1. ex2' = NoWrite
    BY <1>5 DEF Writeback
  <2>2. ~Aims(ex2, f, r)'
    BY <2>1 DEF Aims, NoWrite
  <2>3. ~Ready(f, r)
    BY <1>5 DEF Mem1Holds, Mem1Kinds, Ready, Aims
  <2> QED
    BY <1>1, <2>2, <2>3 DEF BehindEx1, BehindMem1
<1> QED
  BY <1>3, <1>4, <1>5

\* A register that WB does not write keeps its value.
LEMMA FileKeeps ==
  ASSUME TypeOK, Writeback, NEW f \in {"x", "e"}, NEW r \in Reg,
         ~(wb.file = f /\ wb.rd = r)
  PROVE  rf'[f][r] = rf[f][r]
<1>1. wb.file \in {"x", "e", "none"} /\ wb.rd \in Reg
      /\ rf \in [{"x", "e"} -> [Reg -> Val]]
  BY DEF TypeOK, WriteType
<1>2. CASE wb.file = "none"
  BY <1>2 DEF Writeback
<1>3. CASE wb.file # "none"
  BY <1>1, <1>3 DEF Writeback
<1> QED
  BY <1>2, <1>3

\* MEM1 after a step: what enters it, or the access it holds, and whether the
\* program's registers move.
LEMMA Mem1Next ==
  ASSUME TypeOK, Mem1Kinds, NEW misaligned, Memory(misaligned)
  PROVE  /\ Mem1Kinds'
         /\ \A f \in {"x", "e"}, r \in Reg :
              /\ Produces(misaligned) /\ Aims(mem1, f, r)' => Ready(f, r)'
              /\ ~Produces(misaligned) => ~Ready(f, r)'
<1> DEFINE Goal == /\ Mem1Kinds'
                   /\ \A f \in {"x", "e"}, r \in Reg :
                        /\ Produces(misaligned) /\ Aims(mem1, f, r)' => Ready(f, r)'
                        /\ ~Produces(misaligned) => ~Ready(f, r)'
<1>1. mem1 \in Mem1Type /\ (mem1.access # "idle" => mem1.op \in MemOps)
  BY DEF TypeOK
<1>2. ASSUME Entering(misaligned), Mem1Shifts PROVE Goal
  <2>1. mem1'.access = "idle" /\ Mem1Kinds'
    BY <1>2, ShiftedKind
  <2>2. Produces(misaligned) <=> mem1'.op \notin Loads
    BY <1>2, <2>1 DEF Produces
  <2> QED
    BY <2>1, <2>2 DEF Ready
<1>3. ASSUME ~Entering(misaligned), Mem1Empties PROVE Goal
  <2>1. mem1'.op = "none" /\ mem1'.file = "none" /\ mem1'.access = "idle"
    BY <1>3 DEF Mem1Empties, NoMem1
  <2> QED
    BY <1>3, <2>1 DEF Produces, Ready, Aims, Mem1Kinds, Loads, MemOps
<1>4. ASSUME ~Entering(misaligned), Mem1Waits \/ Mem1Sends PROVE Goal
  <2>1. /\ mem1'.op = mem1.op /\ mem1'.file = mem1.file
        /\ mem1'.access \in {"idle", "sent"} /\ mem1.op \in MemOps
    BY <1>1, <1>4 DEF Mem1Waits, Mem1Sends, Mem1Type, stall_mem1
  <2>2. Mem1Kinds'
    BY <2>1 DEF Mem1Kinds
  <2>3. ~Produces(misaligned)
    BY <1>4, <2>1 DEF Produces
  <2>4. \A f \in {"x", "e"}, r \in Reg : ~Ready(f, r)'
    BY <2>1, <2>2 DEF Ready, Aims, Mem1Kinds
  <2> QED
    BY <2>2, <2>3, <2>4
<1>5. ASSUME ~Entering(misaligned), Mem1Answered PROVE Goal
  <2>1. /\ mem1'.op = mem1.op /\ mem1'.file = mem1.file
        /\ mem1'.access \in {"ok", "err"} /\ mem1.op \in MemOps
        /\ mem1.access = "sent"
    BY <1>1, <1>5 DEF Mem1Answered, Mem1Type, stall_mem1
  <2>2. Mem1Kinds'
    BY <2>1 DEF Mem1Kinds
  <2>3. Produces(misaligned) <=> mem1.op \in Loads /\ mem1'.access = "ok"
    BY <1>5, <2>1 DEF Produces
  <2> QED
    BY <2>1, <2>2, <2>3 DEF Ready, Aims, Mem1Kinds
<1>6. Entering(misaligned) => ~stall_mem1
  BY DEF Entering, ex1_to_mem1, ex1_commit_en
<1> QED
  BY <1>2, <1>3, <1>4, <1>5, <1>6
     DEF Memory, Entering, Mem1Waits, Mem1Sends, Mem1Answered

\* The program's registers after a step are the ones the pipeline will deliver.
LEMMA DeliveredStep ==
  ASSUME TypeOK, TypeOK', DataInv, NEW misaligned, Memory(misaligned), Writeback,
         ArchStep(misaligned)
  PROVE  arch' \in [{"x", "e"} -> [Reg -> Val]] /\ Mem1Kinds' /\ Delivered'
<1>1. /\ Mem1Kinds' /\ Mem1Kinds
      /\ \A f \in {"x", "e"}, r \in Reg :
           /\ Produces(misaligned) /\ Aims(mem1, f, r)' => Ready(f, r)'
           /\ ~Produces(misaligned) => ~Ready(f, r)'
  BY Mem1Next DEF DataInv
<1>2. arch \in [{"x", "e"} -> [Reg -> Val]]
  BY DEF DataInv
<1>3. /\ mem1'.file \in {"x", "e", "none"} /\ mem1'.rd \in Reg
      /\ Result(mem1)' \in Val
  BY Numbers DEF TypeOK, Mem1Type, Result
<1>4. arch' \in [{"x", "e"} -> [Reg -> Val]]
  BY <1>2, <1>3 DEF ArchStep
<1>5. ASSUME NEW f \in {"x", "e"}, NEW r \in Reg
      PROVE  arch'[f][r] = BehindEx1(f, r)'
  <2>1. BehindMem1(f, r)' = arch[f][r]
    BY <1>1, Mem1Moves DEF DataInv, Delivered
  <2>2. CASE Produces(misaligned) /\ Aims(mem1, f, r)'
    <3>1. mem1'.file = f /\ mem1'.rd = r
      BY <2>2 DEF Aims
    <3>2. arch'[f][r] = Result(mem1)'
      BY <1>2, <2>2, <3>1 DEF ArchStep
    <3> QED
      BY <1>1, <2>2, <3>2 DEF BehindEx1
  <2>3. CASE ~(Produces(misaligned) /\ Aims(mem1, f, r)')
    <3>1. ~Ready(f, r)'
      BY <1>1, <2>3 DEF Ready
    <3>2. arch'[f][r] = arch[f][r]
      <4>1. CASE Produces(misaligned) /\ mem1'.file # "none"
        <5>1. ~(mem1'.file = f /\ mem1'.rd = r)
          BY <2>3, <4>1 DEF Aims
        <5> QED
          BY <1>2, <1>3, <4>1, <5>1 DEF ArchStep
      <4>2. CASE ~(Produces(misaligned) /\ mem1'.file # "none")
        BY <4>2 DEF ArchStep
      <4> QED
        BY <4>1, <4>2
    <3> QED
      BY <2>1, <3>1, <3>2 DEF BehindEx1
  <2> QED
    BY <2>2, <2>3
<1> QED
  BY <1>1, <1>4, <1>5 DEF Delivered

\* An operand held in EX1 agrees with its register until that is written.
LEMMA LatchedStep ==
  ASSUME TypeOK, Latched, NEW redir \in BOOLEAN, Execute(redir), Writeback,
         MissedStep(redir)
  PROVE  Latched'
<1>1. /\ ex1 \in Ex1Type /\ id \in SlotType
  BY DEF TypeOK
<1>2. \A i \in Held, k \in Source :
        i.rs[k] \in Reg /\ ReadFile(i, k) \in {"x", "e", "none"}
  BY Bubbles DEF ReadFile
<1>3. SUFFICES ASSUME NEW k \in Source, ReadFile(ex1'.i, k) # "none", k \notin missed'
               PROVE  ex1'.val[k] = rf'[ReadFile(ex1'.i, k)][ex1'.i.rs[k]]
  BY DEF Latched
<1>4. CASE ~ex1_enable
  <2>1. ex1'.i = ex1.i /\ ex1'.val = ex1.val
    BY <1>1, <1>4 DEF Execute, UnitStep, Ex1Type
  <2>2. k \notin missed /\ ~Overwritten(ex1.i, k)
    BY <1>3, <1>4 DEF MissedStep
  <2>3. ex1.val[k] = rf[ReadFile(ex1.i, k)][ex1.i.rs[k]]
    BY <1>3, <2>1, <2>2 DEF Latched
  <2>4. rf'[ReadFile(ex1.i, k)][ex1.i.rs[k]] = rf[ReadFile(ex1.i, k)][ex1.i.rs[k]]
    BY <1>1, <1>2, <1>3, <2>1, <2>2, FileKeeps DEF Overwritten, Ex1Type
  <2> QED
    BY <2>1, <2>3, <2>4
<1>5. CASE ex1_enable /\ (redir \/ stall_id)
  <2>1. ex1'.i = Bubble
    BY <1>5 DEF Execute, NoEx1
  <2> QED
    BY <1>3, <2>1 DEF ReadFile, Bubble
<1>6. CASE ex1_enable /\ ~redir /\ ~stall_id
  <2>1. ex1'.i = id.i /\ ex1'.val[k] = Read(id.i, k)
    BY <1>6 DEF Execute
  <2>2. ~Overwritten(id.i, k)
    BY <1>3, <1>6 DEF MissedStep
  <2>3. rf'[ReadFile(id.i, k)][id.i.rs[k]] = rf[ReadFile(id.i, k)][id.i.rs[k]]
    BY <1>1, <1>2, <1>3, <2>1, <2>2, FileKeeps DEF Overwritten, SlotType
  <2> QED
    BY <1>3, <2>1, <2>3 DEF Read
<1> QED
  BY <1>4, <1>5, <1>6

LEMMA DataStep == TypeOK /\ DataInv /\ [HNext]_hvars => DataInv'
<1> SUFFICES ASSUME TypeOK, DataInv, [HNext]_hvars PROVE DataInv'
  OBVIOUS
<1>1. CASE UNCHANGED hvars
  BY <1>1 DEF hvars, vars, DataInv, Mem1Kinds, Delivered, Latched, BehindEx1,
              BehindMem1, BehindEx2, Ready, Aims
<1>2. CASE HNext
  <2>1. PICK target \in Targets, misaligned \in Misaligned, fault \in Faults :
          HClock(target, misaligned, fault)
    BY <1>2 DEF HNext
  <2> DEFINE redir == redirect(target, misaligned, fault)
  <2>2. /\ Execute(redir) /\ Memory(misaligned) /\ Writeback
        /\ ArchStep(misaligned) /\ MissedStep(redir)
    BY <2>1 DEF HClock, Clock
  <2>3. redir \in BOOLEAN
    BY DEF redirect
  <2> HIDE DEF redir
  <2>4. TypeOK'
    BY NextType, HistoryStep
  <2>5. arch' \in [{"x", "e"} -> [Reg -> Val]] /\ Mem1Kinds' /\ Delivered'
    BY <2>2, <2>4, DeliveredStep
  <2>6. Latched'
    BY <2>2, <2>3, LatchedStep DEF DataInv
  <2> QED
    BY <2>5, <2>6 DEF DataInv
<1> QED
  BY <1>1, <1>2

LEMMA DataAlways == HSpec => [](TypeOK /\ DataInv)
<1>1. HInit => TypeOK /\ DataInv
  BY InitType, DataInit DEF HInit
<1>2. TypeOK /\ DataInv /\ [HNext]_hvars => (TypeOK /\ DataInv)'
  BY NextType, HistoryStep, DataStep
<1> QED
  BY <1>1, <1>2, PTL DEF HSpec

\* A register that no stage behind EX1 is going to write has the program's
\* value, for every program, with faults and stalls anywhere.
THEOREM ResultsReachRegisters == HSpec => []RegistersCatchUp
<1>1. DataInv => RegistersCatchUp
  BY DEF DataInv, Delivered, RegistersCatchUp, BehindEx1, BehindMem1, BehindEx2, Ready,
         Aims
<1> QED
  BY <1>1, DataAlways, PTL

\* The youngest stage that forwarding selects holds the program's value, apart
\* from the two cases ForwardedIsCurrent names.
THEOREM ForwardingIsSound == HSpec => []ForwardedIsCurrent
<1>1. ASSUME TypeOK, DataInv PROVE ForwardedIsCurrent
  <2> SUFFICES ASSUME NEW k \in Source, fwd_sel(k) # "NONE", ~LoadOwes(k), ~Unextended(k)
               PROVE  do_fwd(k) = Wanted(k)
    BY DEF ForwardedIsCurrent
  <2> DEFINE r == ex1.i.rs[k]
  <2>1. ReadFile(ex1.i, k) = "x" /\ r \in Reg
    BY <1>1, Bubbles DEF fwd_sel, TypeOK, Ex1Type
  <2>2. Wanted(k) = BehindEx1("x", r)
    BY <1>1, <2>1 DEF Wanted, DataInv, Delivered
  <2>3. Writes(mem1, r) /\ mem1.op \in Loads => mem1.op = "load"
    BY <1>1 DEF DataInv, Mem1Kinds, Writes, Loads
  <2>4. Writes(mem1, r) => mem1.op \notin Loads
    BY <2>1, <2>3 DEF LoadOwes
  <2>5. CASE fwd_sel(k) = "MEM1"
    <3>1. Writes(mem1, r) /\ mem1.op \notin Loads /\ mem1.op # "word"
      BY <2>5 DEF fwd_sel, Unextended
    <3> QED
      BY <2>2, <2>5, <3>1 DEF do_fwd, BehindEx1, Ready, Aims, Writes, Result
  <2>6. CASE fwd_sel(k) = "EX2"
    <3>1. ~Writes(mem1, r) /\ Writes(ex2, r) /\ ~ex2.word
      BY <2>4, <2>6 DEF fwd_sel, Unextended
    <3> QED
      BY <2>2, <2>6, <3>1
         DEF do_fwd, BehindEx1, BehindMem1, Ready, Aims, Writes, Extended
  <2>7. CASE fwd_sel(k) = "WB"
    <3>1. ~Writes(mem1, r) /\ ~Writes(ex2, r) /\ Writes(wb, r)
      BY <2>4, <2>7 DEF fwd_sel
    <3> QED
      BY <2>2, <2>7, <3>1
         DEF do_fwd, BehindEx1, BehindMem1, BehindEx2, Ready, Aims, Writes
  <2> QED
    BY <2>5, <2>6, <2>7 DEF fwd_sel
<1> QED
  BY <1>1, DataAlways, PTL

\* An operand used as ID read it is stale in no case that LatchedIsCurrent does
\* not name.
THEOREM LatchedIsSound == HSpec => []LatchedIsCurrent
<1>1. ASSUME TypeOK, DataInv PROVE LatchedIsCurrent
  <2> SUFFICES ASSUME NEW k \in Source, ReadFile(ex1.i, k) # "none",
                      fwd_sel(k) = "NONE", ~LoadOwes(k), ~CiphertextOwed(k),
                      k \notin missed
               PROVE  do_fwd(k) = Wanted(k)
    BY DEF LatchedIsCurrent
  <2> DEFINE f == ReadFile(ex1.i, k)
             r == ex1.i.rs[k]
  <2>1. f \in {"x", "e"} /\ r \in Reg
    BY <1>1, Bubbles DEF ReadFile, TypeOK, Ex1Type
  <2>2. do_fwd(k) = rf[f][r]
    BY <1>1 DEF do_fwd, DataInv, Latched
  <2>3. Wanted(k) = BehindEx1(f, r)
    BY <1>1, <2>1 DEF Wanted, DataInv, Delivered
  <2>4. ~Ready(f, r) /\ ~Aims(ex2, f, r) /\ ~Aims(wb, f, r)
    <3>1. CASE f = "e"
      BY <3>1 DEF CiphertextOwed, Ready, Aims
    <3>2. CASE f = "x"
      BY <1>1, <3>2 DEF fwd_sel, Writes, Ready, Aims, LoadOwes, DataInv, Mem1Kinds, Loads
    <3> QED
      BY <2>1, <3>1, <3>2
  <2> QED
    BY <2>2, <2>3, <2>4 DEF BehindEx1, BehindMem1, BehindEx2
<1> QED
  BY <1>1, DataAlways, PTL

-----------------------------------------------------------------------------
(***************************************************************************)
(* Retirement: MEM1 fills when an instruction enters it, and empties when  *)
(* it hands one to EX2 or a fault takes it away.                           *)
(***************************************************************************)
One(b) == IF b THEN 1 ELSE 0

LEMMA Mem1Count ==
  ASSUME TypeOK, NEW misaligned, Memory(misaligned), Writeback
  PROVE  One(Mem1Holds') + One(ex2'.valid) + One(mem1_fault_trap)
           = One(Mem1Holds) + One(Entering(misaligned))
<1>1. mem1 \in Mem1Type /\ (mem1.access # "idle" => mem1.op \in MemOps)
  BY DEF TypeOK
<1>2. ex2'.valid <=> Mem1Holds /\ ~stall_mem1 /\ ~mem1_fault_trap
  BY DEF Writeback, NoWrite
<1>3. stall_mem1 \/ mem1_fault_trap => Mem1Holds
  BY <1>1, Bubbles DEF stall_mem1, mem1_fault_trap, Mem1Holds, MemOps, Loads
<1>4. ~(stall_mem1 /\ mem1_fault_trap)
  BY DEF stall_mem1, mem1_fault_trap
<1>5. Mem1Holds' <=> (stall_mem1 \/ Entering(misaligned))
  <2>1. Entering(misaligned) => ~stall_mem1 /\ Holds(ex1)
    BY DEF Entering, ex1_to_mem1, ex1_commit_en
  <2>2. CASE Entering(misaligned) /\ Mem1Shifts
    <3>1. mem1'.op = ex1.i.op
      BY <2>2 DEF Mem1Shifts
    <3> QED
      BY <2>1, <2>2, <3>1 DEF Mem1Holds, Holds
  <2>3. CASE ~Entering(misaligned) /\ Mem1Empties
    BY <2>3 DEF Mem1Empties, NoMem1, Mem1Holds
  <2>4. CASE Mem1Waits \/ Mem1Sends \/ Mem1Answered
    <3>1. mem1'.op = mem1.op /\ stall_mem1
      BY <1>1, <2>4 DEF Mem1Waits, Mem1Sends, Mem1Answered, Mem1Type
    <3> QED
      BY <1>3, <3>1 DEF Mem1Holds
  <2> QED
    BY <2>2, <2>3, <2>4 DEF Memory, Entering
<1>6. Entering(misaligned) => ~stall_mem1 /\ ~mem1_fault_trap
  BY DEF Entering, ex1_to_mem1, ex1_commit_en
<1> QED
  BY <1>2, <1>3, <1>4, <1>5, <1>6 DEF One

CountInv == flying = One(Mem1Holds) + One(ex2.valid) + One(wb.valid)

\* However the pipeline stalls or traps, an instruction that leaves EX1 is
\* counted once in instret, or not at all if its access failed.
THEOREM RetirementCounts == HSpec => []RetiredOnce
<1>1. HInit => TypeOK /\ CountInv
  <2> SUFFICES ASSUME HInit PROVE TypeOK /\ CountInv
    OBVIOUS
  <2>1. TypeOK
    BY InitType DEF HInit
  <2>2. flying = 0 /\ ~Mem1Holds /\ ~ex2.valid /\ ~wb.valid
    BY DEF HInit, Init, Mem1Holds, NoMem1, NoWrite
  <2> QED
    BY <2>1, <2>2 DEF CountInv, One
<1>2. TypeOK /\ CountInv /\ [HNext]_hvars => (TypeOK /\ CountInv)'
  <2> SUFFICES ASSUME TypeOK, CountInv, [HNext]_hvars PROVE CountInv'
    BY NextType, HistoryStep
  <2>1. CASE UNCHANGED hvars
    BY <2>1 DEF hvars, vars, CountInv, One, Mem1Holds
  <2>2. CASE HNext
    <3>1. PICK target \in Targets, misaligned \in Misaligned, fault \in Faults :
            HClock(target, misaligned, fault)
      BY <2>2 DEF HNext
    <3>2. Memory(misaligned) /\ Writeback /\ FlyingStep(misaligned)
      BY <3>1 DEF HClock, Clock
    <3>3. One(Mem1Holds') + One(ex2'.valid) + One(mem1_fault_trap)
            = One(Mem1Holds) + One(Entering(misaligned))
      BY <3>2, Mem1Count
    <3>4. wb'.valid = ex2.valid
      BY <3>2 DEF Writeback, TypeOK, WriteType
    <3>5. flying' = flying + One(Entering(misaligned)) - One(wb.valid)
                    - One(mem1_fault_trap)
      BY <3>2 DEF FlyingStep, One
    <3>6. \A b : One(b) \in {0, 1}
      BY DEF One
    <3> QED
      BY <3>3, <3>4, <3>5, <3>6 DEF CountInv
  <2> QED
    BY <2>1, <2>2
<1>3. CountInv => RetiredOnce
  BY DEF CountInv, RetiredOnce, One
<1> QED
  BY <1>1, <1>2, <1>3, PTL DEF HSpec
=============================================================================

------------------------------ MODULE DcacheRam ------------------------------
(***************************************************************************)
(* The data path of one core: MEM1 stage, D-cache and RAM, all clocked     *)
(* together.  The arbiters between the cache and the RAM appear as one     *)
(* wire, grant, which may hold the cache's request back on any edge; the   *)
(* modules CoreMemory and QuadBus have the arbiters themselves.            *)
(***************************************************************************)
EXTENDS Mem1Port, Dcache, SimpleRam

vars == <<mem1, dstate, lines, dpend, evict, dresp, ram, rpend, rresp>>

Init == Mem1Init /\ DcInit /\ RamInit

\* One clock edge.  Every module moves, on the wires of the state before it.
Clock(grant) ==
  /\ Mem1Edge(DcReady, dresp)
  /\ DcEdge(DmemReq, DmemRespReady, grant /\ RamReady, rresp)
  /\ RamEdge(IF grant THEN DcMemReq ELSE NoReq, DcMemRespReady)

Next == \E grant \in BOOLEAN : Clock(grant)

Spec == Init /\ [][Next]_vars

-----------------------------------------------------------------------------
TypeOK == Mem1TypeOK /\ DcTypeOK /\ RamTypeOK

\* A write-back never faults: the address rebuilt from a valid line's tag and
\* index is one the RAM has.  dcache.sv:188 relies on it: the error of a
\* write-back is overwritten by the fill and the victim's data is lost.
VictimIsMapped ==
  /\ \A i \in Index : lines[i].valid => Mapped(LineAddr(lines[i].tag, i))
  /\ dstate = "S_WB_WAIT" /\ rresp # NoResp => ~rresp.err

\* A valid line that is not dirty is the RAM's line, so dropping it on a miss
\* loses no store.
CleanLineMatchesRam ==
  \A i \in Index :
    lines[i].valid /\ ~lines[i].dirty =>
      lines[i].data = ram[LineAddr(lines[i].tag, i)]

\* A victim is replaced only after the RAM has its data: at every fill the line
\* given up is clean or was never valid.
FillReplacesSavedLine ==
  [][\A i \in Index :
       lines[i].valid /\ lines'[i].tag # lines[i].tag =>
         ram'[LineAddr(lines[i].tag, i)] = lines[i].data]_vars

-----------------------------------------------------------------------------
(* The inductive invariant.                                                *)

\* MEM1 waits exactly while the cache is busy, with the request the cache has
\* latched; a response is shown only in S_HITRESP.
HandshakeInv ==
  /\ (mem1.st = "sent") <=> (dstate # "S_IDLE")
  /\ dpend = IF dstate = "S_IDLE" THEN NoReq ELSE mem1.rq
  /\ (dresp # NoResp) <=> (dstate = "S_HITRESP")

\* During a miss the line of the set is another one; while it is written back
\* it is dirty and evict is its copy, and before the fill it is not dirty.
MissInv ==
  LET i == Idx(dpend.addr)
  IN /\ dstate \in {"S_WB_REQ", "S_WB_WAIT"} =>
          /\ ~Hit(dpend.addr) /\ lines[i].valid /\ lines[i].dirty
          /\ evict = [addr |-> LineAddr(lines[i].tag, i), data |-> lines[i].data]
     /\ dstate \in {"S_RD_REQ", "S_RD_WAIT"} =>
          ~Hit(dpend.addr) /\ ~(lines[i].valid /\ lines[i].dirty)

\* The RAM is busy only while the cache waits, and then with the cache's
\* request or with the answer to it.
TransactionInv ==
  /\ dstate \notin {"S_WB_WAIT", "S_RD_WAIT"} => rpend = NoReq /\ rresp = NoResp
  /\ dstate = "S_WB_WAIT" =>
       \/ rpend = WriteReq(evict.addr, evict.data) /\ rresp = NoResp
       \/ /\ rpend = NoReq /\ rresp = [rdata |-> ZeroLine, err |-> FALSE]
          /\ ram[evict.addr] = evict.data
  /\ dstate = "S_RD_WAIT" =>
       \/ rpend = ReadReq(dpend.addr) /\ rresp = NoResp
       \/ /\ rpend = NoReq
          /\ rresp = IF Mapped(dpend.addr)
                       THEN [rdata |-> ram[dpend.addr], err |-> FALSE]
                       ELSE [rdata |-> ZeroLine, err |-> TRUE]

LinesInv ==
  \A i \in Index : lines[i].valid =>
    /\ Mapped(LineAddr(lines[i].tag, i))
    /\ lines[i].dirty \/ lines[i].data = ram[LineAddr(lines[i].tag, i)]

\* Everything the proofs need, in one inductive invariant.
DataPathInv ==
  /\ TypeOK /\ HandshakeInv /\ MissInv /\ TransactionInv /\ LinesInv
=============================================================================

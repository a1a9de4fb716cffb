------------------------------ MODULE CoreMemory -----------------------------
(***************************************************************************)
(* The memory system of soc_top: the fetch and MEM1 stages of the core,    *)
(* both caches, the arbiter between them and the RAM, on one clock.        *)
(***************************************************************************)
EXTENDS Mem1Port, Dcache, IfetchPort, Icache, CacheArbiter, SimpleRam

vars == <<mem1, dstate, lines, dpend, evict, dresp,
          pc, inflight, ibuf, istate, ilines, ipend, iresp,
          arb, ram, rpend, rresp>>

Init == Mem1Init /\ DcInit /\ IfInit /\ IcInit /\ ArbInit /\ RamInit

-----------------------------------------------------------------------------
(* The wires between the modules.                                          *)

Owner == Selected(DcMemReq, IcMemReq)

\* The memory port's request and response-ready, and what each cache sees of
\* the memory's answers.
MemReq == IF Owner = "dc" THEN DcMemReq
          ELSE IF Owner = "ic" THEN IcMemReq ELSE NoReq
MemRespReady == \/ Owner = "dc" /\ DcMemRespReady
                \/ Owner = "ic" /\ IcMemRespReady
DcSees == IF Owner = "dc" THEN rresp ELSE NoResp
IcSees == IF Owner = "ic" THEN rresp ELSE NoResp

\* fencei_pulse: a fence.i leaves EX1, which it can only do when MEM1 is not
\* stalled, and enters MEM1 as an instruction without memory access.
Clock(fencei) ==
  /\ IF fencei THEN Mem1Shift(NoReq) ELSE Mem1Edge(DcReady, dresp)
  /\ IfEdge(fencei, IcReady, iresp)
  /\ IcEdge(ImemReq, ImemRespReady, fencei, Owner = "ic" /\ RamReady, IcSees)
  /\ DcEdge(DmemReq, DmemRespReady, Owner = "dc" /\ RamReady, DcSees)
  /\ ArbEdge(DcMemReq, IcMemReq, rresp # NoResp /\ MemRespReady)
  /\ RamEdge(MemReq, MemRespReady)

Next == \E fencei \in BOOLEAN : Clock(fencei)

Spec == Init /\ [][Next]_vars

\* The clock runs.  Nothing else is assumed: the arbiter's turns follow from it.
FairSpec == Spec /\ WF_vars(Next)

-----------------------------------------------------------------------------
TypeOK ==
  /\ Mem1TypeOK /\ DcTypeOK /\ IfTypeOK /\ IcTypeOK /\ ArbTypeOK /\ RamTypeOK

\* A memory transaction belongs to the cache that waits for it: the request
\* the RAM holds, or the answer it shows, is the one of the cache the arbiter
\* is locked to, so no answer reaches the wrong cache or nobody
\* (cache_arbiter.sv routes answers by its state alone, without an id).
TransactionHasItsOwner ==
  rpend # NoReq \/ rresp # NoResp =>
    \/ /\ arb = "SERVE_DC"
       /\ dstate \in {"S_WB_WAIT", "S_RD_WAIT"}
       /\ rpend # NoReq => rpend.write = (dstate = "S_WB_WAIT")
    \/ /\ arb = "SERVE_IC"
       /\ istate = "S_MISS_WAIT"
       /\ rpend # NoReq => rpend = ipend

\* The line the I-cache answers with is for the fetch in flight, even when the
\* pc has moved since: the buffer is tagged with ifetch_addr, not with the pc.
FetchAnswersItsRequest ==
  /\ (inflight # NoReq) <=> (istate # "S_IDLE")
  /\ istate # "S_IDLE" => ipend.addr = inflight

\* What MEM1, D-cache and RAM do here is a behaviour of DcacheRam: the arbiter
\* only delays the D-cache's requests, and the I-cache's transactions are
\* invisible to it.
DcacheSide ==
  INSTANCE DcacheRam WITH
    rpend <- IF arb = "SERVE_IC" THEN NoReq ELSE rpend,
    rresp <- IF arb = "SERVE_IC" THEN NoResp ELSE rresp

ArbiterOnlyDelays == DcacheSide!Spec

\* Every fetch is answered: the D-cache's priority cannot starve the I-cache,
\* because the D-cache spends edges without a request between two misses.
FetchCompletes == (inflight # NoReq) ~> (inflight = NoReq)

\* Every data access is answered: the I-cache cannot hold the port for ever.
AccessCompletes == (mem1.st = "want") ~> (mem1.st = "done")
=============================================================================

--------------------------- MODULE CoreMemoryProofs --------------------------
(***************************************************************************)
(* Proofs about the memory system of soc_top, for every cache and RAM      *)
(* size.  Behind the arbiter the D-cache has the RAM of DcacheRam, so what *)
(* DcacheProofs proves of the two is used here and not proved again.       *)
(***************************************************************************)
EXTENDS FenceHistory, TLAPS

\* The D-cache's side of the arbiter, with the proofs about it.
DS == INSTANCE DcacheProofs WITH
        rpend <- IF arb = "SERVE_IC" THEN NoReq ELSE rpend,
        rresp <- IF arb = "SERVE_IC" THEN NoResp ELSE rresp

-----------------------------------------------------------------------------
(* What DcacheProofs says of this system.                                  *)

\* The substitution touches no constant and no set of values.
LEMMA SameTypes ==
  /\ DS!Addr = Addr /\ DS!Index = Index /\ DS!Tag = Tag /\ DS!Line = Line
  /\ DS!Request = Request /\ DS!Response = Response /\ DS!MappedAddr = MappedAddr
  /\ DS!ZeroLine = ZeroLine
  BY DEF DS!Addr, Addr, DS!Index, Index, DS!Tag, Tag, DS!Line, Line, DS!Request, Request,
     DS!Response, Response, DS!MappedAddr, MappedAddr, DS!ZeroLine, ZeroLine

\* Index and tag of an address, and the address rebuilt from them.
LEMMA AddressFacts ==
  ASSUME NEW a \in Addr
  PROVE  /\ a \in Nat /\ Idx(a) \in Index /\ TagOf(a) \in Tag
         /\ Mapped(a) => LineAddr(TagOf(a), Idx(a)) = a /\ a \in MappedAddr
  <1>1. a \in Nat
    BY DEF Addr
  <1>2. Idx(a) \in Index /\ TagOf(a) \in Tag
    BY SameTypes, SizeAssumption, MemAssumption, DataAssumption, DS!IdxTagType
    DEF DS!Idx, DS!TagOf, Idx, TagOf
  <1>3. ASSUME Mapped(a)
        PROVE  a < LINES * TAGS /\ a \in MappedAddr
    BY <1>1, <1>3, SameTypes, SizeAssumption, MemAssumption, DataAssumption, DS!MappedReach
    DEF DS!Mapped, Mapped
  <1>4. ASSUME a < LINES * TAGS
        PROVE  LineAddr(TagOf(a), Idx(a)) = a
    BY <1>1, <1>4, SameTypes, SizeAssumption, MemAssumption, DataAssumption, DS!AddressRebuilt
    DEF DS!LineAddr, DS!TagOf, DS!Idx, LineAddr, TagOf, Idx
  <1> QED BY <1>1, <1>2, <1>3, <1>4

\* What is on the wires is never taken for no request or no response.
LEMMA WireFacts ==
  /\ NoReq \notin Request /\ NoResp \notin Response /\ NoReq \notin Addr
  /\ ZeroLine \in Line
  /\ \A a \in Addr : ReadReq(a) \in Request /\ ReadReq(a) # NoReq
  /\ \A a \in Addr, d \in Line : WriteReq(a, d) \in Request /\ WriteReq(a, d) # NoReq
  /\ \A d \in Line, e \in BOOLEAN :
       [rdata |-> d, err |-> e] \in Response /\ [rdata |-> d, err |-> e] # NoResp
  <1>1. ZeroLine \in Line
    BY DataAssumption DEF ZeroLine, Line
  <1>2. NoReq \notin Request /\ NoResp \notin Response /\ NoReq \notin Addr
    BY DataAssumption, FetchAssumption
  <1>3. \A a \in Addr : ReadReq(a) \in Request
    BY <1>1 DEF Request, ReadReq
  <1>4. \A a \in Addr, d \in Line : WriteReq(a, d) \in Request
    BY DEF Request, WriteReq
  <1>5. \A d \in Line, e \in BOOLEAN : [rdata |-> d, err |-> e] \in Response
    BY DEF Response
  <1> QED BY <1>1, <1>2, <1>3, <1>4, <1>5

\* MEM1 and the D-cache are the same on both sides of the substitution.
LEMMA SameWires ==
  /\ DS!DcReady = DcReady /\ DS!DmemReq = DmemReq /\ DS!DmemRespReady = DmemRespReady
  /\ DS!DcMemReq = DcMemReq /\ DS!DcMemRespReady = DcMemRespReady
  BY DEF DS!DcReady, DcReady, DS!DmemReq, DmemReq, DS!DmemRespReady, DmemRespReady,
     DS!DcMemReq, DcMemReq, DS!DcMemRespReady, DcMemRespReady, DS!ZeroLine,
     ZeroLine, DS!ReadReq, ReadReq, DS!WriteReq, WriteReq

LEMMA SameMem1Edge ==
  ASSUME NEW ready, NEW r
  PROVE  DS!Mem1Edge(ready, r) <=> Mem1Edge(ready, r)
  BY DEF DS!Mem1Edge, Mem1Edge, DS!Mem1Shift, Mem1Shift, DS!Mem1Sent, Mem1Sent,
     DS!Mem1Done, Mem1Done, DS!Mem1Stall, Mem1Stall, DS!Mem1Empty, Mem1Empty,
     DS!CoreOps, CoreOps, DS!Request, Request, DS!Addr, Addr, DS!Line, Line

LEMMA SameDcEdge ==
  ASSUME NEW rq, NEW respReady, NEW ready, NEW m
  PROVE  DS!DcEdge(rq, respReady, ready, m) <=> DcEdge(rq, respReady, ready, m)
  BY DEF DS!DcEdge, DcEdge, DS!DcHit, DcHit, DS!DcMissDirty, DcMissDirty,
     DS!DcMissClean, DcMissClean, DS!DcRespond, DcRespond, DS!DcReqAccepted,
     DcReqAccepted, DS!DcWbDone, DcWbDone, DS!DcFill, DcFill, DS!DcFillError,
     DcFillError, DS!DcWait, DcWait, DS!dcVars, dcVars, DS!Hit, Hit, DS!Idx, Idx,
     DS!TagOf, TagOf, DS!LineAddr, LineAddr, DS!Merged, Merged, DS!apply_wstrb,
     apply_wstrb, DS!NoEvict, NoEvict, DS!ZeroLine, ZeroLine, DS!ReadReq, ReadReq,
     DS!WriteReq, WriteReq

\* The two instances of DcacheRam, the model's and the one with the proofs, are
\* one system.
LEMMA SameClock ==
  ASSUME NEW grant
  PROVE  DS!Clock(grant) <=> DcacheSide!Clock(grant)
  BY DEF DS!Clock, DcacheSide!Clock, DS!DcReady, DcacheSide!DcReady, DS!DmemReq,
     DcacheSide!DmemReq, DS!DmemRespReady, DcacheSide!DmemRespReady, DS!DcMemReq,
     DcacheSide!DcMemReq, DS!DcMemRespReady, DcacheSide!DcMemRespReady, DS!Mem1Edge,
     DcacheSide!Mem1Edge, DS!Mem1Shift, DcacheSide!Mem1Shift, DS!Mem1Sent,
     DcacheSide!Mem1Sent, DS!Mem1Done, DcacheSide!Mem1Done, DS!Mem1Stall,
     DcacheSide!Mem1Stall, DS!Mem1Empty, DcacheSide!Mem1Empty, DS!CoreOps,
     DcacheSide!CoreOps, DS!Request, DcacheSide!Request, DS!Addr, DcacheSide!Addr,
     DS!Line, DcacheSide!Line, DS!DcEdge, DcacheSide!DcEdge, DS!DcHit,
     DcacheSide!DcHit, DS!DcMissDirty, DcacheSide!DcMissDirty, DS!DcMissClean,
     DcacheSide!DcMissClean, DS!DcRespond, DcacheSide!DcRespond, DS!DcReqAccepted,
     DcacheSide!DcReqAccepted, DS!DcWbDone, DcacheSide!DcWbDone, DS!DcFill,
     DcacheSide!DcFill, DS!DcFillError, DcacheSide!DcFillError, DS!DcWait,
     DcacheSide!DcWait, DS!dcVars, DcacheSide!dcVars, DS!Hit, DcacheSide!Hit,
     DS!Idx, DcacheSide!Idx, DS!TagOf, DcacheSide!TagOf, DS!LineAddr,
     DcacheSide!LineAddr, DS!Merged, DcacheSide!Merged, DS!apply_wstrb,
     DcacheSide!apply_wstrb, DS!NoEvict, DcacheSide!NoEvict, DS!ZeroLine,
     DcacheSide!ZeroLine, DS!ReadReq, DcacheSide!ReadReq, DS!WriteReq,
     DcacheSide!WriteReq, DS!RamReady, DcacheSide!RamReady, DS!RamEdge,
     DcacheSide!RamEdge, DS!RamAccept, DcacheSide!RamAccept, DS!RamComplete,
     DcacheSide!RamComplete, DS!RamHold, DcacheSide!RamHold, DS!RamConsumed,
     DcacheSide!RamConsumed, DS!RamReply, DcacheSide!RamReply, DS!Mapped,
     DcacheSide!Mapped

LEMMA SameInit == DS!Init <=> DcacheSide!Init
  BY DEF DS!Init, DcacheSide!Init, DS!Mem1Init, DcacheSide!Mem1Init, DS!Mem1Empty,
     DcacheSide!Mem1Empty, DS!DcInit, DcacheSide!DcInit, DS!NoEvict,
     DcacheSide!NoEvict, DS!RamInit, DcacheSide!RamInit, DS!ZeroLine,
     DcacheSide!ZeroLine, DS!Index, DcacheSide!Index, DS!MappedAddr,
     DcacheSide!MappedAddr, DS!Line, DcacheSide!Line

-----------------------------------------------------------------------------
(* The inductive invariant: the D-cache's side as DcacheProofs has it, the *)
(* fetch side, and the arbiter between them.                               *)

\* What the RAM answers to a read.
Answer(a) ==
  IF Mapped(a) THEN [rdata |-> ram[a], err |-> FALSE]
  ELSE [rdata |-> ZeroLine, err |-> TRUE]

\* The fetch stage waits exactly while the I-cache is busy with its request.
FetchInv ==
  /\ IfTypeOK /\ IcTypeOK
  /\ (inflight # NoReq) <=> (istate # "S_IDLE")
  /\ istate # "S_IDLE" => ipend = ReadReq(inflight)
  /\ (iresp # NoResp) <=> (istate = "S_HITRESP")

\* The arbiter is locked exactly to the cache that waits for the RAM, and the
\* RAM then has that cache's request or the answer to it.
ArbInv ==
  /\ ArbTypeOK
  /\ (arb = "SERVE_DC") <=> (dstate \in {"S_WB_WAIT", "S_RD_WAIT"})
  /\ (arb = "SERVE_IC") <=> (istate = "S_MISS_WAIT")
  /\ arb = "IDLE" => rpend = NoReq /\ rresp = NoResp
  /\ arb = "SERVE_IC" =>
       \/ rpend = ipend /\ rresp = NoResp
       \/ rpend = NoReq /\ rresp = Answer(inflight)

CoreInv == DS!DataPathInv /\ FetchInv /\ ArbInv

\* The requests of the two caches.
LEMMA CacheRequests ==
  ASSUME CoreInv
  PROVE  /\ dstate \in DcStates
         /\ dstate \in {"S_WB_REQ", "S_RD_REQ"} => DcMemReq \in Request /\ DcMemReq # NoReq
         /\ dstate \notin {"S_WB_REQ", "S_RD_REQ"} => DcMemReq = NoReq
         /\ istate # "S_IDLE" => inflight \in Addr /\ ipend \in Request /\ ipend # NoReq
  <1>1. dstate \in DcStates
    BY DEF CoreInv, DS!DataPathInv, DS!TypeOK, DS!DcTypeOK, DS!DcStates, DcStates
  <1>2. ASSUME dstate \in {"S_WB_REQ", "S_RD_REQ"}
        PROVE  DcMemReq \in Request /\ DcMemReq # NoReq
    <2>1. /\ dpend.addr \in Addr
          /\ dstate = "S_WB_REQ" => evict.addr \in Addr /\ evict.data \in Line
      BY <1>2, SameTypes, SizeAssumption, MemAssumption, DataAssumption, DS!BusyFacts DEF CoreInv
    <2> QED BY <1>2, <2>1, WireFacts DEF DcMemReq
  <1>3. dstate \notin {"S_WB_REQ", "S_RD_REQ"} => DcMemReq = NoReq
    BY DEF DcMemReq
  <1>4. ASSUME istate # "S_IDLE"
        PROVE  inflight \in Addr /\ ipend \in Request /\ ipend # NoReq
    <2>1. inflight \in Addr /\ ipend = ReadReq(inflight)
      BY <1>4 DEF CoreInv, FetchInv, IfTypeOK
    <2> QED BY <2>1, WireFacts
  <1> QED BY <1>1, <1>2, <1>3, <1>4

\* What the RAM has while the arbiter is locked.
LEMMA LockedTransaction ==
  ASSUME CoreInv
  PROVE  /\ arb = "SERVE_DC" =>
              /\ rpend # NoReq <=> rresp = NoResp
              /\ rpend # NoReq => rpend \in Request /\ rpend.write = (dstate = "S_WB_WAIT")
              /\ rresp \in Response \union {NoResp}
         /\ arb = "SERVE_IC" =>
              /\ rpend # NoReq <=> rresp = NoResp
              /\ rpend # NoReq => rpend = ReadReq(inflight) /\ rpend \in Request
              /\ rresp # NoResp => rresp = Answer(inflight)
              /\ rresp \in Response \union {NoResp}
  <1>1. ram \in [MappedAddr -> Line]
    BY SameTypes DEF CoreInv, DS!DataPathInv, DS!TypeOK, DS!RamTypeOK
  <1>2. ASSUME arb = "SERVE_DC"
        PROVE  /\ rpend # NoReq <=> rresp = NoResp
               /\ rpend # NoReq => rpend \in Request /\ rpend.write = (dstate = "S_WB_WAIT")
               /\ rresp \in Response \union {NoResp}
    <2>1. dstate \in {"S_WB_WAIT", "S_RD_WAIT"}
      BY <1>2 DEF CoreInv, ArbInv
    <2>2. /\ dpend.addr \in Addr
          /\ dstate = "S_WB_WAIT" => evict.addr \in Addr /\ evict.data \in Line
      BY <2>1, SameTypes, SizeAssumption, MemAssumption, DataAssumption, DS!BusyFacts DEF CoreInv
    <2>3. rpend \in Request \union {NoReq} /\ rresp \in Response \union {NoResp}
      BY <1>2, SameTypes DEF CoreInv, DS!DataPathInv, DS!TypeOK, DS!RamTypeOK
    <2>4. CASE dstate = "S_WB_WAIT"
      <3>1. \/ rpend = WriteReq(evict.addr, evict.data) /\ rresp = NoResp
            \/ rpend = NoReq /\ rresp = [rdata |-> ZeroLine, err |-> FALSE]
        BY <1>2, <2>4, SameTypes DEF CoreInv, DS!DataPathInv, DS!TransactionInv, DS!WriteReq,
           WriteReq
      <3>2. ASSUME rpend # NoReq
            PROVE  rpend.write = TRUE
        BY <3>1, <3>2 DEF WriteReq
      <3>3. rpend # NoReq => rpend.write = (dstate = "S_WB_WAIT")
        BY <2>4, <3>2, Zenon
      <3>4. /\ WriteReq(evict.addr, evict.data) # NoReq
            /\ [rdata |-> ZeroLine, err |-> FALSE] # NoResp
        BY <2>2, <2>4, WireFacts
      <3>5. (rpend # NoReq) <=> (rresp = NoResp)
        BY <3>1, <3>4
      <3> QED BY <2>3, <3>3, <3>5
    <2>5. CASE dstate = "S_RD_WAIT"
      <3>1. \/ rpend = ReadReq(dpend.addr) /\ rresp = NoResp
            \/ rpend = NoReq /\ rresp = Answer(dpend.addr)
        BY <1>2, <2>5, SameTypes DEF CoreInv, DS!DataPathInv, DS!TransactionInv, DS!ReadReq,
           ReadReq, DS!Mapped, Mapped, Answer
      <3>2. Answer(dpend.addr) # NoResp
        BY <1>1, <2>2, AddressFacts, WireFacts DEF Answer
      <3>3. ASSUME rpend # NoReq
            PROVE  rpend.write = FALSE
        BY <3>1, <3>3 DEF ReadReq
      <3>4. rpend # NoReq => rpend.write = (dstate = "S_WB_WAIT")
        <4>1. (dstate = "S_WB_WAIT") = FALSE
          BY <2>5
        <4> QED BY <3>3, <4>1, Zenon
      <3>5. ReadReq(dpend.addr) # NoReq
        BY <2>2, WireFacts
      <3>6. (rpend # NoReq) <=> (rresp = NoResp)
        BY <3>1, <3>2, <3>5
      <3> QED BY <2>3, <3>4, <3>6
    <2> QED BY <2>1, <2>4, <2>5
  <1>3. ASSUME arb = "SERVE_IC"
        PROVE  /\ rpend # NoReq <=> rresp = NoResp
               /\ rpend # NoReq => rpend = ReadReq(inflight) /\ rpend \in Request
               /\ rresp # NoResp => rresp = Answer(inflight)
               /\ rresp \in Response \union {NoResp}
    <2>1. istate = "S_MISS_WAIT" /\ ipend = ReadReq(inflight) /\ inflight \in Addr
      BY <1>3, CacheRequests DEF CoreInv, ArbInv, FetchInv
    <2>2. Answer(inflight) \in Response /\ Answer(inflight) # NoResp
      BY <1>1, <2>1, AddressFacts, WireFacts DEF Answer
    <2>3. \/ rpend = ipend /\ rresp = NoResp
          \/ rpend = NoReq /\ rresp = Answer(inflight)
      BY <1>3 DEF CoreInv, ArbInv
    <2> QED BY <2>1, <2>2, <2>3, WireFacts
  <1> QED BY <1>2, <1>3

-----------------------------------------------------------------------------
(* One clock edge does one of five things at the RAM's port.               *)

GrantDc ==
  /\ arb = "IDLE" /\ dstate \in {"S_WB_REQ", "S_RD_REQ"}
  /\ arb' = "SERVE_DC" /\ rpend' = DcMemReq /\ UNCHANGED <<ram, rresp>>

GrantIc ==
  /\ arb = "IDLE" /\ dstate \notin {"S_WB_REQ", "S_RD_REQ"} /\ istate = "S_MISS_REQ"
  /\ arb' = "SERVE_IC" /\ rpend' = ipend /\ UNCHANGED <<ram, rresp>>

NoGrant ==
  /\ arb = "IDLE" /\ dstate \notin {"S_WB_REQ", "S_RD_REQ"} /\ istate # "S_MISS_REQ"
  /\ UNCHANGED <<arb, ram, rpend, rresp>>

Serve ==
  /\ arb # "IDLE" /\ rresp = NoResp
  /\ RamComplete
  /\ UNCHANGED arb

Deliver ==
  /\ arb # "IDLE" /\ rresp # NoResp
  /\ arb' = "IDLE" /\ rresp' = NoResp /\ UNCHANGED <<ram, rpend>>

LEMMA PortStep ==
  ASSUME CoreInv, NEW fencei \in BOOLEAN, Clock(fencei)
  PROVE  GrantDc \/ GrantIc \/ NoGrant \/ Serve \/ Deliver
  <1>1. /\ ArbEdge(DcMemReq, IcMemReq, rresp # NoResp /\ MemRespReady)
        /\ RamEdge(MemReq, MemRespReady)
    BY DEF Clock
  <1>2. (IcMemReq # NoReq) <=> (istate = "S_MISS_REQ")
    BY CacheRequests DEF IcMemReq
  <1>3. CASE arb = "IDLE"
    <2>1. rpend = NoReq /\ rresp = NoResp /\ RamReady
      BY <1>3 DEF CoreInv, ArbInv, RamReady
    <2>2. CASE dstate \in {"S_WB_REQ", "S_RD_REQ"}
      <3>1. DcMemReq # NoReq /\ MemReq = DcMemReq
        BY <1>3, <2>2, CacheRequests DEF MemReq, Owner, Selected
      <3> QED BY <1>1, <1>3, <2>1, <2>2, <3>1
              DEF GrantDc, ArbEdge, RamEdge, RamAccept, RamComplete, RamHold, RamConsumed
    <2>3. CASE dstate \notin {"S_WB_REQ", "S_RD_REQ"} /\ istate = "S_MISS_REQ"
      <3>1. DcMemReq = NoReq /\ IcMemReq = ipend /\ ipend # NoReq /\ MemReq = ipend
        BY <1>2, <1>3, <2>3, CacheRequests DEF MemReq, Owner, Selected, IcMemReq
      <3> QED BY <1>1, <1>3, <2>1, <2>3, <3>1
              DEF GrantIc, ArbEdge, RamEdge, RamAccept, RamComplete, RamHold, RamConsumed
    <2>4. CASE dstate \notin {"S_WB_REQ", "S_RD_REQ"} /\ istate # "S_MISS_REQ"
      <3>1. DcMemReq = NoReq /\ IcMemReq = NoReq /\ MemReq = NoReq
        BY <1>2, <1>3, <2>4, CacheRequests DEF MemReq, Owner, Selected
      <3> QED BY <1>1, <1>3, <2>1, <2>4, <3>1
              DEF NoGrant, ArbEdge, RamEdge, RamAccept, RamComplete, RamHold, RamConsumed
    <2> QED BY <2>2, <2>3, <2>4
  <1>4. CASE arb # "IDLE"
    <2>1. /\ arb \in {"SERVE_DC", "SERVE_IC"}
          /\ arb = "SERVE_DC" <=> dstate \in {"S_WB_WAIT", "S_RD_WAIT"}
          /\ arb = "SERVE_IC" <=> istate = "S_MISS_WAIT"
          /\ (rpend # NoReq) <=> (rresp = NoResp)
      BY <1>4, LockedTransaction DEF CoreInv, ArbInv, ArbTypeOK
    <2>2. MemReq = NoReq /\ MemRespReady = TRUE
      BY <1>4, <2>1 DEF MemReq, MemRespReady, Owner, Selected, DcMemReq, IcMemReq, DcMemRespReady,
         IcMemRespReady
    <2>3. CASE rresp = NoResp
      <3>1. UNCHANGED arb
        BY <1>1, <1>4, <2>3 DEF ArbEdge
      <3>2. RamComplete
        BY <1>1, <2>1, <2>2, <2>3 DEF RamEdge, RamAccept, RamHold
      <3> QED BY <1>4, <2>3, <3>1, <3>2 DEF Serve
    <2>4. CASE rresp # NoResp
      <3>1. arb' = "IDLE"
        BY <1>1, <1>4, <2>2, <2>4 DEF ArbEdge
      <3>2. rresp' = NoResp /\ UNCHANGED <<ram, rpend>>
        BY <1>1, <2>1, <2>2, <2>4 DEF RamEdge, RamAccept, RamComplete, RamHold, RamConsumed
      <3> QED BY <1>4, <2>4, <3>1, <3>2 DEF Deliver
    <2> QED BY <2>3, <2>4
  <1> QED BY <1>3, <1>4

\* Every edge is one of the D-cache with its RAM, in which the arbiter is the
\* grant wire and the I-cache's transactions do not show.
LEMMA DcacheClock ==
  ASSUME CoreInv, NEW fencei \in BOOLEAN, Clock(fencei)
  PROVE  DS!Clock(Owner = "dc")
  <1> DEFINE grant  == Owner = "dc"
             drespR == IF arb = "SERVE_IC" THEN NoResp ELSE rresp
  <1>1. DS!Mem1Edge(DS!DcReady, dresp)
    <2>1. Mem1Edge(DcReady, dresp)
      BY WireFacts DEF Clock, Mem1Edge
    <2> QED BY <2>1, SameMem1Edge, SameWires
  <1>2. DS!DcEdge(DS!DmemReq, DS!DmemRespReady, grant /\ DS!RamReady, drespR)
    <2>1. DcEdge(DmemReq, DmemRespReady, grant /\ RamReady, DcSees)
      BY DEF Clock
    <2>2. (grant /\ RamReady) = (grant /\ DS!RamReady)
      BY DEF Owner, Selected, RamReady, DS!RamReady
    <2>3. DcSees = drespR
      BY DEF DcSees, Owner, Selected, CoreInv, ArbInv, ArbTypeOK
    <2>4. DcEdge(DmemReq, DmemRespReady, grant /\ DS!RamReady, drespR)
      BY <2>1, <2>2, <2>3, Zenon
    <2> QED BY <2>4, SameDcEdge, SameWires
  <1>3. DS!RamEdge(IF grant THEN DS!DcMemReq ELSE NoReq, DS!DcMemRespReady)
    <2>1. CASE GrantDc
      <3>1. grant /\ DcMemReq # NoReq /\ rpend = NoReq /\ rresp = NoResp
        BY <2>1, CacheRequests DEF GrantDc, Owner, Selected, CoreInv, ArbInv
      <3>2. DS!RamAccept(DcMemReq, DcMemRespReady)
        BY <2>1, <3>1 DEF GrantDc, DS!RamAccept, DS!RamReady, DS!RamConsumed
      <3> QED BY <3>1, <3>2, SameWires DEF DS!RamEdge
    <2>2. CASE GrantIc \/ NoGrant
      <3>1. (IF grant THEN DcMemReq ELSE NoReq) = NoReq /\ rpend = NoReq /\ rresp = NoResp
        BY <2>2, CacheRequests DEF GrantIc, NoGrant, CoreInv, ArbInv
      <3>2. DS!RamHold(NoReq, DcMemRespReady)
        BY <2>2, <3>1 DEF GrantIc, NoGrant, DS!RamHold, DS!RamConsumed
      <3> QED BY <3>1, <3>2, SameWires DEF DS!RamEdge
    <2>3. CASE Serve \/ Deliver
      <3>1. /\ arb = "SERVE_DC" \/ arb = "SERVE_IC"
            /\ arb = "SERVE_DC" <=> dstate \in {"S_WB_WAIT", "S_RD_WAIT"}
        BY <2>3 DEF Serve, Deliver, CoreInv, ArbInv, ArbTypeOK
      <3>2. CASE arb = "SERVE_DC"
        <4>1. DcMemReq = NoReq /\ DcMemRespReady = TRUE /\ (rpend # NoReq <=> rresp = NoResp)
          BY <3>1, <3>2, LockedTransaction DEF DcMemReq, DcMemRespReady
        <4>2. CASE Serve
          <5>1. DS!RamComplete
            BY <3>2, <4>2 DEF Serve, RamComplete, DS!RamComplete, RamReply, DS!RamReply, Mapped,
               DS!Mapped, apply_wstrb, DS!apply_wstrb, ZeroLine, DS!ZeroLine
          <5> QED BY <5>1 DEF DS!RamEdge
        <4>3. CASE Deliver
          <5>1. DS!RamHold(NoReq, TRUE)
            BY <3>2, <4>1, <4>3 DEF Deliver, DS!RamHold, DS!RamConsumed
          <5> QED BY <4>1, <5>1, SameWires DEF DS!RamEdge
        <4> QED BY <2>3, <4>2, <4>3
      <3>3. CASE arb = "SERVE_IC"
        <4>1. ~grant
          BY <3>3 DEF Owner, Selected
        <4>2. ram' = ram /\ (arb' = "SERVE_IC" \/ (rpend' = NoReq /\ rresp' = NoResp))
          <5>1. rresp = NoResp => rpend.write = FALSE
            BY <3>3, LockedTransaction DEF ReadReq
          <5>2. CASE Serve
            <6>1. rpend.write = FALSE
              BY <5>1, <5>2 DEF Serve
            <6>2. ram' = ram
              BY <5>2, <6>1 DEF Serve, RamComplete
            <6> QED BY <3>3, <5>2, <6>2 DEF Serve
          <5>3. CASE Deliver
            BY <3>3, <5>3, LockedTransaction DEF Deliver
          <5> QED BY <2>3, <5>2, <5>3
        <4>3. DS!RamHold(NoReq, DcMemRespReady)
          BY <3>1, <3>3, <4>2 DEF DS!RamHold, DS!RamConsumed
        <4> QED BY <4>1, <4>3, SameWires DEF DS!RamEdge
      <3> QED BY <3>1, <3>2, <3>3
    <2> QED BY <2>1, <2>2, <2>3, PortStep
  <1> QED BY <1>1, <1>2, <1>3 DEF DS!Clock

-----------------------------------------------------------------------------
(* The invariant is inductive.                                             *)

LEMMA SideInit ==
  ASSUME Init
  PROVE  DS!Init
  BY DEF Init, DS!Init, Mem1Init, DS!Mem1Init, Mem1Empty, DS!Mem1Empty, DcInit, DS!DcInit,
     NoEvict, DS!NoEvict, ZeroLine, DS!ZeroLine, RamInit, DS!RamInit, Index, DS!Index,
     MappedAddr, DS!MappedAddr, Line, DS!Line, ArbInit

LEMMA CoreInitInv ==
  ASSUME Init
  PROVE  CoreInv
  <1>1. DS!DataPathInv
    BY SideInit, SameTypes, SizeAssumption, MemAssumption, DataAssumption, DS!InitInv
  <1>2. FetchInv
    <2>1. 0 \in Addr /\ 0 \in Tag
      BY SizeAssumption DEF Addr, Tag
    <2>2. IfTypeOK /\ IcTypeOK
      BY <2>1, WireFacts DEF Init, IfInit, IcInit, IfTypeOK, IcTypeOK, NoLine, InvalidLine, IcStates
    <2> QED BY <2>2 DEF FetchInv, Init, IfInit, IcInit
  <1>3. ArbInv
    BY DEF ArbInv, ArbTypeOK, Init, ArbInit, DcInit, IcInit, RamInit
  <1> QED BY <1>1, <1>2, <1>3 DEF CoreInv

\* One lemma per part of the invariant.
LEMMA FetchStep ==
  ASSUME CoreInv, NEW fencei \in BOOLEAN, Clock(fencei)
  PROVE  FetchInv'
  <1> DEFINE ready == Owner = "ic" /\ RamReady
  <1>1. /\ IfEdge(fencei, IcReady, iresp)
        /\ IcEdge(ImemReq, ImemRespReady, fencei, ready, IcSees)
    BY DEF Clock
  <1>2. /\ IfTypeOK /\ IcTypeOK
        /\ inflight # NoReq <=> istate # "S_IDLE"
        /\ istate # "S_IDLE" => ipend = ReadReq(inflight) /\ inflight \in Addr
        /\ iresp # NoResp <=> istate = "S_HITRESP"
    BY CacheRequests DEF CoreInv, FetchInv
  <1>3. Kept(fencei) \in [Index -> [valid : BOOLEAN, tag : Tag, data : Line]]
    <2>1. 0 \in Tag
      BY SizeAssumption DEF Tag
    <2> QED BY <1>2, <2>1, WireFacts DEF Kept, InvalidLine, IcTypeOK
  <1>4. pc' \in Addr /\ ibuf' \in [valid : BOOLEAN, addr : Addr, line : Line]
    <2>1. pc' \in Addr
      BY <1>1 DEF IfEdge
    <2>2. NoLine \in [valid : BOOLEAN, addr : Addr, line : Line]
      <3>1. 0 \in Addr
        BY SizeAssumption DEF Addr
      <3> QED BY <3>1, WireFacts DEF NoLine
    <2>3. ASSUME ImemRespReady, iresp # NoResp
          PROVE  Taken(iresp) \in [valid : BOOLEAN, addr : Addr, line : Line]
      <3>1. inflight \in Addr /\ iresp \in Response
        BY <1>2, <2>3 DEF ImemRespReady, IfTypeOK, IcTypeOK
      <3> QED BY <2>2, <3>1 DEF Taken, Response
    <2> QED BY <1>1, <1>2, <2>1, <2>2, <2>3 DEF IfEdge, IfTypeOK
  <1>5. CASE istate = "S_IDLE"
    <2>1. inflight = NoReq /\ ~ImemRespReady /\ IcReady /\ iresp = NoResp
      BY <1>2, <1>5 DEF ImemRespReady, IcReady
    <2>2. CASE instr_avail
      <3>1. ImemReq = NoReq /\ inflight' = NoReq
        BY <1>1, <2>1, <2>2 DEF ImemReq, IfEdge
      <3>2. IcWait(ImemReq, ImemRespReady, fencei, ready, IcSees)
        BY <1>1, <1>5, <3>1 DEF IcEdge, IcHit, IcMiss, IcRespond, IcReqAccepted, IcFill
      <3> QED BY <1>2, <1>3, <1>4, <1>5, <3>1, <3>2 DEF FetchInv, IfTypeOK, IcTypeOK, IcWait
    <2>3. CASE ~instr_avail
      <3>1. ImemReq = ReadReq(pc) /\ pc \in Addr /\ ImemReq # NoReq /\ ImemReq \in Request
        BY <1>2, <2>1, <2>3, WireFacts DEF ImemReq, IfTypeOK
      <3>2. inflight' = pc /\ pc # NoReq
        BY <1>1, <2>1, <3>1, WireFacts DEF IfEdge
      <3>3. IcHit(ImemReq, fencei) \/ IcMiss(ImemReq, fencei)
        BY <1>1, <1>5, <3>1 DEF IcEdge, IcRespond, IcReqAccepted, IcFill, IcWait
      <3>4. ImemReq.addr \in Addr /\ ilines[Idx(ImemReq.addr)].data \in Line
        <4>1. ImemReq.addr \in Addr
          BY <3>1 DEF Request
        <4> QED BY <1>2, <4>1, AddressFacts DEF IcTypeOK
      <3>5. IcTypeOK' /\ (iresp' # NoResp <=> istate' = "S_HITRESP")
        BY <1>2, <1>3, <2>1, <3>1, <3>3, <3>4, WireFacts DEF IcTypeOK, IcHit, IcMiss, IcStates
      <3> QED BY <1>4, <3>1, <3>2, <3>3, <3>5 DEF FetchInv, IfTypeOK, IcHit, IcMiss
    <2> QED BY <2>2, <2>3
  <1>6. CASE istate = "S_HITRESP"
    <2>1. ImemRespReady = TRUE /\ ImemReq = NoReq /\ iresp # NoResp
      BY <1>2, <1>6 DEF ImemRespReady, ImemReq
    <2>2. inflight' = NoReq
      BY <1>1, <2>1 DEF IfEdge
    <2>3. IcRespond(ImemRespReady, fencei)
      BY <1>1, <1>6, <2>1 DEF IcEdge, IcHit, IcMiss, IcReqAccepted, IcFill, IcWait
    <2> QED BY <1>3, <1>4, <2>2, <2>3 DEF FetchInv, IfTypeOK, IcTypeOK, IcRespond, IcStates
  <1>7. CASE istate \in {"S_MISS_REQ", "S_MISS_WAIT"}
    <2>1. ImemReq = NoReq /\ iresp = NoResp /\ inflight # NoReq /\ inflight' = inflight
      BY <1>1, <1>2, <1>7 DEF ImemReq, IfEdge
    <2>2. \/ IcReqAccepted(ready, fencei)
          \/ IcFill(IcSees, fencei)
          \/ IcWait(ImemReq, ImemRespReady, fencei, ready, IcSees)
      BY <1>1, <1>7 DEF IcEdge, IcHit, IcMiss, IcRespond
    <2>3. CASE IcReqAccepted(ready, fencei)
      BY <1>2, <1>3, <1>4, <2>1, <2>3 DEF FetchInv, IfTypeOK, IcTypeOK, IcReqAccepted, IcStates
    <2>4. CASE IcFill(IcSees, fencei)
      <3>1. IcSees \in Response /\ IcSees # NoResp /\ IcSees.rdata \in Line
        <4>1. arb = "SERVE_IC"
          BY <2>4 DEF IcFill, CoreInv, ArbInv
        <4>2. IcSees \in Response /\ IcSees # NoResp
          BY <2>4, <4>1, LockedTransaction DEF IcFill, IcSees
        <4> QED BY <4>2 DEF Response
      <3>2. ilines' \in [Index -> [valid : BOOLEAN, tag : Tag, data : Line]]
        <4>1. ipend.addr \in Addr
          BY <1>2, <1>7 DEF ReadReq
        <4> QED BY <1>3, <2>4, <3>1, <4>1, AddressFacts DEF IcFill
      <3> QED BY <1>2, <1>4, <2>1, <2>4, <3>1, <3>2
              DEF FetchInv, IfTypeOK, IcTypeOK, IcFill, IcStates
    <2>5. CASE IcWait(ImemReq, ImemRespReady, fencei, ready, IcSees)
      BY <1>2, <1>3, <1>4, <2>1, <2>5 DEF FetchInv, IfTypeOK, IcTypeOK, IcWait
    <2> QED BY <2>2, <2>3, <2>4, <2>5
  <1> QED BY <1>2, <1>5, <1>6, <1>7 DEF IcTypeOK, IcStates

LEMMA ArbStep ==
  ASSUME CoreInv, NEW fencei \in BOOLEAN, Clock(fencei)
  PROVE  ArbInv'
  <1> DEFINE dcReady == Owner = "dc" /\ RamReady
             icReady == Owner = "ic" /\ RamReady
  <1>1. /\ DcEdge(DmemReq, DmemRespReady, dcReady, DcSees)
        /\ IcEdge(ImemReq, ImemRespReady, fencei, icReady, IcSees)
    BY DEF Clock
  <1>2. /\ dstate \in DcStates /\ istate \in IcStates /\ arb \in {"IDLE", "SERVE_IC", "SERVE_DC"}
        /\ arb = "SERVE_DC" <=> dstate \in {"S_WB_WAIT", "S_RD_WAIT"}
        /\ arb = "SERVE_IC" <=> istate = "S_MISS_WAIT"
        /\ istate # "S_IDLE" => ipend = ReadReq(inflight)
    BY CacheRequests DEF CoreInv, ArbInv, ArbTypeOK, FetchInv, IcTypeOK
  \* How each cache gets to the state in which it waits for the RAM, and out of it.
  <1>3. /\ dstate' \in {"S_WB_WAIT", "S_RD_WAIT"} =>
             \/ dstate \in {"S_WB_REQ", "S_RD_REQ"} /\ dcReady
             \/ dstate \in {"S_WB_WAIT", "S_RD_WAIT"} /\ DcSees = NoResp
        /\ dstate \in {"S_WB_REQ", "S_RD_REQ"} /\ dcReady => dstate' \in {"S_WB_WAIT", "S_RD_WAIT"}
        /\ dstate \in {"S_WB_WAIT", "S_RD_WAIT"} /\ DcSees = NoResp => UNCHANGED dstate
    BY <1>1 DEF DcEdge, DcHit, DcMissDirty, DcMissClean, DcRespond, DcReqAccepted, DcWbDone,
       DcFill, DcFillError, DcWait, dcVars
  <1>4. /\ istate' = "S_MISS_WAIT" =>
             \/ istate = "S_MISS_REQ" /\ icReady
             \/ istate = "S_MISS_WAIT" /\ IcSees = NoResp
        /\ istate = "S_MISS_REQ" /\ icReady => istate' = "S_MISS_WAIT"
        /\ istate = "S_MISS_WAIT" /\ IcSees = NoResp => UNCHANGED istate
        /\ istate \in {"S_MISS_REQ", "S_MISS_WAIT"} => ipend' = ipend
    BY <1>1 DEF IcEdge, IcHit, IcMiss, IcRespond, IcReqAccepted, IcFill, IcWait
  <1>5. istate \in {"S_MISS_REQ", "S_MISS_WAIT"} => inflight' = inflight
    BY DEF Clock, IfEdge, ImemReq, CoreInv, FetchInv
  <1>6. (DcMemReq # NoReq) <=> dstate \in {"S_WB_REQ", "S_RD_REQ"}
    BY CacheRequests
  <1>7. (IcMemReq # NoReq) <=> istate = "S_MISS_REQ"
    BY CacheRequests DEF IcMemReq
  <1>8. CASE GrantDc
    <2>1. dcReady /\ ~icReady
      BY <1>6, <1>8 DEF GrantDc, Owner, Selected, RamReady, CoreInv, ArbInv
    <2> QED BY <1>2, <1>3, <1>4, <1>8, <2>1 DEF GrantDc, ArbInv, ArbTypeOK
  <1>9. CASE GrantIc
    <2>1. icReady /\ ~dcReady /\ rresp = NoResp
      BY <1>6, <1>7, <1>9 DEF GrantIc, Owner, Selected, RamReady, CoreInv, ArbInv
    <2> QED BY <1>2, <1>3, <1>4, <1>9, <2>1 DEF GrantIc, ArbInv, ArbTypeOK
  <1>10. CASE NoGrant
    <2>1. ~icReady /\ ~dcReady /\ rpend = NoReq /\ rresp = NoResp
      BY <1>6, <1>7, <1>10 DEF NoGrant, Owner, Selected, CoreInv, ArbInv
    <2> QED BY <1>2, <1>3, <1>4, <1>10, <2>1 DEF NoGrant, ArbInv, ArbTypeOK
  <1>11. CASE Serve
    <2>1. ~icReady \/ istate = "S_MISS_WAIT"
      BY <1>11, <1>2 DEF Serve, Owner, Selected
    <2>2. ~dcReady \/ dstate \in {"S_WB_WAIT", "S_RD_WAIT"}
      BY <1>11, <1>2 DEF Serve, Owner, Selected
    <2>3. DcSees = NoResp /\ IcSees = NoResp
      BY <1>11 DEF Serve, DcSees, IcSees
    <2>4. /\ arb' = "SERVE_DC" <=> dstate' \in {"S_WB_WAIT", "S_RD_WAIT"}
          /\ arb' = "SERVE_IC" <=> istate' = "S_MISS_WAIT"
      BY <1>2, <1>3, <1>4, <1>11, <2>1, <2>2, <2>3 DEF Serve
    <2>5. ASSUME arb = "SERVE_IC"
          PROVE  rpend' = NoReq /\ rresp' = Answer(inflight)' /\ inflight' = inflight
      <3>1. rpend = ReadReq(inflight) /\ inflight' = inflight
        BY <1>2, <1>5, <1>11, <2>5, LockedTransaction DEF Serve
      <3>2. rpend.write = FALSE /\ rpend.addr = inflight
        BY <3>1 DEF ReadReq
      <3>3. ram' = ram /\ rpend' = NoReq /\ rresp' = RamReply
        BY <1>11, <3>2 DEF Serve, RamComplete
      <3> QED BY <3>1, <3>2, <3>3 DEF RamReply, Answer
    <2> QED BY <1>2, <1>11, <2>4, <2>5 DEF Serve, ArbInv, ArbTypeOK
  <1>12. CASE Deliver
    <2>1. rpend = NoReq
      BY <1>2, <1>12, LockedTransaction DEF Deliver
    <2>2. /\ arb = "SERVE_DC" => DcSees = rresp /\ ~icReady
          /\ arb = "SERVE_IC" => IcSees = rresp /\ ~dcReady
      BY DEF DcSees, IcSees, Owner, Selected
    <2>3. dstate' \notin {"S_WB_WAIT", "S_RD_WAIT"} /\ istate' # "S_MISS_WAIT"
      BY <1>2, <1>3, <1>4, <1>12, <2>2 DEF Deliver
    <2> QED BY <1>12, <2>1, <2>3 DEF Deliver, ArbInv, ArbTypeOK
  <1> QED BY <1>8, <1>9, <1>10, <1>11, <1>12, PortStep

LEMMA CoreNextInv ==
  ASSUME CoreInv, [Next]_vars
  PROVE  CoreInv'
  <1>1. CASE UNCHANGED vars
    <2>1. DS!DataPathInv'
      <3>1. UNCHANGED DS!vars
        BY <1>1 DEF vars, DS!vars
      <3> QED BY <3>1, SameTypes, SizeAssumption, MemAssumption, DataAssumption, DS!NextInv
              DEF CoreInv
    <2>2. FetchInv' /\ ArbInv'
      BY <1>1 DEF vars, CoreInv, FetchInv, ArbInv, ArbTypeOK, IfTypeOK, IcTypeOK, Answer
    <2> QED BY <2>1, <2>2 DEF CoreInv
  <1>2. CASE Next
    <2>1. PICK fencei \in BOOLEAN : Clock(fencei)
      BY <1>2 DEF Next
    <2>2. DS!Next
      <3>1. (Owner = "dc") \in BOOLEAN
        OBVIOUS
      <3> QED BY <2>1, <3>1, DcacheClock DEF DS!Next
    <2>3. DS!DataPathInv'
      BY <2>2, SameTypes, SizeAssumption, MemAssumption, DataAssumption, DS!NextInv DEF CoreInv
    <2> QED BY <2>1, <2>3, FetchStep, ArbStep DEF CoreInv
  <1> QED BY <1>1, <1>2

-----------------------------------------------------------------------------
(* The theorems about CoreMemory.                                          *)

LEMMA CoreInvariant == Spec => []CoreInv
  BY CoreInitInv, CoreNextInv, PTL DEF Spec

\* Every register of the memory system keeps its type.
THEOREM CoreTypes == Spec => []TypeOK
  <1>1. ASSUME CoreInv
        PROVE  TypeOK
    <2>1. Mem1TypeOK /\ DcTypeOK /\ ram \in [MappedAddr -> Line]
      BY <1>1, SameTypes DEF CoreInv, DS!DataPathInv, DS!TypeOK, DS!Mem1TypeOK, DS!DcTypeOK,
         DS!RamTypeOK, Mem1TypeOK, DcTypeOK, DS!Mem1State, Mem1State, DS!Mem1Stages, Mem1Stages,
         DS!DcStates, DcStates, DS!CacheLine, CacheLine
    <2>2. rpend \in Request \union {NoReq} /\ rresp \in Response \union {NoResp}
      BY <1>1, LockedTransaction DEF CoreInv, ArbInv, ArbTypeOK
    <2> QED BY <1>1, <2>1, <2>2 DEF CoreInv, FetchInv, ArbInv, TypeOK, RamTypeOK
  <1> QED BY <1>1, CoreInvariant, PTL

\* cache_arbiter.sv:22-102 routes answers by its state alone, and no answer ever
\* reaches the wrong cache or a cache that does not wait.
THEOREM TransactionsAreOwned == Spec => []TransactionHasItsOwner
  <1>1. ASSUME CoreInv
        PROVE  TransactionHasItsOwner
    <2>1. CASE arb = "IDLE"
      BY <1>1, <2>1 DEF CoreInv, ArbInv, TransactionHasItsOwner
    <2>2. CASE arb = "SERVE_DC"
      BY <1>1, <2>2, LockedTransaction DEF CoreInv, ArbInv, TransactionHasItsOwner
    <2>3. CASE arb = "SERVE_IC"
      BY <1>1, <2>3, LockedTransaction DEF CoreInv, FetchInv, ArbInv, TransactionHasItsOwner
    <2> QED BY <1>1, <2>1, <2>2, <2>3 DEF CoreInv, ArbInv, ArbTypeOK
  <1> QED BY <1>1, CoreInvariant, PTL

\* Whatever the pc does and whenever a fence.i comes, the I-cache answers the
\* request the fetch stage waits for.
THEOREM FetchesAreAnsweredRight == Spec => []FetchAnswersItsRequest
  <1>1. CoreInv => FetchAnswersItsRequest
    BY DEF CoreInv, FetchInv, FetchAnswersItsRequest, ReadReq
  <1> QED BY <1>1, CoreInvariant, PTL

\* The arbiter and the I-cache only delay the D-cache: MEM1, D-cache and RAM
\* behave as in DcacheRam.
THEOREM DcacheSideImplemented == Spec => ArbiterOnlyDelays
  <1>1. Init => DcacheSide!Init
    BY DEF Init, DcacheSide!Init, Mem1Init, DcacheSide!Mem1Init, Mem1Empty, DcacheSide!Mem1Empty,
       DcInit, DcacheSide!DcInit, NoEvict, DcacheSide!NoEvict, ZeroLine, DcacheSide!ZeroLine,
       RamInit, DcacheSide!RamInit, Index, DcacheSide!Index, MappedAddr, DcacheSide!MappedAddr,
       Line, DcacheSide!Line, ArbInit
  <1>2. ASSUME CoreInv, [Next]_vars
        PROVE  [DcacheSide!Next]_(DcacheSide!vars)
    <2>1. CASE UNCHANGED vars
      BY <2>1 DEF vars, DcacheSide!vars
    <2>2. CASE Next
      <3>1. PICK fencei \in BOOLEAN : Clock(fencei)
        BY <2>2 DEF Next
      <3>2. DcacheSide!Clock(Owner = "dc")
        BY <1>2, <3>1, DcacheClock, SameClock
      <3>3. (Owner = "dc") \in BOOLEAN
        OBVIOUS
      <3> QED BY <3>2, <3>3 DEF DcacheSide!Next
    <2> QED BY <1>2, <2>1, <2>2
  <1> QED BY <1>1, <1>2, CoreInvariant, PTL DEF Spec, ArbiterOnlyDelays, DcacheSide!Spec

\* The core has one memory: behind the arbiter, beside an I-cache that uses the
\* same port, every load of MEM1 returns the last store to its line, and every
\* store takes effect once, on its own line, which for an address with bits above
\* the tag is the line of its lower bits (cached) or none (a fault).
THEOREM CoreImplementsLineMemory == Spec => DS!ImplementsLineMemory
  <1>1. DS!Spec => DS!ImplementsLineMemory
    BY SizeAssumption, MemAssumption, DataAssumption, SameTypes, DS!CacheImplementsMemory
  <1>2. Init => DS!Init
    BY SideInit
  <1>3. ASSUME CoreInv, [Next]_vars
        PROVE  [DS!Next]_(DS!vars)
    <2>1. CASE UNCHANGED vars
      BY <2>1 DEF vars, DS!vars
    <2>2. CASE Next
      <3>1. PICK fencei \in BOOLEAN : Clock(fencei)
        BY <2>2 DEF Next
      <3>2. DS!Clock(Owner = "dc")
        BY <1>3, <3>1, DcacheClock
      <3>3. (Owner = "dc") \in BOOLEAN
        OBVIOUS
      <3> QED BY <3>2, <3>3 DEF DS!Next
    <2> QED BY <1>3, <2>1, <2>2
  <1>4. Spec => DS!Spec
    BY <1>2, <1>3, CoreInvariant, PTL DEF Spec, DS!Spec
  <1> QED BY <1>1, <1>4, PTL

-----------------------------------------------------------------------------
(* fence.i.                                                                *)

\* A line the I-cache has is one of the RAM, and the RAM's line of the present
\* unless a write-back changed it since the last fence.i.
CodeInv ==
  \A i \in Index : ilines[i].valid =>
    /\ Mapped(IcAddr(i)) /\ IcAddr(i) \in MappedAddr
    /\ ilines[i].data = ram[IcAddr(i)] \/ IcAddr(i) \in ramSince

LEMMA CodeStep ==
  ASSUME CoreInv, CodeInv, [HNext]_hvars
  PROVE  CodeInv'
  <1>1. CASE UNCHANGED hvars
    BY <1>1 DEF hvars, vars, CodeInv, IcAddr
  <1>2. ASSUME NEW fencei \in BOOLEAN, HClock(fencei)
        PROVE  CodeInv'
    <2>1. /\ Clock(fencei)
          /\ ramSince' = IF fencei THEN {}
                         ELSE ramSince \union {a \in MappedAddr : ram'[a] # ram[a]}
          /\ IcEdge(ImemReq, ImemRespReady, fencei, Owner = "ic" /\ RamReady, IcSees)
      BY <1>2 DEF HClock, Clock
    <2>2. ilines \in [Index -> [valid : BOOLEAN, tag : Tag, data : Line]]
      BY DEF CoreInv, FetchInv, IcTypeOK
    \* A line that is kept is as good as before: what the edge changes in the RAM
    \* is remembered, and a fence.i keeps nothing.
    <2>3. ASSUME NEW i \in Index, Kept(fencei)[i].valid
          PROVE  LET a == LineAddr(Kept(fencei)[i].tag, i)
                 IN /\ Mapped(a) /\ a \in MappedAddr
                    /\ Kept(fencei)[i].data = ram'[a] \/ a \in ramSince'
      <3>1. ~fencei /\ Kept(fencei) = ilines
        BY <2>3 DEF Kept, InvalidLine
      <3> QED BY <2>1, <2>3, <3>1 DEF CodeInv, IcAddr
    <2>4. CASE ilines' = Kept(fencei)
      BY <2>3, <2>4 DEF CodeInv, IcAddr
    <2>5. CASE IcFill(IcSees, fencei) /\ ~IcSees.err
      <3> DEFINE a == inflight
      <3>1. /\ istate = "S_MISS_WAIT" /\ arb = "SERVE_IC" /\ rresp # NoResp /\ IcSees = rresp
            /\ ipend.addr = a /\ a \in Addr
        BY <2>5, CacheRequests DEF IcFill, IcSees, CoreInv, ArbInv, FetchInv, ReadReq
      <3>2. rresp = Answer(a) /\ Mapped(a) /\ rresp.rdata = ram[a]
        BY <2>5, <3>1, LockedTransaction DEF Answer
      <3>3. ram' = ram
        BY <2>1, <3>1, PortStep DEF GrantDc, GrantIc, NoGrant, Serve, Deliver
      <3>4. /\ Idx(a) \in Index /\ TagOf(a) \in Tag
            /\ LineAddr(TagOf(a), Idx(a)) = a /\ a \in MappedAddr
        BY <3>1, <3>2, AddressFacts
      <3>5. ilines' = [Kept(fencei) EXCEPT ![Idx(a)] =
                         [valid |-> TRUE, tag |-> TagOf(a), data |-> ram[a]]]
        BY <2>5, <3>1, <3>2 DEF IcFill
      <3>6. Index = DOMAIN Kept(fencei)
        BY <2>2 DEF Kept
      <3>7. SUFFICES ASSUME NEW i \in Index, ilines'[i].valid
                     PROVE  LET b == LineAddr(ilines'[i].tag, i)
                            IN /\ Mapped(b) /\ b \in MappedAddr
                               /\ ilines'[i].data = ram'[b] \/ b \in ramSince'
        BY DEF CodeInv, IcAddr
      <3>8. CASE i = Idx(a)
        BY <3>2, <3>3, <3>4, <3>5, <3>6, <3>8
      <3>9. CASE i # Idx(a)
        <4>1. ilines'[i] = Kept(fencei)[i]
          BY <3>5, <3>6, <3>9
        <4> QED BY <2>3, <3>7, <4>1
      <3> QED BY <3>8, <3>9
    <2> QED BY <2>1, <2>4, <2>5 DEF IcEdge, IcHit, IcMiss, IcRespond, IcReqAccepted, IcFill, IcWait
  <1> QED BY <1>1, <1>2 DEF HNext

\* After a fence.i the I-cache has no line that is older than the RAM, also if
\* the fence.i comes in the middle of a miss or on the edge of the fill.
THEOREM FenceWorksAgainstRam == HSpec => []CachedCodeMatchesRam
  <1>1. HInit => CoreInv /\ CodeInv
    BY CoreInitInv DEF HInit, Init, IcInit, InvalidLine, CodeInv
  <1>2. CoreInv /\ CodeInv /\ [HNext]_hvars => CoreInv' /\ CodeInv'
    <2>1. [HNext]_hvars => [Next]_vars
      BY DEF HNext, HClock, hvars, Next
    <2> QED BY <2>1, CoreNextInv, CodeStep
  <1>3. CodeInv => CachedCodeMatchesRam
    BY DEF CodeInv, CachedCodeMatchesRam
  <1> QED BY <1>1, <1>2, <1>3, PTL DEF HSpec
=============================================================================

----------------------------- MODULE DcacheProofs ----------------------------
(***************************************************************************)
(* Proofs about the data path of DcacheRam, for every cache and RAM size,  *)
(* every line width and every schedule of the grant wire, and that cache   *)
(* and RAM implement the atomic line memory.                               *)
(***************************************************************************)
EXTENDS DcacheRefinement, TLAPS

-----------------------------------------------------------------------------
(* Lines and addresses.                                                    *)

\* With every strobe set the new line replaces the old one.
LEMMA FullStrobe ==
  ASSUME NEW o, NEW n \in Line
  PROVE  apply_wstrb(o, n, Lanes) = n
  BY DEF apply_wstrb, Line

\* A line of zeros, and a line merged from two lines, are lines.
LEMMA LineFacts ==
  /\ ZeroLine \in Line
  /\ \A o, n \in Line, s \in SUBSET Lanes : apply_wstrb(o, n, s) \in Line
  BY DataAssumption DEF ZeroLine, Line, apply_wstrb

\* An address has an index and a tag of the cache, whatever its high bits.
LEMMA IdxTagType ==
  ASSUME NEW a \in Addr
  PROVE  Idx(a) \in Index /\ TagOf(a) \in Tag
  <1>1. a \in Nat /\ LINES \in Nat \ {0} /\ TAGS \in Nat \ {0}
    BY SizeAssumption DEF Addr
  <1>2. a % LINES \in 0 .. (LINES - 1) /\ a \div LINES \in Nat
    BY <1>1
  <1>3. (a \div LINES) % TAGS \in 0 .. (TAGS - 1)
    BY <1>1, <1>2
  <1> QED BY <1>2, <1>3 DEF Idx, TagOf, Index, Tag

\* An address within reach is rebuilt from its index and tag: the address of a
\* write-back (dcache.sv:163) is the address the line was filled from.
LEMMA AddressRebuilt ==
  ASSUME NEW a \in Nat, a < LINES * TAGS
  PROVE  LineAddr(TagOf(a), Idx(a)) = a
  <1> DEFINE q == a \div LINES
             r == a % LINES
  <1>1. LINES \in Nat \ {0} /\ TAGS \in Nat \ {0}
    BY SizeAssumption
  <1>2. a = LINES * q + r /\ q \in Nat /\ r \in 0 .. (LINES - 1)
    BY <1>1
  <1>3. q < TAGS
    <2> HIDE DEF q, r
    <2>1. LINES * q < LINES * TAGS
      BY <1>1, <1>2
    <2> QED BY <1>1, <1>2, <2>1
  <1>4. q % TAGS = q
    <2> HIDE DEF q, r
    <2> QED BY <1>1, <1>2, <1>3
  <1>5. q * LINES + r = a
    <2> HIDE DEF q, r
    <2> QED BY <1>1, <1>2
  <1> QED BY <1>4, <1>5 DEF LineAddr, TagOf, Idx

\* Index and tag of a rebuilt address are the ones it was rebuilt from.
LEMMA RebuiltIdxTag ==
  ASSUME NEW t \in Tag, NEW i \in Index
  PROVE  /\ LineAddr(t, i) \in Nat
         /\ Idx(LineAddr(t, i)) = i
         /\ TagOf(LineAddr(t, i)) = t
  <1>1. /\ LINES \in Nat \ {0} /\ TAGS \in Nat \ {0}
        /\ t \in Nat /\ t < TAGS /\ i \in 0 .. (LINES - 1)
    BY SizeAssumption DEF Tag, Index
  <1>2. t * LINES + i \in Nat
    BY <1>1
  <1>3. (t * LINES + i) % LINES = i /\ (t * LINES + i) \div LINES = t
    BY <1>1
  <1>4. t % TAGS = t
    BY <1>1
  <1> QED BY <1>2, <1>3, <1>4 DEF LineAddr, Idx, TagOf

\* Mapped addresses are within reach of the caches and of the program.
LEMMA MappedReach ==
  ASSUME NEW a \in Nat, Mapped(a)
  PROVE  a < LINES * TAGS /\ a \in Addr /\ a \in MappedAddr
  <1>1. /\ LINES \in Nat /\ TAGS \in Nat /\ ADDRS \in Nat /\ MEM \in Nat
        /\ MEM <= LINES * TAGS /\ MEM <= ADDRS
    BY SizeAssumption, MemAssumption
  <1>2. LINES * TAGS \in Nat
    BY <1>1
  <1> QED BY <1>1, <1>2 DEF Mapped, Addr, MappedAddr

\* The requests and answers on the wires are requests and responses.
LEMMA RequestFacts ==
  /\ \A a \in Addr : ReadReq(a) \in Request
  /\ \A a \in Addr, d \in Line : WriteReq(a, d) \in Request
  BY LineFacts DEF Request, ReadReq, WriteReq

LEMMA ReplyFacts ==
  /\ NoReq \notin Request /\ NoResp \notin Response
  /\ \A d \in Line, e \in BOOLEAN :
       [rdata |-> d, err |-> e] \in Response /\ [rdata |-> d, err |-> e] # NoResp
  BY DataAssumption DEF Response

\* Under the invariant a busy cache has a request, a write-back goes to a mapped
\* address, and the line a fill reads is a line.
LEMMA BusyFacts ==
  ASSUME DataPathInv, dstate # "S_IDLE"
  PROVE  /\ dpend = mem1.rq /\ dpend \in Request /\ dpend.addr \in Addr
         /\ Idx(dpend.addr) \in Index /\ TagOf(dpend.addr) \in Tag
         /\ dstate \in {"S_WB_REQ", "S_WB_WAIT"} =>
              /\ Mapped(evict.addr) /\ evict.addr \in Addr
              /\ evict.addr \in MappedAddr /\ evict.data \in Line
         /\ Mapped(dpend.addr) => ram[dpend.addr] \in Line
  <1>1. /\ mem1.st = "sent" /\ dpend = mem1.rq
        /\ mem1.rq \in Request
    BY DEF DataPathInv, TypeOK, HandshakeInv, Mem1TypeOK, Mem1State
  <1>2. dpend.addr \in Addr
    BY <1>1 DEF Request
  <1>3. Idx(dpend.addr) \in Index /\ TagOf(dpend.addr) \in Tag
    BY <1>2, IdxTagType
  <1>4. ASSUME dstate \in {"S_WB_REQ", "S_WB_WAIT"}
        PROVE  /\ Mapped(evict.addr) /\ evict.addr \in Addr
               /\ evict.addr \in MappedAddr /\ evict.data \in Line
    <2>1. Mapped(evict.addr)
      BY <1>3, <1>4 DEF DataPathInv, MissInv, LinesInv
    <2>2. evict.addr \in Nat /\ evict.data \in Line
      BY DEF DataPathInv, TypeOK, DcTypeOK
    <2> QED BY <2>1, <2>2, MappedReach
  <1>5. Mapped(dpend.addr) => ram[dpend.addr] \in Line
    <2>1. dpend.addr \in Nat
      BY <1>2 DEF Addr
    <2> QED BY <2>1, MappedReach DEF DataPathInv, TypeOK, RamTypeOK
  <1> QED BY <1>1, <1>2, <1>3, <1>4, <1>5

-----------------------------------------------------------------------------
(* One clock edge moves three modules at once.  Under the invariant the     *)
(* edges are of a few kinds only, each named here.                         *)

Core == <<mem1, dstate, lines, dpend, evict, dresp>>

\* MEM1 moves on while the cache is idle.
StepShift ==
  /\ dstate = "S_IDLE"
  /\ \E op \in CoreOps \union {NoReq} : Mem1Shift(op)
  /\ UNCHANGED <<dcVars, ramVars>>

\* The cache takes MEM1's request.
StepTake ==
  /\ dstate = "S_IDLE"
  /\ Mem1Sent
  /\ DcHit(mem1.rq) \/ DcMissDirty(mem1.rq) \/ DcMissClean(mem1.rq)
  /\ UNCHANGED ramVars

\* MEM1 takes the cache's response.
StepRespond ==
  /\ dresp # NoResp
  /\ Mem1Done(dresp)
  /\ DcRespond(TRUE)
  /\ UNCHANGED ramVars

\* The RAM latches the cache's request.
StepIssue ==
  /\ DcReqAccepted(TRUE)
  /\ rpend' = DcMemReq
  /\ UNCHANGED <<mem1, ram, rresp>>

\* The RAM performs the latched request.
StepServe ==
  /\ RamComplete
  /\ UNCHANGED Core

\* The cache takes the RAM's answer.
StepCollect ==
  /\ rresp # NoResp
  /\ DcWbDone(rresp) \/ DcFill(rresp) \/ DcFillError(rresp)
  /\ rresp' = NoResp
  /\ UNCHANGED <<mem1, ram, rpend>>

Step ==
  \/ StepShift \/ StepTake \/ StepRespond \/ StepIssue \/ StepServe \/ StepCollect

LEMMA NextIsOneStep ==
  ASSUME DataPathInv, Next
  PROVE  Step \/ UNCHANGED vars
  <1>1. PICK grant \in BOOLEAN : Clock(grant)
    BY DEF Next
  <1>2. /\ dstate \in DcStates
        /\ mem1.st \in Mem1Stages
        /\ mem1.st = "sent" <=> dstate # "S_IDLE"
        /\ dresp # NoResp <=> dstate = "S_HITRESP"
        /\ (mem1.rq = NoReq) <=> (mem1.st = "empty")
    BY DEF DataPathInv, TypeOK, DcTypeOK, Mem1TypeOK, Mem1State, HandshakeInv
  <1>3. CASE dstate = "S_IDLE"
    <2>1. RamHold(NoReq, FALSE) /\ UNCHANGED ramVars
      BY <1>1, <1>3 DEF DataPathInv, TransactionInv, Clock, RamEdge, RamAccept, RamComplete,
         RamHold, RamConsumed, DcMemReq, DcMemRespReady, ramVars
    <2>2. CASE mem1.st = "want"
      <3>1. DmemReq = mem1.rq /\ mem1.rq # NoReq /\ DcReady
        BY <1>2, <1>3, <2>2 DEF DmemReq, DcReady
      <3>2. Mem1Sent
        BY <1>1, <1>2, <2>2, <3>1 DEF Clock, Mem1Edge, Mem1Shift, Mem1Done, Mem1Stall
      <3>3. DcHit(mem1.rq) \/ DcMissDirty(mem1.rq) \/ DcMissClean(mem1.rq)
        BY <1>1, <1>3, <3>1 DEF Clock, DcEdge, DcRespond, DcReqAccepted, DcWbDone, DcFill,
           DcFillError, DcWait
      <3> QED BY <1>3, <2>1, <3>2, <3>3 DEF Step, StepTake
    <2>3. CASE mem1.st # "want"
      <3>1. DmemReq = NoReq
        BY <2>3 DEF DmemReq
      <3>2. \E op \in CoreOps \union {NoReq} : Mem1Shift(op)
        BY <1>1, <1>2, <1>3, <2>3 DEF Clock, Mem1Edge, Mem1Sent, Mem1Done, Mem1Stall, Mem1Stages
      <3>3. UNCHANGED dcVars
        BY <1>1, <1>3, <3>1 DEF Clock, DcEdge, DcHit, DcMissDirty, DcMissClean, DcRespond,
           DcReqAccepted, DcWbDone, DcFill, DcFillError, DcWait
      <3> QED BY <1>3, <2>1, <3>2, <3>3 DEF Step, StepShift
    <2> QED BY <2>2, <2>3
  <1>4. CASE dstate = "S_HITRESP"
    <2>1. RamHold(NoReq, FALSE) /\ UNCHANGED ramVars
      BY <1>1, <1>4 DEF DataPathInv, TransactionInv, Clock, RamEdge, RamAccept, RamComplete,
         RamHold, RamConsumed, DcMemReq, DcMemRespReady, ramVars
    <2>2. dresp # NoResp /\ DmemRespReady = TRUE
      BY <1>2, <1>4 DEF DmemRespReady
    <2>3. Mem1Done(dresp)
      BY <1>1, <1>2, <1>4, <2>2 DEF Clock, Mem1Edge, Mem1Shift, Mem1Sent, Mem1Stall
    <2>4. DcRespond(TRUE)
      BY <1>1, <1>4, <2>2 DEF Clock, DcEdge, DcHit, DcMissDirty, DcMissClean, DcRespond,
         DcReqAccepted, DcWbDone, DcFill, DcFillError, DcWait
    <2> QED BY <2>1, <2>2, <2>3, <2>4 DEF Step, StepRespond
  <1>5. ASSUME dstate \in {"S_WB_REQ", "S_RD_REQ", "S_WB_WAIT", "S_RD_WAIT"}
        PROVE  UNCHANGED mem1
    BY <1>1, <1>2, <1>5 DEF Clock, Mem1Edge, Mem1Shift, Mem1Sent, Mem1Done, Mem1Stall
  <1>6. CASE dstate \in {"S_WB_REQ", "S_RD_REQ"}
    <2>1. rpend = NoReq /\ rresp = NoResp /\ RamReady
      BY <1>6 DEF DataPathInv, TransactionInv, RamReady
    <2>2. DcMemReq # NoReq
      BY <1>6, BusyFacts, RequestFacts, ReplyFacts DEF DcMemReq
    <2>3. CASE grant
      <3>1. DcReqAccepted(TRUE)
        BY <1>1, <1>6, <2>1, <2>3 DEF Clock, DcEdge, DcHit, DcMissDirty, DcMissClean,
           DcRespond, DcReqAccepted, DcWbDone, DcFill, DcFillError, DcWait
      <3>2. RamAccept(DcMemReq, FALSE)
        BY <1>1, <1>6, <2>1, <2>2, <2>3 DEF Clock, RamEdge, RamAccept, RamComplete, RamHold,
           RamConsumed, DcMemRespReady
      <3> QED BY <1>5, <1>6, <3>1, <3>2 DEF Step, StepIssue, RamAccept, RamConsumed
    <2>4. CASE ~grant
      <3>1. UNCHANGED dcVars
        BY <1>1, <1>6, <2>4 DEF Clock, DcEdge, DcHit, DcMissDirty, DcMissClean, DcRespond,
           DcReqAccepted, DcWbDone, DcFill, DcFillError, DcWait
      <3>2. UNCHANGED ramVars
        BY <1>1, <1>6, <2>1, <2>4 DEF Clock, RamEdge, RamAccept, RamComplete, RamHold,
           RamConsumed, DcMemRespReady, ramVars
      <3> QED BY <1>5, <1>6, <3>1, <3>2 DEF vars, dcVars, ramVars
    <2> QED BY <2>3, <2>4
  <1>7. CASE dstate \in {"S_WB_WAIT", "S_RD_WAIT"}
    <2>1. DcMemReq = NoReq /\ DcMemRespReady = TRUE
      BY <1>7 DEF DcMemReq, DcMemRespReady
    <2>2. CASE rresp = NoResp
      <3>1. rpend # NoReq
        BY <1>7, <2>2, BusyFacts, LineFacts, RequestFacts, ReplyFacts
           DEF DataPathInv, TransactionInv
      <3>2. RamComplete
        BY <1>1, <2>1, <2>2, <3>1 DEF Clock, RamEdge, RamAccept, RamHold
      <3>3. UNCHANGED dcVars
        BY <1>1, <1>7, <2>2 DEF Clock, DcEdge, DcHit, DcMissDirty, DcMissClean, DcRespond,
           DcReqAccepted, DcWbDone, DcFill, DcFillError, DcWait
      <3> QED BY <1>5, <1>7, <3>2, <3>3 DEF Step, StepServe, Core, dcVars
    <2>3. CASE rresp # NoResp
      <3>1. rresp' = NoResp /\ UNCHANGED <<ram, rpend>>
        BY <1>1, <2>1, <2>3 DEF Clock, RamEdge, RamAccept, RamComplete, RamHold, RamConsumed
      <3>2. DcWbDone(rresp) \/ DcFill(rresp) \/ DcFillError(rresp)
        BY <1>1, <1>7, <2>3 DEF Clock, DcEdge, DcHit, DcMissDirty, DcMissClean, DcRespond,
           DcReqAccepted, DcWait
      <3> QED BY <1>5, <1>7, <2>3, <3>1, <3>2 DEF Step, StepCollect
    <2> QED BY <2>2, <2>3
  <1> QED BY <1>2, <1>3, <1>4, <1>6, <1>7 DEF DcStates

-----------------------------------------------------------------------------
(* The invariant is inductive: one lemma per kind of edge.                 *)

LEMMA InitInv ==
  ASSUME Init
  PROVE  DataPathInv
  <1> USE DEF Init, Mem1Init, Mem1Empty, DcInit, NoEvict, RamInit
  <1>1. TypeOK
    <2>1. Mem1TypeOK
      BY DEF Mem1TypeOK, Mem1State, Mem1Stages
    <2>2. DcTypeOK
      <3>1. 0 \in Tag
        BY SizeAssumption DEF Tag
      <3> QED BY <3>1, LineFacts DEF DcTypeOK, DcStates, CacheLine
    <2>3. RamTypeOK
      BY DEF RamTypeOK
    <2> QED BY <2>1, <2>2, <2>3 DEF TypeOK
  <1>2. HandshakeInv /\ MissInv /\ TransactionInv /\ LinesInv
    BY DEF HandshakeInv, MissInv, TransactionInv, LinesInv
  <1> QED BY <1>1, <1>2 DEF DataPathInv

LEMMA ShiftInv ==
  ASSUME DataPathInv, StepShift
  PROVE  DataPathInv'
  <1> USE DEF DataPathInv, StepShift, dcVars, ramVars
  <1>1. PICK op \in CoreOps \union {NoReq} : Mem1Shift(op)
    OBVIOUS
  <1>2. Mem1TypeOK'
    BY <1>1, DataAssumption DEF Mem1TypeOK, Mem1State, Mem1Stages, Mem1Shift, Mem1Empty, CoreOps, TypeOK
  <1>3. TypeOK'
    BY <1>2 DEF TypeOK, DcTypeOK, RamTypeOK
  <1>4. HandshakeInv'
    BY <1>1 DEF HandshakeInv, Mem1Shift, Mem1Empty
  <1>5. MissInv' /\ TransactionInv' /\ LinesInv'
    BY DEF MissInv, TransactionInv, LinesInv, Hit
  <1> QED BY <1>3, <1>4, <1>5

LEMMA RespondInv ==
  ASSUME DataPathInv, StepRespond
  PROVE  DataPathInv'
  <1> USE DEF DataPathInv, StepRespond, DcRespond, ramVars
  <1>1. TypeOK'
    BY DEF TypeOK, Mem1TypeOK, Mem1State, Mem1Stages, Mem1Done, DcTypeOK, DcStates, RamTypeOK
  <1>2. HandshakeInv'
    BY DEF HandshakeInv, Mem1Done, TypeOK, Mem1TypeOK, Mem1State
  <1>3. MissInv' /\ TransactionInv' /\ LinesInv'
    BY DEF MissInv, TransactionInv, LinesInv
  <1> QED BY <1>1, <1>2, <1>3

LEMMA IssueInv ==
  ASSUME DataPathInv, StepIssue
  PROVE  DataPathInv'
  <1> USE DEF DataPathInv, StepIssue, DcReqAccepted
  <1>1. rpend' \in Request
    BY BusyFacts, RequestFacts DEF DcMemReq
  <1>2. TypeOK'
    BY <1>1 DEF TypeOK, Mem1TypeOK, DcTypeOK, DcStates, RamTypeOK
  <1>3. HandshakeInv'
    BY DEF HandshakeInv
  <1>4. MissInv' /\ LinesInv'
    BY DEF MissInv, LinesInv, Hit
  <1>5. TransactionInv'
    BY DEF TransactionInv, DcMemReq
  <1> QED BY <1>2, <1>3, <1>4, <1>5

LEMMA TakeInv ==
  ASSUME DataPathInv, StepTake
  PROVE  DataPathInv'
  <1> DEFINE rq == mem1.rq
             i  == Idx(rq.addr)
  <1>1. /\ mem1.st = "want" /\ dstate = "S_IDLE" /\ dresp = NoResp
        /\ rq \in Request /\ rq.addr \in Addr /\ i \in Index
        /\ lines \in [Index -> CacheLine] /\ lines[i] \in CacheLine
        /\ lines[i].data \in Line /\ lines[i].tag \in Tag
    <2>1. mem1.st = "want" /\ dstate = "S_IDLE" /\ dresp = NoResp
      BY DEF StepTake, Mem1Sent, DataPathInv, HandshakeInv
    <2>2. rq \in Request
      BY <2>1 DEF DataPathInv, TypeOK, Mem1TypeOK, Mem1State
    <2>3. rq.addr \in Addr
      BY <2>2 DEF Request
    <2>4. i \in Index
      BY <2>3, IdxTagType
    <2>5. lines \in [Index -> CacheLine]
      BY DEF DataPathInv, TypeOK, DcTypeOK
    <2>6. lines[i] \in CacheLine
      BY <2>4, <2>5
    <2> QED BY <2>1, <2>2, <2>3, <2>4, <2>5, <2>6 DEF CacheLine
  <1>2. Mem1TypeOK' /\ RamTypeOK'
    BY DEF StepTake, Mem1Sent, ramVars, DataPathInv, TypeOK, Mem1TypeOK, Mem1State, Mem1Stages,
       RamTypeOK
  <1>3. CASE DcHit(rq)
    <2> DEFINE d == Merged(rq, lines[i].data)
    <2>1. d \in Line
      BY <1>1, LineFacts DEF Merged, Request
    <2> DEFINE dirty == lines[i].dirty \/ rq.write
               new   == [lines[i] EXCEPT !.data = d, !.dirty = dirty]
    <2>2. /\ dresp' = [rdata |-> d, err |-> FALSE]
          /\ dpend' = rq /\ dstate' = "S_HITRESP" /\ evict' = evict
          /\ mem1' = [mem1 EXCEPT !.st = "sent"]
          /\ ram' = ram /\ rpend' = rpend /\ rresp' = rresp
      BY <1>3 DEF DcHit, StepTake, Mem1Sent, ramVars
    <2>a. lines' = [lines EXCEPT ![i] = new]
      BY <1>3, Zenon DEF DcHit
    <2> HIDE DEF d
    <2>b. dirty \in BOOLEAN /\ (dirty <=> lines[i].dirty \/ rq.write)
      BY Zenon
    <2> HIDE DEF dirty
    <2>c. /\ new \in CacheLine /\ new.dirty = dirty
          /\ new.valid = lines[i].valid /\ new.tag = lines[i].tag /\ new.data = d
      BY <1>1, <2>1, <2>b DEF CacheLine
    <2> HIDE DEF new
    <2>3. /\ lines' \in [Index -> CacheLine]
          /\ lines'[i] = new
          /\ \A j \in Index \ {i} : lines'[j] = lines[j]
      BY <1>1, <2>a, <2>c
    <2>4. TypeOK'
      BY <1>1, <1>2, <2>1, <2>2, <2>3, ReplyFacts DEF DataPathInv, TypeOK, DcTypeOK, DcStates
    <2>5. HandshakeInv'
      BY <1>1, <2>1, <2>2, ReplyFacts DEF HandshakeInv, DataPathInv, TypeOK, Mem1TypeOK, Mem1State
    <2>6. MissInv' /\ TransactionInv'
      BY <1>1, <2>2 DEF MissInv, TransactionInv, DataPathInv
    <2>7. LinesInv'
      <3>1. ~rq.write => d = lines[i].data
        BY DEF d, Merged
      <3>2. ASSUME NEW j \in Index, lines'[j].valid
            PROVE  /\ Mapped(LineAddr(lines'[j].tag, j))
                   /\ \/ lines'[j].dirty
                      \/ lines'[j].data = ram[LineAddr(lines'[j].tag, j)]
        BY <1>1, <2>b, <2>c, <2>3, <3>1, <3>2 DEF LinesInv, DataPathInv
      <3> QED BY <2>2, <3>2 DEF LinesInv
    <2> QED BY <2>4, <2>5, <2>6, <2>7 DEF DataPathInv
  <1>4. CASE DcMissDirty(rq)
    <2>1. LineAddr(lines[i].tag, i) \in Nat
      BY <1>1, RebuiltIdxTag
    <2>2. TypeOK'
      BY <1>1, <1>2, <1>4, <2>1 DEF DcMissDirty, DataPathInv, TypeOK, DcTypeOK, DcStates
    <2>3. HandshakeInv'
      BY <1>1, <1>4 DEF DcMissDirty, StepTake, Mem1Sent, HandshakeInv, DataPathInv, TypeOK, Mem1TypeOK, Mem1State
    <2>4. MissInv' /\ TransactionInv' /\ LinesInv'
      BY <1>1, <1>4 DEF DcMissDirty, StepTake, ramVars, MissInv, TransactionInv, LinesInv, Hit,
         DataPathInv
    <2> QED BY <2>2, <2>3, <2>4 DEF DataPathInv
  <1>5. CASE DcMissClean(rq)
    <2>2. TypeOK'
      BY <1>1, <1>2, <1>5 DEF DcMissClean, DataPathInv, TypeOK, DcTypeOK, DcStates
    <2>3. HandshakeInv'
      BY <1>1, <1>5 DEF DcMissClean, StepTake, Mem1Sent, HandshakeInv, DataPathInv, TypeOK, Mem1TypeOK, Mem1State
    <2>4. MissInv' /\ TransactionInv' /\ LinesInv'
      BY <1>1, <1>5 DEF DcMissClean, StepTake, ramVars, MissInv, TransactionInv, LinesInv, Hit,
         DataPathInv
    <2> QED BY <2>2, <2>3, <2>4 DEF DataPathInv
  <1> QED BY <1>3, <1>4, <1>5 DEF StepTake

LEMMA ServeInv ==
  ASSUME DataPathInv, StepServe
  PROVE  DataPathInv'
  <1>1. UNCHANGED <<mem1, dstate, lines, dpend, evict, dresp>>
    BY DEF StepServe, Core
  <1>2. HandshakeInv' /\ MissInv'
    BY <1>1 DEF DataPathInv, HandshakeInv, MissInv, Hit
  <1>3. /\ rpend # NoReq /\ rresp = NoResp
        /\ rresp' = RamReply /\ rpend' = NoReq
    BY DEF StepServe, RamComplete
  <1>4. CASE dstate = "S_WB_WAIT"
    <2> DEFINE i == Idx(dpend.addr)
    <2>1. /\ rpend = WriteReq(evict.addr, evict.data)
          /\ evict.addr \in MappedAddr /\ evict.data \in Line /\ Mapped(evict.addr)
          /\ i \in Index
          /\ evict.addr = LineAddr(lines[i].tag, i) /\ lines[i].dirty
      <3>1. rpend = WriteReq(evict.addr, evict.data)
        BY <1>3, <1>4 DEF DataPathInv, TransactionInv
      <3> QED BY <1>4, <3>1, BusyFacts DEF DataPathInv, MissInv
    <2>2. ram' = [ram EXCEPT ![evict.addr] = evict.data]
      BY <2>1, FullStrobe DEF StepServe, RamComplete, WriteReq
    <2>3. rresp' = [rdata |-> ZeroLine, err |-> FALSE]
      BY <1>3, <2>1 DEF RamReply, WriteReq
    <2>4. ram \in [MappedAddr -> Line] /\ lines \in [Index -> CacheLine]
      BY DEF DataPathInv, TypeOK, RamTypeOK, DcTypeOK
    <2>5. ram' \in [MappedAddr -> Line] /\ ram'[evict.addr] = evict.data
      BY <2>1, <2>2, <2>4
    <2>6. TypeOK'
      BY <1>1, <1>3, <2>3, <2>5, LineFacts, ReplyFacts DEF DataPathInv, TypeOK, Mem1TypeOK,
         DcTypeOK, RamTypeOK
    <2>7. TransactionInv'
      BY <1>1, <1>3, <1>4, <2>3, <2>5 DEF TransactionInv
    <2>8. LinesInv'
      <3>1. SUFFICES ASSUME NEW j \in Index, lines[j].valid
                     PROVE  /\ Mapped(LineAddr(lines[j].tag, j))
                            /\ \/ lines[j].dirty
                               \/ lines[j].data = ram'[LineAddr(lines[j].tag, j)]
        BY <1>1 DEF LinesInv
      <3>2. CASE j = i
        BY <2>1, <3>1, <3>2 DEF DataPathInv, LinesInv
      <3>3. CASE j # i
        <4>1. lines[j].tag \in Tag /\ lines[i].tag \in Tag
          BY <2>1, <2>4 DEF CacheLine
        <4>2. LineAddr(lines[j].tag, j) # evict.addr
          BY <2>1, <3>3, <4>1, RebuiltIdxTag
        <4>3. LineAddr(lines[j].tag, j) \in Nat /\ Mapped(LineAddr(lines[j].tag, j))
          BY <3>1, <4>1, RebuiltIdxTag DEF DataPathInv, LinesInv
        <4>4. LineAddr(lines[j].tag, j) \in MappedAddr
          BY <4>3, MappedReach
        <4>5. ram'[LineAddr(lines[j].tag, j)] = ram[LineAddr(lines[j].tag, j)]
          BY <2>2, <2>4, <4>2, <4>4
        <4> QED BY <3>1, <4>5 DEF DataPathInv, LinesInv
      <3> QED BY <3>2, <3>3
    <2> QED BY <1>2, <2>6, <2>7, <2>8 DEF DataPathInv
  <1>5. CASE dstate # "S_WB_WAIT"
    <2>1. dstate = "S_RD_WAIT" /\ rpend = ReadReq(dpend.addr)
      BY <1>3, <1>5 DEF DataPathInv, TransactionInv
    <2>2. ram' = ram
      BY <2>1 DEF StepServe, RamComplete, ReadReq
    <2>3. rresp' = IF Mapped(dpend.addr)
                   THEN [rdata |-> ram[dpend.addr], err |-> FALSE]
                   ELSE [rdata |-> ZeroLine, err |-> TRUE]
      BY <1>3, <2>1 DEF RamReply, ReadReq
    <2>4. rresp' \in Response
      BY <2>1, <2>3, BusyFacts, LineFacts, ReplyFacts
    <2>5. TypeOK'
      BY <1>1, <1>3, <2>2, <2>4 DEF DataPathInv, TypeOK, Mem1TypeOK, DcTypeOK, RamTypeOK
    <2>6. TransactionInv'
      BY <1>1, <1>3, <2>1, <2>2, <2>3 DEF TransactionInv
    <2>7. LinesInv'
      BY <1>1, <2>2 DEF DataPathInv, LinesInv
    <2> QED BY <1>2, <2>5, <2>6, <2>7 DEF DataPathInv
  <1> QED BY <1>4, <1>5

LEMMA CollectInv ==
  ASSUME DataPathInv, StepCollect
  PROVE  DataPathInv'
  <1> DEFINE rq == dpend
             i  == Idx(rq.addr)
  <1>1. /\ rresp # NoResp /\ rresp' = NoResp
        /\ mem1' = mem1 /\ ram' = ram /\ rpend' = rpend
        /\ dstate \in {"S_WB_WAIT", "S_RD_WAIT"}
    BY DEF StepCollect, DcWbDone, DcFill, DcFillError
  <1>2. /\ rpend = NoReq /\ mem1.st = "sent" /\ dresp = NoResp /\ dpend = mem1.rq
        /\ rq \in Request /\ rq.addr \in Addr /\ i \in Index /\ TagOf(rq.addr) \in Tag
    BY <1>1, BusyFacts DEF DataPathInv, TransactionInv, HandshakeInv
  <1>3. lines \in [Index -> CacheLine] /\ ram \in [MappedAddr -> Line]
    BY DEF DataPathInv, TypeOK, DcTypeOK, RamTypeOK
  <1>4. Mem1TypeOK' /\ RamTypeOK'
    BY <1>1, <1>2 DEF DataPathInv, TypeOK, Mem1TypeOK, RamTypeOK
  <1>5. CASE DcWbDone(rresp)
    <2>1. /\ dstate = "S_WB_WAIT" /\ dstate' = "S_RD_REQ" /\ evict' = NoEvict
          /\ dpend' = dpend /\ dresp' = dresp
          /\ lines' = [lines EXCEPT ![i].dirty = FALSE]
      BY <1>5 DEF DcWbDone
    <2>2. /\ ram[evict.addr] = evict.data
          /\ evict = [addr |-> LineAddr(lines[i].tag, i), data |-> lines[i].data]
          /\ ~Hit(rq.addr) /\ lines[i].valid
      BY <1>1, <1>2, <2>1 DEF DataPathInv, TransactionInv, MissInv
    <2> DEFINE new == [lines[i] EXCEPT !.dirty = FALSE]
    <2>3. /\ new \in CacheLine /\ new.dirty = FALSE
          /\ new.valid = lines[i].valid /\ new.tag = lines[i].tag /\ new.data = lines[i].data
      BY <1>2, <1>3 DEF CacheLine
    <2>4. lines' = [lines EXCEPT ![i] = new]
      BY <2>1
    <2> HIDE DEF new
    <2>5. /\ lines' \in [Index -> CacheLine]
          /\ lines'[i] = new
          /\ \A j \in Index \ {i} : lines'[j] = lines[j]
      BY <1>2, <1>3, <2>3, <2>4
    <2>6. TypeOK'
      BY <1>2, <1>4, <2>1, <2>5, LineFacts DEF DataPathInv, TypeOK, DcTypeOK, DcStates, NoEvict
    <2>7. HandshakeInv' /\ TransactionInv'
      BY <1>1, <1>2, <2>1 DEF HandshakeInv, TransactionInv, DataPathInv
    <2>8. MissInv'
      BY <2>1, <2>2, <2>3, <2>5 DEF MissInv, Hit
    <2>9. LinesInv'
      <3>1. ASSUME NEW j \in Index, lines'[j].valid
            PROVE  /\ Mapped(LineAddr(lines'[j].tag, j))
                   /\ \/ lines'[j].dirty
                      \/ lines'[j].data = ram[LineAddr(lines'[j].tag, j)]
        BY <1>2, <2>2, <2>3, <2>5, <3>1 DEF LinesInv, DataPathInv
      <3> QED BY <1>1, <3>1 DEF LinesInv
    <2> QED BY <2>6, <2>7, <2>8, <2>9 DEF DataPathInv
  <1>6. CASE DcFill(rresp)
    <2> DEFINE d   == Merged(rq, rresp.rdata)
               new == [valid |-> TRUE, dirty |-> rq.write, tag |-> TagOf(rq.addr), data |-> d]
    <2>1. /\ dstate = "S_RD_WAIT" /\ dstate' = "S_HITRESP" /\ evict' = evict
          /\ dpend' = dpend /\ dresp' = [rdata |-> d, err |-> FALSE] /\ ~rresp.err
          /\ lines' = [lines EXCEPT ![i] = new]
      BY <1>6 DEF DcFill
    <2>2. Mapped(rq.addr) /\ rresp = [rdata |-> ram[rq.addr], err |-> FALSE]
      BY <1>1, <1>2, <2>1 DEF DataPathInv, TransactionInv
    <2>3. ram[rq.addr] \in Line
      BY <2>1, <2>2, BusyFacts
    <2>4. d \in Line /\ (~rq.write => d = ram[rq.addr])
      BY <1>2, <2>2, <2>3, LineFacts DEF Merged, Request
    <2>5. /\ new \in CacheLine /\ new.valid /\ new.tag = TagOf(rq.addr)
          /\ new.dirty = rq.write /\ new.data = d
      BY <1>2, <2>4 DEF CacheLine, Request
    <2>6. LineAddr(TagOf(rq.addr), i) = rq.addr
      <3>1. rq.addr \in Nat
        BY <1>2 DEF Addr
      <3> QED BY <2>2, <3>1, MappedReach, AddressRebuilt
    <2> HIDE DEF d, new
    <2>7. /\ lines' \in [Index -> CacheLine]
          /\ lines'[i] = new
          /\ \A j \in Index \ {i} : lines'[j] = lines[j]
      BY <1>2, <1>3, <2>1, <2>5
    <2>8. TypeOK'
      BY <1>4, <2>1, <2>4, <2>7, ReplyFacts DEF DataPathInv, TypeOK, DcTypeOK, DcStates
    <2>9. HandshakeInv' /\ TransactionInv' /\ MissInv'
      BY <1>1, <1>2, <2>1, <2>4, ReplyFacts DEF HandshakeInv, TransactionInv, MissInv, DataPathInv
    <2>10. LinesInv'
      <3>1. ASSUME NEW j \in Index, lines'[j].valid
            PROVE  /\ Mapped(LineAddr(lines'[j].tag, j))
                   /\ \/ lines'[j].dirty
                      \/ lines'[j].data = ram[LineAddr(lines'[j].tag, j)]
        BY <1>2, <2>2, <2>4, <2>5, <2>6, <2>7, <3>1 DEF LinesInv, DataPathInv
      <3> QED BY <1>1, <3>1 DEF LinesInv
    <2> QED BY <2>8, <2>9, <2>10 DEF DataPathInv
  <1>7. CASE DcFillError(rresp)
    <2>1. /\ dstate = "S_RD_WAIT" /\ dstate' = "S_HITRESP" /\ dresp' = rresp
          /\ lines' = lines /\ dpend' = dpend /\ evict' = evict
      BY <1>7 DEF DcFillError
    <2>2. TypeOK'
      BY <1>4, <2>1 DEF DataPathInv, TypeOK, DcTypeOK, DcStates, RamTypeOK
    <2>3. HandshakeInv' /\ TransactionInv' /\ MissInv' /\ LinesInv'
      BY <1>1, <1>2, <2>1 DEF HandshakeInv, TransactionInv, MissInv, LinesInv, DataPathInv
    <2> QED BY <2>2, <2>3 DEF DataPathInv
  <1> QED BY <1>5, <1>6, <1>7 DEF StepCollect

LEMMA NextInv ==
  ASSUME DataPathInv, [Next]_vars
  PROVE  DataPathInv'
  <1>1. CASE UNCHANGED vars
    BY <1>1 DEF vars, DataPathInv, TypeOK, Mem1TypeOK, DcTypeOK, RamTypeOK, HandshakeInv,
       MissInv, TransactionInv, LinesInv, Hit
  <1>2. CASE Next
    BY <1>1, <1>2, NextIsOneStep, ShiftInv, TakeInv, RespondInv, IssueInv, ServeInv, CollectInv
       DEF Step
  <1> QED BY <1>1, <1>2

-----------------------------------------------------------------------------
(* The theorems about the invariants.                                      *)

\* The invariant holds of every reachable state.
THEOREM DataPathInvariant == Spec => []DataPathInv
  <1>1. Init => DataPathInv
    BY InitInv
  <1>2. DataPathInv /\ [Next]_vars => DataPathInv'
    BY NextInv
  <1> QED BY <1>1, <1>2, PTL DEF Spec

\* Every register of MEM1, cache and RAM keeps its type.
THEOREM TypeCorrect == Spec => []TypeOK
  <1>1. DataPathInv => TypeOK
    BY DEF DataPathInv
  <1> QED BY <1>1, DataPathInvariant, PTL

\* No write-back ever faults: dcache.sv may ignore its error bit.
THEOREM WriteBacksNeverFault == Spec => []VictimIsMapped
  <1>1. DataPathInv => VictimIsMapped
    BY DEF DataPathInv, LinesInv, TransactionInv, VictimIsMapped
  <1> QED BY <1>1, DataPathInvariant, PTL

\* A clean line is the RAM's, so that a miss may drop it.
THEOREM CleanLinesMatch == Spec => []CleanLineMatchesRam
  <1>1. DataPathInv => CleanLineMatchesRam
    BY DEF DataPathInv, LinesInv, CleanLineMatchesRam
  <1> QED BY <1>1, DataPathInvariant, PTL

\* A line is replaced only when the RAM has its data.
THEOREM VictimsAreSaved == Spec => FillReplacesSavedLine
  <1> DEFINE Saved == \A i \in Index :
               lines[i].valid /\ lines'[i].tag # lines[i].tag =>
                 ram'[LineAddr(lines[i].tag, i)] = lines[i].data
  <1>1. ASSUME DataPathInv, [Next]_vars
        PROVE  [Saved]_vars
    <2>1. SUFFICES ASSUME Step PROVE Saved
      BY <1>1, NextIsOneStep DEF vars
    <2>2. lines \in [Index -> CacheLine]
      BY <1>1 DEF DataPathInv, TypeOK, DcTypeOK
    <2>3. CASE UNCHANGED lines
      BY <2>3
    <2>4. CASE StepTake
      <3>1. CASE DcHit(mem1.rq)
        <4>1. \A i \in Index : lines'[i].tag = lines[i].tag
          BY <2>2, <3>1 DEF DcHit, CacheLine
        <4> QED BY <4>1
      <3> QED BY <2>3, <2>4, <3>1 DEF StepTake, DcMissDirty, DcMissClean
    <2>5. CASE StepCollect
      <3>1. CASE DcWbDone(rresp)
        <4>1. \A i \in Index : lines'[i].tag = lines[i].tag
          BY <2>2, <3>1 DEF DcWbDone, CacheLine
        <4> QED BY <4>1
      <3>2. CASE DcFill(rresp)
        <4>1. /\ dstate = "S_RD_WAIT" /\ ram' = ram
              /\ \A i \in Index : i # Idx(dpend.addr) => lines'[i] = lines[i]
          BY <2>2, <2>5, <3>2 DEF DcFill, StepCollect
        <4>2. SUFFICES ASSUME NEW i \in Index, lines[i].valid, i = Idx(dpend.addr)
                       PROVE  ram[LineAddr(lines[i].tag, i)] = lines[i].data
          BY <4>1
        <4>3. ~lines[i].dirty
          BY <1>1, <4>1, <4>2 DEF DataPathInv, MissInv
        <4> QED BY <1>1, <4>2, <4>3 DEF DataPathInv, LinesInv
      <3> QED BY <2>3, <2>5, <3>1, <3>2 DEF StepCollect, DcFillError
    <2> QED BY <2>1, <2>3, <2>4, <2>5 DEF Step, StepShift, StepRespond, StepIssue, StepServe,
         DcRespond, DcReqAccepted, Core, dcVars
  <1>2. Spec => [][Next]_vars
    BY DEF Spec
  <1> QED BY <1>1, <1>2, DataPathInvariant, PTL DEF FillReplacesSavedLine

-----------------------------------------------------------------------------
(* The refinement: what the program sees at an address.                    *)

\* A request that hits is for the cached line of a mapped address, which is the
\* request's own if that has no bits above the tag.
LEMMA HitFacts ==
  ASSUME DataPathInv, NEW a \in Addr, Hit(a)
  PROVE  LET b == LineAddr(TagOf(a), Idx(a))
         IN /\ b \in Nat /\ Mapped(b) /\ Hit(b)
            /\ Idx(b) = Idx(a) /\ TagOf(b) = TagOf(a)
  <1> DEFINE b == LineAddr(TagOf(a), Idx(a))
  <1>1. Idx(a) \in Index /\ TagOf(a) \in Tag
    BY IdxTagType
  <1>2. b \in Nat /\ Idx(b) = Idx(a) /\ TagOf(b) = TagOf(a)
    BY <1>1, RebuiltIdxTag
  <1>3. lines[Idx(a)].valid /\ lines[Idx(a)].tag = TagOf(a)
    BY DEF Hit
  <1>4. Mapped(b)
    BY <1>1, <1>3 DEF DataPathInv, LinesInv
  <1> QED BY <1>2, <1>3, <1>4 DEF Hit

\* A mapped address has no bits above the tag.
LEMMA MappedFacts ==
  ASSUME NEW a \in Nat, Mapped(a)
  PROVE  a \in Addr /\ a \in MappedAddr /\ LineAddr(TagOf(a), Idx(a)) = a
  BY MappedReach, AddressRebuilt

\* A mapped address that misses is seen in the RAM.
LEMMA StoreFacts ==
  ASSUME DataPathInv, NEW a \in Addr
  PROVE  /\ Mapped(a) => a \in MappedAddr
         /\ a \in MappedAddr => Mapped(a)
         /\ Mapped(a) => Store[a] = IF Hit(a) THEN lines[Idx(a)].data ELSE ram[a]
         /\ Mapped(a) => Store[a] \in Line
  <1>1. a \in Nat
    BY DEF Addr
  <1>2. Mapped(a) => a \in MappedAddr
    BY <1>1, MappedFacts
  <1>3. a \in MappedAddr => Mapped(a)
    BY SizeAssumption DEF MappedAddr, Mapped
  <1>4. Mapped(a) => Store[a] = IF Hit(a) THEN lines[Idx(a)].data ELSE ram[a]
    BY <1>2 DEF Store
  <1>5. Idx(a) \in Index /\ lines[Idx(a)].data \in Line
    BY IdxTagType DEF DataPathInv, TypeOK, DcTypeOK, CacheLine
  <1>6. a \in MappedAddr => ram[a] \in Line
    BY DEF DataPathInv, TypeOK, RamTypeOK
  <1> QED BY <1>2, <1>3, <1>4, <1>5, <1>6

\* Mapped addresses can be requested.
LEMMA MappedAddrs ==
  ASSUME NEW a \in MappedAddr
  PROVE  a \in Addr /\ Mapped(a)
  BY SizeAssumption, MemAssumption DEF MappedAddr, Mapped, Addr

\* Two addresses of the RAM that are of one set have different tags.
LEMMA SameSet ==
  ASSUME NEW a \in MappedAddr, NEW b \in MappedAddr, Idx(a) = Idx(b), TagOf(a) = TagOf(b)
  PROVE  a = b
  <1>1. a \in Nat /\ b \in Nat /\ Mapped(a) /\ Mapped(b)
    BY MappedAddrs DEF Addr
  <1>2. LineAddr(TagOf(a), Idx(a)) = a /\ LineAddr(TagOf(b), Idx(b)) = b
    BY <1>1, MappedFacts
  <1> QED BY <1>2

\* As long as lines and RAM are kept, so is what the program sees.
LEMMA StoreKept ==
  ASSUME UNCHANGED <<lines, ram>>
  PROVE  UNCHANGED Store
  BY DEF Store, Hit

-----------------------------------------------------------------------------
(* The steps.                                                              *)

\* The abstract memory has the same requests and the same data.
LEMMA SameData ==
  /\ Memory!CoreOps = CoreOps
  /\ Memory!ZeroLine = ZeroLine
  /\ \A a : Memory!Mapped(a) = Mapped(a)
  /\ \A o, n, s : Memory!apply_wstrb(o, n, s) = apply_wstrb(o, n, s)
  /\ \A a : Memory!Truncated(a) = LineAddr(TagOf(a), Idx(a))
  <1>1. Memory!Request = Request
    BY DEF Memory!Request, Request, Memory!Addr, Addr, Memory!Line, Line
  <1>2. Memory!CoreOps = CoreOps
    BY <1>1 DEF Memory!CoreOps, CoreOps
  <1>3. Memory!ZeroLine = ZeroLine /\ \A a : Memory!Mapped(a) = Mapped(a)
    BY DEF Memory!ZeroLine, ZeroLine, Memory!Mapped, Mapped
  <1>4. \A o, n, s : Memory!apply_wstrb(o, n, s) = apply_wstrb(o, n, s)
    BY DEF Memory!apply_wstrb, apply_wstrb
  <1>5. \A a : Memory!Truncated(a) = LineAddr(TagOf(a), Idx(a))
    BY DEF Memory!Truncated, Memory!LineAddr, LineAddr, Memory!TagOf, TagOf, Memory!Idx, Idx
  <1> QED BY <1>2, <1>3, <1>4, <1>5


LEMMA ShiftImpl ==
  ASSUME DataPathInv, StepShift
  PROVE  Memory!LMNext
  <1>1. PICK op \in CoreOps \union {NoReq} : Mem1Shift(op)
    BY DEF StepShift
  <1>2. UNCHANGED <<Store, dresp>>
    BY StoreKept DEF StepShift, dcVars, ramVars
  <1>3. Memory!LMShift(op)
    BY <1>1, <1>2 DEF Memory!LMShift, Mem1Shift, Mem1Empty, Memory!Mem1Shift, Memory!Mem1Empty
  <1> QED BY <1>1, <1>3, SameData DEF Memory!LMNext

\* MEM1 hands its request over; a hit takes effect at once.
LEMMA TakeImpl ==
  ASSUME DataPathInv, StepTake
  PROVE  Memory!LMNext
  <1> DEFINE rq == mem1.rq
             a  == rq.addr
             i  == Idx(a)
             w  == LineAddr(TagOf(a), Idx(a))
  <1>1. /\ mem1.st = "want" /\ dstate = "S_IDLE" /\ dresp = NoResp
        /\ rq \in Request /\ a \in Addr /\ i \in Index
    <2>1. mem1.st = "want" /\ dstate = "S_IDLE" /\ dresp = NoResp
      BY DEF StepTake, Mem1Sent, DataPathInv, HandshakeInv
    <2>2. rq \in Request
      BY <2>1 DEF DataPathInv, TypeOK, Mem1TypeOK, Mem1State
    <2>3. a \in Addr
      BY <2>2 DEF Request
    <2> QED BY <2>1, <2>2, <2>3, IdxTagType
  <1>2. Memory!Mem1Sent /\ ram' = ram
    BY DEF StepTake, Mem1Sent, Memory!Mem1Sent, ramVars
  <1>3. CASE DcHit(rq)
    <2> DEFINE d == Merged(rq, lines[i].data)
    <2>1. /\ Hit(a) /\ lines \in [Index -> CacheLine]
          /\ dresp' = [rdata |-> d, err |-> FALSE]
      BY <1>3 DEF DcHit, DataPathInv, TypeOK, DcTypeOK
    <2>2. /\ lines'[i].valid = lines[i].valid /\ lines'[i].tag = lines[i].tag
          /\ lines'[i].data = d
          /\ \A j \in Index \ {i} : lines'[j] = lines[j]
      <3> DEFINE dirty == lines[i].dirty \/ rq.write
                 new   == [lines[i] EXCEPT !.data = d, !.dirty = dirty]
      <3>1. lines' = [lines EXCEPT ![i] = new]
        BY <1>3, Zenon DEF DcHit
      <3> HIDE DEF dirty, d
      <3>2. new.valid = lines[i].valid /\ new.tag = lines[i].tag /\ new.data = d
        BY <1>1, <2>1 DEF CacheLine
      <3> HIDE DEF new
      <3> QED BY <1>1, <2>1, <3>1, <3>2
    <2>3. /\ w \in MappedAddr /\ Mapped(w) /\ Hit(w)
          /\ Idx(w) = i /\ TagOf(w) = TagOf(a) /\ Store[w] = lines[i].data
      <3>1. w \in Nat /\ Mapped(w) /\ Hit(w) /\ Idx(w) = i /\ TagOf(w) = TagOf(a)
        BY <1>1, <2>1, HitFacts
      <3>2. w \in Addr /\ w \in MappedAddr
        BY <3>1, MappedFacts
      <3> QED BY <3>1, <3>2, StoreFacts
    <2> HIDE DEF d, w
    <2>4. Store' = [Store EXCEPT ![w] = d]
      <3>1. ASSUME NEW b \in MappedAddr
            PROVE  (IF Hit(b) THEN lines[Idx(b)].data ELSE ram[b])'
                     = IF b = w THEN d ELSE Store[b]
        <4>1. b \in Addr /\ Idx(b) \in Index
          BY MappedAddrs, IdxTagType
        <4>2. CASE b = w
          BY <1>1, <1>2, <2>1, <2>2, <2>3, <4>2 DEF Hit
        <4>3. CASE b # w /\ Idx(b) = i
          <5>1. TagOf(b) # TagOf(a)
            BY <2>3, <4>3, SameSet
          <5> QED BY <1>2, <2>1, <2>2, <4>3, <5>1 DEF Hit, Store
        <4>4. CASE Idx(b) # i
          <5>1. lines'[Idx(b)] = lines[Idx(b)] /\ ram'[b] = ram[b] /\ b # w
            BY <1>2, <2>2, <2>3, <4>1, <4>4
          <5>2. Store[b] = IF Hit(b) THEN lines[Idx(b)].data ELSE ram[b]
            BY DEF Store
          <5> QED BY <5>1, <5>2 DEF Hit
        <4> QED BY <4>2, <4>3, <4>4
      <3>2. Store' = [b \in MappedAddr |-> (IF Hit(b) THEN lines[Idx(b)].data ELSE ram[b])']
        BY DEF Store
      <3>3. Store \in [MappedAddr -> Line]
        BY MappedAddrs, StoreFacts DEF Store
      <3> HIDE DEF a
      <3> QED BY <2>3, <3>1, <3>2, <3>3
    <2>5. d = IF rq.write THEN apply_wstrb(Store[w], rq.wdata, rq.wstrb) ELSE Store[w]
      BY <2>3 DEF d, Merged
    <2>6. Memory!Perform(rq)
      <3>1. Memory!PerformAt(w, rq)
        BY <2>1, <2>3, <2>4, <2>5, SameData DEF Memory!PerformAt
      <3>2. w = Memory!Truncated(rq.addr)
        BY SameData DEF w
      <3> QED BY <3>1, <3>2 DEF Memory!Perform
    <2>7. Memory!LMAcceptAndServe
      BY <1>1, <1>2, <2>6 DEF Memory!LMAcceptAndServe
    <2> QED BY <2>7 DEF Memory!LMNext
  <1>4. CASE DcMissDirty(rq) \/ DcMissClean(rq)
    <2>1. UNCHANGED <<Store, dresp>>
      BY <1>2, <1>4, StoreKept DEF DcMissDirty, DcMissClean
    <2> QED BY <1>2, <2>1 DEF Memory!LMNext, Memory!LMAccept
  <1> QED BY <1>3, <1>4 DEF StepTake

\* MEM1 takes the response.
LEMMA RespondImpl ==
  ASSUME DataPathInv, StepRespond
  PROVE  Memory!LMNext
  <1>1. UNCHANGED Store
    BY StoreKept DEF StepRespond, DcRespond, ramVars
  <1>2. Memory!Mem1Done(dresp) /\ dresp' = NoResp
    BY DEF StepRespond, DcRespond, Mem1Done, Memory!Mem1Done
  <1> QED BY <1>1, <1>2 DEF Memory!LMNext, Memory!LMDeliver

\* Handing a request to the RAM is invisible to the program.
LEMMA IssueImpl ==
  ASSUME DataPathInv, StepIssue
  PROVE  UNCHANGED <<Store, dresp, mem1>>
  BY StoreKept DEF StepIssue, DcReqAccepted

\* So is a write-back: until it is acknowledged the line is seen in the cache.
LEMMA ServeImpl ==
  ASSUME DataPathInv, StepServe
  PROVE  UNCHANGED <<Store, dresp, mem1>>
  <1>1. UNCHANGED <<mem1, lines, dresp>>
    BY DEF StepServe, Core
  <1>2. CASE ram' = ram
    BY <1>1, <1>2, StoreKept
  <1>3. CASE ram' # ram
    <2> DEFINE i == Idx(dpend.addr)
    <2>1. dstate = "S_WB_WAIT" /\ rpend = WriteReq(evict.addr, evict.data)
      BY <1>3 DEF StepServe, RamComplete, DataPathInv, TransactionInv, ReadReq
    <2>2. /\ evict.addr \in MappedAddr /\ evict.addr \in Addr /\ i \in Index
          /\ evict.addr = LineAddr(lines[i].tag, i) /\ lines[i].valid
      BY <2>1, BusyFacts DEF DataPathInv, MissInv
    <2>3. lines[i].tag \in Tag
      BY <2>2 DEF DataPathInv, TypeOK, DcTypeOK, CacheLine
    <2>4. Hit(evict.addr)
      BY <2>2, <2>3, RebuiltIdxTag DEF Hit
    <2>5. \A b \in MappedAddr : b # evict.addr => ram'[b] = ram[b]
      BY <2>1 DEF StepServe, RamComplete, WriteReq, DataPathInv, TypeOK, RamTypeOK
    <2>6. Store' = Store
      BY <1>1, <2>4, <2>5 DEF Store, Hit
    <2> QED BY <1>1, <2>6
  <1> QED BY <1>2, <1>3

\* A fill is where a miss takes effect; the end of a write-back is invisible.
LEMMA CollectImpl ==
  ASSUME DataPathInv, StepCollect
  PROVE  Memory!LMNext \/ UNCHANGED <<Store, dresp, mem1>>
  <1> DEFINE rq == mem1.rq
             a  == rq.addr
             i  == Idx(a)
  <1>1. /\ rresp # NoResp /\ mem1' = mem1 /\ ram' = ram
        /\ dstate \in {"S_WB_WAIT", "S_RD_WAIT"}
    BY DEF StepCollect, DcWbDone, DcFill, DcFillError
  <1>2. /\ dpend = rq /\ rq \in Request /\ a \in Addr /\ i \in Index
        /\ mem1.st = "sent" /\ dresp = NoResp /\ rpend = NoReq
        /\ lines \in [Index -> CacheLine]
    BY <1>1, BusyFacts DEF DataPathInv, HandshakeInv, TransactionInv, TypeOK, DcTypeOK
  <1>3. CASE DcWbDone(rresp)
    <2>1. /\ dresp' = dresp
          /\ lines' = [lines EXCEPT ![i].dirty = FALSE]
      BY <1>2, <1>3 DEF DcWbDone
    <2>2. \A j \in Index : /\ lines'[j].valid = lines[j].valid
                          /\ lines'[j].tag = lines[j].tag
                          /\ lines'[j].data = lines[j].data
      BY <1>2, <2>1 DEF CacheLine
    <2>3. \A b \in MappedAddr : Idx(b) \in Index
      BY MappedAddrs, IdxTagType
    <2>4. Store' = Store
      BY <1>1, <2>2, <2>3 DEF Store, Hit
    <2> QED BY <1>1, <2>1, <2>4
  <1>4. CASE DcFill(rresp)
    <2> DEFINE d == Merged(rq, ram[a])
    <2>1. /\ dstate = "S_RD_WAIT" /\ ~rresp.err
          /\ ~Hit(a) /\ ~(lines[i].valid /\ lines[i].dirty)
      BY <1>2, <1>4 DEF DcFill, DataPathInv, MissInv
    <2>2. Mapped(a) /\ rresp = [rdata |-> ram[a], err |-> FALSE]
      BY <1>1, <1>2, <2>1 DEF DataPathInv, TransactionInv
    <2>3. a \in MappedAddr /\ Store[a] = ram[a]
      BY <1>2, <2>1, <2>2, StoreFacts
    <2>4. /\ dresp' = [rdata |-> d, err |-> FALSE]
          /\ lines' = [lines EXCEPT ![i] =
                         [valid |-> TRUE, dirty |-> rq.write, tag |-> TagOf(a), data |-> d]]
      BY <1>2, <1>4, <2>2 DEF DcFill
    <2> HIDE DEF d
    <2>5. /\ lines'[i].valid /\ lines'[i].tag = TagOf(a) /\ lines'[i].data = d
          /\ \A j \in Index \ {i} : lines'[j] = lines[j]
      BY <1>2, <2>4
    <2>6. Store' = [Store EXCEPT ![a] = d]
      <3>1. ASSUME NEW b \in MappedAddr
            PROVE  (IF Hit(b) THEN lines[Idx(b)].data ELSE ram[b])'
                     = IF b = a THEN d ELSE Store[b]
        <4>1. b \in Addr /\ Idx(b) \in Index
          BY MappedAddrs, IdxTagType
        <4>2. CASE b = a
          BY <2>5, <4>2 DEF Hit
        <4>3. CASE b # a /\ Idx(b) = i
          <5>1. ~Hit(b)'
            BY <1>2, <2>3, <2>5, <4>1, <4>3, SameSet DEF Hit
          <5>2. LineAddr(TagOf(b), Idx(b)) = b
            BY <4>1, MappedAddrs, MappedFacts DEF Addr
          <5>3. Hit(b) => lines[i].data = ram[b]
            BY <1>2, <2>1, <4>1, <4>3, <5>2 DEF DataPathInv, LinesInv, Hit
          <5> QED BY <1>1, <4>3, <5>1, <5>3 DEF Store
        <4>4. CASE Idx(b) # i
          BY <1>1, <2>5, <4>1, <4>4 DEF Hit, Store
        <4> QED BY <4>2, <4>3, <4>4
      <3>2. Store' = [b \in MappedAddr |-> (IF Hit(b) THEN lines[Idx(b)].data ELSE ram[b])']
        BY DEF Store
      <3>3. Store \in [MappedAddr -> Line]
        BY MappedAddrs, StoreFacts DEF Store
      <3> HIDE DEF a
      <3> QED BY <2>3, <3>1, <3>2, <3>3
    <2>7. d = IF rq.write THEN apply_wstrb(Store[a], rq.wdata, rq.wstrb) ELSE Store[a]
      BY <2>3 DEF d, Merged
    <2>8. Memory!Perform(rq)
      <3>1. Memory!PerformAt(a, rq)
        BY <2>2, <2>3, <2>4, <2>6, <2>7, SameData DEF Memory!PerformAt
      <3> QED BY <3>1 DEF Memory!Perform
    <2> QED BY <1>1, <1>2, <2>8 DEF Memory!LMNext, Memory!LMServe
  <1>5. CASE DcFillError(rresp)
    <2>1. /\ dstate = "S_RD_WAIT" /\ rresp.err /\ dresp' = rresp /\ lines' = lines
      BY <1>5 DEF DcFillError
    <2>2. ~Mapped(a) /\ rresp = [rdata |-> ZeroLine, err |-> TRUE]
      BY <1>1, <1>2, <2>1 DEF DataPathInv, TransactionInv
    <2>3. Memory!Perform(rq)
      <3>1. Memory!PerformAt(a, rq)
        BY <1>1, <2>1, <2>2, SameData, StoreKept DEF Memory!PerformAt
      <3> QED BY <3>1 DEF Memory!Perform
    <2> QED BY <1>1, <1>2, <2>3 DEF Memory!LMNext, Memory!LMServe
  <1> QED BY <1>3, <1>4, <1>5 DEF StepCollect

\* After reset the cache is empty and the program sees the RAM.
LEMMA InitImpl ==
  ASSUME Init
  PROVE  Memory!LMInit
  <1>1. Store = ram
    BY MappedAddrs, IdxTagType DEF Init, DcInit, RamInit, Store, Hit
  <1>2. Memory!Line = Line /\ Memory!Mapping = MappedAddr
    BY DEF Memory!Line, Line, Memory!Mapping, MappedAddr
  <1> QED BY <1>1, <1>2 DEF Init, Mem1Init, Mem1Empty, DcInit, RamInit, Memory!LMInit,
       Memory!Mem1Init, Memory!Mem1Empty

\* Every behaviour of MEM1, cache and RAM is a behaviour of the atomic line
\* memory: the refinement the run checks, for every size and for every set of
\* addresses that MEM1 may ask for, those with bits above the tag included.
THEOREM CacheImplementsMemory == Spec => ImplementsLineMemory
  <1>1. Init => Memory!LMInit
    BY InitImpl
  <1>2. DataPathInv /\ [Next]_vars => [Memory!LMNext]_Memory!lmVars
    <2> SUFFICES ASSUME DataPathInv, [Next]_vars
                 PROVE  Memory!LMNext \/ UNCHANGED <<Store, dresp, mem1>>
      BY DEF Memory!lmVars
    <2>1. CASE UNCHANGED vars
      BY <2>1, StoreKept DEF vars
    <2>2. CASE Step
      BY <2>2, ShiftImpl, TakeImpl, RespondImpl, IssueImpl, ServeImpl, CollectImpl DEF Step
    <2> QED BY <2>1, <2>2, NextIsOneStep
  <1> QED BY <1>1, <1>2, DataPathInvariant, PTL DEF Spec, ImplementsLineMemory, Memory!LMSpec
=============================================================================

----------------------------- MODULE QuadBusProofs ---------------------------
(***************************************************************************)
(* The quad-core memory bus, for every number of core ports: responses go  *)
(* to the port that asked, writes are in RAM when they are acknowledged,   *)
(* and no port is passed over more than N - 1 times.                       *)
(***************************************************************************)
EXTENDS QuadBus, TLAPS

USE PortsAssumption, SizeAssumption, MemAssumption, DataAssumption,
    RequestsAssumption

-----------------------------------------------------------------------------
\* The ring: distances are 0 .. N-1, and serving k, which is no further from the
\* head than m, brings m nearer by at least one.
LEMMA RingStep ==
  ASSUME NEW p \in Master, NEW k \in Master, NEW m \in Master
  PROVE  /\ Succ(k) \in Master
         /\ Behind(p, m) \in 0 .. (N - 1)
         /\ m # k /\ Behind(p, k) <= Behind(p, m)
              => Behind(Succ(k), m) <= Behind(p, m) - 1
BY DEF Master, Succ, Behind

\* The states a port can show are told apart by their names.
LEMMA PortKinds ==
  /\ Idle \in PortState /\ Idle.st = "idle"
  /\ \A rq \in PortRequests :
       /\ Asking(rq) \in PortState /\ Asking(rq).st = "req" /\ Asking(rq).rq = rq
       /\ Waiting(rq) \in PortState /\ Waiting(rq).st = "wait"
       /\ Waiting(rq).rq = rq
  /\ \A v \in PortState :
       /\ v.st \in {"idle", "req", "wait"}
       /\ v.st # "idle" => v.rq \in PortRequests
       /\ v.st # "idle" => v.rq \in Request /\ v.rq # NoReq
  /\ \A v \in Fresh : v \in PortState /\ v.st # "wait"
<1>1. Idle \in PortState /\ Idle.st = "idle"
  BY DEF PortState, Fresh, Idle
<1>2. \A rq \in PortRequests :
        /\ Asking(rq) \in PortState /\ Asking(rq).st = "req" /\ Asking(rq).rq = rq
        /\ Waiting(rq) \in PortState /\ Waiting(rq).st = "wait"
        /\ Waiting(rq).rq = rq
  BY DEF PortState, Fresh, Asking, Waiting
<1>3. \A rq \in PortRequests : rq \in Request /\ rq # NoReq
  OBVIOUS
<1>4. ASSUME NEW v \in Fresh
      PROVE  v = Idle \/ \E rq \in PortRequests : v = Asking(rq)
  BY DEF Fresh
<1>5. ASSUME NEW v \in PortState
      PROVE  v \in Fresh \/ \E rq \in PortRequests : v = Waiting(rq)
  BY DEF PortState
<1>6. \A v \in Fresh : v \in PortState /\ v.st # "wait"
  BY <1>1, <1>2, <1>4
<1>7. ASSUME NEW v \in PortState
      PROVE  /\ v.st \in {"idle", "req", "wait"}
             /\ v.st # "idle" => v.rq \in PortRequests
  BY <1>1, <1>2, <1>4, <1>5
<1> QED
  BY <1>1, <1>2, <1>3, <1>6, <1>7

\* An answer is a response of the interface.
LEMMA AnswerType ==
  ASSUME NEW rq \in Request, ram \in [MappedAddr -> Line]
  PROVE  AnswerTo(rq) \in Response /\ AnswerTo(rq) # NoResp
<1>1. ZeroLine \in Line
  BY DEF ZeroLine, Line
<1>2. rq.addr \in Addr /\ rq.write \in BOOLEAN
  BY DEF Request
<1>3. Mapped(rq.addr) => rq.addr \in MappedAddr
  BY <1>2 DEF Mapped, MappedAddr, Addr
<1>4. Mapped(rq.addr) => ram[rq.addr] \in Line
  BY <1>3
<1>5. AnswerTo(rq) \in Response
  BY <1>1, <1>4 DEF AnswerTo, Response
<1> QED
  BY <1>5

-----------------------------------------------------------------------------
LEMMA InitInv == Init => BusInv
<1> SUFFICES ASSUME Init PROVE BusInv
  OBVIOUS
<1>1. \A m \in Master : port[m] = Idle /\ bypass[m] = 0
  BY DEF Init
<1>2. 0 \in Master
  BY DEF Master
<1>3. TypeOK
  <2>1. bypass \in [Master -> 0 .. N]
    BY DEF Init
  <2> QED
    BY <1>2, <2>1, PortKinds DEF Init, RrInit, RamInit, TypeOK, RrTypeOK, RamTypeOK
<1>4. BusyInv /\ ResponseIsForItsPort /\ WriteDoneWhenAnswered
  BY <1>1, PortKinds DEF Init, RrInit, RamInit, BusyInv, ResponseIsForItsPort,
                         WriteDoneWhenAnswered
<1>5. TurnInv
  BY <1>1, PortKinds DEF TurnInv
<1> QED
  BY <1>3, <1>4, <1>5 DEF BusInv

\* The ports on an edge: those that are free decide afresh, the others hold.
LEMMA FreePortsMove ==
  ASSUME TypeOK,
         NEW new \in [Free -> Fresh],
         port' = [k \in Master |-> IF k \in Free THEN new[k] ELSE port[k]]
  PROVE  /\ port' \in [Master -> PortState]
         /\ \A k \in Master : port[k].st # "idle" => port'[k] = port[k]
         /\ \A k \in Master : port[k].st = "idle" => port'[k].st # "wait"
<1>1. \A k \in Free : new[k] \in Fresh
  OBVIOUS
<1> QED
  BY <1>1, PortKinds DEF TypeOK, Free

LEMMA PortsEdgeMoves ==
  ASSUME TypeOK, NEW m \in Master, NEW v \in PortState,
         PortsEdge(Free, m, v)
  PROVE  /\ port' \in [Master -> PortState]
         /\ port'[m] = v
         /\ \A k \in Master \ {m} : port[k].st # "idle" => port'[k] = port[k]
         /\ \A k \in Master \ {m} : port[k].st = "idle" => port'[k].st # "wait"
<1>1. PICK new \in [Free -> Fresh] :
        port' = [k \in Master |-> IF k = m THEN v
                                  ELSE IF k \in Free THEN new[k] ELSE port[k]]
  BY DEF PortsEdge
<1>2. \A k \in Free : new[k] \in Fresh
  OBVIOUS
<1> QED
  BY <1>1, <1>2, PortKinds DEF TypeOK, Free

-----------------------------------------------------------------------------
\* Steps on which no port is granted or released.
LEMMA HoldInv ==
  ASSUME BusInv,
         UNCHANGED <<rrVars, bypass>>,
         NEW new \in [Free -> Fresh],
         port' = [k \in Master |-> IF k \in Free THEN new[k] ELSE port[k]]
  PROVE  TurnInv' /\ (RrTypeOK /\ bypass \in [Master -> 0 .. N])'
         /\ \A k \in Master : port'[k].st = "wait" <=> port[k].st = "wait"
<1>1. TypeOK
  BY DEF BusInv
<1>2. /\ \A k \in Master : port[k].st # "idle" => port'[k] = port[k]
      /\ \A k \in Master : port[k].st = "idle" => port'[k].st # "wait"
  BY <1>1, FreePortsMove
<1>3. RrTypeOK' /\ (bypass \in [Master -> 0 .. N])' /\ Head' = Head
  BY <1>1 DEF TypeOK, RrTypeOK, rrVars, Head, Succ
<1>4. Head \in Master
  BY <1>1, RingStep DEF TypeOK, RrTypeOK, Head
<1>5. ASSUME NEW m \in Master
      PROVE  /\ port'[m].st = "req" => bypass'[m] + Behind(Head', m) <= N - 1
             /\ port'[m].st # "req" => bypass'[m] = 0
  <2>1. Behind(Head, m) \in 0 .. (N - 1)
    BY <1>4, RingStep
  <2>2. /\ port[m].st = "req" => bypass[m] + Behind(Head, m) <= N - 1
        /\ port[m].st # "req" => bypass[m] = 0
    BY DEF BusInv, TurnInv
  <2> QED
    BY <1>2, <1>3, <2>1, <2>2
<1>6. TurnInv'
  BY <1>5 DEF TurnInv
<1> QED
  BY <1>2, <1>3, <1>6

LEMMA QuietInv == BusInv /\ Quiet => BusInv'
<1> SUFFICES ASSUME BusInv, Quiet PROVE BusInv'
  OBVIOUS
<1>1. PICK new \in [Free -> Fresh] :
        port' = [k \in Master |-> IF k \in Free THEN new[k] ELSE port[k]]
  BY DEF Quiet
<1>2. TypeOK /\ rpend = NoReq /\ rresp = NoResp
  BY DEF BusInv, BusyInv, Quiet
<1>3. UNCHANGED <<active, grant_idx, rr_ptr, bypass, ram, rpend, rresp>>
  BY <1>2 DEF Quiet, RamHold, RamConsumed, rrVars
<1>4. /\ TurnInv' /\ (RrTypeOK /\ bypass \in [Master -> 0 .. N])'
      /\ \A k \in Master : port'[k].st = "wait" <=> port[k].st = "wait"
  BY <1>1, HoldInv DEF Quiet
<1>5. port' \in [Master -> PortState]
  BY <1>1, <1>2, FreePortsMove
<1>6. TypeOK'
  BY <1>2, <1>3, <1>4, <1>5 DEF TypeOK, RamTypeOK
<1>7. ResponseIsForItsPort'
  BY <1>2, <1>3, <1>4 DEF BusInv, ResponseIsForItsPort
<1>8. BusyInv' /\ WriteDoneWhenAnswered'
  BY <1>2, <1>3 DEF BusInv, BusyInv, WriteDoneWhenAnswered
<1> QED
  BY <1>4, <1>6, <1>7, <1>8 DEF BusInv

LEMMA PerformInv == BusInv /\ Perform => BusInv'
<1> SUFFICES ASSUME BusInv, Perform PROVE BusInv'
  OBVIOUS
<1> DEFINE rq == port[grant_idx].rq
<1>1. PICK new \in [Free -> Fresh] :
        port' = [k \in Master |-> IF k \in Free THEN new[k] ELSE port[k]]
  BY DEF Perform
<1>2. TypeOK /\ active /\ rpend # NoReq /\ rpend = rq /\ rpend' = NoReq
  BY DEF BusInv, ResponseIsForItsPort, Perform, RamComplete
<1>3. UNCHANGED <<active, grant_idx, rr_ptr, bypass>>
  BY DEF Perform, rrVars
<1>4. /\ TurnInv' /\ (RrTypeOK /\ bypass \in [Master -> 0 .. N])'
      /\ \A k \in Master : port'[k].st = "wait" <=> port[k].st = "wait"
  BY <1>1, HoldInv DEF Perform
<1>5. port' \in [Master -> PortState]
  BY <1>1, <1>2, FreePortsMove
<1>6. grant_idx \in Master /\ port[grant_idx].st = "wait"
      /\ port'[grant_idx] = port[grant_idx]
  BY <1>1, <1>2, FreePortsMove DEF TypeOK, RrTypeOK, BusInv, ResponseIsForItsPort
<1>7. rq \in Request /\ rq.addr \in Nat /\ rq.wstrb \in SUBSET Lanes /\ rq.wdata \in Line
      /\ rq.write \in BOOLEAN
  <2>1. rq \in Request
    BY <1>2, <1>6, PortKinds DEF TypeOK
  <2> QED
    BY <2>1 DEF Request, Addr
<1>8. ram' \in [MappedAddr -> Line]
  <2>1. \A a \in MappedAddr : apply_wstrb(ram[a], rq.wdata, rq.wstrb) \in Line
    BY <1>2, <1>7 DEF TypeOK, RamTypeOK, apply_wstrb, Line
  <2>2. ram' = IF rq.write /\ Mapped(rq.addr)
                 THEN [ram EXCEPT ![rq.addr] =
                         apply_wstrb(ram[rq.addr], rq.wdata, rq.wstrb)]
                 ELSE ram
    BY <1>2 DEF Perform, RamComplete
  <2>3. Mapped(rq.addr) => rq.addr \in MappedAddr
    BY <1>7 DEF Mapped, MappedAddr
  <2> QED
    BY <1>2, <2>1, <2>2, <2>3 DEF TypeOK, RamTypeOK
<1>9. rresp' = AnswerTo(rq)' /\ rresp' \in Response /\ rresp' # NoResp
  <2>1. rq' = rq
    BY <1>3, <1>6
  <2>2. rresp' = RamReply
    BY DEF Perform, RamComplete
  <2>3. ~rq.write => ram' = ram
    BY <1>2 DEF Perform, RamComplete
  <2>4. rresp' = AnswerTo(rq)'
    BY <1>2, <2>1, <2>2, <2>3 DEF RamReply, AnswerTo
  <2>5. AnswerTo(rq) \in Response /\ AnswerTo(rq) # NoResp
    BY <1>2, <1>7, AnswerType DEF TypeOK, RamTypeOK
  <2>6. rresp' = AnswerTo(rq)
    BY <1>2, <2>2 DEF RamReply, AnswerTo
  <2> QED
    BY <2>4, <2>5, <2>6
<1>10. TypeOK'
  BY <1>2, <1>4, <1>5, <1>8, <1>9 DEF TypeOK, RamTypeOK
<1>11. ResponseIsForItsPort'
  BY <1>2, <1>3, <1>4, <1>9 DEF BusInv, ResponseIsForItsPort
<1>12. WriteDoneWhenAnswered'
  <2> SUFFICES ASSUME rq.write, Mapped(rq.addr), NEW l \in rq.wstrb
               PROVE  ram'[rq.addr][l] = rq.wdata[l]
    BY <1>3, <1>6 DEF WriteDoneWhenAnswered
  <2>1. rq.addr \in MappedAddr /\ l \in Lanes
    BY <1>7 DEF Mapped, MappedAddr
  <2>2. ram' = [ram EXCEPT ![rq.addr] =
                  apply_wstrb(ram[rq.addr], rq.wdata, rq.wstrb)]
    BY <1>2 DEF Perform, RamComplete
  <2>3. ram'[rq.addr] = apply_wstrb(ram[rq.addr], rq.wdata, rq.wstrb)
    BY <1>2, <2>1, <2>2 DEF TypeOK, RamTypeOK
  <2> QED
    BY <2>1, <2>3 DEF apply_wstrb
<1>13. BusyInv'
  BY <1>2, <1>3, <1>9 DEF BusyInv
<1> QED
  BY <1>4, <1>10, <1>11, <1>12, <1>13 DEF BusInv

-----------------------------------------------------------------------------
LEMMA AcceptInv == ASSUME BusInv, NEW m \in Master, Accept(m) PROVE BusInv'
<1>1. /\ TypeOK /\ ~active /\ active' /\ grant_idx' = m /\ rr_ptr' = rr_ptr
      /\ rpend = NoReq /\ rresp = NoResp /\ m \in Asks
  BY DEF BusInv, BusyInv, Accept, RrAccept, First
<1>2. port[m].st = "req" /\ port[m] \in PortState
      /\ Waiting(port[m].rq) \in PortState
  BY <1>1, PortKinds DEF Asks, TypeOK
<1>3. /\ port' \in [Master -> PortState]
      /\ port'[m] = Waiting(port[m].rq)
      /\ \A k \in Master \ {m} : port[k].st # "idle" => port'[k] = port[k]
      /\ \A k \in Master \ {m} : port[k].st = "idle" => port'[k].st # "wait"
  BY <1>1, <1>2, PortsEdgeMoves DEF Accept
<1>4. /\ rpend' = port[m].rq /\ rpend' \in Request /\ rpend' # NoReq
      /\ rresp' = NoResp /\ ram' = ram
  BY <1>1, <1>2, PortKinds DEF Accept, RamAccept, RamConsumed
<1>5. \A k \in Master : port[k].st # "wait"
  BY <1>1 DEF BusInv, ResponseIsForItsPort
<1>6. \A k \in Master :
        bypass'[k] = IF k = m THEN 0
                     ELSE IF k \in Asks THEN bypass[k] + 1 ELSE bypass[k]
  <2> SUFFICES ASSUME NEW k \in Master, k \in Asks, k # m
               PROVE  bypass'[k] = bypass[k] + 1
    BY DEF Accept
  <2>1. bypass[k] + Behind(rr_ptr, k) <= N - 1
    BY <1>1 DEF BusInv, TurnInv, Asks, Head
  <2>2. Behind(rr_ptr, k) \in 0 .. (N - 1) /\ bypass[k] \in 0 .. N
    BY <1>1, RingStep DEF TypeOK, RrTypeOK
  <2>3. Counted(bypass[k]) = bypass[k] + 1
    BY <2>1, <2>2, PortsAssumption DEF Counted
  <2> QED
    BY <2>3 DEF Accept
<1>7. TypeOK'
  <2>1. bypass' \in [Master -> 0 .. N]
    BY <1>1, PortsAssumption DEF Accept, TypeOK, Counted
  <2> QED
    BY <1>1, <1>3, <1>4, <2>1 DEF TypeOK, RrTypeOK, RamTypeOK
<1>8. ResponseIsForItsPort'
  <2>1. \A k \in Master : port'[k].st = "wait" <=> k = m
    BY <1>2, <1>3, <1>5, PortKinds
  <2> QED
    BY <1>1, <1>2, <1>3, <1>4, <2>1, PortKinds DEF ResponseIsForItsPort
<1>9. WriteDoneWhenAnswered' /\ BusyInv'
  BY <1>1, <1>4 DEF WriteDoneWhenAnswered, BusyInv
<1>10. TurnInv'
  <2> SUFFICES ASSUME NEW k \in Master
               PROVE  /\ port'[k].st = "req" => bypass'[k] + Behind(Head', k) <= N - 1
                      /\ port'[k].st # "req" => bypass'[k] = 0
    BY DEF TurnInv
  <2>1. Head = rr_ptr /\ Head' = Succ(m) /\ rr_ptr \in Master /\ Succ(m) \in Master
    BY <1>1, RingStep DEF Head, TypeOK, RrTypeOK, Succ
  <2>2. bypass[k] \in 0 .. N
    BY <1>1 DEF TypeOK
  <2>3. CASE k = m
    BY <1>2, <1>3, <1>6, <2>3, PortKinds
  <2>4. CASE k # m /\ k \in Asks
    <3>1. bypass[k] + Behind(rr_ptr, k) <= N - 1 /\ port'[k] = port[k]
      BY <1>3, <2>1, <2>4 DEF BusInv, TurnInv, Asks
    <3>2. Behind(rr_ptr, m) <= Behind(rr_ptr, k)
      BY <2>4 DEF Accept, RrAccept, First
    <3>3. /\ Behind(Succ(m), k) <= Behind(rr_ptr, k) - 1
          /\ Behind(Succ(m), k) \in 0 .. (N - 1)
          /\ Behind(rr_ptr, k) \in 0 .. (N - 1)
      BY <2>1, <2>4, <3>2, RingStep
    <3> QED
      BY <1>6, <2>1, <2>2, <2>4, <3>1, <3>3 DEF Asks
  <2>5. CASE k # m /\ k \notin Asks
    <3>1. bypass'[k] = 0
      BY <1>6, <2>5 DEF BusInv, TurnInv, Asks
    <3>2. Behind(Succ(m), k) \in 0 .. (N - 1)
      BY <2>1, RingStep
    <3> QED
      BY <2>1, <3>1, <3>2
  <2> QED
    BY <2>3, <2>4, <2>5
<1> QED
  BY <1>7, <1>8, <1>9, <1>10 DEF BusInv

LEMMA DeliverInv == BusInv /\ Deliver => BusInv'
<1> SUFFICES ASSUME BusInv, Deliver PROVE BusInv'
  OBVIOUS
<1>1. /\ TypeOK /\ active /\ active' = FALSE /\ grant_idx' = grant_idx
      /\ rr_ptr' = Succ(grant_idx) /\ grant_idx \in Master /\ bypass' = bypass
      /\ rpend = NoReq /\ rresp # NoResp
  BY DEF BusInv, BusyInv, Deliver, RrRelease, TypeOK, RrTypeOK
<1>2. rpend' = NoReq /\ rresp' = NoResp /\ ram' = ram
  BY <1>1 DEF Deliver, RamHold, RamConsumed
<1>3. PICK v \in Fresh : PortsEdge(Free, grant_idx, v)
  BY DEF Deliver
<1>4. v \in PortState /\ v.st # "wait"
  BY PortKinds
<1>5. /\ port' \in [Master -> PortState]
      /\ port'[grant_idx] = v
      /\ \A k \in Master \ {grant_idx} : port[k].st # "idle" => port'[k] = port[k]
      /\ \A k \in Master \ {grant_idx} : port[k].st = "idle" => port'[k].st # "wait"
  BY <1>1, <1>3, <1>4, PortsEdgeMoves
<1>6. \A k \in Master : port[k].st = "wait" <=> k = grant_idx
  BY <1>1 DEF BusInv, ResponseIsForItsPort
<1>7. TypeOK'
  BY <1>1, <1>2, <1>5, RingStep DEF TypeOK, RrTypeOK, RamTypeOK
<1>8. ResponseIsForItsPort'
  BY <1>1, <1>2, <1>4, <1>5, <1>6 DEF ResponseIsForItsPort
<1>9. WriteDoneWhenAnswered' /\ BusyInv'
  BY <1>1, <1>2 DEF WriteDoneWhenAnswered, BusyInv
<1>10. TurnInv'
  <2> SUFFICES ASSUME NEW k \in Master
               PROVE  /\ port'[k].st = "req" => bypass'[k] + Behind(Head', k) <= N - 1
                      /\ port'[k].st # "req" => bypass'[k] = 0
    BY DEF TurnInv
  <2>1. Head = Succ(grant_idx) /\ Head' = Succ(grant_idx) /\ Head \in Master
    BY <1>1, RingStep DEF Head
  <2>2. Behind(Head, k) \in 0 .. (N - 1)
    BY <2>1, RingStep
  <2>3. /\ port[k].st = "req" => bypass[k] + Behind(Head, k) <= N - 1
        /\ port[k].st # "req" => bypass[k] = 0
    BY DEF BusInv, TurnInv
  <2>4. port[k].st = "req" => k # grant_idx
    BY <1>6
  <2> QED
    BY <1>1, <1>5, <2>1, <2>2, <2>3, <2>4
<1> QED
  BY <1>7, <1>8, <1>9, <1>10 DEF BusInv

-----------------------------------------------------------------------------
LEMMA StutterInv == BusInv /\ UNCHANGED vars => BusInv'
BY DEF BusInv, TypeOK, RrTypeOK, RamTypeOK, ResponseIsForItsPort, AnswerTo,
       WriteDoneWhenAnswered, BusyInv, TurnInv, Head, vars

\* The bus invariant holds in every reachable state, for every number of ports.
THEOREM BusInvariant == Spec => []BusInv
<1>1. BusInv /\ [Next]_vars => BusInv'
  BY QuietInv, PerformInv, AcceptInv, DeliverInv, StutterInv DEF Next
<1> QED
  BY InitInv, <1>1, PTL DEF Spec

\* Arbiter, RAM, ports and counters keep their types, for every number of ports.
THEOREM BusTypes == Spec => []TypeOK
<1>1. BusInv => TypeOK
  BY DEF BusInv
<1> QED
  BY <1>1, BusInvariant, PTL

\* A response reaches the port whose request the memory performed, and no other.
THEOREM ResponsesRouted == Spec => []ResponseIsForItsPort
<1>1. BusInv => ResponseIsForItsPort
  BY DEF BusInv
<1> QED
  BY <1>1, BusInvariant, PTL

\* A write is in RAM when it is acknowledged.
THEOREM WritesDone == Spec => []WriteDoneWhenAnswered
<1>1. BusInv => WriteDoneWhenAnswered
  BY DEF BusInv
<1> QED
  BY <1>1, BusInvariant, PTL

\* With N ports, a port that asks is passed over at most N - 1 times.
THEOREM NobodyPassedOver == Spec => []BypassBound
<1>1. BusInv => BypassBound
  <2> SUFFICES ASSUME BusInv, NEW m \in Master, port[m].st = "req"
               PROVE  bypass[m] <= N - 1
    BY DEF BypassBound
  <2>1. Head \in Master /\ bypass[m] \in 0 .. N
    BY RingStep DEF BusInv, TypeOK, RrTypeOK, Head
  <2>2. Behind(Head, m) \in 0 .. (N - 1)
    BY <2>1, RingStep
  <2>3. bypass[m] + Behind(Head, m) <= N - 1
    BY DEF BusInv, TurnInv
  <2> QED
    BY <2>1, <2>2, <2>3
<1> QED
  BY <1>1, BusInvariant, PTL
=============================================================================

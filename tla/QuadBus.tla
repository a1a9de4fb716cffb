-------------------------------- MODULE QuadBus ------------------------------
(***************************************************************************)
(* The shared memory of the quad-core tops: N core ports, the round-robin  *)
(* arbiter and the RAM.  A core port is the memory side of a core's        *)
(* cache_arbiter: it raises a request at any time, holds it until it is    *)
(* accepted, waits for the response with resp_ready high, and may raise    *)
(* its next request on the very next edge (a fill after a write-back).     *)
(***************************************************************************)
EXTENDS MemArbiter, SimpleRam

CONSTANT PortRequests   \* the requests the cores make

ASSUME RequestsAssumption == PortRequests \subseteq Request

VARIABLES
  port,     \* what each core port shows
  bypass    \* history: requests of others accepted while a port waits its turn,
            \* counted up to N

vars == <<active, grant_idx, rr_ptr, ram, rpend, rresp, port, bypass>>

Idle       == [st |-> "idle", rq |-> NoReq]
Asking(rq) == [st |-> "req", rq |-> rq]
Waiting(rq) == [st |-> "wait", rq |-> rq]

\* A port with nothing outstanding stays idle or raises a request.
Fresh     == {Idle} \union {Asking(rq) : rq \in PortRequests}
PortState == Fresh \union {Waiting(rq) : rq \in PortRequests}

Asks    == {m \in Master : port[m].st = "req"}
Free    == {m \in Master : port[m].st = "idle"}

TypeOK ==
  /\ RrTypeOK /\ RamTypeOK
  /\ port \in [Master -> PortState]
  /\ bypass \in [Master -> 0 .. N]

Init ==
  /\ RrInit /\ RamInit
  /\ port = [m \in Master |-> Idle]
  /\ bypass = [m \in Master |-> 0]

\* One edge of the core ports: those in S decide afresh, port m takes the
\* value v, the others hold what they show.
PortsEdge(S, m, v) ==
  \E new \in [S -> Fresh] :
    port' = [k \in Master |-> IF k = m THEN v
                              ELSE IF k \in S THEN new[k] ELSE port[k]]

\* The count of bypassing requests stops at N: one more than a port should see.
Counted(n) == IF n < N THEN n + 1 ELSE N

\* The memory accepts the request of the port the arbiter selects.
Accept(m) ==
  /\ RrAccept(m, Asks)
  /\ RamAccept(port[m].rq, FALSE)
  /\ PortsEdge(Free, m, Waiting(port[m].rq))
  /\ bypass' = [k \in Master |->
                  IF k = m THEN 0
                  ELSE IF k \in Asks THEN Counted(bypass[k]) ELSE bypass[k]]

\* Nobody asks.
Quiet ==
  /\ ~active
  /\ Asks = {}
  /\ RamHold(NoReq, FALSE)
  /\ \E new \in [Free -> Fresh] :
       port' = [k \in Master |-> IF k \in Free THEN new[k] ELSE port[k]]
  /\ UNCHANGED <<rrVars, bypass>>

\* The RAM performs the accepted request; the response is not there yet.
Perform ==
  /\ active
  /\ RamComplete
  /\ \E new \in [Free -> Fresh] :
       port' = [k \in Master |-> IF k \in Free THEN new[k] ELSE port[k]]
  /\ UNCHANGED <<rrVars, bypass>>

\* The response reaches the port that was granted; the next edge may show that
\* port's next request.
Deliver ==
  /\ rresp # NoResp
  /\ RrRelease
  /\ RamHold(NoReq, TRUE)
  /\ \E v \in Fresh : PortsEdge(Free, grant_idx, v)
  /\ UNCHANGED bypass

Next == (\E m \in Master : Accept(m)) \/ Quiet \/ Perform \/ Deliver

\* The clock never stops.
Spec     == Init /\ [][Next]_vars
FairSpec == Spec /\ WF_vars(Next)

-----------------------------------------------------------------------------
\* The response of the memory to a request, from the RAM as it now stands.
AnswerTo(rq) ==
  IF ~Mapped(rq.addr) THEN [rdata |-> ZeroLine, err |-> TRUE]
  ELSE IF rq.write THEN [rdata |-> ZeroLine, err |-> FALSE]
  ELSE [rdata |-> ram[rq.addr], err |-> FALSE]

\* The port that waits is the one the arbiter granted, and the memory holds its
\* request or the answer to it: no response is routed to another core, and a
\* read returns the line as it is after every write performed before it
\* (mem_arbiter4_rr.sv, response routing by grant_idx).
ResponseIsForItsPort ==
  /\ \A m \in Master : port[m].st = "wait" <=> active /\ m = grant_idx
  /\ rpend # NoReq => active /\ rpend = port[grant_idx].rq
  /\ rresp # NoResp => active /\ rresp = AnswerTo(port[grant_idx].rq)

\* A core that asks sees at most N - 1 requests of the others go first
\* (rr_ptr moves past the master just served).
BypassBound == \A m \in Master : port[m].st = "req" => bypass[m] <= N - 1

\* A line a core has just written is in RAM when its write is acknowledged: the
\* write-back is complete before the port can raise the fill after it.
WriteDoneWhenAnswered ==
  rresp # NoResp =>
    LET rq == port[grant_idx].rq
    IN rq.write /\ Mapped(rq.addr) =>
         \A l \in rq.wstrb : ram[rq.addr][l] = rq.wdata[l]

\* Every request of every core is answered, whatever the other cores ask.
EveryPortServed ==
  \A m \in Master : port[m].st = "req" ~> port[m].st = "wait"

-----------------------------------------------------------------------------
\* Why the bound holds.  The memory is busy exactly while the arbiter is, and a
\* port that asks has been passed over at most as often as it has moved up.
BusyInv ==
  /\ active <=> (rpend # NoReq \/ rresp # NoResp)
  /\ rpend = NoReq \/ rresp = NoResp

Head == IF active THEN Succ(grant_idx) ELSE rr_ptr

TurnInv ==
  \A m \in Master :
    /\ port[m].st = "req" => bypass[m] + Behind(Head, m) <= N - 1
    /\ port[m].st # "req" => bypass[m] = 0

BusInv ==
  /\ TypeOK
  /\ ResponseIsForItsPort
  /\ WriteDoneWhenAnswered
  /\ BusyInv
  /\ TurnInv
=============================================================================

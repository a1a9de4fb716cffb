-------------------------------- MODULE Icache -------------------------------
(***************************************************************************)
(* rtl/cache/icache.sv: the direct-mapped, blocking instruction cache.     *)
(* One action per arm of its state machine.  The invalidate pulse of       *)
(* fence.i clears every valid bit on its edge, but the arm that runs on    *)
(* the same edge still sees the old bits, and a fill's new valid bit is    *)
(* assigned after the clearing and wins.                                   *)
(***************************************************************************)
EXTENDS LineTypes

VARIABLES
  istate,   \* state
  ilines,   \* valid_mem, tag_mem, data_mem by index
  ipend,    \* pend_valid, pend_addr
  iresp     \* resp_v, resp_d, resp_e

icVars == <<istate, ilines, ipend, iresp>>

IcStates == {"S_IDLE", "S_HITRESP", "S_MISS_REQ", "S_MISS_WAIT"}

IcTypeOK ==
  /\ istate \in IcStates
  /\ ilines \in [Index -> [valid : BOOLEAN, tag : Tag, data : Line]]
  /\ ipend \in Request \union {NoReq}
  /\ iresp \in Response \union {NoResp}

InvalidLine == [valid |-> FALSE, tag |-> 0, data |-> ZeroLine]

IcInit ==
  /\ istate = "S_IDLE"
  /\ ilines = [i \in Index |-> InvalidLine]
  /\ ipend = NoReq
  /\ iresp = NoResp

IcReady == istate = "S_IDLE"

IcHitLine(a) == ilines[Idx(a)].valid /\ ilines[Idx(a)].tag = TagOf(a)

IcMemReq       == IF istate = "S_MISS_REQ" THEN ipend ELSE NoReq
IcMemRespReady == istate = "S_MISS_WAIT"

\* Mutant: the pulse is lost while a miss is under way.
KeptDuringMiss(invalidate) ==
  IF invalidate /\ istate = "S_IDLE" THEN [i \in Index |-> InvalidLine] ELSE ilines

\* The lines after the invalidate pulse.  The tag and data of an invalid line
\* are never looked at: the model forgets them.
Kept(invalidate) == IF invalidate THEN [i \in Index |-> InvalidLine] ELSE ilines

IcHit(rq, invalidate) ==
  /\ istate = "S_IDLE" /\ rq # NoReq
  /\ IcHitLine(rq.addr)
  /\ iresp' = [rdata |-> ilines[Idx(rq.addr)].data, err |-> FALSE]
  /\ ipend' = rq
  /\ istate' = "S_HITRESP"
  /\ ilines' = Kept(invalidate)

IcMiss(rq, invalidate) ==
  /\ istate = "S_IDLE" /\ rq # NoReq
  /\ ~IcHitLine(rq.addr)
  /\ ipend' = rq
  /\ istate' = "S_MISS_REQ"
  /\ ilines' = Kept(invalidate)
  /\ UNCHANGED iresp

IcRespond(respReady, invalidate) ==
  /\ istate = "S_HITRESP"
  /\ iresp = NoResp \/ respReady
  /\ iresp' = NoResp
  /\ ipend' = NoReq
  /\ istate' = "S_IDLE"
  /\ ilines' = Kept(invalidate)

IcReqAccepted(memReady, invalidate) ==
  /\ istate = "S_MISS_REQ" /\ memReady
  /\ istate' = "S_MISS_WAIT"
  /\ ilines' = Kept(invalidate)
  /\ UNCHANGED <<ipend, iresp>>

IcFill(m, invalidate) ==
  /\ istate = "S_MISS_WAIT" /\ m # NoResp
  /\ iresp' = m
  /\ ilines' = IF m.err THEN Kept(invalidate)
               ELSE [Kept(invalidate) EXCEPT ![Idx(ipend.addr)] =
                       [valid |-> TRUE, tag |-> TagOf(ipend.addr), data |-> m.rdata]]
  /\ istate' = "S_HITRESP"
  /\ UNCHANGED ipend

IcWait(rq, respReady, invalidate, memReady, m) ==
  /\ \/ istate = "S_IDLE" /\ rq = NoReq
     \/ istate = "S_HITRESP" /\ iresp # NoResp /\ ~respReady
     \/ istate = "S_MISS_REQ" /\ ~memReady
     \/ istate = "S_MISS_WAIT" /\ m = NoResp
  /\ ilines' = Kept(invalidate)
  /\ UNCHANGED <<istate, ipend, iresp>>

\* One clock edge.
IcEdge(rq, respReady, invalidate, memReady, m) ==
  \/ IcHit(rq, invalidate)
  \/ IcMiss(rq, invalidate)
  \/ IcRespond(respReady, invalidate)
  \/ IcReqAccepted(memReady, invalidate)
  \/ IcFill(m, invalidate)
  \/ IcWait(rq, respReady, invalidate, memReady, m)
=============================================================================

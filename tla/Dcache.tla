-------------------------------- MODULE Dcache -------------------------------
(***************************************************************************)
(* rtl/cache/dcache.sv: the direct-mapped, blocking, write-back and        *)
(* write-allocate data cache.  One action per arm of its state machine;    *)
(* an action's parameters are the wires the arm looks at.  invalidate_all  *)
(* is tied low in soc_top and has no action here.                          *)
(***************************************************************************)
EXTENDS LineTypes

VARIABLES
  dstate,   \* state
  lines,    \* valid_mem, dirty_mem, tag_mem, data_mem by index
  dpend,    \* pend_addr, pend_write, pend_wdata, pend_wstrb
  evict,    \* evict_addr, evict_data, from the miss to the write-back
  dresp     \* resp_v, resp_d, resp_e

dcVars == <<dstate, lines, dpend, evict, dresp>>

DcStates == {"S_IDLE", "S_HITRESP", "S_WB_REQ", "S_WB_WAIT", "S_RD_REQ", "S_RD_WAIT"}

CacheLine == [valid : BOOLEAN, dirty : BOOLEAN, tag : Tag, data : Line]

DcTypeOK ==
  /\ dstate \in DcStates
  /\ lines \in [Index -> CacheLine]
  /\ dpend \in Request \union {NoReq}
  /\ evict \in [addr : Nat, data : Line]
  /\ dresp \in Response \union {NoResp}

NoEvict == [addr |-> 0, data |-> ZeroLine]

DcInit ==
  /\ dstate = "S_IDLE"
  /\ lines = [i \in Index |->
                [valid |-> FALSE, dirty |-> FALSE, tag |-> 0, data |-> ZeroLine]]
  /\ dpend = NoReq
  /\ evict = NoEvict
  /\ dresp = NoResp

DcReady == dstate = "S_IDLE"

Hit(a) == lines[Idx(a)].valid /\ lines[Idx(a)].tag = TagOf(a)

\* The line after a request is applied to it: a store merges its bytes.
Merged(rq, old) == IF rq.write THEN apply_wstrb(old, rq.wdata, rq.wstrb) ELSE old

\* The memory port, driven from the state.
DcMemReq ==
  IF dstate = "S_WB_REQ" THEN WriteReq(evict.addr, evict.data)
  ELSE IF dstate = "S_RD_REQ" THEN ReadReq(dpend.addr)
  ELSE NoReq
DcMemRespReady == dstate \in {"S_WB_WAIT", "S_RD_WAIT"}

\* Mutant: a store that hits does not mark the line dirty.
DcHitStaysClean(rq) ==
  /\ dstate = "S_IDLE" /\ rq # NoReq
  /\ Hit(rq.addr)
  /\ LET i == Idx(rq.addr)
         d == Merged(rq, lines[i].data)
     IN /\ lines' = [lines EXCEPT ![i].data = d]
        /\ dresp' = [rdata |-> d, err |-> FALSE]
  /\ dpend' = rq
  /\ dstate' = "S_HITRESP"
  /\ UNCHANGED evict

DcHit(rq) ==
  /\ dstate = "S_IDLE" /\ rq # NoReq
  /\ Hit(rq.addr)
  /\ LET i == Idx(rq.addr)
         d == Merged(rq, lines[i].data)
     IN /\ lines' = [lines EXCEPT ![i] =
                       [@ EXCEPT !.data = d, !.dirty = lines[i].dirty \/ rq.write]]
        /\ dresp' = [rdata |-> d, err |-> FALSE]
  /\ dpend' = rq
  /\ dstate' = "S_HITRESP"
  /\ UNCHANGED evict

\* Mutant: the victim is written back to the address of the request.
DcMissDirtyWrongAddr(rq) ==
  /\ dstate = "S_IDLE" /\ rq # NoReq
  /\ ~Hit(rq.addr)
  /\ LET i == Idx(rq.addr)
     IN /\ lines[i].valid /\ lines[i].dirty
        /\ evict' = [addr |-> rq.addr, data |-> lines[i].data]
  /\ dpend' = rq
  /\ dstate' = "S_WB_REQ"
  /\ UNCHANGED <<lines, dresp>>

DcMissDirty(rq) ==
  /\ dstate = "S_IDLE" /\ rq # NoReq
  /\ ~Hit(rq.addr)
  /\ LET i == Idx(rq.addr)
     IN /\ lines[i].valid /\ lines[i].dirty
        /\ evict' = [addr |-> LineAddr(lines[i].tag, i), data |-> lines[i].data]
  /\ dpend' = rq
  /\ dstate' = "S_WB_REQ"
  /\ UNCHANGED <<lines, dresp>>

\* Mutant: a dirty victim can be dropped.
DcMissDropsVictim(rq) ==
  /\ dstate = "S_IDLE" /\ rq # NoReq
  /\ ~Hit(rq.addr)
  /\ dpend' = rq
  /\ dstate' = "S_RD_REQ"
  /\ UNCHANGED <<lines, evict, dresp>>

DcMissClean(rq) ==
  /\ dstate = "S_IDLE" /\ rq # NoReq
  /\ ~Hit(rq.addr)
  /\ ~(lines[Idx(rq.addr)].valid /\ lines[Idx(rq.addr)].dirty)
  /\ dpend' = rq
  /\ dstate' = "S_RD_REQ"
  /\ UNCHANGED <<lines, evict, dresp>>

DcRespond(respReady) ==
  /\ dstate = "S_HITRESP"
  /\ dresp = NoResp \/ respReady
  /\ dresp' = NoResp
  /\ dpend' = NoReq
  /\ dstate' = "S_IDLE"
  /\ UNCHANGED <<lines, evict>>

DcReqAccepted(memReady) ==
  /\ memReady
  /\ \/ dstate = "S_WB_REQ" /\ dstate' = "S_WB_WAIT"
     \/ dstate = "S_RD_REQ" /\ dstate' = "S_RD_WAIT"
  /\ UNCHANGED <<lines, dpend, evict, dresp>>

\* The write-back is acknowledged.  Its error bit goes to resp_e, which the
\* fill that follows overwrites before resp_v is ever raised.  evict keeps its
\* value in the code and is written again before it is next read: the model
\* forgets it here.
DcWbDone(m) ==
  /\ dstate = "S_WB_WAIT" /\ m # NoResp
  /\ lines' = [lines EXCEPT ![Idx(dpend.addr)].dirty = FALSE]
  /\ dstate' = "S_RD_REQ"
  /\ evict' = NoEvict
  /\ UNCHANGED <<dpend, dresp>>

\* Mutant: the store that missed is not merged into the line it fetched.
DcFillForgetsStore(m) ==
  /\ dstate = "S_RD_WAIT" /\ m # NoResp
  /\ ~m.err
  /\ lines' = [lines EXCEPT ![Idx(dpend.addr)] =
                 [valid |-> TRUE, dirty |-> dpend.write,
                  tag |-> TagOf(dpend.addr), data |-> m.rdata]]
  /\ dresp' = [rdata |-> Merged(dpend, m.rdata), err |-> FALSE]
  /\ dstate' = "S_HITRESP"
  /\ UNCHANGED <<dpend, evict>>

DcFill(m) ==
  /\ dstate = "S_RD_WAIT" /\ m # NoResp
  /\ ~m.err
  /\ LET d == Merged(dpend, m.rdata)
     IN /\ lines' = [lines EXCEPT ![Idx(dpend.addr)] =
                       [valid |-> TRUE, dirty |-> dpend.write,
                        tag |-> TagOf(dpend.addr), data |-> d]]
        /\ dresp' = [rdata |-> d, err |-> FALSE]
  /\ dstate' = "S_HITRESP"
  /\ UNCHANGED <<dpend, evict>>

\* Mutant: a faulting fill installs its line.
DcFillErrorInstalls(m) ==
  /\ dstate = "S_RD_WAIT" /\ m # NoResp
  /\ m.err
  /\ lines' = [lines EXCEPT ![Idx(dpend.addr)] =
                 [valid |-> TRUE, dirty |-> FALSE,
                  tag |-> TagOf(dpend.addr), data |-> m.rdata]]
  /\ dresp' = m
  /\ dstate' = "S_HITRESP"
  /\ UNCHANGED <<dpend, evict>>

DcFillError(m) ==
  /\ dstate = "S_RD_WAIT" /\ m # NoResp
  /\ m.err
  /\ dresp' = m
  /\ dstate' = "S_HITRESP"
  /\ UNCHANGED <<lines, dpend, evict>>

DcWait(rq, respReady, memReady, m) ==
  /\ \/ dstate = "S_IDLE" /\ rq = NoReq
     \/ dstate = "S_HITRESP" /\ dresp # NoResp /\ ~respReady
     \/ dstate \in {"S_WB_REQ", "S_RD_REQ"} /\ ~memReady
     \/ dstate \in {"S_WB_WAIT", "S_RD_WAIT"} /\ m = NoResp
  /\ UNCHANGED dcVars

\* One clock edge: rq and respReady come from the core, memReady and m from
\* the memory port.
DcEdge(rq, respReady, memReady, m) ==
  \/ DcHit(rq)
  \/ DcMissDirty(rq)
  \/ DcMissClean(rq)
  \/ DcRespond(respReady)
  \/ DcReqAccepted(memReady)
  \/ DcWbDone(m)
  \/ DcFill(m)
  \/ DcFillError(m)
  \/ DcWait(rq, respReady, memReady, m)
=============================================================================

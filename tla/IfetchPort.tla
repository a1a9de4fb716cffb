------------------------------ MODULE IfetchPort ------------------------------
(***************************************************************************)
(* The IF1 stage of rv64_core_7stage as the I-cache's CPU port sees it: a  *)
(* one-line fetch buffer, and at most one line request in flight.  The pc  *)
(* is a line address; where the program goes is not modelled, so the pc    *)
(* may move to any line on any edge (branch, prediction or trap).          *)
(***************************************************************************)
EXTENDS LineTypes

VARIABLES
  pc,       \* pc_line_if1
  inflight, \* ifetch_inflight and ifetch_addr
  ibuf      \* ibuf_valid, ibuf_addr, ibuf_line

\* The empty latch is no line address.
ASSUME FetchAssumption == NoReq \notin Addr

ifVars == <<pc, inflight, ibuf>>

NoLine == [valid |-> FALSE, addr |-> 0, line |-> ZeroLine]

IfTypeOK ==
  /\ pc \in Addr
  /\ inflight \in Addr \union {NoReq}
  /\ ibuf \in [valid : BOOLEAN, addr : Addr, line : Line]

IfInit ==
  /\ pc = 0
  /\ inflight = NoReq
  /\ ibuf = NoLine

instr_avail == ibuf.valid /\ ibuf.addr = pc

\* imem_req_valid with its address, and imem_resp_ready.
ImemReq       == IF ~instr_avail /\ inflight = NoReq THEN ReadReq(pc) ELSE NoReq
ImemRespReady == inflight # NoReq

\* The line buffer takes a response; an error empties it.
Taken(r) ==
  IF r.err THEN NoLine
  ELSE [valid |-> TRUE, addr |-> inflight, line |-> r.rdata]

\* Mutant: fence.i also forgets the fetch that is under way.
IfEdgeForgetsFetch(fencei, reqReady, r) ==
  /\ pc' \in Addr
  /\ inflight' = IF fencei THEN NoReq
                 ELSE IF ImemReq # NoReq /\ reqReady THEN pc
                 ELSE IF ImemRespReady /\ r # NoResp THEN NoReq
                 ELSE inflight
  /\ ibuf' = IF fencei THEN NoLine
             ELSE IF ImemRespReady /\ r # NoResp THEN Taken(r)
             ELSE ibuf

\* One clock edge: reqReady and r are what the I-cache shows.  A fence.i that
\* commits on the same edge wins over the response.
IfEdge(fencei, reqReady, r) ==
  /\ pc' \in Addr
  /\ inflight' = IF ImemReq # NoReq /\ reqReady THEN pc
                 ELSE IF ImemRespReady /\ r # NoResp THEN NoReq
                 ELSE inflight
  /\ ibuf' = IF fencei THEN NoLine
             ELSE IF ImemRespReady /\ r # NoResp THEN Taken(r)
             ELSE ibuf
=============================================================================

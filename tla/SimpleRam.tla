------------------------------ MODULE SimpleRam ------------------------------
(***************************************************************************)
(* rtl/mem/simple_ram.sv: a line memory with one request latch and one     *)
(* response register.  A request accepted on one clock edge is performed   *)
(* and answered on the next one at which the response register is free.    *)
(* The contents before the first write are whatever was loaded.            *)
(***************************************************************************)
EXTENDS LineTypes

VARIABLES
  ram,      \* mem_array
  rpend,    \* pend, pend_addr, pend_write, pend_wdata, pend_wstrb
  rresp     \* resp_v, resp_data, resp_err

ramVars == <<ram, rpend, rresp>>

MappedAddr == 0 .. (MEM - 1)

RamTypeOK ==
  /\ ram \in [MappedAddr -> Line]
  /\ rpend \in Request \union {NoReq}
  /\ rresp \in Response \union {NoResp}

RamInit ==
  /\ ram \in [MappedAddr -> Line]
  /\ rpend = NoReq
  /\ rresp = NoResp

RamReady == rpend = NoReq

\* What the latched request returns: an address past the end faults, a write
\* answers with zeros.
RamReply ==
  IF ~Mapped(rpend.addr) THEN [rdata |-> ZeroLine, err |-> TRUE]
  ELSE IF rpend.write THEN [rdata |-> ZeroLine, err |-> FALSE]
  ELSE [rdata |-> ram[rpend.addr], err |-> FALSE]

\* The response register is emptied when the requester takes it.
RamConsumed(respReady) == IF respReady THEN NoResp ELSE rresp

RamAccept(rq, respReady) ==
  /\ rq # NoReq
  /\ RamReady
  /\ rpend' = rq
  /\ rresp' = RamConsumed(respReady)
  /\ UNCHANGED ram

\* Mutant: the last line of the RAM cannot be written.
RamCompleteOffByOne ==
  /\ rpend # NoReq
  /\ rresp = NoResp
  /\ ram' = IF rpend.write /\ Mapped(rpend.addr + 1)
              THEN [ram EXCEPT ![rpend.addr] =
                      apply_wstrb(@, rpend.wdata, rpend.wstrb)]
              ELSE ram
  /\ rresp' = RamReply
  /\ rpend' = NoReq

RamComplete ==
  /\ rpend # NoReq
  /\ rresp = NoResp
  /\ ram' = IF rpend.write /\ Mapped(rpend.addr)
              THEN [ram EXCEPT ![rpend.addr] =
                      apply_wstrb(@, rpend.wdata, rpend.wstrb)]
              ELSE ram
  /\ rresp' = RamReply
  /\ rpend' = NoReq

RamHold(rq, respReady) ==
  /\ rq = NoReq \/ ~RamReady
  /\ rpend = NoReq \/ rresp # NoResp
  /\ rresp' = RamConsumed(respReady)
  /\ UNCHANGED <<ram, rpend>>

\* One clock edge, with the request and the response-ready the RAM sees.
RamEdge(rq, respReady) ==
  \/ RamAccept(rq, respReady)
  \/ RamComplete
  \/ RamHold(rq, respReady)
=============================================================================

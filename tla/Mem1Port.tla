------------------------------ MODULE Mem1Port -------------------------------
(***************************************************************************)
(* The MEM1 stage of rv64_core_7stage as the D-cache's CPU port sees it:   *)
(* a memory instruction enters MEM1, holds its request until the cache     *)
(* takes it (mem1_req_sent), waits for the line (mem1_resp_done), and      *)
(* leaves on the next edge, when MEM1 is no longer stalled.                *)
(***************************************************************************)
EXTENDS LineTypes

VARIABLE mem1   \* mem1_valid/is_memop, mem1_req_sent, mem1_resp_done and data

Mem1Stages == {"empty", "want", "sent", "done"}

Mem1State ==
  [st : Mem1Stages, rq : Request \union {NoReq}, resp : Response \union {NoResp}]

Mem1Empty == [st |-> "empty", rq |-> NoReq, resp |-> NoResp]

Mem1TypeOK ==
  /\ mem1 \in Mem1State
  /\ (mem1.rq = NoReq) <=> (mem1.st = "empty")
  /\ (mem1.resp = NoResp) <=> (mem1.st # "done")

Mem1Init == mem1 = Mem1Empty

\* The requests of loads and stores.  A load has no strobes.  What a store has
\* on the lanes it does not write (the upper bytes of rs2) is never looked at,
\* and is zero here.
CoreOps ==
  {rq \in Request :
     /\ rq.write <=> rq.wstrb # {}
     /\ \A l \in Lanes \ rq.wstrb : rq.wdata[l] = Zero}

\* dmem_req_valid with its payload, and dmem_resp_ready.
DmemReq       == IF mem1.st = "want" THEN mem1.rq ELSE NoReq
DmemRespReady == mem1.st = "sent"

\* MEM1 is not stalled: it takes the next instruction from EX1, a memory
\* operation op or (NoReq) anything else.
Mem1Shift(op) ==
  /\ mem1.st \in {"empty", "done"}
  /\ mem1' = IF op = NoReq THEN Mem1Empty
             ELSE [st |-> "want", rq |-> op, resp |-> NoResp]

Mem1Sent ==
  /\ mem1.st = "want"
  /\ mem1' = [mem1 EXCEPT !.st = "sent"]

Mem1Done(r) ==
  /\ mem1.st = "sent"
  /\ r # NoResp
  /\ mem1' = [mem1 EXCEPT !.st = "done", !.resp = r]

Mem1Stall(reqReady, r) ==
  /\ \/ mem1.st = "want" /\ ~reqReady
     \/ mem1.st = "sent" /\ r = NoResp
  /\ UNCHANGED mem1

\* One clock edge: reqReady and r are what the cache shows.
Mem1Edge(reqReady, r) ==
  \/ \E op \in CoreOps \union {NoReq} : Mem1Shift(op)
  \/ reqReady /\ Mem1Sent
  \/ Mem1Done(r)
  \/ Mem1Stall(reqReady, r)
=============================================================================

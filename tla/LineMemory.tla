------------------------------ MODULE LineMemory -----------------------------
(***************************************************************************)
(* What the D-cache and the RAM behind it promise the MEM1 stage: one      *)
(* memory of lines, in which every request takes effect at one instant     *)
(* between its acceptance and its response.  A request beyond the RAM      *)
(* changes nothing and answers with an error, unless its address has bits  *)
(* above the tag: then it may also be taken for one without those bits.    *)
(***************************************************************************)
EXTENDS Mem1Port

VARIABLES
  store,   \* the line at every mapped address, as the program sees it
  reply    \* the response of the request that has taken effect

lmVars == <<store, reply, mem1>>

Mapping == 0 .. (MEM - 1)

LMInit ==
  /\ store \in [Mapping -> Line]
  /\ reply = NoResp
  /\ Mem1Init

\* The address that is left without the bits above the tag.  An address that
\* has none, like every address of the RAM, is left as it is.
Truncated(a) == LineAddr(TagOf(a), Idx(a))

\* Address a is read or written, or is beyond the RAM.
PerformAt(a, rq) ==
  LET new == IF rq.write THEN apply_wstrb(store[a], rq.wdata, rq.wstrb) ELSE store[a]
  IN IF Mapped(a)
       THEN /\ store' = [store EXCEPT ![a] = new]
            /\ reply' = [rdata |-> new, err |-> FALSE]
       ELSE /\ reply' = [rdata |-> ZeroLine, err |-> TRUE]
            /\ UNCHANGED store

\* Request rq takes effect.
Perform(rq) == \E a \in {rq.addr, Truncated(rq.addr)} : PerformAt(a, rq)

LMShift(op) == Mem1Shift(op) /\ UNCHANGED <<store, reply>>

LMAccept == Mem1Sent /\ UNCHANGED <<store, reply>>

LMAcceptAndServe == Mem1Sent /\ reply = NoResp /\ Perform(mem1.rq)

LMServe ==
  /\ mem1.st = "sent" /\ reply = NoResp
  /\ Perform(mem1.rq)
  /\ UNCHANGED mem1

LMDeliver ==
  /\ Mem1Done(reply)
  /\ reply' = NoResp
  /\ UNCHANGED store

LMNext ==
  \/ \E op \in CoreOps \union {NoReq} : LMShift(op)
  \/ LMAccept
  \/ LMAcceptAndServe
  \/ LMServe
  \/ LMDeliver

LMSpec == LMInit /\ [][LMNext]_lmVars
=============================================================================

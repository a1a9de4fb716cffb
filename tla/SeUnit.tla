-------------------------------- MODULE SeUnit -------------------------------
(***************************************************************************)
(* rtl/se/se_unit.sv: decrypt two operands, operate, encrypt the result    *)
(* under a fresh counter, with one AES core for the three keystreams.  The *)
(* unit starts the core in every cycle in which it waits and the core is   *)
(* idle (aes_start = !aes_busy): also in the cycle in which the core shows *)
(* done.                                                                   *)
(***************************************************************************)
EXTENDS AesCore

CONSTANTS
  MAXCTR,  \* bound on ctr_counter (the code has 64 bits)
  LAT,     \* stages of the floating-point pipeline
  FpCalc,  \* its result: FpCalc[<<a, b>>]
  NoSe     \* no request

ASSUME SeAssumption ==
  /\ MAXCTR \in Nat \ {0}
  /\ LAT \in Nat \ {0}
  /\ 0 .. MAXCTR \subseteq Ctrs
  /\ FpCalc \in [Payload \X Payload -> Payload]

VARIABLES
  sst,          \* state
  sreq,         \* op_r, cta_r, ctb_r
  spt,          \* pt_a and then res_payload
  ctr_counter,
  ctr_out,
  fpu,          \* vld_sh as the stage the operation is in (0: none), and its y
  sresp         \* resp_v_r, ct_y_r, resp_err_r

seVars == <<aes_key, aes, sst, sreq, spt, ctr_counter, ctr_out, fpu, sresp>>

SeStates == {"S_IDLE", "S_KSA", "S_KSB", "S_FPU", "S_KSO", "S_RESP"}

\* The operations differ in what they compute and in taking the FPU or not.
\* ADD, SUB and the shifts go the way of XOR, AND and OR.
FpOps  == {"SEOP_FADD"}
IntOps == {"SEOP_XOR", "SEOP_AND", "SEOP_OR"}

\* A ciphertext register: the counter of its keystream, and the payload.
Cipher == [ctr : Ctrs, pay : Payload]
NoCt   == [ctr |-> 0, pay |-> {}]
SeReq  == [op : FpOps \union IntOps, a : Cipher, b : Cipher]

ASSUME NoSeAssumption == NoSe \notin SeReq

SeTypeOK ==
  /\ AesTypeOK
  /\ sst \in SeStates
  /\ sreq \in SeReq \union {NoSe}
  /\ spt \in Payload
  /\ ctr_counter \in 1 .. MAXCTR + 1
  /\ ctr_out \in 0 .. MAXCTR
  /\ fpu \in [stage : 0 .. LAT, y : Payload]
  /\ sresp \in [v : BOOLEAN, ct : Cipher, err : BOOLEAN]

SeInit ==
  /\ AesInit
  /\ sst = "S_IDLE"
  /\ sreq = NoSe
  /\ spt = {}
  /\ ctr_counter = 1
  /\ ctr_out = 0
  /\ fpu = [stage |-> 0, y |-> {}]
  /\ sresp = [v |-> FALSE, ct |-> NoCt, err |-> FALSE]

se_int_op(op, a, b) ==
  IF op = "SEOP_AND" THEN a \intersect b
  ELSE IF op = "SEOP_OR" THEN a \union b
  ELSE xor(a, b)

\* What a request should answer: the operation on the two plaintexts.
Plain(ct, k)     == xor(ct.pay, KS[k][ct.ctr])
Operate(op, a, b) == IF op \in FpOps THEN FpCalc[<<a, b>>] ELSE se_int_op(op, a, b)

-----------------------------------------------------------------------------
(* The arms of the state machine.                                          *)

\* A request without a key is answered with an error at once.
SeRefuse(rq) ==
  /\ sst = "S_IDLE" /\ aes_key = NoKey
  /\ sreq' = rq
  /\ sresp' = [v |-> TRUE, ct |-> NoCt, err |-> TRUE]
  /\ sst' = "S_RESP"
  /\ UNCHANGED <<spt, ctr_counter, ctr_out>>

SeAccept(rq) ==
  /\ sst = "S_IDLE" /\ aes_key # NoKey
  /\ sreq' = rq
  /\ sresp' = [sresp EXCEPT !.err = FALSE]
  /\ sst' = "S_KSA"
  /\ UNCHANGED <<spt, ctr_counter, ctr_out>>

SeDecryptA ==
  /\ sst = "S_KSA" /\ aes.done
  /\ spt' = xor(sreq.a.pay, aes.out)
  /\ sst' = "S_KSB"
  /\ UNCHANGED <<sreq, ctr_counter, ctr_out, sresp>>

\* Mutant: the counter is not advanced.
TakeCounterAgain ==
  /\ ctr_out' = ctr_counter
  /\ UNCHANGED ctr_counter

TakeCounter ==
  /\ ctr_out' = ctr_counter
  /\ ctr_counter' = ctr_counter + 1

SeDecryptBInt ==
  /\ sst = "S_KSB" /\ aes.done /\ sreq.op \in IntOps
  /\ spt' = se_int_op(sreq.op, spt, xor(sreq.b.pay, aes.out))
  /\ TakeCounter
  /\ sst' = "S_KSO"
  /\ UNCHANGED <<sreq, sresp>>

\* The plaintext of b is kept in b's payload, which is not looked at again.
SeDecryptBFp ==
  /\ sst = "S_KSB" /\ aes.done /\ sreq.op \in FpOps
  /\ sreq' = [sreq EXCEPT !.b.pay = xor(@, aes.out)]
  /\ sst' = "S_FPU"
  /\ UNCHANGED <<spt, ctr_counter, ctr_out, sresp>>

SeFpuDone ==
  /\ sst = "S_FPU" /\ fpu.stage = LAT
  /\ spt' = fpu.y
  /\ TakeCounter
  /\ sst' = "S_KSO"
  /\ UNCHANGED <<sreq, sresp>>

SeEncrypt ==
  /\ sst = "S_KSO" /\ aes.done
  /\ sresp' = [v |-> TRUE, ct |-> [ctr |-> ctr_out, pay |-> xor(spt, aes.out)],
               err |-> FALSE]
  /\ sst' = "S_RESP"
  /\ UNCHANGED <<sreq, spt, ctr_counter, ctr_out>>

\* Mutant: the error bit goes with the response.
SeRespondClearsError ==
  /\ sst = "S_RESP"
  /\ sresp' = [v |-> FALSE, ct |-> NoCt, err |-> FALSE]
  /\ sst' = "S_IDLE"
  /\ sreq' = NoSe /\ spt' = {} /\ ctr_out' = 0
  /\ UNCHANGED ctr_counter

\* resp_ready is always high.  What the registers keep after the response is
\* written again before it is read: the model forgets it.  resp_err stays.
SeRespond ==
  /\ sst = "S_RESP"
  /\ sresp' = [v |-> FALSE, ct |-> NoCt, err |-> sresp.err]
  /\ sst' = "S_IDLE"
  /\ sreq' = NoSe /\ spt' = {} /\ ctr_out' = 0
  /\ UNCHANGED ctr_counter

SeWait(rq) ==
  /\ \/ sst = "S_IDLE" /\ rq = NoSe
     \/ sst \in {"S_KSA", "S_KSB", "S_KSO"} /\ ~aes.done
     \/ sst = "S_FPU" /\ fpu.stage # LAT
  /\ UNCHANGED <<sst, sreq, spt, ctr_counter, ctr_out, sresp>>

-----------------------------------------------------------------------------
\* Mutant: the core is not started for the output keystream.
aes_start_inputs_only == sst \in {"S_KSA", "S_KSB"} /\ ~aes_busy

\* aes_start and the counter of aes_block_in.
aes_start == sst \in {"S_KSA", "S_KSB", "S_KSO"} /\ ~aes_busy
BlockCtr  == IF sst = "S_KSA" THEN sreq.a.ctr
             ELSE IF sst = "S_KSB" THEN sreq.b.ctr ELSE ctr_out

\* rtl/se/fpu_fp64_unit.sv, the simulation model: started when it is empty.
FpuEdge ==
  fpu' = IF fpu.stage \in 1 .. (LAT - 1) THEN [fpu EXCEPT !.stage = @ + 1]
         ELSE IF sst = "S_FPU" /\ fpu.stage = 0
                THEN [stage |-> 1, y |-> FpCalc[<<spt, sreq.b.pay>>]]
         ELSE [stage |-> 0, y |-> {}]

\* One clock edge: rq is the request EX1 shows (NoSe: none), load the key that
\* is loaded (NoKey: none).
SeEdge(rq, load) ==
  /\ \/ rq # NoSe /\ (SeRefuse(rq) \/ SeAccept(rq))
     \/ SeDecryptA
     \/ SeDecryptBInt
     \/ SeDecryptBFp
     \/ SeFpuDone
     \/ SeEncrypt
     \/ SeRespond
     \/ SeWait(rq)
  /\ AesEdge(aes_start, BlockCtr, load)
  /\ FpuEdge
=============================================================================

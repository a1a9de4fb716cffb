---------------------------- MODULE LongOpsProofs ----------------------------
(***************************************************************************)
(* Proofs about EX1 and its two units, for every program of SE and         *)
(* division instructions, every key change, stall and redirect, and every  *)
(* number of rounds, stages and bits.                                      *)
(***************************************************************************)
EXTENDS LongOps, Arithmetic, TLAPS

-----------------------------------------------------------------------------
(* The inductive invariant.                                                *)

DivFields == {"st", "dividend", "divisor", "a_neg", "b_neg", "hi", "lo", "quot",
              "bit_idx", "q", "r", "done"}
Ex1Fields == {"kind", "rq", "rem", "sgn", "started", "done", "res", "y", "divisor", "err"}

\* Types, except for the numbers in the divider's registers.
ShapeInv ==
  /\ SeTypeOK
  /\ sst # "S_IDLE" => sreq \in SeReq
  /\ DOMAIN div = DivFields
  /\ div.st \in {"IDLE", "RUN", "FINISH"} /\ div.done \in BOOLEAN
  /\ DOMAIN ex1 = Ex1Fields
  /\ ex1.kind \in {"none", "csr", "div", "se"}
  /\ ex1.started \in BOOLEAN /\ ex1.done \in BOOLEAN
  /\ ex1.kind = "se" => ex1.rq \in SeReqs

\* Who works for whom, with what the two facts of the name rest on.
ServeInv ==
  /\ UnitsServeEx1 /\ ErrorBitIsItsOwn
  /\ ex1.done => ex1.started
  /\ ex1.started => ex1.kind \in {"div", "se"}
  /\ sresp.v <=> sst = "S_RESP"
  /\ div.done => div.st = "IDLE"

\* The counter that is in use, from its taking to the response, is above those
\* of all results delivered and below the next.
CounterInv ==
  /\ issued \subseteq 1 .. MAXCTR
  /\ \A c \in issued : c < ctr_counter
  /\ sst \in {"S_KSA", "S_KSB", "S_FPU"} \/ (ex1.kind = "se" /\ ~ex1.started) =>
       ctr_counter <= MAXCTR
  /\ sst = "S_KSO" =>
       /\ ctr_out \in 1 .. MAXCTR /\ ctr_out < ctr_counter
       /\ \A c \in issued : c < ctr_out
  /\ sst = "S_RESP" /\ ~sresp.err =>
       /\ sresp.ct.ctr \in 1 .. MAXCTR /\ sresp.ct.ctr < ctr_counter
       /\ \A c \in issued : c < sresp.ct.ctr

\* The divider has latched the divisor of the instruction: a zero stays one.
DivisorInv ==
  ex1.kind = "div" /\ ex1.started /\ ex1.divisor = 0 =>
    /\ div.st = "RUN" => div.divisor = 0
    /\ div.st = "FINISH" \/ div.done => div.q = AllOnes
    /\ ex1.done /\ ~ex1.rem => ex1.y = AllOnes

LongInv == ShapeInv /\ ServeInv /\ CounterInv /\ DivisorInv

-----------------------------------------------------------------------------
(* Words.                                                                  *)

LEMMA WordFacts ==
  /\ Pow2[W] \in Nat \ {0} /\ Pow2[W - 1] \in Nat \ {0} /\ Pow2[W] = 2 * Pow2[W - 1]
  /\ 0 \in Val /\ AllOnes \in Val /\ MinInt \in Val
  <1>1. W \in 0 .. W /\ W - 1 \in 0 .. W - 1 /\ W - 1 \in 0 .. W /\ (W - 1) + 1 = W /\ W \in Nat
    BY WidthAssumption
  <1>2. Pow2[W] \in Nat \ {0} /\ Pow2[W - 1] \in Nat \ {0}
    BY <1>1, PowersType DEF Pow2
  <1>3. Pow2[W] = 2 * Pow2[W - 1]
    BY <1>1, PowersNext DEF Pow2
  <1> QED BY <1>2, <1>3 DEF Val, AllOnes, MinInt

\* Zero is not negative, and its own negation.
LEMMA ZeroWord == ~IsNeg(0) /\ Neg(0) = 0
  <1> DEFINE m == Pow2[W]
  <1>1. m \in Nat \ {0} /\ Pow2[W - 1] \in Nat \ {0}
    BY WordFacts
  <1> HIDE DEF m
  <1>2. (m - 0) % m = 0
    BY <1>1
  <1> QED BY <1>1, <1>2 DEF m, IsNeg, Neg, MinInt

\* What is taken modulo 2^W is a word, also the negation of a word.
LEMMA ModWord ==
  /\ \A x \in Nat : x % Pow2[W] \in Val
  /\ \A x \in Val : Neg(x) \in Val
  <1> DEFINE m == Pow2[W]
  <1>1. m \in Nat \ {0}
    BY WordFacts
  <1> HIDE DEF m
  <1>2. \A x \in Nat : x % m \in 0 .. m - 1
    BY <1>1
  <1>3. \A x \in 0 .. m - 1 : m - x \in Nat
    BY <1>1
  <1> QED BY <1>2, <1>3 DEF m, Val, Neg

LEMMA BitOfType ==
  ASSUME NEW x \in Val, NEW i \in 0 .. W
  PROVE  BitOf(x, i) \in {0, 1}
  <1> DEFINE p == Pow2[i]
  <1>1. p \in Nat \ {0} /\ x \in Nat
    BY WidthAssumption, WordFacts, PowersType DEF Pow2, Val
  <1> HIDE DEF p
  <1>2. x \div p \in Nat
    BY <1>1, DivMod
  <1>3. \A q \in Nat : q % 2 \in {0, 1}
    OBVIOUS
  <1> QED BY <1>2, <1>3 DEF BitOf, p

\* A word in which one bit is set anew is a word.
LEMMA SetBitType ==
  ASSUME NEW x \in Val, NEW i \in 0 .. W - 1, NEW b \in {0, 1}
  PROVE  SetBit(x, i, b) \in Val
  <1> DEFINE p == Pow2[i]
             e == Pow2[W - (i + 1)]
             m == Pow2[W]
  <1>1. W \in Nat /\ i + 1 \in 0 .. W /\ i \in 0 .. W /\ W - (i + 1) \in 0 .. W
        /\ (i + 1) + (W - (i + 1)) = W
    BY WidthAssumption
  <1>2. p \in Nat \ {0} /\ e \in Nat \ {0} /\ m \in Nat \ {0}
    BY <1>1, PowersType, WordFacts DEF Pow2
  <1>3. m = Pow2[i + 1] * e
    BY <1>1, PowersSum DEF Pow2
  <1>4. Pow2[i + 1] = 2 * p
    BY <1>1, PowersNext DEF Pow2
  <1>5. x \in 0 .. m - 1 /\ x \in Nat
    BY DEF Val
  <1> HIDE DEF p, e, m
  <1> DEFINE q == x \div p
             r == x % p
             h == q \div 2
             t == q % 2
  <1>6. q \in Nat /\ r \in 0 .. p - 1 /\ x = p * q + r
    BY <1>2, <1>5, DivMod
  <1>7. x < p * (2 * e) /\ 2 * e \in Nat \ {0} /\ m = p * (2 * e)
    BY <1>2, <1>3, <1>4, <1>5
  <1>8. q < 2 * e
    <2> DEFINE n == 2 * e
    <2> HIDE DEF n
    <2>1. x < p * n /\ n \in Nat \ {0}
      BY <1>7 DEF n
    <2>2. x \div p < n
      BY <1>2, <1>5, <2>1, DivBelow
    <2> QED BY <2>2 DEF n
  <1> HIDE DEF q, r
  <1>9. h \in Nat /\ t \in {0, 1} /\ q = 2 * h + t
    BY <1>6
  <1> HIDE DEF h, t
  <1>10. 2 * h + b \in 0 .. 2 * e - 1
    BY <1>2, <1>8, <1>9
  <1> DEFINE k == 2 * h + b
  <1>11. x + (b - t) * p = p * k + r
    <2>1. q + (b - t) = k
      BY <1>6, <1>9
    <2>2. p * q + (b - t) * p = p * (q + (b - t))
      BY <1>2, <1>6, <1>9
    <2> QED BY <1>2, <1>6, <1>9, <2>1, <2>2
  <1>12. p * k + r \in 0 .. m - 1
    <2> DEFINE n == 2 * e
    <2>1. k \in 0 .. n - 1 /\ n \in Nat \ {0} /\ m = p * n
      BY <1>7, <1>10
    <2> HIDE DEF k, n
    <2>2. p * k <= p * (n - 1) /\ p * (n - 1) + p = p * n /\ p * k \in Nat
      BY <1>2, <2>1
    <2> QED BY <1>2, <1>6, <2>1, <2>2
  <1>13. BitOf(x, i) = t
    BY DEF BitOf, t, q, p
  <1> QED BY <1>11, <1>12, <1>13 DEF SetBit, Val, m, p

-----------------------------------------------------------------------------
(* One clock edge of the SE unit.                                          *)

SeArms == {"S_KSA", "S_KSB", "S_FPU", "S_KSO"}

\* The arm that the state machine takes.
SeArm(rq) ==
  \/ rq # NoSe /\ (SeRefuse(rq) \/ SeAccept(rq))
  \/ SeDecryptA \/ SeDecryptBInt \/ SeDecryptBFp \/ SeFpuDone \/ SeEncrypt
  \/ SeRespond \/ SeWait(rq)

LEMMA PayloadFacts ==
  /\ {} \in Payload /\ NoCt \in Cipher
  /\ \A a, b \in Payload : xor(a, b) \in Payload
  /\ \A op, a, b : a \in Payload /\ b \in Payload => se_int_op(op, a, b) \in Payload
  <1>1. 0 \in Ctrs
    BY SeAssumption
  <1> QED BY <1>1 DEF Payload, NoCt, Cipher, xor, se_int_op

LEMMA AesTypes ==
  ASSUME AesTypeOK, NEW ctr \in Ctrs, NEW start, NEW load \in Keys \union {NoKey},
         AesEdge(start, ctr, load)
  PROVE  AesTypeOK'
  <1>1. NR \in Nat \ {0} /\ KS \in [Keys -> [Ctrs -> Payload]]
    BY AesAssumption
  <1>2. aes_key' \in Keys \union {NoKey}
    BY DEF AesTypeOK, AesEdge
  <1>3. /\ aes.round \in 0 .. NR /\ aes.ks \in SUBSET Payload /\ aes.out \in Payload
        /\ aes \in [round : 0 .. NR, ks : SUBSET Payload, done : BOOLEAN, out : Payload]
    BY DEF AesTypeOK
  <1>4. CASE start /\ AesStart(ctr, load)
    <2>1. aes_key \in Keys
      BY <1>4 DEF AesStart, AesTypeOK
    <2>2. KS[aes_key] \in [Ctrs -> Payload]
      BY <1>1, <2>1
    <2>3. KS[aes_key][ctr] \in Payload
      BY <2>2
    <2> DEFINE k == IF Rekeyed(load) THEN Payload ELSE {KS[aes_key][ctr]}
    <2>4. k \in SUBSET Payload
      BY <2>3
    <2>5. aes' = [aes EXCEPT !.round = 1, !.done = FALSE, !.ks = k]
      BY <1>4 DEF AesStart
    <2> HIDE DEF k
    <2>6. aes' \in [round : 0 .. NR, ks : SUBSET Payload, done : BOOLEAN, out : Payload]
      <3>1. 1 \in 0 .. NR
        BY <1>1
      <3> QED BY <1>3, <2>4, <2>5, <3>1
    <2> QED BY <1>2, <2>6 DEF AesTypeOK
  <1>5. CASE AesRound(load)
    <2> DEFINE k == IF Rekeyed(load) THEN Payload ELSE aes.ks
    <2>1. k \in SUBSET Payload
      BY <1>3
    <2>2. aes.round \in 1 .. (NR - 1) /\
          aes' = [aes EXCEPT !.round = aes.round + 1, !.done = FALSE, !.ks = k]
      BY <1>5 DEF AesRound
    <2> HIDE DEF k
    <2>3. aes' \in [round : 0 .. NR, ks : SUBSET Payload, done : BOOLEAN, out : Payload]
      <3>1. aes.round + 1 \in 0 .. NR
        BY <1>1, <2>2
      <3> QED BY <1>3, <2>1, <2>2, <3>1
    <2> QED BY <1>2, <2>3 DEF AesTypeOK
  <1>6. CASE AesFinish
    BY <1>1, <1>2, <1>3, <1>6 DEF AesFinish, AesTypeOK, Payload
  <1>7. CASE AesIdle
    BY <1>1, <1>2, <1>3, <1>7 DEF AesIdle, AesTypeOK
  <1> QED BY <1>4, <1>5, <1>6, <1>7 DEF AesEdge

LEMMA SeTypes ==
  ASSUME LongInv, NEW rq \in SeReqs \union {NoSe}, NEW load \in Keys \union {NoKey},
         SeEdge(rq, load)
  PROVE  SeTypeOK' /\ (sst' # "S_IDLE" => sreq' \in SeReq)
  <1>1. /\ SeTypeOK /\ (sst # "S_IDLE" => sreq \in SeReq)
        /\ MAXCTR \in Nat \ {0} /\ LAT \in Nat \ {0} /\ 0 .. MAXCTR \subseteq Ctrs
        /\ SeReqs \subseteq SeReq
    BY SeAssumption, SeReqsAssumption DEF LongInv, ShapeInv
  <1>2. /\ sst \in {"S_KSB", "S_FPU"} => ctr_counter <= MAXCTR
        /\ sst = "S_KSO" => ctr_out \in 0 .. MAXCTR
    BY <1>1 DEF LongInv, CounterInv, SeTypeOK
  <1>3. /\ aes.out \in Payload /\ spt \in Payload /\ fpu.y \in Payload
        /\ sst # "S_IDLE" => /\ sreq.a.pay \in Payload /\ sreq.b.pay \in Payload
                             /\ sreq.a.ctr \in Ctrs /\ sreq.b.ctr \in Ctrs
    BY <1>1 DEF SeTypeOK, AesTypeOK, SeReq, Cipher
  <1>4. AesTypeOK'
    <2>1. CASE aes_start
      <3>1. BlockCtr \in Ctrs
        BY <1>1, <1>2, <1>3, <2>1 DEF aes_start, BlockCtr
      <3> QED BY <1>1, <3>1, AesTypes DEF SeEdge, SeTypeOK
    <2>2. CASE ~aes_start
      <3>1. \A c : AesEdge(aes_start, c, load) <=> AesEdge(aes_start, 0, load)
        BY <2>2 DEF AesEdge
      <3>2. 0 \in Ctrs
        BY <1>1
      <3> QED BY <1>1, <3>1, <3>2, AesTypes DEF SeEdge, SeTypeOK
    <2> QED BY <2>1, <2>2
  <1>5. fpu' \in [stage : 0 .. LAT, y : Payload]
    <2>1. FpuEdge /\ fpu \in [stage : 0 .. LAT, y : Payload]
      BY <1>1 DEF SeEdge, SeTypeOK
    <2>2. sst = "S_FPU" => FpCalc[<<spt, sreq.b.pay>>] \in Payload
      <3>1. sst = "S_FPU" => <<spt, sreq.b.pay>> \in Payload \X Payload
        BY <1>3
      <3> QED BY <3>1, SeAssumption
    <2> QED BY <1>1, <2>1, <2>2, PayloadFacts DEF FpuEdge
  <1>6. /\ [v |-> TRUE, ct |-> NoCt, err |-> TRUE] \in [v : BOOLEAN, ct : Cipher, err : BOOLEAN]
        /\ [sresp EXCEPT !.err = FALSE] \in [v : BOOLEAN, ct : Cipher, err : BOOLEAN]
    <2>1. sresp \in [v : BOOLEAN, ct : Cipher, err : BOOLEAN]
      BY <1>1 DEF SeTypeOK
    <2>2. [sresp EXCEPT !.err = FALSE] \in [v : BOOLEAN, ct : Cipher, err : BOOLEAN]
      BY <2>1
    <2>3. NoCt \in Cipher
      BY PayloadFacts
    <2>4. [v |-> TRUE, ct |-> NoCt, err |-> TRUE] \in [v : BOOLEAN, ct : Cipher, err : BOOLEAN]
      BY <2>3
    <2> QED BY <2>2, <2>4
  <1>7. /\ sst' \in SeStates /\ sreq' \in SeReq \union {NoSe} /\ spt' \in Payload
        /\ ctr_counter' \in 1 .. MAXCTR + 1 /\ ctr_out' \in 0 .. MAXCTR
        /\ sresp' \in [v : BOOLEAN, ct : Cipher, err : BOOLEAN]
        /\ sst' # "S_IDLE" => sreq' \in SeReq
    <2> USE <1>1 DEF SeTypeOK, SeStates
    <2>1. SeArm(rq)
      BY DEF SeEdge, SeArm
    <2>2. CASE rq # NoSe /\ (SeRefuse(rq) \/ SeAccept(rq))
      <3>1. rq \in SeReq /\ sreq' = rq /\ sst' \in SeStates
            /\ UNCHANGED <<spt, ctr_counter, ctr_out>>
        BY <2>2 DEF SeRefuse, SeAccept
      <3>2. \/ sresp' = [v |-> TRUE, ct |-> NoCt, err |-> TRUE]
            \/ sresp' = [sresp EXCEPT !.err = FALSE]
        BY <2>2 DEF SeRefuse, SeAccept
      <3> QED BY <3>1, <3>2, <1>6
    <2>3. CASE SeDecryptA
      BY <1>3, <2>3, PayloadFacts DEF SeDecryptA
    <2>4. CASE SeDecryptBInt
      <3>1. spt' \in Payload
        BY <1>3, <2>4, PayloadFacts DEF SeDecryptBInt
      <3> QED BY <1>2, <2>4, <3>1 DEF SeDecryptBInt, TakeCounter
    <2>5. CASE SeDecryptBFp
      <3>1. xor(sreq.b.pay, aes.out) \in Payload /\ sreq \in SeReq
        BY <1>3, <2>5, PayloadFacts DEF SeDecryptBFp
      <3>2. sreq' \in SeReq
        BY <2>5, <3>1 DEF SeDecryptBFp, SeReq, Cipher
      <3> QED BY <2>5, <3>2 DEF SeDecryptBFp
    <2>6. CASE SeFpuDone
      BY <1>2, <1>3, <2>6 DEF SeFpuDone, TakeCounter
    <2>7. CASE SeEncrypt
      <3>1. [ctr |-> ctr_out, pay |-> xor(spt, aes.out)] \in Cipher
        BY <1>2, <1>3, <2>7, PayloadFacts DEF SeEncrypt, Cipher
      <3> QED BY <2>7, <3>1 DEF SeEncrypt
    <2>8. CASE SeRespond
      BY <2>8, PayloadFacts DEF SeRespond
    <2>9. CASE SeWait(rq)
      BY <2>9 DEF SeWait
    <2> QED BY <2>1, <2>2, <2>3, <2>4, <2>5, <2>6, <2>7, <2>8, <2>9 DEF SeArm
  <1> QED BY <1>4, <1>5, <1>7 DEF SeTypeOK

\* When the unit starts, answers and comes to rest.
LEMMA SeControl ==
  ASSUME LongInv, NEW rq \in SeReqs \union {NoSe}, NEW load, SeEdge(rq, load)
  PROVE  /\ sst = "S_IDLE" /\ rq = NoSe =>
              UNCHANGED <<sst, sresp, ctr_counter, ctr_out>>
         /\ sst = "S_IDLE" /\ rq # NoSe =>
              /\ sst' \in {"S_KSA", "S_RESP"} /\ (sresp'.v <=> sst' = "S_RESP")
              /\ sst' = "S_RESP" => sresp'.err
              /\ UNCHANGED ctr_counter
         /\ sst \in SeArms =>
              /\ sst' \in SeArms \union {"S_RESP"} /\ (sresp'.v <=> sst' = "S_RESP")
         /\ sst = "S_RESP" =>
              /\ sst' = "S_IDLE" /\ ~sresp'.v /\ sresp'.err = sresp.err
              /\ UNCHANGED ctr_counter
  <1>1. SeArm(rq)
    BY DEF SeEdge, SeArm
  <1>2. /\ sresp \in [v : BOOLEAN, ct : Cipher, err : BOOLEAN]
        /\ sresp.v <=> sst = "S_RESP"
    BY DEF LongInv, ShapeInv, ServeInv, SeTypeOK
  <1> USE <1>2 DEF SeArms
  <1>3. CASE rq # NoSe /\ (SeRefuse(rq) \/ SeAccept(rq))
    BY <1>3 DEF SeRefuse, SeAccept
  <1>4. CASE SeDecryptA \/ SeDecryptBInt \/ SeDecryptBFp \/ SeFpuDone
    BY <1>4 DEF SeDecryptA, SeDecryptBInt, SeDecryptBFp, SeFpuDone
  <1>5. CASE SeEncrypt
    BY <1>5 DEF SeEncrypt
  <1>6. CASE SeRespond
    BY <1>6 DEF SeRespond
  <1>7. CASE SeWait(rq)
    BY <1>7 DEF SeWait
  <1> QED BY <1>1, <1>3, <1>4, <1>5, <1>6, <1>7 DEF SeArm

\* What becomes of the counter and of the response.
LEMMA SeCounters ==
  ASSUME LongInv, NEW rq \in SeReqs \union {NoSe}, NEW load, SeEdge(rq, load)
  PROVE  /\ sst' \in {"S_KSA", "S_KSB", "S_FPU"} =>
              /\ \/ sst \in {"S_KSA", "S_KSB", "S_FPU"}
                 \/ sst = "S_IDLE" /\ rq # NoSe
              /\ UNCHANGED ctr_counter
         /\ sst' = "S_KSO" =>
              \/ /\ sst \in {"S_KSB", "S_FPU"}
                 /\ ctr_out' = ctr_counter /\ ctr_counter' = ctr_counter + 1
              \/ sst = "S_KSO" /\ UNCHANGED <<ctr_out, ctr_counter>>
         /\ sst' = "S_RESP" =>
              /\ UNCHANGED ctr_counter
              /\ \/ sst = "S_KSO" /\ sresp'.ct.ctr = ctr_out
                 \/ sst = "S_IDLE" /\ sresp'.err
         /\ sst' = "S_IDLE" => UNCHANGED ctr_counter
  <1>1. SeArm(rq)
    BY DEF SeEdge, SeArm
  <1>2. CASE rq # NoSe /\ (SeRefuse(rq) \/ SeAccept(rq))
    BY <1>2 DEF SeRefuse, SeAccept
  <1>3. CASE SeDecryptA
    BY <1>3 DEF SeDecryptA
  <1>4. CASE SeDecryptBInt \/ SeDecryptBFp \/ SeFpuDone
    BY <1>4 DEF SeDecryptBInt, SeDecryptBFp, SeFpuDone, TakeCounter
  <1>5. CASE SeEncrypt
    BY <1>5 DEF SeEncrypt
  <1>6. CASE SeRespond
    BY <1>6 DEF SeRespond
  <1>7. CASE SeWait(rq)
    BY <1>7 DEF SeWait
  <1> QED BY <1>1, <1>2, <1>3, <1>4, <1>5, <1>6, <1>7 DEF SeArm

-----------------------------------------------------------------------------
(* One clock edge of the divider.                                          *)

DivShape(d) ==
  DOMAIN d = DivFields /\ d.st \in {"IDLE", "RUN", "FINISH"} /\ d.done \in BOOLEAN

LEMMA DivControl ==
  ASSUME DivShape(div), div.done => div.st = "IDLE",
         NEW start \in BOOLEAN, NEW sgn, NEW a, NEW b, DivEdge(start, sgn, a, b)
  PROVE  /\ DivShape(div')
         /\ div.st = "IDLE" /\ ~start =>
              div'.st = "IDLE" /\ ~div'.done
         /\ div.st = "IDLE" /\ start =>
              /\ div'.st = "RUN" /\ ~div'.done
              /\ b = 0 => div'.divisor = 0
         /\ div.st = "RUN" =>
              /\ div'.st \in {"RUN", "FINISH"} /\ ~div'.done
              /\ div.divisor = 0 => div'.st = "FINISH" /\ div'.q = AllOnes
         /\ div.st = "FINISH" =>
              div'.st = "IDLE" /\ div'.done /\ div'.q = div.q
  <1> USE DEF DivShape, DivFields
  <1>1. CASE start /\ DivStart(sgn, a, b)
    <2>1. b = 0 => (IF sgn /\ IsNeg(b) THEN Neg(b) ELSE b) = 0
      BY ZeroWord
    <2> QED BY <1>1, <2>1 DEF DivStart, Rest
  <1>2. CASE DivByZero(a)
    BY <1>2 DEF DivByZero
  <1>3. CASE DivOverflow(sgn, a, b)
    BY <1>3 DEF DivOverflow
  <1>4. CASE DivStep(sgn, a, b)
    <2>1. DOMAIN Step = DivFields /\ Step.st = div.st /\ Step.done = div.done
      BY DEF Step
    <2> QED BY <1>4, <2>1 DEF DivStep
  <1>5. CASE DivFinish
    BY <1>5 DEF DivFinish, Rest
  <1>6. CASE ~start /\ DivIdle
    BY <1>6 DEF DivIdle
  <1> QED BY <1>1, <1>2, <1>3, <1>4, <1>5, <1>6 DEF DivEdge

-----------------------------------------------------------------------------
(* One clock edge of EX1.                                                  *)

Ex1Shape(e) ==
  /\ DOMAIN e = Ex1Fields
  /\ e.kind \in {"none", "csr", "div", "se"}
  /\ e.started \in BOOLEAN /\ e.done \in BOOLEAN
  /\ e.kind = "se" => e.rq \in SeReqs

LEMMA InstrFacts ==
  ASSUME NEW e \in Instr
  PROVE  Ex1Shape(e) /\ ~e.started /\ ~e.done
  <1>1. /\ DOMAIN Empty = Ex1Fields
        /\ Empty.kind = "none" /\ Empty.started = FALSE /\ Empty.done = FALSE
    BY DEF Empty, Ex1Fields
  <1>2. CASE e = Empty \/ e = CsrWrite
    BY <1>1, <1>2 DEF CsrWrite, Ex1Shape, Ex1Fields
  <1>3. CASE \E m, s \in BOOLEAN : e = Division(m, s)
    BY <1>1, <1>3 DEF Division, Ex1Shape, Ex1Fields
  <1>4. CASE \E q \in SeReqs : e = SeInstr(q)
    BY <1>1, <1>4 DEF SeInstr, Ex1Shape, Ex1Fields
  <1> QED BY <1>2, <1>3, <1>4 DEF Instr

\* The request wires of EX1, under the invariant.
LEMMA Wires ==
  ASSUME LongInv
  PROVE  /\ SeRequest \in SeReqs \union {NoSe}
         /\ SeRequest # NoSe => ex1.kind = "se" /\ ~ex1.started /\ SeRequest = ex1.rq
         /\ div_start \in BOOLEAN
         /\ div_start => ex1.kind = "div" /\ ~ex1.started /\ div.st = "IDLE"
         /\ ex1.kind = "div" /\ ~ex1.started => div_start
         /\ NoSe \notin SeReqs
  <1>1. NoSe \notin SeReqs
    BY NoSeAssumption, SeReqsAssumption
  <1>2. /\ ex1.kind = "se" => ex1.rq \in SeReqs
        /\ ex1.started \in BOOLEAN /\ ex1.done \in BOOLEAN
    BY DEF LongInv, ShapeInv
  <1>3. div_busy => ex1.started
    BY DEF LongInv, ServeInv, UnitsServeEx1
  <1>4. div_busy <=> div.st # "IDLE"
    BY DEF div_busy
  <1> QED BY <1>1, <1>2, <1>3, <1>4 DEF SeRequest, div_start

\* A step of the model is an edge of EX1 and of its two units.
LEMMA EdgeOfAll ==
  ASSUME LongInv, Next
  PROVE  \E mem1Stall, load, a, b :
           /\ load \in Keys \union {NoKey} /\ a \in Val /\ b \in Val
           /\ Ex1Edge(mem1Stall, b) /\ SeEdge(SeRequest, load)
           /\ DivEdge(div_start, ex1.sgn, a, b)
           /\ EnableEdge(mem1Stall)
  <1>1. PICK mem1Stall \in Stalls : \E load \in KeyLoads(mem1Stall) :
               \E a, b \in Operands : Clock(mem1Stall, load, a, b)
    BY DEF Next
  <1>2. PICK load \in KeyLoads(mem1Stall) :
               \E a, b \in Operands : Clock(mem1Stall, load, a, b)
    BY <1>1
  <1>3. PICK a, b \in Operands : Clock(mem1Stall, load, a, b)
    BY <1>2
  <1>4. load \in Keys \union {NoKey}
    BY <1>2 DEF KeyLoads
  <1>5. Operands \subseteq Val
    BY WordFacts DEF Operands
  <1> QED BY <1>3, <1>4, <1>5 DEF Clock

-----------------------------------------------------------------------------
(* The invariant is inductive.  One edge, with its wires:                  *)

Edge(mem1Stall, load, a, b) ==
  /\ LongInv /\ load \in Keys \union {NoKey} /\ a \in Val /\ b \in Val
  /\ Ex1Edge(mem1Stall, b) /\ SeEdge(SeRequest, load)
  /\ DivEdge(div_start, ex1.sgn, a, b)
  /\ EnableEdge(mem1Stall)

LEMMA ShapeKept ==
  ASSUME NEW mem1Stall, NEW load, NEW a, NEW b, Edge(mem1Stall, load, a, b)
  PROVE  ShapeInv'
  <1>1. SeTypeOK' /\ (sst' # "S_IDLE" => sreq' \in SeReq)
    BY SeTypes, Wires DEF Edge
  <1>2. DivShape(div')
    BY DivControl, Wires DEF Edge, LongInv, ShapeInv, ServeInv, DivShape
  <1>3. Ex1Shape(ex1')
    <2>1. Ex1Shape(ex1)
      BY DEF Edge, LongInv, ShapeInv, Ex1Shape
    <2>2. CASE Ex1Shift
      BY <2>2, InstrFacts DEF Ex1Shift
    <2>3. CASE Ex1SeStart \/ Ex1DivStart(b) \/ Ex1SeDone \/ Ex1DivDone
      BY <2>1, <2>3 DEF Ex1SeStart, Ex1DivStart, Ex1SeDone, Ex1DivDone, Ex1Shape, Ex1Fields
    <2>4. CASE Ex1Hold(mem1Stall)
      BY <2>1, <2>4 DEF Ex1Hold
    <2> QED BY <2>2, <2>3, <2>4 DEF Edge, Ex1Edge
  <1> QED BY <1>1, <1>2, <1>3 DEF ShapeInv, DivShape, Ex1Shape

\* What an edge of EX1 is, told by the registers of the units.
LEMMA EdgeKinds ==
  ASSUME NEW mem1Stall, NEW load, NEW a, NEW b, Edge(mem1Stall, load, a, b)
  PROVE  \/ /\ sst = "S_IDLE" /\ SeRequest = NoSe
            /\ div.st = "IDLE" /\ ~div.done /\ ~div_start
            /\ ex1' \in Instr /\ (ex1'.kind = "se" => ctr_counter <= MAXCTR)
            /\ UNCHANGED issued
         \/ /\ sst = "S_IDLE" /\ SeRequest # NoSe
            /\ div.st = "IDLE" /\ ~div.done /\ ~div_start
            /\ ex1' = [ex1 EXCEPT !.started = TRUE] /\ UNCHANGED issued
         \/ /\ sst = "S_IDLE" /\ SeRequest = NoSe
            /\ div.st = "IDLE" /\ ~div.done /\ div_start
            /\ ex1' = [ex1 EXCEPT !.started = TRUE, !.divisor = b] /\ UNCHANGED issued
         \/ /\ sst = "S_RESP" /\ SeRequest = NoSe
            /\ div.st = "IDLE" /\ ~div.done /\ ~div_start
            /\ ex1' = [ex1 EXCEPT !.done = TRUE, !.res = sresp.ct, !.err = sresp.err]
            /\ issued' = IF sresp.err THEN issued ELSE issued \union {sresp.ct.ctr}
         \/ /\ sst = "S_IDLE" /\ SeRequest = NoSe
            /\ div.st = "IDLE" /\ div.done /\ ~div_start
            /\ ex1' = [ex1 EXCEPT !.done = TRUE, !.y = div_y(ex1.rem)] /\ UNCHANGED issued
         \/ /\ \/ sst \in SeArms /\ SeRequest = NoSe /\ div.st = "IDLE"
               \/ sst = "S_IDLE" /\ SeRequest = NoSe
            /\ ~div.done /\ ~div_start
            /\ UNCHANGED <<ex1, issued>>
  <1>1. LongInv
    BY DEF Edge
  <1>2. /\ UnitsServeEx1 /\ (sresp.v <=> sst = "S_RESP")
        /\ ex1.done => ex1.started
        /\ ex1.started => ex1.kind \in {"div", "se"}
        /\ div.done => div.st = "IDLE"
        /\ sst \in SeArms \union {"S_IDLE", "S_RESP"}
        /\ ex1.started \in BOOLEAN /\ ex1.done \in BOOLEAN /\ div.done \in BOOLEAN
    BY <1>1 DEF LongInv, ServeInv, ShapeInv, SeTypeOK, SeStates, SeArms
  <1>3. /\ SeRequest # NoSe => ex1.kind = "se" /\ ~ex1.started
        /\ div_start <=> ex1.kind = "div" /\ ~ex1.started
    BY <1>1, Wires
  <1> USE <1>2, <1>3 DEF UnitsServeEx1, div_busy
  <1>4. CASE Ex1Shift
    BY <1>4 DEF Ex1Shift, stall_ex1, se_wait, div_wait
  <1>5. CASE Ex1SeStart
    BY <1>5 DEF Ex1SeStart, se_accepted
  <1>6. CASE Ex1DivStart(b)
    BY <1>6 DEF Ex1DivStart
  <1>7. CASE Ex1SeDone
    BY <1>7 DEF Ex1SeDone, se_answered
  <1>8. CASE Ex1DivDone
    BY <1>8 DEF Ex1DivDone, div_answered
  <1>9. CASE Ex1Hold(mem1Stall)
    BY <1>9 DEF Ex1Hold, se_accepted, se_answered, div_answered, SeArms
  <1> QED BY <1>4, <1>5, <1>6, <1>7, <1>8, <1>9 DEF Edge, Ex1Edge

\* The registers of the units after an edge, by what they were.
LEMMA UnitsNext ==
  ASSUME NEW mem1Stall, NEW load, NEW a, NEW b, Edge(mem1Stall, load, a, b)
  PROVE  /\ sst = "S_IDLE" /\ SeRequest = NoSe =>
              UNCHANGED <<sst, sresp, ctr_counter, ctr_out>>
         /\ sst = "S_IDLE" /\ SeRequest # NoSe =>
              /\ sst' \in {"S_KSA", "S_RESP"} /\ (sresp'.v <=> sst' = "S_RESP")
              /\ sst' = "S_RESP" => sresp'.err
              /\ UNCHANGED ctr_counter
         /\ sst \in SeArms =>
              /\ sst' \in SeArms \union {"S_RESP"} /\ (sresp'.v <=> sst' = "S_RESP")
         /\ sst = "S_RESP" =>
              /\ sst' = "S_IDLE" /\ ~sresp'.v /\ sresp'.err = sresp.err
              /\ UNCHANGED ctr_counter
         /\ div.st = "IDLE" /\ ~div_start => div'.st = "IDLE" /\ ~div'.done
         /\ div.st = "IDLE" /\ div_start =>
              /\ div'.st = "RUN" /\ ~div'.done
              /\ b = 0 => div'.divisor = 0
         /\ div.st = "RUN" =>
              /\ div'.st \in {"RUN", "FINISH"} /\ ~div'.done
              /\ div.divisor = 0 => div'.st = "FINISH" /\ div'.q = AllOnes
         /\ div.st = "FINISH" => div'.st = "IDLE" /\ div'.done /\ div'.q = div.q
  <1>1. LongInv /\ SeEdge(SeRequest, load) /\ DivEdge(div_start, ex1.sgn, a, b)
    BY DEF Edge
  <1>2. DivShape(div) /\ (div.done => div.st = "IDLE")
    BY <1>1 DEF LongInv, ShapeInv, ServeInv, DivShape
  <1>3. SeRequest \in SeReqs \union {NoSe} /\ div_start \in BOOLEAN
    BY <1>1, Wires
  <1> QED BY <1>1, <1>2, <1>3, SeControl, DivControl

LEMMA ServeKept ==
  ASSUME NEW mem1Stall, NEW load, NEW a, NEW b, Edge(mem1Stall, load, a, b)
  PROVE  ServeInv'
  <1>1. LongInv /\ ShapeInv'
    BY ShapeKept DEF Edge
  <1>2. /\ UnitsServeEx1 /\ ErrorBitIsItsOwn
        /\ sresp.v <=> sst = "S_RESP"
        /\ ex1.done => ex1.started
        /\ ex1.started => ex1.kind \in {"div", "se"}
        /\ div.done => div.st = "IDLE"
        /\ Ex1Shape(ex1) /\ div.st \in {"IDLE", "RUN", "FINISH"}
        /\ sst \in SeArms \union {"S_IDLE", "S_RESP"}
    BY <1>1 DEF LongInv, ServeInv, ShapeInv, SeTypeOK, SeStates, SeArms, Ex1Shape
  <1>3. /\ SeRequest # NoSe => ex1.kind = "se" /\ ~ex1.started
        /\ div_start <=> ex1.kind = "div" /\ ~ex1.started
    BY <1>1, Wires
  <1>4. CASE /\ sst = "S_IDLE" /\ SeRequest = NoSe
             /\ div.st = "IDLE" /\ ~div.done /\ ~div_start
             /\ ex1' \in Instr
    <2>1. ~ex1'.started /\ ~ex1'.done
      BY <1>4, InstrFacts
    <2> QED BY <1>2, <1>4, <2>1, UnitsNext
            DEF ServeInv, UnitsServeEx1, ErrorBitIsItsOwn, div_busy
  <1>5. CASE /\ sst = "S_IDLE" /\ SeRequest # NoSe
             /\ div.st = "IDLE" /\ ~div.done /\ ~div_start
             /\ ex1' = [ex1 EXCEPT !.started = TRUE]
    <2>1. /\ ex1'.started = TRUE /\ ex1'.done = FALSE /\ ex1'.kind = "se"
      BY <1>2, <1>3, <1>5 DEF Ex1Shape, Ex1Fields
    <2>2. sst' # "S_IDLE" /\ (sresp'.v <=> sst' = "S_RESP")
      BY <1>5, UnitsNext
    <2>3. div'.st = "IDLE" /\ ~div'.done
      BY <1>5, UnitsNext
    <2> QED BY <2>1, <2>2, <2>3
            DEF ServeInv, UnitsServeEx1, ErrorBitIsItsOwn, div_busy
  <1>6. CASE /\ sst = "S_IDLE" /\ SeRequest = NoSe
             /\ div.st = "IDLE" /\ ~div.done /\ div_start
             /\ ex1' = [ex1 EXCEPT !.started = TRUE, !.divisor = b]
    <2>1. /\ ex1'.started = TRUE /\ ex1'.done = FALSE /\ ex1'.kind = "div"
      BY <1>2, <1>3, <1>6 DEF Ex1Shape, Ex1Fields
    <2>2. sst' = "S_IDLE" /\ (sresp'.v <=> sst' = "S_RESP")
      BY <1>2, <1>6, UnitsNext
    <2>3. div'.st = "RUN" /\ ~div'.done
      BY <1>6, UnitsNext
    <2> QED BY <2>1, <2>2, <2>3
            DEF ServeInv, UnitsServeEx1, ErrorBitIsItsOwn, div_busy
  <1>7. CASE /\ sst = "S_RESP" /\ SeRequest = NoSe
             /\ div.st = "IDLE" /\ ~div.done /\ ~div_start
             /\ ex1' = [ex1 EXCEPT !.done = TRUE, !.res = sresp.ct, !.err = sresp.err]
    <2>1. /\ ex1'.started = TRUE /\ ex1'.done = TRUE /\ ex1'.kind = "se"
          /\ ex1'.err = sresp.err
      BY <1>2, <1>7 DEF Ex1Shape, Ex1Fields, UnitsServeEx1
    <2>2. sst' = "S_IDLE" /\ ~sresp'.v /\ sresp'.err = sresp.err
      BY <1>7, UnitsNext
    <2>3. div'.st = "IDLE" /\ ~div'.done
      BY <1>7, UnitsNext
    <2> QED BY <2>1, <2>2, <2>3
            DEF ServeInv, UnitsServeEx1, ErrorBitIsItsOwn, div_busy
  <1>8. CASE /\ sst = "S_IDLE" /\ SeRequest = NoSe
             /\ div.st = "IDLE" /\ div.done /\ ~div_start
             /\ ex1' = [ex1 EXCEPT !.done = TRUE, !.y = div_y(ex1.rem)]
    <2>1. /\ ex1'.started = TRUE /\ ex1'.done = TRUE /\ ex1'.kind = "div"
      BY <1>2, <1>8 DEF Ex1Shape, Ex1Fields, UnitsServeEx1
    <2>2. sst' = "S_IDLE" /\ (sresp'.v <=> sst' = "S_RESP")
      BY <1>2, <1>8, UnitsNext
    <2>3. div'.st = "IDLE" /\ ~div'.done
      BY <1>8, UnitsNext
    <2> QED BY <2>1, <2>2, <2>3
            DEF ServeInv, UnitsServeEx1, ErrorBitIsItsOwn, div_busy
  <1>9. CASE /\ \/ sst \in SeArms /\ SeRequest = NoSe /\ div.st = "IDLE"
                \/ sst = "S_IDLE" /\ SeRequest = NoSe
             /\ ~div.done /\ ~div_start
             /\ ex1' = ex1
    <2>1. /\ sst' = "S_IDLE" <=> sst = "S_IDLE"
          /\ sresp'.v <=> sst' = "S_RESP"
          /\ sst = "S_IDLE" => sresp' = sresp
      BY <1>2, <1>9, UnitsNext DEF SeArms
    <2>2. /\ div'.st # "IDLE" \/ div'.done <=> div.st # "IDLE"
          /\ div'.done => div'.st = "IDLE"
      BY <1>2, <1>9, UnitsNext
    <2>3. ex1.kind = "se" /\ ex1.done => sst = "S_IDLE"
      BY <1>2, <1>9 DEF UnitsServeEx1
    <2> QED BY <1>2, <1>9, <2>1, <2>2, <2>3
            DEF ServeInv, UnitsServeEx1, ErrorBitIsItsOwn, div_busy
  <1> QED BY <1>4, <1>5, <1>6, <1>7, <1>8, <1>9, EdgeKinds

LEMMA CounterKept ==
  ASSUME NEW mem1Stall, NEW load, NEW a, NEW b, Edge(mem1Stall, load, a, b)
  PROVE  CounterInv'
  <1>1. LongInv /\ ShapeInv' /\ ServeInv'
    BY ShapeKept, ServeKept DEF Edge
  <1>2. CounterInv /\ MAXCTR \in Nat \ {0} /\ ctr_counter \in 1 .. MAXCTR + 1
    BY <1>1, SeAssumption DEF LongInv, ShapeInv, SeTypeOK
  <1>3. SeRequest \in SeReqs \union {NoSe}
    BY <1>1, Wires
  <1>4. SeEdge(SeRequest, load)
    BY DEF Edge
  <1>5. /\ sst' \in {"S_KSA", "S_KSB", "S_FPU"} =>
             /\ \/ sst \in {"S_KSA", "S_KSB", "S_FPU"}
                \/ sst = "S_IDLE" /\ SeRequest # NoSe
             /\ ctr_counter' = ctr_counter
        /\ sst' = "S_KSO" =>
             \/ /\ sst \in {"S_KSB", "S_FPU"}
                /\ ctr_out' = ctr_counter /\ ctr_counter' = ctr_counter + 1
             \/ sst = "S_KSO" /\ ctr_out' = ctr_out /\ ctr_counter' = ctr_counter
        /\ sst' = "S_RESP" =>
             /\ ctr_counter' = ctr_counter
             /\ \/ sst = "S_KSO" /\ sresp'.ct.ctr = ctr_out
                \/ sst = "S_IDLE" /\ sresp'.err
        /\ sst' = "S_IDLE" => ctr_counter' = ctr_counter
    BY <1>1, <1>3, <1>4, SeCounters
  <1>6. sst' \in {"S_IDLE", "S_KSA", "S_KSB", "S_FPU", "S_KSO", "S_RESP"}
    BY <1>1 DEF ShapeInv, SeTypeOK, SeStates
  <1>7. ctr_counter' \in Int /\ ctr_counter' >= ctr_counter
    BY <1>2, <1>5, <1>6
  <1>8. \/ /\ issued' = issued
           /\ ex1'.kind = "se" /\ ~ex1'.started =>
                \/ sst = "S_IDLE" /\ sst' = "S_IDLE" /\ ctr_counter <= MAXCTR
                \/ ex1.kind = "se" /\ ~ex1.started
        \/ sst = "S_RESP" /\ issued' = IF sresp.err THEN issued ELSE issued \union {sresp.ct.ctr}
    <2>1. Ex1Shape(ex1)
      BY <1>1 DEF LongInv, ShapeInv, Ex1Shape
    <2>2. sst = "S_IDLE" /\ SeRequest = NoSe => sst' = "S_IDLE"
      BY UnitsNext
    <2>3. ASSUME ex1' = [ex1 EXCEPT !.started = TRUE]
          PROVE  ex1'.started = TRUE
      BY <2>1, <2>3 DEF Ex1Shape, Ex1Fields
    <2>4. ASSUME ex1' = [ex1 EXCEPT !.started = TRUE, !.divisor = b]
          PROVE  ex1'.started = TRUE
      BY <2>1, <2>4 DEF Ex1Shape, Ex1Fields
    <2>5. ASSUME ex1' = [ex1 EXCEPT !.done = TRUE, !.y = div_y(ex1.rem)]
          PROVE  ex1'.started = ex1.started /\ ex1'.kind = ex1.kind
      BY <2>1, <2>5 DEF Ex1Shape, Ex1Fields
    <2> QED BY <2>2, <2>3, <2>4, <2>5, EdgeKinds
  <1>9. /\ issued' \subseteq 1 .. MAXCTR
        /\ \A c \in issued' : c < ctr_counter'
    <2>1. CASE issued' = issued
      BY <1>2, <1>7, <2>1 DEF CounterInv
    <2>2. CASE sst = "S_RESP" /\ ~sresp.err /\ issued' = issued \union {sresp.ct.ctr}
      <3>1. /\ issued \subseteq 1 .. MAXCTR /\ \A c \in issued : c < ctr_counter
            /\ sresp.ct.ctr \in 1 .. MAXCTR /\ sresp.ct.ctr < ctr_counter
        BY <1>2, <2>2 DEF CounterInv
      <3>2. issued' \subseteq 1 .. MAXCTR
        BY <2>2, <3>1
      <3>3. \A c \in issued' : c \in Int /\ c < ctr_counter
        BY <2>2, <3>1
      <3> QED BY <1>2, <1>7, <3>2, <3>3
    <2> QED BY <1>8, <2>1, <2>2
  <1>10. ASSUME sst' \in {"S_KSA", "S_KSB", "S_FPU"} \/ (ex1'.kind = "se" /\ ~ex1'.started)
         PROVE  ctr_counter' <= MAXCTR
    <2>1. SeRequest # NoSe => ex1.kind = "se" /\ ~ex1.started
      BY <1>1, Wires
    <2>2. ex1'.kind = "se" /\ ~ex1'.started => sst' = "S_IDLE"
      BY <1>1 DEF ServeInv, UnitsServeEx1
    <2>3. sst = "S_RESP" => ~(ex1'.kind = "se" /\ ~ex1'.started)
      <3>1. Ex1Shape(ex1) /\ (sst = "S_RESP" => ex1.started)
        BY <1>1 DEF LongInv, ShapeInv, ServeInv, UnitsServeEx1, Ex1Shape
      <3>2. ASSUME ex1' = [ex1 EXCEPT !.done = TRUE, !.res = sresp.ct, !.err = sresp.err]
            PROVE  ex1'.started = ex1.started
        BY <3>1, <3>2 DEF Ex1Shape, Ex1Fields
      <3> QED BY <3>1, <3>2, EdgeKinds DEF SeArms
    <2> QED BY <1>2, <1>5, <1>8, <1>10, <2>1, <2>2, <2>3 DEF CounterInv
  <1>11. ASSUME sst' \in {"S_KSO", "S_RESP"}
         PROVE  issued' = issued
    <2>1. sst = "S_RESP" => sst' = "S_IDLE"
      BY UnitsNext
    <2> QED BY <1>8, <1>11, <2>1
  <1>12. ASSUME sst' = "S_KSO"
         PROVE  /\ ctr_out' \in 1 .. MAXCTR /\ ctr_out' < ctr_counter'
                /\ \A c \in issued' : c < ctr_out'
    <2>1. issued' = issued
      BY <1>11, <1>12
    <2>2. CASE /\ sst \in {"S_KSB", "S_FPU"}
               /\ ctr_out' = ctr_counter /\ ctr_counter' = ctr_counter + 1
      <3>1. ctr_counter <= MAXCTR /\ \A c \in issued : c < ctr_counter
        BY <1>2, <2>2 DEF CounterInv
      <3> QED BY <1>2, <2>1, <2>2, <3>1
    <2>3. CASE sst = "S_KSO" /\ ctr_out' = ctr_out /\ ctr_counter' = ctr_counter
      BY <1>2, <2>1, <2>3 DEF CounterInv
    <2> QED BY <1>5, <1>12, <2>2, <2>3
  <1>13. ASSUME sst' = "S_RESP", ~sresp'.err
         PROVE  /\ sresp'.ct.ctr \in 1 .. MAXCTR /\ sresp'.ct.ctr < ctr_counter'
                /\ \A c \in issued' : c < sresp'.ct.ctr
    BY <1>2, <1>5, <1>11, <1>13 DEF CounterInv
  <1> QED BY <1>9, <1>10, <1>12, <1>13 DEF CounterInv

LEMMA DivisorKept ==
  ASSUME NEW mem1Stall, NEW load, NEW a, NEW b, Edge(mem1Stall, load, a, b)
  PROVE  DivisorInv'
  <1>1. LongInv /\ ServeInv'
    BY ServeKept DEF Edge
  <1>2. /\ UnitsServeEx1 /\ UnitsServeEx1' /\ DivisorInv
        /\ Ex1Shape(ex1) /\ div.st \in {"IDLE", "RUN", "FINISH"}
        /\ div.done => div.st = "IDLE"
        /\ ex1.done => ex1.started
    BY <1>1 DEF LongInv, ServeInv, ShapeInv, Ex1Shape
  <1>3. /\ SeRequest # NoSe => ex1.kind = "se"
        /\ div_start => ex1.kind = "div" /\ ~ex1.started
    BY <1>1, Wires
  <1>4. CASE ex1' \in Instr
    BY <1>4, InstrFacts DEF DivisorInv
  <1>5. CASE SeRequest # NoSe /\ ex1' = [ex1 EXCEPT !.started = TRUE]
    <2>1. ex1'.kind = "se"
      BY <1>2, <1>3, <1>5 DEF Ex1Shape, Ex1Fields
    <2> QED BY <2>1 DEF DivisorInv
  <1>6. CASE div.st = "IDLE" /\ div_start /\ ex1' = [ex1 EXCEPT !.started = TRUE, !.divisor = b]
    <2>1. ex1'.divisor = b /\ ~ex1'.done
      BY <1>2, <1>3, <1>6 DEF Ex1Shape, Ex1Fields
    <2>2. div'.st = "RUN" /\ ~div'.done /\ (b = 0 => div'.divisor = 0)
      BY <1>6, UnitsNext
    <2> QED BY <2>1, <2>2 DEF DivisorInv
  <1>7. CASE /\ sst = "S_RESP"
             /\ ex1' = [ex1 EXCEPT !.done = TRUE, !.res = sresp.ct, !.err = sresp.err]
    <2>1. ex1'.kind = "se"
      BY <1>2, <1>7 DEF UnitsServeEx1, Ex1Shape, Ex1Fields
    <2> QED BY <2>1 DEF DivisorInv
  <1>8. CASE /\ div.st = "IDLE" /\ div.done /\ ~div_start
             /\ ex1' = [ex1 EXCEPT !.done = TRUE, !.y = div_y(ex1.rem)]
    <2>1. /\ ex1'.y = div_y(ex1.rem) /\ ex1'.rem = ex1.rem /\ ex1'.divisor = ex1.divisor
          /\ ex1.kind = "div" /\ ex1.started
      BY <1>2, <1>8 DEF UnitsServeEx1, Ex1Shape, Ex1Fields
    <2>2. ex1.divisor = 0 => div.q = AllOnes
      BY <1>2, <1>8, <2>1 DEF DivisorInv
    <2>3. ~ex1.rem => ex1'.y = div.q
      BY <2>1 DEF div_y
    <2>4. div'.st = "IDLE" /\ ~div'.done
      BY <1>8, UnitsNext
    <2> QED BY <2>1, <2>2, <2>3, <2>4 DEF DivisorInv
  <1>9. CASE ex1' = ex1 /\ ~div_start /\ ~div.done
    <2>1. /\ div.st = "IDLE" => div'.st = "IDLE" /\ ~div'.done
          /\ div.st = "RUN" =>
               /\ div'.st \in {"RUN", "FINISH"} /\ ~div'.done
               /\ div.divisor = 0 => div'.st = "FINISH" /\ div'.q = AllOnes
          /\ div.st = "FINISH" => div'.st = "IDLE" /\ div'.done /\ div'.q = div.q
      BY <1>9, UnitsNext
    <2> QED BY <1>2, <1>9, <2>1 DEF DivisorInv
  <1> QED BY <1>4, <1>5, <1>6, <1>7, <1>8, <1>9, EdgeKinds

-----------------------------------------------------------------------------
(* The widths of the registers.                                            *)

\* A step of the divider never counts below zero.
DivTypeInv == DivTypeOK /\ (div.st = "RUN" => div.bit_idx \in 1 .. W)

Ex1Type ==
  [kind : {"none", "csr", "div", "se"}, rq : SeReqs \union {NoSe},
   rem : BOOLEAN, sgn : BOOLEAN, started : BOOLEAN, done : BOOLEAN,
   res : Cipher, y : Val, divisor : Val, err : BOOLEAN]

WidthInv ==
  /\ DivTypeInv /\ ex1 \in Ex1Type
  /\ ext_mode \in BOOLEAN /\ se_enable \in BOOLEAN

\* The divider's registers, as a set of records.
DivRegisters ==
  [st : {"IDLE", "RUN", "FINISH"},
   dividend : Val, divisor : Val, a_neg : BOOLEAN, b_neg : BOOLEAN,
   hi : Val, lo : Val, quot : Val, bit_idx : 0 .. W,
   q : Val, r : Val, done : BOOLEAN]

LEMMA RestType ==
  ASSUME NEW q \in Val, NEW r \in Val, NEW done \in BOOLEAN
  PROVE  Rest(q, r, done) \in DivRegisters
  <1>1. 0 \in Val /\ 0 \in 0 .. W
    BY WordFacts, WidthAssumption
  <1> QED BY <1>1 DEF Rest, DivRegisters

\* One round: shift, subtract, set the quotient's bit.
LEMMA StepType ==
  ASSUME div \in DivRegisters, div.bit_idx \in 1 .. W
  PROVE  Step \in DivRegisters /\ Step.bit_idx = div.bit_idx - 1 /\ Step.st = div.st
  <1> DEFINE sub == div.hi >= div.divisor
             i   == div.bit_idx - 1
             lo  == (2 * div.lo + BitOf(div.dividend, i)) % Pow2[W]
             hi  == IF sub THEN div.hi - div.divisor
                    ELSE (2 * div.hi + BitOf(div.lo, W - 1)) % Pow2[W]
             quot == SetBit(div.quot, i, IF sub THEN 1 ELSE 0)
  <1>1. /\ div.hi \in Val /\ div.lo \in Val /\ div.divisor \in Val /\ div.dividend \in Val
        /\ div.quot \in Val
        /\ i \in 0 .. W - 1 /\ i \in 0 .. W /\ W - 1 \in 0 .. W
    BY WidthAssumption DEF DivRegisters
  <1>2. Val \subseteq Nat /\ \A x, y \in Val : x >= y => x - y \in Val
    BY WordFacts DEF Val
  <1>3. BitOf(div.dividend, i) \in Nat /\ BitOf(div.lo, W - 1) \in Nat
    BY <1>1, BitOfType
  <1>4. \A y \in Nat : 2 * div.lo + y \in Nat /\ 2 * div.hi + y \in Nat
    <2>1. div.lo \in Nat /\ div.hi \in Nat
      BY <1>1, <1>2
    <2> QED BY <2>1
  <1>5. lo \in Val
    <2>1. 2 * div.lo + BitOf(div.dividend, i) \in Nat
      BY <1>3, <1>4
    <2> QED BY <2>1, ModWord
  <1>6. hi \in Val
    <2>1. 2 * div.hi + BitOf(div.lo, W - 1) \in Nat
      BY <1>3, <1>4
    <2>2. (2 * div.hi + BitOf(div.lo, W - 1)) % Pow2[W] \in Val
      BY <2>1, ModWord
    <2> QED BY <1>1, <1>2, <2>2
  <1>7. quot \in Val
    BY <1>1, SetBitType
  <1>8. Step = [div EXCEPT !.lo = lo, !.hi = hi, !.quot = quot, !.bit_idx = i]
    BY DEF Step
  <1> HIDE DEF lo, hi, quot, i
  <1>9. Step \in DivRegisters /\ Step.bit_idx = i /\ Step.st = div.st
    BY <1>1, <1>5, <1>6, <1>7, <1>8 DEF DivRegisters
  <1> QED BY <1>9 DEF i

LEMMA DivTypes ==
  ASSUME DivTypeInv, NEW start \in BOOLEAN, NEW sgn \in BOOLEAN, NEW a \in Val, NEW b \in Val,
         DivEdge(start, sgn, a, b)
  PROVE  DivTypeInv'
  <1>1. div \in DivRegisters /\ (div.st = "RUN" => div.bit_idx \in 1 .. W)
    BY DEF DivTypeInv, DivTypeOK, DivRegisters
  <1>2. SUFFICES div' \in DivRegisters /\ (div'.st = "RUN" => div'.bit_idx \in 1 .. W)
    BY DEF DivTypeInv, DivTypeOK, DivRegisters, Val, Pow2
  <1>3. /\ div.q \in Val /\ div.r \in Val /\ div.quot \in Val /\ div.hi \in Val
        /\ W \in 1 .. W /\ W \in 0 .. W
    BY <1>1, WidthAssumption DEF DivRegisters
  <1>4. CASE start /\ DivStart(sgn, a, b)
    <2> DEFINE d == IF sgn /\ IsNeg(a) THEN Neg(a) ELSE a
               v == IF sgn /\ IsNeg(b) THEN Neg(b) ELSE b
               an == sgn /\ IsNeg(a)
               bn == sgn /\ IsNeg(b)
               rest == Rest(div.q, div.r, FALSE)
    <2>1. d \in Val /\ v \in Val
      BY ModWord
    <2>2. an \in BOOLEAN /\ bn \in BOOLEAN
      BY DEF IsNeg
    <2>3. rest \in DivRegisters
      BY <1>3, RestType
    <2>4. div' = [rest EXCEPT !.st = "RUN", !.a_neg = an, !.b_neg = bn, !.dividend = d,
                              !.divisor = v, !.bit_idx = W]
      BY <1>4 DEF DivStart
    <2> HIDE DEF d, v, an, bn, rest
    <2> QED BY <1>3, <2>1, <2>2, <2>3, <2>4 DEF DivRegisters
  <1>5. CASE DivByZero(a)
    <2>1. div' = [div EXCEPT !.st = "FINISH", !.q = AllOnes, !.r = a] /\ AllOnes \in Val
      BY <1>5, WordFacts DEF DivByZero
    <2> QED BY <1>1, <2>1 DEF DivRegisters
  <1>6. CASE DivOverflow(sgn, a, b)
    <2>1. div' = [div EXCEPT !.st = "FINISH", !.q = MinInt, !.r = 0] /\ MinInt \in Val /\ 0 \in Val
      BY <1>6, WordFacts DEF DivOverflow
    <2> QED BY <1>1, <2>1 DEF DivRegisters
  <1>7. CASE DivStep(sgn, a, b)
    <2> DEFINE x == Signed(sgn /\ div.a_neg # div.b_neg, div.quot)
               y == Signed(sgn /\ div.a_neg, div.hi)
    <2>1. x \in Val /\ y \in Val
      BY <1>3, ModWord DEF Signed
    <2>2. div.st = "RUN" /\ div.bit_idx \in 1 .. W
      BY <1>1, <1>7 DEF DivStep
    <2>3. /\ Step \in DivRegisters /\ Step.bit_idx = div.bit_idx - 1
      BY <1>1, <2>2, StepType
    <2>4. div' = IF div.bit_idx # 1 THEN Step
                 ELSE [Step EXCEPT !.st = "FINISH", !.q = x, !.r = y]
      BY <1>7 DEF DivStep
    <2> HIDE DEF x, y
    <2>5. CASE div.bit_idx # 1
      BY WidthAssumption, <2>2, <2>3, <2>4, <2>5
    <2>6. CASE div.bit_idx = 1
      BY <2>1, <2>3, <2>4, <2>6 DEF DivRegisters
    <2> QED BY <2>5, <2>6
  <1>8. CASE DivFinish
    <2>1. div' = Rest(div.q, div.r, TRUE) /\ div'.st = "IDLE"
      BY <1>8 DEF DivFinish, Rest
    <2> QED BY <1>3, <2>1, RestType
  <1>9. CASE ~start /\ DivIdle
    <2>1. div' = [div EXCEPT !.done = FALSE] /\ div.st = "IDLE"
      BY <1>9 DEF DivIdle
    <2> QED BY <1>1, <2>1 DEF DivRegisters
  <1> QED BY <1>4, <1>5, <1>6, <1>7, <1>8, <1>9 DEF DivEdge

LEMMA InstrTypes ==
  ASSUME NEW e \in Instr
  PROVE  e \in Ex1Type
  <1>1. Empty \in Ex1Type
    BY PayloadFacts, WordFacts DEF Empty, Ex1Type
  <1>2. CASE e = Empty \/ e = CsrWrite
    BY <1>1, <1>2 DEF CsrWrite, Ex1Type
  <1>3. CASE \E m, s \in BOOLEAN : e = Division(m, s)
    BY <1>1, <1>3 DEF Division, Ex1Type
  <1>4. CASE \E q \in SeReqs : e = SeInstr(q)
    BY <1>1, <1>4 DEF SeInstr, Ex1Type
  <1> QED BY <1>2, <1>3, <1>4 DEF Instr

LEMMA WidthKept ==
  ASSUME NEW mem1Stall, NEW load, NEW a, NEW b, Edge(mem1Stall, load, a, b), WidthInv
  PROVE  WidthInv'
  <1>1. /\ LongInv /\ a \in Val /\ b \in Val
        /\ ex1 \in Ex1Type /\ div_start \in BOOLEAN
    BY Wires DEF Edge, WidthInv
  <1>2. DivTypeInv'
    <2>1. ex1.sgn \in BOOLEAN
      BY <1>1 DEF Ex1Type
    <2> QED BY <1>1, <2>1, DivTypes DEF Edge, WidthInv
  <1>3. ex1' \in Ex1Type
    <2>1. CASE ex1' \in Instr
      BY <2>1, InstrTypes
    <2>2. CASE ex1' = [ex1 EXCEPT !.started = TRUE]
      BY <1>1, <2>2 DEF Ex1Type
    <2>3. CASE ex1' = [ex1 EXCEPT !.started = TRUE, !.divisor = b]
      BY <1>1, <2>3 DEF Ex1Type
    <2>4. CASE ex1' = [ex1 EXCEPT !.done = TRUE, !.res = sresp.ct, !.err = sresp.err]
      <3>1. sresp.ct \in Cipher /\ sresp.err \in BOOLEAN
        BY <1>1 DEF LongInv, ShapeInv, SeTypeOK
      <3> QED BY <1>1, <2>4, <3>1 DEF Ex1Type
    <2>5. CASE ex1' = [ex1 EXCEPT !.done = TRUE, !.y = div_y(ex1.rem)]
      <3>1. div_y(ex1.rem) \in Val
        BY DEF WidthInv, DivTypeInv, DivTypeOK, div_y
      <3> QED BY <1>1, <2>5, <3>1 DEF Ex1Type
    <2> QED BY <1>1, <2>1, <2>2, <2>3, <2>4, <2>5, EdgeKinds
  <1>4. ext_mode' \in BOOLEAN /\ se_enable' \in BOOLEAN
    BY DEF WidthInv, Edge, EnableEdge
  <1> QED BY <1>2, <1>3, <1>4 DEF WidthInv, Ex1Type, Cipher, Val, Pow2

-----------------------------------------------------------------------------
(* The theorems.                                                           *)

LEMMA LongInit == Init => LongInv
  <1> SUFFICES ASSUME Init
               PROVE  LongInv
    OBVIOUS
  <1>1. SeTypeOK /\ sst = "S_IDLE"
    <2>1. aes = [round |-> 0, ks |-> {}, done |-> FALSE, out |-> {}] /\ aes_key = NoKey
      BY DEF Init, SeInit, AesInit
    <2>2. AesTypeOK
      BY <2>1, AesAssumption, PayloadFacts DEF AesTypeOK
    <2>3. /\ [v |-> FALSE, ct |-> NoCt, err |-> FALSE] \in [v : BOOLEAN, ct : Cipher, err : BOOLEAN]
          /\ [stage |-> 0, y |-> {}] \in [stage : 0 .. LAT, y : Payload]
      BY SeAssumption, PayloadFacts
    <2>4. 1 \in 1 .. MAXCTR + 1 /\ 0 \in 0 .. MAXCTR
      BY SeAssumption
    <2> QED BY <2>2, <2>3, <2>4, PayloadFacts DEF Init, SeInit, SeTypeOK, SeStates
  <1>2. DivShape(div) /\ div.st = "IDLE" /\ div.done = FALSE
    BY DEF Init, DivInit, Rest, DivShape, DivFields
  <1>3. /\ ex1.kind = "none" /\ ex1.started = FALSE /\ ex1.done = FALSE
        /\ DOMAIN ex1 = Ex1Fields
    BY DEF Init, Empty, Ex1Fields
  <1>4. ShapeInv
    BY <1>1, <1>2, <1>3 DEF ShapeInv, DivShape
  <1>5. ServeInv
    BY <1>1, <1>2, <1>3 DEF Init, SeInit, ServeInv, UnitsServeEx1, ErrorBitIsItsOwn, div_busy
  <1>6. CounterInv
    BY <1>1, <1>3 DEF Init, CounterInv
  <1>7. DivisorInv
    BY <1>3 DEF DivisorInv
  <1> QED BY <1>4, <1>5, <1>6, <1>7 DEF LongInv

LEMMA LongStep == LongInv /\ [Next]_vars => LongInv'
  <1> SUFFICES ASSUME LongInv, [Next]_vars
               PROVE  LongInv'
    OBVIOUS
  <1>1. CASE Next
    <2>1. PICK mem1Stall, load, a, b : Edge(mem1Stall, load, a, b)
      BY <1>1, EdgeOfAll DEF Edge
    <2> QED BY <2>1, ShapeKept, ServeKept, CounterKept, DivisorKept DEF LongInv
  <1>2. CASE UNCHANGED vars
    BY <1>2 DEF vars, seVars, LongInv, ShapeInv, SeTypeOK, AesTypeOK, ServeInv, UnitsServeEx1,
                ErrorBitIsItsOwn, div_busy, CounterInv, DivisorInv
  <1> QED BY <1>1, <1>2

LEMMA LongAlways == Spec => []LongInv
  BY LongInit, LongStep, PTL DEF Spec

\* Every register keeps its width: for every number of bits, the negations,
\* shifts and subtractions of the divider, the quotient bits it sets and the
\* counter of its rounds, the SE counter, and what EX1 latches of the answers.
THEOREM LongTypes == Spec => []TypeOK
  <1>1. Init => WidthInv
    <2> SUFFICES ASSUME Init
                 PROVE  WidthInv
      OBVIOUS
    <2>1. div \in DivRegisters /\ div.st = "IDLE"
      BY WordFacts, RestType DEF Init, DivInit, Rest
    <2>2. Empty \in Ex1Type
      BY InstrTypes DEF Instr
    <2> QED BY <2>1, <2>2 DEF Init, WidthInv, DivTypeInv, DivTypeOK, DivRegisters
  <1>2. LongInv /\ WidthInv /\ [Next]_vars => WidthInv'
    <2> SUFFICES ASSUME LongInv, WidthInv, [Next]_vars
                 PROVE  WidthInv'
      OBVIOUS
    <2>1. CASE Next
      <3>1. PICK mem1Stall, load, a, b : Edge(mem1Stall, load, a, b)
        BY <2>1, EdgeOfAll DEF Edge
      <3> QED BY <3>1, WidthKept
    <2>2. CASE UNCHANGED vars
      BY <2>2 DEF vars, seVars, envVars, WidthInv, DivTypeInv, DivTypeOK
    <2> QED BY <2>1, <2>2
  <1>3. LongInv /\ WidthInv => TypeOK
    BY DEF LongInv, ShapeInv, CounterInv, WidthInv, DivTypeInv, Ex1Type, TypeOK
  <1> QED BY <1>1, <1>2, <1>3, LongAlways, PTL DEF Spec

\* A unit works for the instruction in EX1 and for no other, for every program,
\* key change, stall and redirect: EX1 is held by its own unit from the request
\* to the response (rv64_core_7stage.sv, stall_ex1 and the started and done bits).
THEOREM UnitsServe == Spec => []UnitsServeEx1
  <1>1. LongInv => UnitsServeEx1
    BY DEF LongInv, ServeInv
  <1> QED BY <1>1, LongAlways, PTL

\* The error bit that mem1_ewen reads when the instruction leaves EX1 is the one
\* of its own response, however long MEM1 has held it back (se_unit.sv, resp_err_r).
THEOREM ErrorBitKept == Spec => []ErrorBitIsItsOwn
  <1>1. LongInv => ErrorBitIsItsOwn
    BY DEF LongInv, ServeInv
  <1> QED BY <1>1, LongAlways, PTL

\* A division by zero answers all ones for every operand width, though the
\* operand wires may change while it runs (div_unit.sv, RUN).
THEOREM ZeroDivisorAnswered == Spec => []ZeroDivisorQuotient
  <1>1. LongInv => ZeroDivisorQuotient
    BY DEF LongInv, ServeInv, DivisorInv, ZeroDivisorQuotient
  <1> QED BY <1>1, LongAlways, PTL

\* No two results are delivered under one counter, so no keystream of a result
\* is used twice under one key (se_unit.sv, ctr_counter).
THEOREM CountersNeverShared == Spec => CountersAreFresh
  <1>1. ASSUME LongInv, [Next]_vars
        PROVE  [\A c \in Ctrs :
                  Ex1SeDone /\ ~sresp.err /\ sresp.ct.ctr = c => c \notin issued]_vars
    <2>1. sresp.v => sst = "S_RESP"
      BY <1>1 DEF LongInv, ServeInv
    <2>2. Ex1SeDone => sresp.v
      BY DEF Ex1SeDone, se_answered
    <2>3. sst = "S_RESP" /\ ~sresp.err => sresp.ct.ctr \notin issued
      <3>1. MAXCTR \in Nat
        BY SeAssumption
      <3> QED BY <1>1, <3>1 DEF LongInv, CounterInv
    <2> QED BY <2>1, <2>2, <2>3
  <1> QED BY <1>1, LongAlways, PTL DEF Spec, CountersAreFresh
=============================================================================

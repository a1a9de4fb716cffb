-------------------------------- MODULE LongOps ------------------------------
(***************************************************************************)
(* The EX1 stage of rv64_core_7stage around its two long operations: an    *)
(* SE or division instruction holds EX1 until its unit has answered, while *)
(* MEM1 may stall, younger instructions may be flushed and the key may be  *)
(* replaced.  The stage's other inputs are free: on any edge MEM1 may be   *)
(* stalled, a redirect (fault of an older or of a fetched instruction) may *)
(* come, and the forwarded operands of a division may change.              *)
(***************************************************************************)
EXTENDS SeUnit, DivUnit

CONSTANT SeReqs   \* the SE instructions of the program

ASSUME SeReqsAssumption == SeReqs \subseteq SeReq

VARIABLES
  ex1,        \* ex1_valid and kind; started, done and result of its long operation
  ext_mode,   \* se_ext_mode: keys come from the key manager, not from CSRs
  se_enable,  \* se_enable_eff
  issued      \* history: the counters of the results delivered so far

envVars == <<ext_mode, se_enable>>
vars    == <<seVars, div, ex1, envVars, issued>>

\* Of a division, divisor is history: the divisor the unit started with.  Of an
\* SE instruction, err is history: the error bit when its response was taken.
Empty == [kind |-> "none", rq |-> NoSe, rem |-> FALSE, sgn |-> FALSE,
          started |-> FALSE, done |-> FALSE, res |-> NoCt, y |-> 0,
          divisor |-> 0, err |-> FALSE]

\* The SE-CSR write stands for every short instruction that matters here.
CsrWrite           == [Empty EXCEPT !.kind = "csr"]
Division(rem, sgn) == [Empty EXCEPT !.kind = "div", !.rem = rem, !.sgn = sgn]
SeInstr(rq)        == [Empty EXCEPT !.kind = "se", !.rq = rq]

Instr ==
  {Empty, CsrWrite} \union {Division(m, s) : m, s \in BOOLEAN}
    \union {SeInstr(q) : q \in SeReqs}

\* Every register of EX1 and of its units holds a number of its width or one of
\* its states: negation, shifts and subtractions of the divider stay within W
\* bits, the SE counter and the pipeline of the FPU within theirs.
TypeOK ==
  /\ SeTypeOK /\ DivTypeOK
  /\ ex1 \in [kind : {"none", "csr", "div", "se"}, rq : SeReqs \union {NoSe},
              rem : BOOLEAN, sgn : BOOLEAN, started : BOOLEAN, done : BOOLEAN,
              res : Cipher, y : Val, divisor : Val, err : BOOLEAN]
  /\ ext_mode \in BOOLEAN /\ se_enable \in BOOLEAN
  /\ issued \subseteq 1 .. MAXCTR

Init ==
  /\ SeInit /\ DivInit
  /\ ex1 = Empty
  /\ ext_mode \in BOOLEAN /\ se_enable \in BOOLEAN
  /\ issued = {}

-----------------------------------------------------------------------------
(* The wires of EX1.                                                       *)

se_wait   == ex1.kind = "se" /\ ~ex1.done
div_wait  == ex1.kind = "div" /\ ~ex1.done
\* Mutant: only divisions hold EX1.
stall_ex1_div_only == div_wait

stall_ex1 == se_wait \/ div_wait

\* se_req_valid with its operands, and div_start.
SeRequest == IF ex1.kind = "se" /\ se_enable /\ ~ex1.started THEN ex1.rq ELSE NoSe
div_start == ex1.kind = "div" /\ ~ex1.started /\ ~div_busy

se_accepted  == SeRequest # NoSe /\ sst = "S_IDLE"
se_answered  == ex1.kind = "se" /\ ex1.started /\ ~ex1.done /\ sresp.v
div_answered == ex1.kind = "div" /\ ex1.started /\ ~ex1.done /\ div.done

\* EX1 moves on, and takes what ID holds, or a bubble on a redirect or a stalled
\* ID.  The bound on the counter is a bound on the SE instructions of a run.
Ex1Shift ==
  /\ ~stall_ex1
  /\ ex1' \in Instr
  /\ ex1'.kind = "se" => ctr_counter <= MAXCTR
  /\ UNCHANGED issued

Ex1SeStart  == se_accepted /\ ex1' = [ex1 EXCEPT !.started = TRUE] /\ UNCHANGED issued

Ex1DivStart(b) ==
  /\ div_start
  /\ ex1' = [ex1 EXCEPT !.started = TRUE, !.divisor = b]
  /\ UNCHANGED issued

Ex1SeDone ==
  /\ se_answered
  /\ ex1' = [ex1 EXCEPT !.done = TRUE, !.res = sresp.ct, !.err = sresp.err]
  /\ issued' = IF sresp.err THEN issued ELSE issued \union {sresp.ct.ctr}

Ex1DivDone ==
  /\ div_answered
  /\ ex1' = [ex1 EXCEPT !.done = TRUE, !.y = div_y(ex1.rem)]
  /\ UNCHANGED issued

Ex1Hold(mem1Stall) ==
  /\ stall_ex1 \/ mem1Stall
  /\ ~se_accepted /\ ~div_start /\ ~se_answered /\ ~div_answered
  /\ UNCHANGED <<ex1, issued>>

Ex1Edge(mem1Stall, b) ==
  \/ ~mem1Stall /\ Ex1Shift
  \/ Ex1SeStart
  \/ Ex1DivStart(b)
  \/ Ex1SeDone
  \/ Ex1DivDone
  \/ Ex1Hold(mem1Stall)

-----------------------------------------------------------------------------
\* A write to the SE CSRs commits: it pulses key_update and may change the key
\* or the enable bit.
csr_commit(mem1Stall) == ex1.kind = "csr" /\ ~mem1Stall

\* What is loaded on this edge, and the enable bit after it.
KeyLoads(mem1Stall) ==
  IF ext_mode THEN Keys \union {NoKey}
  ELSE IF csr_commit(mem1Stall) THEN Keys ELSE {NoKey}

EnableEdge(mem1Stall) ==
  /\ ext_mode' = ext_mode
  /\ se_enable' \in IF ext_mode \/ csr_commit(mem1Stall) THEN BOOLEAN ELSE {se_enable}

\* One clock edge.  a and b are the operand wires of the divider.
Clock(mem1Stall, load, a, b) ==
  /\ Ex1Edge(mem1Stall, b)
  /\ SeEdge(SeRequest, load)
  /\ DivEdge(div_start, ex1.sgn, a, b)
  /\ EnableEdge(mem1Stall)

\* The wires that are looked at: MEM1's stall only when EX1 could move, the
\* operands only where a division starts or looks for its special cases.
Stalls   == IF stall_ex1 THEN {FALSE} ELSE BOOLEAN
Operands ==
  IF div_start \/ (div.st = "RUN" /\ (ex1.sgn \/ div.divisor = 0)) THEN Val ELSE {0}

Next ==
  \E mem1Stall \in Stalls :
    \E load \in KeyLoads(mem1Stall) :
      \E a, b \in Operands : Clock(mem1Stall, load, a, b)

Spec     == Init /\ [][Next]_vars
FairSpec == Spec /\ WF_vars(Next)   \* the clock runs

-----------------------------------------------------------------------------
\* A unit works only for the instruction that is in EX1: no redirect, stall or
\* fault makes the instruction leave while its unit runs, and no answer comes
\* when nobody waits for it (rv64_core_7stage.sv, ex1_enable).
UnitsServeEx1 ==
  /\ sst # "S_IDLE" <=> ex1.kind = "se" /\ ex1.started /\ ~ex1.done
  /\ div_busy \/ div.done <=> ex1.kind = "div" /\ ex1.started /\ ~ex1.done

\* mem1_ewen looks at the unit's error bit when the instruction leaves EX1, not
\* when the response was taken: the bit is still the one of its response,
\* however long MEM1 holds the instruction back.
ErrorBitIsItsOwn == ex1.kind = "se" /\ ex1.done => sresp.err = ex1.err

\* Results never share a counter.
CountersAreFresh ==
  [][\A c \in Ctrs : Ex1SeDone /\ ~sresp.err /\ sresp.ct.ctr = c => c \notin issued]_vars

\* A division that started with a zero divisor has the quotient of all ones,
\* whatever the operand wires did afterwards.
ZeroDivisorQuotient ==
  ex1.kind = "div" /\ ex1.done /\ ~ex1.rem /\ ex1.divisor = 0 => ex1.y = AllOnes

\* An SE instruction that finds the unit enabled gets its response, and so does
\* a division: EX1 is not held for ever.
SeCompletes  == (ex1.kind = "se" /\ se_enable) ~> ex1.done
DivCompletes == (ex1.kind = "div") ~> ex1.done

\* tb_se_unit.sv:157, `if (out_pt !== exp)`: the response decrypts to the operation on the decrypted
\* operands.
ResultDecrypts ==
  ex1.kind = "se" /\ ex1.done /\ ~ex1.err =>
    Plain(ex1.res, aes_key) =
      Operate(ex1.rq.op, Plain(ex1.rq.a, aes_key), Plain(ex1.rq.b, aes_key))
=============================================================================

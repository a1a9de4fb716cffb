--------------------------- MODULE FirmwareProofs ----------------------------
(***************************************************************************)
(* The BIOS and its programs, for every size of the buffer, the memory, a  *)
(* word, the arrays and the diagrams, every base, and whatever is typed:   *)
(* the terminal shows the token, the loader takes what the host sends, the *)
(* memory is as typed, both sorts sort, mmult() returns the sum of the     *)
(* elements of B, and the diagrams of bdd() are reduced, add the partial   *)
(* products, fit in their arrays, and have their nodes counted once.       *)
(***************************************************************************)
EXTENDS Firmware, Arithmetic, FiniteSetTheorems, SequenceTheorems, TLAPS

-----------------------------------------------------------------------------
(* The inductive invariant.                                                *)

Line == Seq(Int)
Terminals == [edge : BOOLEAN, left : Line, right : Line]

IInv ==
  /\ buf \in Line /\ term \in Terminals
  /\ cmd \in Commands \union {"none"}
  /\ ScreenShowsToken

-----------------------------------------------------------------------------
(* The terminal.                                                           *)

LEMMA FrontOfAppend ==
  ASSUME NEW line \in Line, NEW x \in Int
  PROVE  /\ Append(line, x) \in Line /\ Append(line, x) # <<>>
         /\ Front(Append(line, x)) = line /\ Last(Append(line, x)) = x
BY DEF Front, Last, Line

LEMMA TailOfOne ==
  ASSUME NEW x \in Int
  PROVE  <<x>> \in Line /\ <<x>> # <<>> /\ Tail(<<x>>) = <<>>
<1>1. <<x>> \in Seq(Int) /\ <<x>> # <<>> /\ Len(<<x>>) = 1
  OBVIOUS
<1>2. Tail(<<x>>) = SubSeq(<<x>>, 2, 1)
  BY <1>1, TailIsSubSeq
<1>3. SubSeq(<<x>>, 2, 1) = <<>>
  BY <1>1, SubSeqEmpty
<1> QED
  BY <1>1, <1>2, <1>3 DEF Line

LEMMA FrontType ==
  ASSUME NEW line \in Line, line # <<>>
  PROVE  Front(line) \in Line /\ Last(line) \in Int
BY DEF Front, Last, Line

LEMMA Characters ==
  /\ BS \in Int /\ SP \in Int /\ CR \in Int /\ Letter \in Int
  /\ Letter \in 0 .. BS /\ SP # CR /\ SP # BS /\ CR # BS
  /\ \A ch \in 0 .. Letter : ch \in Int /\ ch # CR /\ ch # BS /\ ch # SP
<1>1. BASE \in Nat
  BY AsciiAssumption
<1> QED
  BY <1>1 DEF BS, SP, CR, Letter

\* A character is put at the end of a line.
LEMMA PutAtEnd ==
  ASSUME NEW t \in Terminals, t.right = <<>>, NEW ch \in Int, ch # CR, ch # BS
  PROVE  /\ uwrite_int8(t, ch) \in Terminals
         /\ uwrite_int8(t, ch).left = Append(t.left, ch)
         /\ uwrite_int8(t, ch).right = <<>>
<1>1. Append(t.left, ch) \in Line
  BY DEF Terminals, Line
<1> QED
  BY <1>1 DEF uwrite_int8, Put, Terminals

LEMMA EmptyLines ==
  /\ <<>> \in Line /\ Prompt \in Terminals /\ Prompt.left = <<>> /\ Prompt.right = <<>>
  /\ NewLine \in Terminals /\ NewLine.left = <<>> /\ NewLine.right = <<>>
  /\ \A t \in Terminals : /\ TokenStarts(t) \in Terminals
                          /\ TokenStarts(t).left = <<>> /\ TokenStarts(t).right = t.right
<1>1. <<>> \in Line
  BY DEF Line
<1>2. \A t \in Terminals : (t.edge /\ t.left = <<>>) \in BOOLEAN
  OBVIOUS
<1> QED
  BY <1>1, <1>2 DEF Prompt, NewLine, TokenStarts, Terminals

\* The character that ends a token leaves nothing to the right.
LEMMA EchoOfCharacter ==
  ASSUME IInv, AtBios, NEW ch \in Int, ch # BS
  PROVE  /\ Echo(ch) \in Terminals /\ Echo(ch).right = <<>>
         /\ ch # CR => Echo(ch).left = Append(buf, ch)
<1>1. term \in Terminals /\ term.left = buf /\ term.right = <<>>
  BY DEF IInv, ScreenShowsToken
<1>2. CASE ch = CR
  BY <1>2, EmptyLines DEF Echo, uwrite_int8
<1>3. CASE ch # CR
  BY <1>1, <1>3, PutAtEnd DEF Echo
<1> QED
  BY <1>2, <1>3

\* A backspace, a blank and a backspace again take the last character away.
LEMMA EraseLast ==
  ASSUME IInv, AtBios, buf # <<>>,
         NEW t, t = uwrite_int8(uwrite_int8(Echo(BS), SP), BS)
  PROVE  t \in Terminals /\ t.left = Front(buf) /\ t.right = <<>>
<1>1. term \in Terminals /\ term.left = buf /\ term.right = <<>> /\ buf \in Line
  BY DEF IInv, ScreenShowsToken
<1>2. Front(buf) \in Line /\ Last(buf) \in Int
  BY <1>1, FrontType
<1>3. PICK t1 : t1 = Echo(BS)
  OBVIOUS
<1>4. t1 \in Terminals /\ t1.left = Front(buf) /\ t1.right \in {<<>>, <<Last(buf)>>}
  <2>1. t1 = [term EXCEPT !.left = Front(buf), !.right = Covering(Last(buf), <<>>)]
    BY <1>1, <1>3, Characters DEF Echo, uwrite_int8, Back
  <2>2. /\ Covering(Last(buf), <<>>) \in {<<>>, <<Last(buf)>>}
        /\ <<>> \in Line /\ <<Last(buf)>> \in Line
    BY <1>2 DEF Covering, Line
  <2> QED
    BY <1>1, <1>2, <2>1, <2>2 DEF Terminals
<1>5. PICK t2 : t2 = uwrite_int8(t1, SP)
  OBVIOUS
<1>6. t2 \in Terminals /\ t2.left = Append(Front(buf), SP) /\ t2.right = <<>>
  <2>1. t2 = [t1 EXCEPT !.left = Append(t1.left, SP),
                        !.right = IF t1.right = <<>> THEN <<>> ELSE Tail(t1.right)]
    BY <1>5, Characters DEF uwrite_int8, Put
  <2>2. (IF t1.right = <<>> THEN <<>> ELSE Tail(t1.right)) = <<>>
    BY <1>2, <1>4, TailOfOne
  <2>3. Append(Front(buf), SP) \in Line /\ <<>> \in Line
    BY <1>2, Characters, FrontOfAppend DEF Line
  <2> QED
    BY <1>4, <2>1, <2>2, <2>3 DEF Terminals
<1>7. /\ t = [t2 EXCEPT !.left = Front(t2.left), !.right = Covering(Last(t2.left), <<>>)]
      /\ Front(t2.left) = Front(buf) /\ Last(t2.left) = SP
  <2>1. t = uwrite_int8(t2, BS)
    BY <1>3, <1>5
  <2>2. Front(t2.left) = Front(buf)
    BY <1>2, <1>6, Characters, FrontOfAppend
  <2>3. t2.left # <<>> /\ Last(t2.left) = SP
    BY <1>2, <1>6, Characters, FrontOfAppend
  <2> QED
    BY <1>6, <2>1, <2>2, <2>3, Characters DEF uwrite_int8, Back
<1>8. Covering(SP, <<>>) = <<>> /\ <<>> \in Line
  BY DEF Covering, Line
<1> QED
  BY <1>2, <1>6, <1>7, <1>8 DEF Terminals

-----------------------------------------------------------------------------
(* The steps.                                                              *)

\* An empty token at the start of a line keeps the invariant.
LEMMA TokenEmpty ==
  ASSUME buf' = <<>>, term' \in Terminals, term'.left = <<>>, term'.right = <<>>,
         cmd' \in Commands \union {"none"}
  PROVE  IInv'
BY EmptyLines DEF IInv, ScreenShowsToken

LEMMA AtPrompt ==
  ASSUME NEW c, NEW tokens, NEW printed, Done(c, tokens, printed)
  PROVE  IInv'
BY TokenEmpty, EmptyLines DEF Done

LEMMA FileStep ==
  ASSUME NEW tokens, file(tokens)
  PROVE  IInv'
<1>1. CASE Done("file", tokens, <<>>)
  BY <1>1, AtPrompt
<1>2. CASE cmd' = "file" /\ buf' = <<>> /\ term' = Prompt
  BY <1>2, TokenEmpty, EmptyLines DEF Commands
<1> QED
  BY <1>1, <1>2 DEF file

LEMMA TokenReadStep ==
  ASSUME IInv, NEW token, NEW shown \in Terminals, shown.right = <<>>,
         TokenRead(token, shown)
  PROVE  IInv'
<1> DEFINE tokens == Append(args, token)
           Next1(c, a) == /\ cmd' = c /\ args' = a /\ buf' = <<>>
                          /\ term' = TokenStarts(shown)
<1>1. ASSUME NEW c \in Commands, NEW a, Next1(c, a) PROVE IInv'
  BY <1>1, TokenEmpty, EmptyLines
<1>2. CASE cmd = "none"
  <2>1. \/ \E c \in Commands : Next1(c, <<>>)
        \/ Done("none", <<>>, token)
    BY <1>2 DEF TokenRead
  <2> QED
    BY <1>1, <2>1, AtPrompt
<1>3. CASE cmd # "none" /\ Len(tokens) < Expected(cmd)
  <2>1. Next1(cmd, tokens) /\ cmd \in Commands
    BY <1>3 DEF TokenRead, IInv
  <2> QED
    BY <1>1, <2>1
<1>4. CASE cmd # "none" /\ ~(Len(tokens) < Expected(cmd))
  <2>1. \/ file(tokens) \/ jal(tokens) \/ lx(cmd, tokens) \/ sx(cmd, tokens)
    BY <1>4 DEF TokenRead, IInv, Commands
  <2> QED
    BY <2>1, FileStep, AtPrompt DEF jal, lx, sx
<1> QED
  BY <1>2, <1>3, <1>4

LEMMA EditingStep ==
  ASSUME IInv, NEW b \in Line, NEW shown \in Terminals, shown.left = b, shown.right = <<>>,
         Editing(b, shown)
  PROVE  IInv'
BY DEF Editing, IInv, ScreenShowsToken

LEMMA BackspaceStep == IInv /\ Backspace => IInv'
<1> SUFFICES ASSUME IInv, Backspace PROVE IInv'
  OBVIOUS
<1>1. AtBios /\ term \in Terminals /\ term.left = buf /\ term.right = <<>> /\ buf \in Line
  BY DEF Backspace, IInv, ScreenShowsToken
<1>2. CASE buf # <<>>
  <2>1. PICK t : t = uwrite_int8(uwrite_int8(Echo(BS), SP), BS)
    OBVIOUS
  <2>2. t \in Terminals /\ t.left = Front(buf) /\ t.right = <<>>
    BY <1>1, <1>2, <2>1, EraseLast
  <2> QED
    BY <1>1, <1>2, <2>1, <2>2, FrontType, EditingStep DEF Backspace
<1>3. CASE buf = <<>>
  \* The cursor moves back one column, if there is one, and a blank moves it forth.
  <2>1. PICK t1 : t1 = Echo(BS)
    OBVIOUS
  <2>2. t1 \in Terminals /\ t1.right \in {<<>>, <<Letter>>}
    <3>1. t1 \in {term, [term EXCEPT !.right = <<Letter>> \o term.right]}
      BY <1>1, <1>3, <2>1, Characters DEF Echo, uwrite_int8, Back
    <3>2. <<Letter>> \o <<>> = <<Letter>> /\ <<Letter>> \in Line
      BY Characters DEF Line
    <3> QED
      BY <1>1, <3>1, <3>2 DEF Terminals
  <2>3. PICK t2 : t2 = uwrite_int8(t1, SP)
    OBVIOUS
  <2>4. t2 \in Terminals /\ t2.right = <<>>
    <3>1. t2 = [t1 EXCEPT !.left = Append(t1.left, SP),
                          !.right = IF t1.right = <<>> THEN <<>> ELSE Tail(t1.right)]
      BY <2>3, Characters DEF uwrite_int8, Put
    <3>2. Append(t1.left, SP) \in Line /\ <<>> \in Line
      BY <2>2, Characters, FrontOfAppend DEF Terminals, Line
    <3>3. (IF t1.right = <<>> THEN <<>> ELSE Tail(t1.right)) = <<>>
      BY <2>2, Characters, TailOfOne
    <3> QED
      BY <2>2, <3>1, <3>2, <3>3 DEF Terminals
  <2>5. /\ TokenStarts(t2) \in Terminals /\ TokenStarts(t2).left = <<>>
        /\ TokenStarts(t2).right = <<>>
    BY <2>4, EmptyLines
  <2> QED
    BY <1>1, <1>3, <2>1, <2>3, <2>5, EditingStep DEF Backspace
<1> QED
  BY <1>2, <1>3

LEMMA CharacterStep == IInv /\ (Character \/ Delimiter) => IInv'
<1> SUFFICES ASSUME IInv, Character \/ Delimiter PROVE IInv'
  OBVIOUS
<1>1. AtBios /\ buf \in Line
  BY DEF Character, Delimiter, IInv
<1>2. CASE Character
  <2>1. PICK ch \in 0 .. Letter :
          IF Len(buf) + 1 < BUFFER_LEN THEN Editing(Append(buf, ch), Echo(ch))
          ELSE TokenRead(buf, Echo(ch))
    BY <1>2 DEF Character
  <2>2. ch \in Int /\ ch # BS /\ ch # CR
    BY Characters
  <2>3. Echo(ch) \in Terminals /\ Echo(ch).right = <<>> /\ Echo(ch).left = Append(buf, ch)
    BY <1>1, <2>2, EchoOfCharacter
  <2> QED
    BY <1>1, <2>1, <2>2, <2>3, FrontOfAppend, EditingStep, TokenReadStep
<1>3. CASE Delimiter
  <2>1. PICK ch \in Delimiters : TokenRead(buf, Echo(ch))
    BY <1>3 DEF Delimiter
  <2>2. ch \in Int /\ ch # BS
    BY Characters DEF Delimiters
  <2>3. Echo(ch) \in Terminals /\ Echo(ch).right = <<>>
    BY <1>1, <2>2, EchoOfCharacter
  <2> QED
    BY <2>1, <2>3, TokenReadStep
<1> QED
  BY <1>2, <1>3

LEMMA FileDigitStep == IInv /\ FileDigit => IInv'
<1> SUFFICES ASSUME IInv, FileDigit PROVE IInv'
  OBVIOUS
<1>1. PICK ch \in 0 .. BASE - 1 :
        \/ buf' = Append(buf, ch) /\ UNCHANGED <<cmd, args>>
        \/ /\ buf' = <<>>
           /\ UNCHANGED <<cmd, args>> \/ (cmd' = "none" /\ args' = <<>>)
  BY DEF FileDigit
<1>2. running' = "bios" /\ Loading /\ term' = Prompt
  BY DEF FileDigit
<1>3. CASE buf' = Append(buf, ch) /\ UNCHANGED <<cmd, args>>
  <2>1. Append(buf, ch) \in Line
    BY FrontOfAppend DEF IInv
  <2>2. ~AtBios'
    BY <1>2, <1>3 DEF AtBios, Loading
  <2> QED
    BY <1>2, <1>3, <2>1, <2>2, EmptyLines DEF IInv, ScreenShowsToken
<1>4. CASE buf' = <<>> /\ cmd' \in {cmd, "none"}
  BY <1>2, <1>4, EmptyLines, TokenEmpty DEF IInv
<1> QED
  BY <1>1, <1>3, <1>4

LEMMA InitHolds == Init => IInv
<1> SUFFICES ASSUME Init PROVE IInv
  OBVIOUS
<1>1. buf = <<>> /\ term = Prompt /\ cmd = "none"
  BY DEF Init, BiosInit, Idle
<1> QED
  BY <1>1, EmptyLines DEF IInv, ScreenShowsToken

LEMMA StepHolds == IInv /\ [Next]_vars => IInv'
<1> SUFFICES ASSUME IInv, [Next]_vars PROVE IInv'
  OBVIOUS
<1>1. CASE BiosActs
  BY <1>1, BackspaceStep, CharacterStep, FileDigitStep DEF BiosActs, BiosStep
<1>2. CASE UNCHANGED biosVars
  BY <1>2 DEF biosVars, IInv, ScreenShowsToken, AtBios, Loading
<1>3. ASSUME NEW l, MainStarts(l) PROVE IInv'
  BY <1>3, TokenEmpty, EmptyLines DEF MainStarts
<1>4. CASE ProgramEnds
  BY <1>3, <1>4 DEF ProgramEnds, run_and_time
<1>5. CASE Reset
  BY <1>2, <1>3, <1>5 DEF Reset
<1> QED
  BY <1>1, <1>2, <1>4, <1>5 DEF Next, ProgramRuns, BddRuns, vars

-----------------------------------------------------------------------------
\* read_token() keeps what stands on the terminal and what it holds of the token
\* the same through every backspace, command, program and reset.
THEOREM TokenIsShown == Spec => []ScreenShowsToken
<1>1. IInv => ScreenShowsToken
  BY DEF IInv
<1> QED
  BY <1>1, InitHolds, StepHolds, PTL DEF Spec

-----------------------------------------------------------------------------
(* The conversions of ascii.c, for every base and number of digits.        *)

LEMMA NumbersDef ==
  ASSUME NEW str \in Seq(Nat), NEW base \in Nat
  PROVE  Numbers(str, base) =
           [i \in 0 .. Len(str) |->
              IF i = 0 THEN 0
              ELSE IF str[i] < base THEN Numbers(str, base)[i - 1] * base + str[i]
              ELSE Numbers(str, base)[i - 1]]
<1> DEFINE Eq(g, k) ==
             g = [i \in 0 .. k |->
                    IF i = 0 THEN 0
                    ELSE IF str[i] < base THEN g[i - 1] * base + str[i] ELSE g[i - 1]]
           S == {k \in 0 .. Len(str) : \E g : Eq(g, k)}
<1>0. Len(str) \in Nat
  OBVIOUS
<1>1. 0 \in S
  <2>1. Eq([i \in 0 .. 0 |-> 0], 0)
    OBVIOUS
  <2>2. \E g : Eq(g, 0)
    <3> HIDE DEF Eq
    <3> QED
      BY <2>1
  <2> HIDE DEF Eq
  <2> QED
    BY <1>0, <2>2
<1>2. ASSUME NEW k \in 0 .. Len(str) - 1, k \in S PROVE k + 1 \in S
  <2>1. PICK g : Eq(g, k)
    BY <1>2
  <2> DEFINE h == [i \in 0 .. k + 1 |->
                     IF i = 0 THEN 0
                     ELSE IF str[i] < base THEN g[i - 1] * base + str[i] ELSE g[i - 1]]
  <2>2. ASSUME NEW i \in 0 .. k PROVE h[i] = g[i]
    BY <2>1
  <2>3. ASSUME NEW i \in 0 .. k + 1
        PROVE  h[i] = IF i = 0 THEN 0
                      ELSE IF str[i] < base THEN h[i - 1] * base + str[i] ELSE h[i - 1]
    <3>1. CASE i = 0
      BY <3>1
    <3>2. CASE i # 0
      <4>1. i - 1 \in 0 .. k
        BY <3>2
      <4>2. h[i - 1] = g[i - 1]
        BY <2>2, <4>1
      <4> QED
        BY <3>2, <4>2
    <3> QED
      BY <3>1, <3>2
  <2>4. Eq(h, k + 1)
    <3>1. h = [i \in 0 .. k + 1 |-> h[i]]
      OBVIOUS
    <3> HIDE DEF h
    <3> QED
      BY <2>3, <3>1
  <2>5. \E g_1 : Eq(g_1, k + 1)
    <3> HIDE DEF h, Eq
    <3> QED
      BY <2>4
  <2> HIDE DEF Eq
  <2> QED
    BY <1>0, <2>5
<1>3. Len(str) \in S
  <2> HIDE DEF S
  <2>1. 0 .. Len(str) \subseteq S
    BY <1>0, <1>1, <1>2, UpTo
  <2> QED
    BY <1>0, <2>1
<1>4. PICK g : Eq(g, Len(str))
  BY <1>3
<1> DEFINE p == CHOOSE g_1 : Eq(g_1, Len(str))
<1>5. Eq(p, Len(str))
  BY <1>4
<1>6. Numbers(str, base) = p
  BY DEF Numbers
<1> QED
  BY <1>5, <1>6

\* One character more; the number has no more digits than there are characters.
LEMMA NumbersNext ==
  ASSUME NEW str \in Seq(Nat), NEW base \in Nat \ {0}
  PROVE  /\ Numbers(str, base)[0] = 0
         /\ \A i \in 0 .. Len(str) - 1 :
              Numbers(str, base)[i + 1] = IF str[i + 1] < base
                                        THEN Numbers(str, base)[i] * base + str[i + 1]
                                        ELSE Numbers(str, base)[i]
<1> DEFINE t == Numbers(str, base)
<1>1. t = [i \in 0 .. Len(str) |->
             IF i = 0 THEN 0
             ELSE IF str[i] < base THEN t[i - 1] * base + str[i] ELSE t[i - 1]]
  BY NumbersDef
<1> HIDE DEF t
<1>2. t[0] = 0
  BY <1>1
<1>3. ASSUME NEW i \in 0 .. Len(str) - 1
      PROVE  t[i + 1] = IF str[i + 1] < base THEN t[i] * base + str[i + 1] ELSE t[i]
  <2>1. i + 1 \in 0 .. Len(str) /\ i + 1 # 0 /\ (i + 1) - 1 = i
    OBVIOUS
  <2> QED
    BY <1>1, <2>1
<1> QED
  BY <1>2, <1>3 DEF t

LEMMA NumbersBelow ==
  ASSUME NEW str \in Seq(Nat), NEW base \in Nat \ {0}, NEW width \in Nat, Len(str) <= width,
         NEW i \in 0 .. Len(str)
  PROVE  Numbers(str, base)[i] \in 0 .. Powers(base, width)[i] - 1
<1> DEFINE t == Numbers(str, base)
           p == Powers(base, width)
           S == {k \in 0 .. Len(str) : t[k] \in 0 .. p[k] - 1}
<1>1. /\ t[0] = 0
      /\ \A k \in 0 .. Len(str) - 1 :
           t[k + 1] = IF str[k + 1] < base THEN t[k] * base + str[k + 1] ELSE t[k]
  BY NumbersNext
<1>2. /\ p[0] = 1 /\ \A k \in 0 .. width - 1 : p[k + 1] = base * p[k]
  BY PowersNext
<1>3. \A k \in 0 .. width : p[k] \in Nat \ {0}
  BY PowersType
<1> HIDE DEF t, p
<1>4. 0 \in S
  BY <1>1, <1>2
<1>5. ASSUME NEW k \in 0 .. Len(str) - 1, k \in S PROVE k + 1 \in S
  <2>1. k \in 0 .. width - 1 /\ k \in 0 .. width /\ k + 1 \in 0 .. Len(str) /\ k + 1 \in 1 .. Len(str)
    OBVIOUS
  <2>2. t[k] \in 0 .. p[k] - 1 /\ p[k] \in Nat \ {0} /\ p[k + 1] = base * p[k]
    BY <1>2, <1>3, <1>5, <2>1
  <2>3. str[k + 1] \in Nat
    BY <2>1
  <2>4. CASE str[k + 1] < base
    <3>1. str[k + 1] \in 0 .. base - 1 /\ t[k + 1] = t[k] * base + str[k + 1]
      BY <1>1, <2>3, <2>4
    <3> QED
      BY <2>1, <2>2, <3>1, OneDigitMore
  <2>5. CASE ~(str[k + 1] < base)
    <3>1. t[k + 1] = t[k] /\ 0 \in 0 .. base - 1
      BY <1>1, <2>5
    <3> QED
      BY <2>1, <2>2, <3>1, OneDigitMore
  <2> QED
    BY <2>4, <2>5
<1>6. 0 .. Len(str) \subseteq S
  <2> HIDE DEF S
  <2> QED
    BY <1>4, <1>5, UpTo, Len(str) \in Nat
<1> QED
  BY <1>6 DEF t, p

LEMMA NumberType ==
  ASSUME NEW str \in Seq(Nat), NEW base \in Nat \ {0}
  PROVE  Number(str, base) \in Nat
<1>1. Powers(base, Len(str))[Len(str)] \in Nat
  BY PowersType
<1>2. Numbers(str, base)[Len(str)] \in 0 .. Powers(base, Len(str))[Len(str)] - 1
  BY NumbersBelow
<1> QED
  BY <1>1, <1>2 DEF Number

\* What is typed as digits are the digits of the number.
LEMMA DigitsOfNumber ==
  ASSUME NEW str \in Seq(Nat), NEW base \in Nat \ {0}, NEW width \in Nat, Len(str) <= width,
         \A i \in 1 .. Len(str) : str[i] < base,
         NEW n \in 0 .. width - 1
  PROVE  (Number(str, base) \div Powers(base, width)[n]) % base = Digit(str, n)
<1> DEFINE t == Numbers(str, base)
           p == Powers(base, width)
           D(k, j) == IF j < k THEN str[k - j] ELSE 0
           S == {k \in 0 .. Len(str) : \A j \in 0 .. width - 1 : (t[k] \div p[j]) % base = D(k, j)}
<1>1. /\ t[0] = 0
      /\ \A k \in 0 .. Len(str) - 1 :
           t[k + 1] = IF str[k + 1] < base THEN t[k] * base + str[k + 1] ELSE t[k]
  BY NumbersNext
<1>2. /\ p[0] = 1 /\ \A k \in 0 .. width - 1 : p[k + 1] = base * p[k]
  BY PowersNext
<1>3. \A k \in 0 .. width : p[k] \in Nat \ {0}
  BY PowersType
<1>4. \A k \in 0 .. Len(str) : t[k] \in Nat
  <2>1. \A k \in 0 .. Len(str) : t[k] \in 0 .. p[k] - 1
    BY NumbersBelow
  <2> HIDE DEF t, p
  <2> QED
    BY <2>1
<1> HIDE DEF t, p
<1>5. 0 \in S
  <2>1. ASSUME NEW j \in 0 .. width - 1 PROVE (0 \div p[j]) % base = 0
    <3>1. p[j] \in Nat \ {0}
      BY <1>3
    <3>2. 0 \div p[j] = 0
      <4> DEFINE q == p[j]
      <4> HIDE DEF q
      <4>1. q \in Nat \ {0} => 0 \div q = 0
        OBVIOUS
      <4> QED
        BY <3>1, <4>1 DEF q
    <3> QED
      BY <3>2
  <2>2. \A j \in 0 .. width - 1 : D(0, j) = 0
    OBVIOUS
  <2> HIDE DEF D
  <2> QED
    BY <1>1, <2>1, <2>2
<1>6. ASSUME NEW k \in 0 .. Len(str) - 1, k \in S PROVE k + 1 \in S
  <2> DEFINE x == t[k]
             d == str[k + 1]
  <2>1. /\ t[k + 1] = x * base + d /\ x \in Nat /\ d \in 0 .. base - 1
        /\ k + 1 \in 0 .. Len(str) /\ k \in 0 .. Len(str)
    <3>1. k + 1 \in 1 .. Len(str) /\ k \in 0 .. Len(str)
      OBVIOUS
    <3>2. d \in Nat /\ d < base
      BY <3>1
    <3> QED
      BY <1>1, <1>4, <3>1, <3>2
  <2>2. \A j \in 0 .. width - 1 : (x \div p[j]) % base = D(k, j)
    BY <1>6
  <2>3. D(k + 1, 0) = d
    OBVIOUS
  <2>4. ASSUME NEW j \in 1 .. width - 1 PROVE D(k + 1, j) = D(k, j - 1)
    BY <2>4
  <2> HIDE DEF x, d, D
  <2>5. /\ (x * base + d) % base = d /\ (x * base + d) \div base = x /\ x * base + d \in Nat
    <3>1. x * base + d \in Nat /\ x * base + d = base * x + d /\ d \in Nat
      BY <2>1
    <3> QED
      BY <2>1, <3>1, DivModIs
  <2>6. ASSUME NEW j \in 0 .. width - 1
        PROVE  (t[k + 1] \div p[j]) % base = D(k + 1, j)
    <3>1. CASE j = 0
      <4>1. (x * base + d) \div 1 = x * base + d
        BY <2>5
      <4> QED
        BY <1>2, <2>1, <2>3, <2>5, <3>1, <4>1
    <3>2. CASE j # 0
      <4>1. j - 1 \in 0 .. width - 1 /\ j - 1 \in 0 .. width /\ (j - 1) + 1 = j /\ j \in 1 .. width - 1
        BY <3>2
      <4>2. p[j] = base * p[j - 1] /\ p[j - 1] \in Nat \ {0}
        BY <1>2, <1>3, <4>1
      <4>3. (x * base + d) \div (base * p[j - 1]) = ((x * base + d) \div base) \div p[j - 1]
        BY <2>5, <4>2, DivDiv
      <4>4. t[k + 1] \div p[j] = x \div p[j - 1]
        BY <2>1, <2>5, <4>2, <4>3
      <4> QED
        BY <2>2, <2>4, <4>1, <4>4
    <3> QED
      BY <3>1, <3>2
  <2> QED
    BY <2>1, <2>6
<1>7. 0 .. Len(str) \subseteq S
  <2> HIDE DEF S
  <2> QED
    BY <1>5, <1>6, UpTo, Len(str) \in Nat
<1>8. (t[Len(str)] \div p[n]) % base = D(Len(str), n)
  BY <1>7
<1> QED
  BY <1>8 DEF Number, Digit, t, p

-----------------------------------------------------------------------------
(* Bytes and their digits.                                                 *)

LEMMA WeightFacts ==
  /\ BASE \in Nat \ {0} /\ DIGITS \in Nat \ {0} /\ WORD \in Nat \ {0}
  /\ DIGITS * WORD \in Nat \ {0} /\ DIGITS <= DIGITS * WORD
  /\ \A n \in 0 .. DIGITS * WORD : Weights[n] \in Nat \ {0}
  /\ \A n \in 0 .. DIGITS : Powers(BASE, DIGITS)[n] = Weights[n]
  /\ BYTE \in Nat \ {0} /\ BYTE = Powers(BASE, DIGITS)[DIGITS]
  /\ \A size \in 0 .. WORD : DIGITS * size \in 0 .. DIGITS * WORD
<1>1. BASE \in Nat \ {0} /\ DIGITS \in Nat \ {0} /\ WORD \in Nat \ {0}
  BY AsciiAssumption
<1>2. DIGITS * WORD \in Nat \ {0} /\ DIGITS <= DIGITS * WORD
  <2>1. DIGITS * WORD = DIGITS + DIGITS * (WORD - 1) /\ DIGITS * (WORD - 1) \in Nat
    BY <1>1
  <2> QED
    BY <1>1, <2>1
<1>3. \A n \in 0 .. DIGITS * WORD : Weights[n] \in Nat \ {0}
  BY <1>1, <1>2, PowersType DEF Weights
<1>4. \A n \in 0 .. DIGITS : Powers(BASE, DIGITS)[n] = Weights[n]
  <2>1. ASSUME NEW n \in 0 .. DIGITS PROVE Powers(BASE, DIGITS)[n] = Weights[n]
    <3>1. n \in Nat /\ n + 0 = n /\ 0 \in 0 .. 0 /\ n + 0 <= DIGITS * WORD
      BY <1>1, <1>2
    <3>2. Weights[n + 0] = Powers(BASE, DIGITS)[n] * Powers(BASE, 0)[0]
      BY <1>1, <1>2, <3>1, PowersSum DEF Weights
    <3>3. Powers(BASE, 0)[0] = 1 /\ Powers(BASE, DIGITS)[n] \in Nat
      BY <1>1, PowersNext, PowersType
    <3> QED
      BY <3>1, <3>2, <3>3
  <2> QED
    BY <2>1
<1>5. BYTE \in Nat \ {0} /\ BYTE = Powers(BASE, DIGITS)[DIGITS]
  BY <1>1, <1>2, <1>3, <1>4 DEF BYTE
<1>6. ASSUME NEW size \in 0 .. WORD PROVE DIGITS * size \in 0 .. DIGITS * WORD
  <2>1. /\ DIGITS * WORD = DIGITS * size + DIGITS * (WORD - size)
        /\ DIGITS * (WORD - size) \in Nat /\ DIGITS * size \in Nat
    BY <1>1
  <2> QED
    BY <1>2, <2>1
<1> QED
  BY <1>1, <1>2, <1>3, <1>4, <1>5, <1>6

\* Where digit n of a number stands: in which byte, and as which of its digits.
LEMMA PlaceOfDigit ==
  ASSUME NEW size \in Nat, NEW n \in 0 .. DIGITS * size - 1
  PROVE  /\ n \div DIGITS \in 0 .. size - 1 /\ n % DIGITS \in 0 .. DIGITS - 1
         /\ n = DIGITS * (n \div DIGITS) + (n % DIGITS)
<1> DEFINE k == DIGITS * size
<1>1. DIGITS \in Nat \ {0} /\ k \in Nat
  BY WeightFacts
<1>2. n \in Nat /\ n < k /\ size # 0
  BY <1>1
<1>3. n \div DIGITS < size
  BY <1>1, <1>2, DivBelow
<1> HIDE DEF k
<1>4. /\ n \div DIGITS \in Nat /\ n % DIGITS \in 0 .. DIGITS - 1
      /\ n = DIGITS * (n \div DIGITS) + (n % DIGITS)
  BY <1>1, <1>2, DivMod
<1> DEFINE q == n \div DIGITS
<1>5. q \in Nat /\ q < size => q \in 0 .. size - 1
  <2> HIDE DEF q
  <2> QED
    OBVIOUS
<1> QED
  BY <1>3, <1>4, <1>5

\* The digits of a byte of a number are digits of the number.
LEMMA ByteDigit ==
  ASSUME NEW x \in Nat, NEW size \in 0 .. WORD, NEW n \in 0 .. DIGITS * size - 1
  PROVE  (((x \div Powers(BYTE, WORD)[n \div DIGITS]) % BYTE) \div Weights[n % DIGITS]) % BASE
           = (x \div Weights[n]) % BASE
<1> DEFINE q == n \div DIGITS
           r == n % DIGITS
           y == x \div Weights[DIGITS * q]
<1>0. size \in Nat
  OBVIOUS
<1>1. q \in 0 .. size - 1 /\ r \in 0 .. DIGITS - 1 /\ n = DIGITS * q + r
  BY <1>0, PlaceOfDigit
<1> HIDE DEF q, r
<1>2. q \in 0 .. WORD /\ q \in Nat /\ r \in 0 .. DIGITS /\ r \in 0 .. DIGITS * WORD
  BY <1>1, WeightFacts
<1> DEFINE MAX == DIGITS * WORD
<1>3. DIGITS * q \in 0 .. MAX /\ Powers(BYTE, WORD)[q] = Weights[DIGITS * q]
  <2>1. MAX \in Nat /\ MAX <= MAX /\ Weights = Powers(BASE, MAX)
    BY WeightFacts DEF Weights
  <2>2. BASE \in Nat \ {0} /\ DIGITS \in Nat /\ WORD \in Nat
        /\ BYTE \in Nat \ {0} /\ BYTE = Powers(BASE, DIGITS)[DIGITS]
    BY WeightFacts
  <2>3. DIGITS * WORD <= MAX
    BY <2>1
  <2> HIDE DEF MAX
  <2>4. DIGITS * q \in 0 .. MAX /\ Powers(BYTE, WORD)[q] = Powers(BASE, MAX)[DIGITS * q]
    <3>1. q \in 0 .. WORD /\ MAX \in Nat
      BY <1>2, <2>1
    <3> QED
      BY <2>2, <2>3, <3>1, PowersPower, SMTT(30)
  <2> QED
    BY <2>1, <2>4
<1>4. DIGITS * q + r <= MAX /\ DIGITS * q + r \in 0 .. MAX
  <2> DEFINE k == DIGITS * size
  <2>1. MAX \in Nat /\ k \in 0 .. MAX /\ n \in 0 .. k - 1
    BY WeightFacts
  <2>2. n \in 0 .. MAX /\ n <= MAX
    <3> HIDE DEF k, MAX
    <3> QED
      BY <2>1
  <2> QED
    BY <1>1, <2>2
<1>5. Weights[DIGITS * q + r] = Weights[DIGITS * q] * Weights[r]
  <2> DEFINE e == DIGITS * q
  <2>1. MAX \in Nat /\ Weights = Powers(BASE, MAX) /\ BASE \in Nat \ {0}
    BY WeightFacts DEF Weights
  <2>2. e \in 0 .. MAX /\ r \in 0 .. MAX /\ e + r <= MAX
    BY <1>2, <1>3, <1>4
  <2> HIDE DEF e, MAX
  <2>3. Powers(BASE, MAX)[e + r] = Powers(BASE, MAX)[e] * Powers(BASE, MAX)[r]
    BY <2>1, <2>2, PowersSum
  <2> QED
    BY <2>1, <2>3 DEF e
<1>6. y \in Nat
  BY <1>3, WeightFacts, DivMod
<1>7. ((y % BYTE) \div Weights[r]) % BASE = (y \div Weights[r]) % BASE
  <2> HIDE DEF y
  <2>1. ((y % Powers(BASE, DIGITS)[DIGITS]) \div Powers(BASE, DIGITS)[r]) % BASE
          = (y \div Powers(BASE, DIGITS)[r]) % BASE
    BY <1>1, <1>6, WeightFacts, DigitOfRemainder
  <2> QED
    BY <1>2, <2>1, WeightFacts
<1>8. y \div Weights[r] = x \div (Weights[DIGITS * q] * Weights[r])
  BY <1>2, <1>3, WeightFacts, DivDiv
<1> QED
  BY <1>1, <1>3, <1>5, <1>7, <1>8 DEF q, r

\* What is written as a number is in the memory digit by digit.
LEMMA HoldsWritten ==
  ASSUME NEW a \in Nat, NEW size \in 0 .. WORD, a + size <= MEM, NEW x \in Nat, NEW token,
         \A n \in 0 .. DIGITS * size - 1 : (x \div Weights[n]) % BASE = Digit(token, n)
  PROVE  Holds(Written(a, size, x), a, size, token)
<1> DEFINE w == Written(a, size, x)
<1>1. ASSUME NEW n \in 0 .. DIGITS * size - 1
      PROVE  (w[a + n \div DIGITS] \div Weights[n % DIGITS]) % BASE = Digit(token, n)
  <2> DEFINE k == n \div DIGITS
  <2>1. k \in 0 .. size - 1
    BY PlaceOfDigit
  <2> HIDE DEF k
  <2>2. a + k \in Cells /\ a + k \in a .. a + size - 1 /\ (a + k) - a = k
    BY <2>1, BiosAssumption DEF Cells
  <2>3. w[a + k] = (x \div Powers(BYTE, WORD)[k]) % BYTE
    BY <2>2 DEF Written
  <2> HIDE DEF w
  <2>4. (((x \div Powers(BYTE, WORD)[k]) % BYTE) \div Weights[n % DIGITS]) % BASE
          = (x \div Weights[n]) % BASE
    BY ByteDigit DEF k
  <2> QED
    BY <2>3, <2>4 DEF k
<1> QED
  BY <1>1 DEF Holds

\* What is written are bytes, and nothing else changes.
LEMMA WrittenBytes ==
  ASSUME mem \in [Cells -> Bytes], NEW a \in Nat, NEW size \in 0 .. WORD, NEW x \in Nat
  PROVE  /\ Written(a, size, x) \in [Cells -> Bytes]
         /\ \A k \in Cells \ (a .. a + size - 1) : Written(a, size, x)[k] = mem[k]
<1>1. ASSUME NEW k \in Cells, k \in a .. a + size - 1
      PROVE  (x \div Powers(BYTE, WORD)[k - a]) % BYTE \in Bytes
  <2>1. k - a \in 0 .. WORD
    BY <1>1, WeightFacts
  <2>2. Powers(BYTE, WORD)[k - a] \in Nat \ {0}
    BY <2>1, WeightFacts, PowersType
  <2>3. x \div Powers(BYTE, WORD)[k - a] \in Nat
    BY <2>2, DivMod
  <2> QED
    BY <2>3, WeightFacts, DivMod DEF Bytes
<1> QED
  BY <1>1 DEF Written

\* What is printed of a number are its digits.
LEMMA DigitsPrinted ==
  ASSUME NEW x \in Nat, NEW size \in 0 .. WORD, NEW n \in 0 .. DIGITS * size - 1
  PROVE  Digit(to_ascii_hex(x, size, BUFFER_LEN), n) = (x \div Weights[n]) % BASE
<1> DEFINE k == DIGITS * size
           t == [i \in 1 .. k |-> (x \div Weights[k - i]) % BASE]
<1>1. k \in Nat /\ k < BUFFER_LEN /\ BUFFER_LEN \in Nat
  <2>1. k \in 0 .. DIGITS * WORD
    BY WeightFacts
  <2>2. DIGITS * WORD \in Nat
    BY WeightFacts
  <2> DEFINE MAX == DIGITS * WORD
  <2>3. BUFFER_LEN \in Nat /\ MAX < BUFFER_LEN
    BY BiosAssumption, <2>2
  <2> HIDE DEF k, MAX
  <2> QED
    BY <2>1, <2>2, <2>3 DEF MAX
<1>2. to_ascii_hex(x, size, BUFFER_LEN) = t
  BY <1>1 DEF to_ascii_hex
<1> HIDE DEF k
<1>3. Len(t) = k /\ k - n \in 1 .. k /\ k - (k - n) = n /\ n < k
  BY <1>1 DEF k
<1>4. t[k - n] = (x \div Weights[n]) % BASE
  BY <1>3
<1> HIDE DEF t
<1> QED
  BY <1>2, <1>3, <1>4 DEF Digit

\* What is read are the bytes of the memory.
LEMMA HoldsRead ==
  ASSUME mem \in [Cells -> Bytes], NEW a \in Nat, NEW size \in 0 .. WORD, a + size <= MEM
  PROVE  /\ ReadAt(a, size) \in Nat
         /\ Holds(mem, a, size, to_ascii_hex(ReadAt(a, size), size, BUFFER_LEN))
<1> DEFINE str == [k \in 1 .. size |-> mem[a + size - k]]
           x == ReadAt(a, size)
<1>1. \A k \in 1 .. size : a + size - k \in Cells
  BY BiosAssumption DEF Cells
<1>2. Bytes \subseteq Nat /\ \A y \in Bytes : y < BYTE
  BY WeightFacts DEF Bytes
<1>3. str \in Seq(Nat) /\ Len(str) = size /\ \A i \in 1 .. Len(str) : str[i] < BYTE
  <2>1. \A i \in 1 .. size : str[i] \in Nat /\ str[i] < BYTE
    BY <1>1, <1>2
  <2>2. str = [i \in 1 .. size |-> str[i]] /\ size \in Nat
    OBVIOUS
  <2> HIDE DEF str
  <2>3. str \in [1 .. size -> Nat]
    BY <2>1, <2>2
  <2>4. str \in Seq(Nat) /\ Len(str) = size
    BY <2>2, <2>3
  <2> QED
    BY <2>1, <2>4
<1>4. x \in Nat
  <2>1. x = Number(str, BYTE)
    BY DEF ReadAt
  <2> HIDE DEF str, x
  <2> QED
    BY <1>3, <2>1, WeightFacts, NumberType
<1>5. ASSUME NEW q \in 0 .. size - 1
      PROVE  (x \div Powers(BYTE, WORD)[q]) % BYTE = mem[a + q]
  <2>1. size - q \in 1 .. size /\ a + size - (size - q) = a + q /\ q \in 0 .. WORD - 1
        /\ q < size /\ size <= WORD /\ WORD \in Nat
    BY WeightFacts
  <2>2. x = Number(str, BYTE)
    BY DEF ReadAt
  <2>3. str[size - q] = mem[a + q]
    BY <2>1
  <2> HIDE DEF str, x
  <2>4. (Number(str, BYTE) \div Powers(BYTE, WORD)[q]) % BYTE = Digit(str, q)
    BY <1>3, <2>1, WeightFacts, DigitsOfNumber
  <2> QED
    BY <1>3, <2>1, <2>2, <2>3, <2>4 DEF Digit
<1> HIDE DEF str, x
<1>6. ASSUME NEW n \in 0 .. DIGITS * size - 1
      PROVE  (mem[a + n \div DIGITS] \div Weights[n % DIGITS]) % BASE
               = Digit(to_ascii_hex(x, size, BUFFER_LEN), n)
  <2>1. n \div DIGITS \in 0 .. size - 1
    BY PlaceOfDigit
  <2> QED
    BY <1>4, <1>5, <2>1, ByteDigit, DigitsPrinted
<1> QED
  BY <1>4, <1>6 DEF Holds, x

-----------------------------------------------------------------------------
(* Tokens as numbers.                                                      *)

LEMMA FirstOfType ==
  ASSUME NEW token \in Seq(Nat), NEW k \in Nat
  PROVE  /\ FirstOf(token, k) \in Seq(Nat) /\ Len(FirstOf(token, k)) <= k
         /\ Len(token) <= k => FirstOf(token, k) = token
<1>1. Len(token) \in Nat
  OBVIOUS
<1>2. CASE Len(token) < k
  BY <1>1, <1>2 DEF FirstOf
<1>3. CASE ~(Len(token) < k)
  <2>1. /\ SubSeq(token, 1, k) = [i \in 1 .. k |-> token[i]]
        /\ \A i \in 1 .. k : token[i] \in Nat
    BY <1>1, <1>3
  <2>2. SubSeq(token, 1, k) \in Seq(Nat) /\ Len(SubSeq(token, 1, k)) = k
    BY <2>1
  <2>3. Len(token) <= k => SubSeq(token, 1, k) = token
    BY <1>1, <1>3
  <2> QED
    BY <1>1, <1>3, <2>2, <2>3 DEF FirstOf
<1> QED
  BY <1>2, <1>3

LEMMA TokenNumber ==
  ASSUME NEW token \in Seq(Nat), NEW size \in 0 .. WORD
  PROVE  /\ ascii_hex_to_uint(token, size) \in Nat
         /\ ascii_hex_to_uint(token, size) < Weights[DIGITS * WORD]
         /\ IsNumber(token, size) =>
              \A n \in 0 .. DIGITS * WORD - 1 :
                 (ascii_hex_to_uint(token, size) \div Weights[n]) % BASE = Digit(token, n)
<1> DEFINE k == DIGITS * size
           MAX == DIGITS * WORD
           str == FirstOf(token, k)
<1>1. /\ k \in 0 .. MAX /\ MAX \in Nat /\ BASE \in Nat \ {0}
      /\ Weights = Powers(BASE, MAX)
  BY WeightFacts DEF Weights
<1>2. ascii_hex_to_uint(token, size) = Number(str, BASE)
  BY DEF ascii_hex_to_uint
<1>3. IsNumber(token, size) <=> Len(token) <= k /\ \A i \in 1 .. Len(token) : token[i] < BASE
  BY DEF IsNumber
<1> HIDE DEF k, MAX
<1>4. k \in Nat
  BY <1>1
<1>5. str \in Seq(Nat) /\ Len(str) <= k /\ (Len(token) <= k => str = token)
  BY <1>4, FirstOfType
<1> HIDE DEF str
<1>6. Len(str) \in Nat /\ Len(str) <= MAX
  BY <1>1, <1>5
<1>7. Number(str, BASE) \in Nat
  BY <1>1, <1>5, NumberType
<1>8. Number(str, BASE) < Weights[MAX]
  <2>1. Len(str) \in 0 .. Len(str)
    BY <1>6
  <2>2. Number(str, BASE) \in 0 .. Powers(BASE, MAX)[Len(str)] - 1
    BY <1>1, <1>5, <1>6, <2>1, NumbersBelow DEF Number
  <2>3. /\ Len(str) \in 0 .. MAX /\ MAX \in 0 .. MAX
        /\ Len(str) \in 0 .. MAX
    BY <1>1, <1>6
  <2>4. Powers(BASE, MAX)[Len(str)] <= Powers(BASE, MAX)[MAX]
    BY <1>1, <2>3, PowersGrow
  <2>5. Powers(BASE, MAX)[Len(str)] \in Nat \ {0} /\ Powers(BASE, MAX)[MAX] \in Nat \ {0}
    BY <1>1, <2>3, PowersType
  <2> QED
    BY <1>1, <2>2, <2>4, <2>5
<1>9. ASSUME IsNumber(token, size), NEW n \in 0 .. MAX - 1
      PROVE  (Number(str, BASE) \div Weights[n]) % BASE = Digit(token, n)
  <2>1. str = token /\ \A i \in 1 .. Len(str) : str[i] < BASE
    BY <1>3, <1>5, <1>9
  <2>2. (Number(str, BASE) \div Powers(BASE, MAX)[n]) % BASE = Digit(str, n)
    BY <1>1, <1>5, <1>6, <2>1, DigitsOfNumber
  <2> QED
    BY <1>1, <2>1, <2>2
<1> QED
  BY <1>2, <1>7, <1>8, <1>9 DEF MAX

\* The address a command uses is the one whose digits were typed.
LEMMA AddressIs ==
  ASSUME NEW token \in Seq(Nat), IsNumber(token, WORD), NEW a \in Cells, Names(token, a)
  PROVE  a = Address(token)
<1> DEFINE MAX == DIGITS * WORD
           c == Address(token)
<1>1. /\ MAX \in Nat /\ BASE \in Nat \ {0} /\ WORD \in 0 .. WORD
      /\ Weights = Powers(BASE, MAX) /\ Weights[MAX] \in Nat \ {0}
  BY WeightFacts DEF Weights
<1>2. /\ c \in Nat /\ c < Weights[MAX]
      /\ \A n \in 0 .. MAX - 1 : (c \div Weights[n]) % BASE = Digit(token, n)
  BY <1>1, TokenNumber DEF Address
<1>3. a \in Nat /\ a < MEM /\ MEM <= Weights[MAX] /\ MEM \in Nat
  BY BiosAssumption DEF Cells
<1>4. \A n \in 0 .. MAX - 1 : (a \div Weights[n]) % BASE = Digit(token, n)
  BY DEF Names
<1> HIDE DEF MAX, c
<1>5. a \in 0 .. Weights[MAX] - 1 /\ c \in 0 .. Weights[MAX] - 1
  BY <1>1, <1>2, <1>3
<1>6. a = c
  <2>1. MAX \in Nat /\ BASE \in Nat \ {0}
    BY <1>1
  <2>2. a \in 0 .. Powers(BASE, MAX)[MAX] - 1 /\ c \in 0 .. Powers(BASE, MAX)[MAX] - 1
    BY <1>1, <1>5
  <2>3. \A n \in 0 .. MAX - 1 :
          (a \div Powers(BASE, MAX)[n]) % BASE = (c \div Powers(BASE, MAX)[n]) % BASE
    BY <1>1, <1>2, <1>4
  <2> QED
    BY <2>1, <2>2, <2>3, SameDigits, Zenon
<1> QED
  BY <1>6 DEF c

LEMMA SizeType == \A c : Size(c) \in 0 .. WORD
<1>1. WORD \in Nat \ {0}
  BY WeightFacts
<1>2. WORD \div 2 \in 0 .. WORD /\ 1 \in 0 .. WORD /\ WORD \in 0 .. WORD
  BY <1>1
<1> QED
  BY <1>2 DEF Size

-----------------------------------------------------------------------------
(* The loader and the memory.                                              *)

\* The words of the file that is loaded.
FileWords == (load.length + WORD - 1) \div WORD

\* While a file is loaded the host has yet to send the digits of the words that
\* are not there, less those of the word that has begun; the file fits.
LoadInv ==
  /\ load.length # 0 /\ load.i < FileWords
  /\ load.address + FileWords * WORD <= MEM
  /\ Len(buf) < DIGITS * WORD /\ \A i \in 1 .. Len(buf) : buf[i] < BASE
  /\ due = (FileWords - load.i) * (DIGITS * WORD) - Len(buf)

LoaderInv ==
  /\ cmd \in Commands \union {"none"} /\ buf \in Seq(Nat) /\ args \in Seq(Seq(Nat))
  /\ load \in [address : Nat, length : Nat, i : Nat]
  /\ mem \in [Cells -> Bytes] /\ due \in Nat
  /\ cmd = "none" => args = <<>>
  /\ cmd # "none" /\ ~Loading => Len(args) < Expected(cmd)
  /\ ~Loading => due = 0
  /\ Loading => LoadInv

\* What a step that ends no store, load or word of a file does to the memory.
AsTyped ==
  /\ StoresAsTyped /\ LoadsAsTyped /\ FileAsSent
  /\ last'.cmd \notin Stores \union {"word"} => mem' = mem

Quiet(c) == c \notin Stores \union Loads \union {"word"}

LEMMA QuietStep ==
  ASSUME mem' = mem, Quiet(last'.cmd)
  PROVE  AsTyped
BY DEF AsTyped, Quiet, StoresAsTyped, LoadsAsTyped, FileAsSent

LEMMA QuietNames ==
  /\ Quiet("none") /\ Quiet("file") /\ Quiet("jal")
  /\ Quiet("bsort") /\ Quiet("ssort") /\ Quiet("mmult") /\ Quiet("bdd")
BY DEF Quiet, Stores, Loads

\* Behind a command, and at the beginning of main(), nothing is loaded.
LEMMA PromptKeeps ==
  ASSUME mem' \in [Cells -> Bytes], cmd' = "none", args' = <<>>, buf' = <<>>, due' = 0,
         load' \in [address : Nat, length : Nat, i : Nat]
  PROVE  LoaderInv'
<1>1. <<>> \in Seq(Nat) /\ <<>> \in Seq(Seq(Nat))
  OBVIOUS
<1> QED
  BY <1>1 DEF LoaderInv, Loading

LEMMA DoneKeeps ==
  ASSUME LoaderInv, ~Loading, NEW c, NEW tokens, NEW printed, Done(c, tokens, printed),
         mem' \in [Cells -> Bytes]
  PROVE  /\ LoaderInv'
         /\ last'.cmd = c /\ last'.tokens = tokens /\ last'.printed = printed
<1>1. /\ cmd' = "none" /\ args' = <<>> /\ buf' = <<>> /\ due' = due /\ load' = load
      /\ last' = Typed(c, tokens, printed)
  BY DEF Done
<1>2. LoaderInv'
  BY <1>1, PromptKeeps DEF LoaderInv
<1> QED
  BY <1>1, <1>2 DEF Typed

LEMMA LoadKeeps ==
  ASSUME LoaderInv, ~Loading, NEW c \in Loads, NEW tokens \in Seq(Seq(Nat)),
         Len(tokens) >= 1, lx(c, tokens)
  PROVE  LoaderInv' /\ AsTyped
<1> DEFINE token == tokens[1]
           a == Address(token)
           size == Size(c)
           p == << to_ascii_hex(a, WORD, BUFFER_LEN),
                   to_ascii_hex(ReadAt(a, size), size, BUFFER_LEN) >>
<1>1. Usable(a, size) /\ Done(c, tokens, p) /\ mem' = mem
  BY DEF lx
<1>2. token \in Seq(Nat) /\ size \in 0 .. WORD /\ WORD \in 0 .. WORD
  BY SizeType, WeightFacts
<1>3. a \in Nat /\ a + size <= MEM
  BY <1>1, <1>2, TokenNumber DEF Address, Usable
<1> HIDE DEF a, size, token
<1>4. LoaderInv' /\ last'.cmd = c /\ last'.tokens = tokens /\ last'.printed = p
  BY <1>1, DoneKeeps DEF LoaderInv
<1>5. LoadsAsTyped
  <2> SUFFICES ASSUME IsNumber(token, WORD), NEW a_1 \in Cells, Names(token, a_1)
               PROVE  Names(p[1], a_1) /\ Holds(mem, a_1, size, p[2])
    BY <1>4 DEF LoadsAsTyped, token, size
  <2>1. a_1 = a
    BY <1>2, AddressIs DEF a
  <2>2. Names(p[1], a)
    BY <1>2, <1>3, DigitsPrinted DEF Names
  <2>3. Holds(mem, a, size, p[2])
    BY <1>2, <1>3, HoldsRead DEF LoaderInv
  <2> QED
    BY <2>1, <2>2, <2>3
<1>6. c \notin Stores \union {"word"}
  BY DEF Loads, Stores
<1> QED
  BY <1>1, <1>4, <1>5, <1>6 DEF AsTyped, StoresAsTyped, FileAsSent

LEMMA StoreKeeps ==
  ASSUME LoaderInv, ~Loading, NEW c \in Stores, NEW tokens \in Seq(Seq(Nat)),
         Len(tokens) >= 2, sx(c, tokens)
  PROVE  LoaderInv' /\ AsTyped
<1> DEFINE token == tokens[2]
           value == tokens[1]
           a == Address(token)
           size == Size(c)
           x == ascii_hex_to_uint(value, size)
<1>1. Usable(a, size) /\ Done(c, tokens, <<>>) /\ mem' = Written(a, size, x)
  BY DEF sx
<1>2. /\ token \in Seq(Nat) /\ value \in Seq(Nat)
      /\ size \in 0 .. WORD /\ WORD \in 0 .. WORD
  BY SizeType, WeightFacts
<1>3. a \in Nat /\ a + size <= MEM /\ x \in Nat
  BY <1>1, <1>2, TokenNumber DEF Address, Usable
<1>4. IsNumber(value, size) =>
        \A n \in 0 .. DIGITS * WORD - 1 : (x \div Weights[n]) % BASE = Digit(value, n)
  BY <1>2, TokenNumber
<1> HIDE DEF a, size, token, value, x
<1>5. /\ mem' \in [Cells -> Bytes]
      /\ \A k \in Cells \ (a .. a + size - 1) : mem'[k] = mem[k]
  <2>1. mem \in [Cells -> Bytes]
    BY DEF LoaderInv
  <2> QED
    BY <1>1, <1>2, <1>3, <2>1, WrittenBytes
<1>6. LoaderInv' /\ last'.cmd = c /\ last'.tokens = tokens
  BY <1>1, <1>5, DoneKeeps DEF LoaderInv
<1>7. StoresAsTyped
  <2> SUFFICES ASSUME IsNumber(token, WORD), NEW a_1 \in Cells, Names(token, a_1)
               PROVE  /\ OnlyChanges(a_1, size)
                      /\ IsNumber(value, size) => Holds(mem', a_1, size, value)
    BY <1>6 DEF StoresAsTyped, token, size, value
  <2>1. a_1 = a
    BY <1>2, AddressIs DEF a
  <2>2. OnlyChanges(a, size)
    BY <1>5 DEF OnlyChanges
  <2>3. ASSUME IsNumber(value, size) PROVE Holds(mem', a, size, value)
    <3>1. ASSUME NEW n \in 0 .. DIGITS * size - 1 PROVE n \in 0 .. DIGITS * WORD - 1
      <4> DEFINE k == DIGITS * size
                 MAX == DIGITS * WORD
      <4>1. k \in 0 .. MAX /\ MAX \in Nat /\ n \in 0 .. k - 1
        BY <1>2, WeightFacts
      <4> HIDE DEF k, MAX
      <4>2. n \in 0 .. MAX - 1
        BY <4>1
      <4> QED
        BY <4>2 DEF MAX
    <3>2. \A n \in 0 .. DIGITS * size - 1 : (x \div Weights[n]) % BASE = Digit(value, n)
      BY <1>4, <2>3, <3>1
    <3> QED
      BY <1>1, <1>2, <1>3, <3>2, HoldsWritten
  <2> QED
    BY <2>1, <2>2, <2>3
<1>8. c \notin Loads /\ c # "word"
  BY DEF Loads, Stores
<1> QED
  BY <1>6, <1>7, <1>8 DEF AsTyped, LoadsAsTyped, FileAsSent

\* The words that are still missing, and whether there are any.
LEMMA TimesMono ==
  ASSUME NEW a \in Nat, NEW b \in Nat, NEW c \in Nat, a <= b
  PROVE  a * c <= b * c
<1>1. b * c = a * c + (b - a) * c /\ (b - a) * c \in Nat /\ a * c \in Nat
  OBVIOUS
<1> QED
  BY <1>1

LEMMA MissingWords ==
  ASSUME NEW length \in Nat, NEW n \in Nat
  PROVE  /\ (length + WORD - 1) \div WORD \in Nat
         /\ n * WORD < length <=> n < (length + WORD - 1) \div WORD
<1> DEFINE a == length + WORD - 1
           q == a \div WORD
           r == a % WORD
<1>1. WORD \in Nat \ {0} /\ a \in Nat
  BY WeightFacts
<1>2. q \in Nat /\ r \in 0 .. WORD - 1 /\ a = WORD * q + r
  BY <1>1, DivMod
<1> HIDE DEF q, r
<1>3. CASE n < q
  <2>1. (n + 1) * WORD <= q * WORD
    BY <1>1, <1>2, <1>3, TimesMono
  <2>2. n * WORD + WORD <= WORD * q
    BY <1>1, <1>2, <2>1
  <2> QED
    BY <1>1, <1>2, <1>3, <2>2 DEF q
<1>4. CASE ~(n < q)
  <2>1. q * WORD <= n * WORD
    BY <1>1, <1>2, <1>4, TimesMono
  <2>2. WORD * q <= n * WORD
    BY <1>1, <1>2, <2>1
  <2> QED
    BY <1>1, <1>2, <1>4, <2>2 DEF q
<1> QED
  BY <1>3, <1>4

LEMMA FileKeeps ==
  ASSUME LoaderInv, ~Loading, cmd = "file", NEW tokens \in Seq(Seq(Nat)),
         Len(tokens) = 2, file(tokens)
  PROVE  LoaderInv' /\ AsTyped
<1> DEFINE a == Address(tokens[1])
           length == ascii_dec_to_uint(tokens[2])
           words == (length + WORD - 1) \div WORD
<1>1. tokens[1] \in Seq(Nat) /\ tokens[2] \in Seq(Nat) /\ WORD \in 0 .. WORD
  <2>1. tokens[1] \in Seq(Nat) /\ tokens[2] \in Seq(Nat)
    OBVIOUS
  <2>2. WORD \in Nat
    BY WeightFacts
  <2> QED
    BY <2>1, <2>2
<1>2. a \in Nat
  BY <1>1, TokenNumber DEF Address
<1>3. length \in Nat
  <2>1. DECDIGITS \in Nat /\ DEC \in Nat \ {0}
    BY AsciiAssumption
  <2> QED
    BY <1>1, <2>1, FirstOfType, NumberType DEF ascii_dec_to_uint
<1>4. words \in Nat /\ (0 * WORD < length <=> 0 < words)
  BY <1>3, MissingWords
<1>5. /\ a + words * WORD <= MEM /\ mem' = mem
      /\ IF length = 0 THEN Done("file", tokens, <<>>)
         ELSE /\ load' = [address |-> a, length |-> length, i |-> 0]
              /\ cmd' = "file" /\ args' = tokens /\ buf' = <<>>
              /\ last' = Typed("file", tokens, <<>>)
              /\ due' = words * DIGITS * WORD
  BY DEF file
<1>6. CASE length = 0
  BY <1>5, <1>6, DoneKeeps, QuietStep, QuietNames DEF LoaderInv
<1>7. CASE length # 0
  <2>1. /\ load' = [address |-> a, length |-> length, i |-> 0]
        /\ cmd' = "file" /\ args' = tokens /\ buf' = <<>>
        /\ last' = Typed("file", tokens, <<>>)
        /\ due' = words * DIGITS * WORD
    BY <1>5, <1>7
  <2>2. AsTyped
    BY <1>5, <2>1, QuietStep, QuietNames DEF Typed
  <2> HIDE DEF a, length, words
  <2>3. 0 < words
    BY <1>3, <1>4, <1>7, WeightFacts
  <2>4. FileWords' = words
    BY <2>1 DEF FileWords, words
  <2>5. due' = (words - 0) * (DIGITS * WORD) - 0 /\ due' \in Nat /\ 0 < DIGITS * WORD
    <3>1. DIGITS \in Nat /\ WORD \in Nat /\ DIGITS * WORD \in Nat \ {0}
      BY WeightFacts
    <3>2. words * DIGITS * WORD = words * (DIGITS * WORD) /\ words * (DIGITS * WORD) \in Nat
      BY <1>4, <3>1
    <3> QED
      BY <1>4, <2>1, <3>1, <3>2
  <2>6. LoadInv'
    <3>1. load.length' = length /\ load.i' = 0 /\ load.address' = a /\ Len(buf') = 0
      BY <2>1
    <3> QED
      BY <1>5, <1>7, <2>3, <2>4, <2>5, <3>1 DEF LoadInv
  <2>7. load' \in [address : Nat, length : Nat, i : Nat] /\ buf' \in Seq(Nat)
    BY <1>2, <1>3, <2>1
  <2>8. "file" \in Commands /\ "file" # "none"
    BY DEF Commands
  <2>9. Loading'
    BY <2>1 DEF Loading
  <2> QED
    BY <1>5, <2>1, <2>2, <2>5, <2>6, <2>7, <2>8, <2>9 DEF LoaderInv
<1> QED
  BY <1>6, <1>7

LEMMA TokenKeeps ==
  ASSUME LoaderInv, ~Loading, NEW token \in Seq(Nat), NEW shown, TokenRead(token, shown)
  PROVE  LoaderInv' /\ AsTyped
<1> DEFINE tokens == Append(args, token)
           Next1(c, a) == /\ cmd' = c /\ args' = a /\ buf' = <<>>
                          /\ UNCHANGED <<running, load, mem, due>>
                          /\ last' = Nothing
<1>1. /\ args \in Seq(Seq(Nat)) /\ tokens \in Seq(Seq(Nat)) /\ Len(tokens) = Len(args) + 1
      /\ Len(args) \in Nat
  BY DEF LoaderInv
<1>2. ASSUME NEW c \in Commands, NEW a \in Seq(Seq(Nat)), Next1(c, a), Len(a) < Expected(c)
      PROVE  LoaderInv' /\ AsTyped
  <2>1. c # "none" /\ <<>> \in Seq(Nat)
    BY DEF Commands, Loads, Stores
  <2>2. ~Loading'
    <3>1. Expected("file") = 2 /\ Len(a) < Expected(c) /\ cmd' = c /\ args' = a
      BY <1>2 DEF Expected
    <3>2. Loading' <=> cmd' = "file" /\ Len(args') = 2
      BY DEF Loading
    <3>3. SUFFICES ASSUME c = "file", Len(a) = 2 PROVE FALSE
      BY <3>1, <3>2
    <3>4. Len(a) < 2
      BY <3>1, <3>3
    <3> QED
      BY <3>3, <3>4
  <2>3. AsTyped
    BY <1>2, QuietStep, QuietNames DEF Nothing, Typed
  <2>4. /\ load \in [address : Nat, length : Nat, i : Nat] /\ mem \in [Cells -> Bytes]
        /\ due = 0 /\ due \in Nat
    BY DEF LoaderInv
  <2> QED
    BY <1>2, <2>1, <2>2, <2>3, <2>4 DEF LoaderInv
<1>3. CASE cmd = "none"
  <2>1. \/ \E c \in Commands : Next1(c, <<>>)
        \/ Done("none", <<>>, token) /\ mem' = mem
    BY <1>3 DEF TokenRead
  <2>2. <<>> \in Seq(Seq(Nat)) /\ \A c : Len(<<>>) < Expected(c)
    BY DEF Expected
  <2>3. CASE Done("none", <<>>, token) /\ mem' = mem
    BY <2>3, DoneKeeps, QuietStep, QuietNames DEF LoaderInv
  <2> QED
    BY <1>2, <2>1, <2>2, <2>3
<1>4. CASE cmd # "none" /\ Len(tokens) < Expected(cmd)
  <2>1. Next1(cmd, tokens) /\ cmd \in Commands
    BY <1>4 DEF TokenRead, LoaderInv
  <2> QED
    BY <1>1, <1>2, <1>4, <2>1
<1>5. CASE cmd # "none" /\ ~(Len(tokens) < Expected(cmd))
  <2>1. cmd \in Commands /\ Len(args) < Expected(cmd)
    BY <1>5 DEF LoaderInv
  <2>2. Len(tokens) = Expected(cmd)
    BY <1>1, <1>5, <2>1 DEF Expected
  <2>3. CASE cmd = "file"
    <3>1. file(tokens) /\ Len(tokens) = 2
      BY <1>5, <2>2, <2>3 DEF TokenRead, Expected, Loads, Stores
    <3> QED
      BY <1>1, <2>3, <3>1, FileKeeps
  <2>4. CASE cmd = "jal"
    <3>1. Done("jal", tokens, <<>>) /\ mem' = mem
      BY <1>5, <2>4 DEF TokenRead, jal, Loads, Stores
    <3> QED
      BY <3>1, DoneKeeps, QuietStep, QuietNames DEF LoaderInv
  <2>5. CASE cmd \in Loads
    <3>1. lx(cmd, tokens) /\ Len(tokens) >= 1
      <4>1. lx(cmd, tokens)
        BY <1>5, <2>5 DEF TokenRead, Loads, Stores
      <4> QED
        BY <1>1, <4>1
    <3> QED
      BY <1>1, <2>5, <3>1, LoadKeeps
  <2>6. CASE cmd \in Stores
    <3>1. sx(cmd, tokens)
      BY <1>5, <2>6 DEF TokenRead, Loads, Stores
    <3>2. Len(tokens) >= 2
      BY <2>2, <2>6 DEF Expected
    <3> QED
      BY <1>1, <2>6, <3>1, <3>2, StoreKeeps
  <2> QED
    BY <2>1, <2>3, <2>4, <2>5, <2>6 DEF Commands
<1> QED
  BY <1>3, <1>4, <1>5

LEMMA EditingKeeps ==
  ASSUME LoaderInv, ~Loading, NEW b \in Seq(Nat), NEW shown, Editing(b, shown)
  PROVE  LoaderInv' /\ AsTyped
<1>1. /\ buf' = b /\ UNCHANGED <<cmd, args, load, mem, due>> /\ last' = Nothing
  BY DEF Editing
<1>2. ~Loading'
  BY <1>1 DEF Loading
<1>3. AsTyped
  BY <1>1, QuietStep, QuietNames DEF Nothing, Typed
<1> QED
  BY <1>1, <1>2, <1>3 DEF LoaderInv

\* A word of the file is written where it belongs, digit by digit.
LEMMA WordIsThere ==
  ASSUME mem \in [Cells -> Bytes], NEW a \in Nat, a + WORD <= MEM,
         NEW word \in Seq(Nat), Len(word) = DIGITS * WORD,
         \A i \in 1 .. Len(word) : word[i] < BASE,
         mem' = Written(a, WORD, ascii_hex_to_uint(word, WORD))
  PROVE  /\ mem' \in [Cells -> Bytes]
         /\ OnlyChanges(a, WORD) /\ Holds(mem', a, WORD, word)
<1> DEFINE x == ascii_hex_to_uint(word, WORD)
           MAX == DIGITS * WORD
<1>1. WORD \in 0 .. WORD /\ MAX \in Nat
  BY WeightFacts
<1>2. IsNumber(word, WORD)
  BY <1>1 DEF IsNumber
<1>3. x \in Nat /\ \A n \in 0 .. DIGITS * WORD - 1 : (x \div Weights[n]) % BASE = Digit(word, n)
  BY <1>1, <1>2, TokenNumber
<1> HIDE DEF x
<1>4. mem' = Written(a, WORD, x)
  BY DEF x
<1>5. Holds(Written(a, WORD, x), a, WORD, word)
  BY <1>1, <1>3, HoldsWritten
<1>6. /\ Written(a, WORD, x) \in [Cells -> Bytes]
      /\ \A k \in Cells \ (a .. a + WORD - 1) : Written(a, WORD, x)[k] = mem[k]
  BY <1>1, <1>3, WrittenBytes
<1> QED
  BY <1>4, <1>5, <1>6 DEF OnlyChanges

\* With a word less to come there are that many digits less to come.
LEMMA WordLess ==
  ASSUME NEW n \in Nat, NEW i \in Nat, i < n, NEW d \in Nat
  PROVE  /\ (n - i) * d = (n - (i + 1)) * d + d
         /\ (n - (i + 1)) * d \in Nat
OBVIOUS

\* The loader goes on to the next word.
LEMMA NextWord ==
  ASSUME NEW l \in [address : Nat, length : Nat, i : Nat], NEW next,
         next = [l EXCEPT !.i = l.i + 1]
  PROVE  /\ next \in [address : Nat, length : Nat, i : Nat]
         /\ next.i = l.i + 1 /\ next.address = l.address /\ next.length = l.length
<1>1. l.i + 1 \in Nat
  OBVIOUS
<1> QED
  BY <1>1

LEMMA FileDigitKeeps ==
  ASSUME LoaderInv, FileDigit
  PROVE  LoaderInv' /\ AsTyped
<1> DEFINE MAX == DIGITS * WORD
           missing == (FileWords - (load.i + 1)) * MAX
<1>1. Loading /\ LoadInv
  BY DEF FileDigit, LoaderInv
<1>2. /\ load.address \in Nat /\ load.length \in Nat /\ load.i \in Nat
      /\ buf \in Seq(Nat) /\ Len(buf) \in Nat /\ mem \in [Cells -> Bytes]
      /\ args \in Seq(Seq(Nat)) /\ cmd = "file" /\ Len(args) = 2
  <2>1. load \in [address : Nat, length : Nat, i : Nat] /\ buf \in Seq(Nat)
    BY DEF LoaderInv
  <2> QED
    BY <1>1, <2>1 DEF LoaderInv, Loading
<1>3. BASE \in Nat /\ WORD \in Nat \ {0} /\ MAX \in Nat \ {0}
  BY WeightFacts
<1>4. FileWords \in Nat /\ (MoreWords(load.i + 1) <=> load.i + 1 < FileWords)
  <2>1. load.i + 1 \in Nat
    BY <1>2
  <2> QED
    BY <1>2, <2>1, MissingWords DEF FileWords, MoreWords
<1>5. /\ load.length # 0 /\ load.i < FileWords
      /\ load.address + FileWords * WORD <= MEM
      /\ Len(buf) < MAX /\ \A i \in 1 .. Len(buf) : buf[i] < BASE
  BY <1>1 DEF LoadInv
<1> DEFINE owed == (FileWords - load.i) * MAX
<1>6. owed = missing + MAX /\ missing \in Nat
  <2> HIDE DEF MAX
  <2> QED
    BY <1>2, <1>3, <1>4, <1>5, WordLess
<1>7. due = missing + MAX - Len(buf) /\ missing \in Nat /\ MAX \in Nat \ {0}
       /\ Len(buf) < MAX /\ Len(buf) \in Nat
  <2>1. due = owed - Len(buf)
    BY <1>1 DEF LoadInv
  <2> HIDE DEF owed, missing, MAX
  <2> QED
    BY <1>2, <1>3, <1>5, <1>6, <2>1
<1>8. due \in Nat \ {0} /\ due' = due - 1
  <2> HIDE DEF missing, MAX
  <2>1. due \in Nat \ {0}
    BY <1>7
  <2> QED
    BY <2>1 DEF FileDigit
<1>9. PICK ch \in 0 .. BASE - 1 :
        LET word == Append(buf, ch)
            a == load.address + load.i * WORD
        IN IF Len(word) < MAX
           THEN /\ buf' = word /\ last' = Nothing
                /\ UNCHANGED <<cmd, args, load, mem>>
           ELSE /\ mem' = Written(a, WORD, ascii_hex_to_uint(word, WORD))
                /\ last' = Typed("word", <<word>>, <<>>)
                /\ buf' = <<>>
                /\ IF MoreWords(load.i + 1)
                   THEN load' = [load EXCEPT !.i = load.i + 1] /\ UNCHANGED <<cmd, args>>
                   ELSE load' = NoLoad /\ cmd' = "none" /\ args' = <<>>
  BY DEF FileDigit
<1> DEFINE word == Append(buf, ch)
           a == load.address + load.i * WORD
<1>10. /\ word \in Seq(Nat) /\ Len(word) = Len(buf) + 1
      /\ \A i \in 1 .. Len(word) : word[i] < BASE
  <2>1. ch \in Nat /\ ch < BASE
    BY <1>3
  <2> QED
    BY <1>2, <1>5, <2>1
<1>11. a \in Nat /\ a + WORD <= MEM
  <2>1. load.i * WORD \in Nat /\ (load.i + 1) * WORD = load.i * WORD + WORD
    BY <1>2, <1>3
  <2>2. (load.i + 1) * WORD <= FileWords * WORD
    <3>1. load.i + 1 \in Nat /\ load.i + 1 <= FileWords
      BY <1>2, <1>4, <1>5
    <3> QED
      BY <1>3, <1>4, <3>1, TimesMono
  <2> DEFINE p == FileWords * WORD
             o == load.i * WORD
  <2>3. p \in Nat /\ MEM \in Nat /\ load.address + p <= MEM
    BY <1>3, <1>4, <1>5, BiosAssumption
  <2>5. o \in Nat /\ o + WORD <= p
    BY <2>1, <2>2
  <2> HIDE DEF p, o
  <2>4. load.address + o + WORD <= MEM /\ load.address + o \in Nat
    BY <1>2, <1>3, <2>3, <2>5
  <2> QED
    BY <2>4 DEF o
<1>12. CASE Len(word) < MAX
  <2>1. /\ buf' = word /\ last' = Nothing
        /\ UNCHANGED <<cmd, args, load, mem>>
    BY <1>9, <1>12
  <2>2. AsTyped
    BY <2>1, QuietStep, QuietNames DEF Nothing, Typed
  <2>3. Loading' /\ FileWords' = FileWords
    BY <1>1, <2>1 DEF Loading, FileWords
  <2>4. due' = missing + MAX - Len(word) /\ due' \in Nat
    <3> HIDE DEF missing, MAX
    <3> QED
      BY <1>8, <1>10, <1>12, <1>7
  <2>5. due' = owed - Len(word)
    <3> HIDE DEF missing, owed, MAX, word
    <3> QED
      BY <1>10, <1>6, <1>7, <2>4
  <2>6. LoadInv'
    BY <1>5, <1>10, <1>12, <2>1, <2>3, <2>5 DEF LoadInv
  <2> QED
    BY <1>10, <2>1, <2>2, <2>3, <2>4, <2>6 DEF LoaderInv
<1>13. CASE ~(Len(word) < MAX)
  <2>1. /\ mem' = Written(a, WORD, ascii_hex_to_uint(word, WORD))
        /\ last' = Typed("word", <<word>>, <<>>)
        /\ buf' = <<>>
        /\ IF MoreWords(load.i + 1)
           THEN load' = [load EXCEPT !.i = load.i + 1] /\ UNCHANGED <<cmd, args>>
           ELSE load' = NoLoad /\ cmd' = "none" /\ args' = <<>>
    BY <1>9, <1>13
  <2>2. Len(word) = MAX
    <3> HIDE DEF MAX, word
    <3> QED
      BY <1>2, <1>3, <1>5, <1>10, <1>13
  <2>3. /\ mem' \in [Cells -> Bytes]
        /\ OnlyChanges(a, WORD) /\ Holds(mem', a, WORD, word)
    <3> HIDE DEF a, word
    <3> QED
      BY <1>2, <1>10, <1>11, <2>1, <2>2, WordIsThere
  <2>4. AsTyped
    <3>1. last'.cmd = "word" /\ last'.tokens[1] = word
      BY <2>1 DEF Typed
    <3>2. "word" \notin Stores /\ "word" \notin Loads
      BY DEF Stores, Loads
    <3> QED
      BY <2>3, <3>1, <3>2 DEF AsTyped, StoresAsTyped, LoadsAsTyped, FileAsSent
  <2>5. due' = missing
    <3> HIDE DEF missing, MAX, word
    <3> QED
      BY <1>8, <1>10, <1>7, <2>2
  <2>6. buf' \in Seq(Nat) /\ Len(buf') = 0
    BY <2>1
  <2>7. CASE MoreWords(load.i + 1)
    <3>1. load' = [load EXCEPT !.i = load.i + 1] /\ UNCHANGED <<cmd, args>>
      BY <2>1, <2>7
    <3>2. /\ load' \in [address : Nat, length : Nat, i : Nat]
          /\ load'.i = load.i + 1 /\ load'.address = load.address
          /\ load'.length = load.length
      <4>1. load \in [address : Nat, length : Nat, i : Nat]
        BY DEF LoaderInv
      <4> QED
        BY <3>1, <4>1, NextWord
    <3>3. Loading' /\ FileWords' = FileWords
      BY <1>1, <3>1, <3>2 DEF Loading, FileWords
    <3>4. due' = (FileWords - (load.i + 1)) * MAX - 0
      <4> HIDE DEF missing
      <4>1. due' = missing - 0
        BY <1>7, <2>5
      <4> QED
        BY <4>1 DEF missing
    <3>5. LoadInv'
      <4>1. load'.length # 0 /\ load'.i < FileWords'
        BY <1>4, <1>5, <2>7, <3>2, <3>3
      <4>2. load'.address + FileWords' * WORD <= MEM
        BY <1>5, <3>2, <3>3
      <4>3. Len(buf') < MAX /\ \A i \in 1 .. Len(buf') : buf'[i] < BASE
        <5> HIDE DEF MAX
        <5> QED
          BY <1>3, <2>6
      <4>4. due' = (FileWords' - load'.i) * MAX - Len(buf')
        <5> HIDE DEF MAX
        <5> QED
          BY <2>6, <3>2, <3>3, <3>4
      <4> QED
        BY <4>1, <4>2, <4>3, <4>4 DEF LoadInv
    <3> QED
      BY <1>7, <2>3, <2>4, <2>5, <2>6, <3>1, <3>2, <3>3, <3>5 DEF LoaderInv
  <2>8. CASE ~MoreWords(load.i + 1)
    <3>1. load' = NoLoad /\ cmd' = "none" /\ args' = <<>>
      BY <2>1, <2>8
    <3>2. load' \in [address : Nat, length : Nat, i : Nat]
      BY <3>1 DEF NoLoad
    <3>3. FileWords - (load.i + 1) = 0
      BY <1>2, <1>4, <1>5, <2>8
    <3>4. due' = 0
      BY <1>3, <2>5, <3>3
    <3> QED
      BY <2>1, <2>3, <2>4, <3>1, <3>2, <3>4, PromptKeeps
  <2> QED
    BY <2>7, <2>8
<1> QED
  BY <1>12, <1>13

LEMMA BiosKeeps ==
  ASSUME LoaderInv, BiosStep
  PROVE  LoaderInv' /\ AsTyped
<1>1. AtBios => ~Loading
  BY DEF AtBios
<1>2. buf \in Seq(Nat)
  BY DEF LoaderInv
<1>3. CASE Backspace
  <2>1. buf # <<>> => Front(buf) \in Seq(Nat)
    BY <1>2 DEF Front
  <2> QED
    BY <1>1, <1>2, <1>3, <2>1, EditingKeeps DEF Backspace
<1>4. CASE Delimiter
  BY <1>1, <1>2, <1>4, TokenKeeps DEF Delimiter
<1>5. CASE Character
  <2>1. PICK ch \in 0 .. Letter :
          IF Len(buf) + 1 < BUFFER_LEN THEN Editing(Append(buf, ch), Echo(ch))
          ELSE TokenRead(buf, Echo(ch))
    BY <1>5 DEF Character
  <2>2. Append(buf, ch) \in Seq(Nat)
    <3>1. Letter \in Nat
      BY WeightFacts DEF Letter
    <3>2. ch \in Nat
      BY <3>1
    <3> QED
      BY <1>2, <3>2
  <2>3. ~Loading
    BY <1>1, <1>5 DEF Character
  <2> QED
    BY <1>2, <2>1, <2>2, <2>3, EditingKeeps, TokenKeeps
<1> QED
  BY <1>3, <1>4, <1>5, FileDigitKeeps DEF BiosStep

\* main() from its beginning, and programs that run.
LEMMA StartKeeps ==
  ASSUME LoaderInv, NEW l, MainStarts(l), Quiet(l.cmd)
  PROVE  LoaderInv' /\ AsTyped
<1>1. /\ buf' = <<>> /\ cmd' = "none" /\ args' = <<>> /\ load' = NoLoad
      /\ due' = 0 /\ last' = l /\ mem' = mem
  BY DEF MainStarts
<1>2. load' \in [address : Nat, length : Nat, i : Nat]
  BY <1>1 DEF NoLoad
<1> QED
  BY <1>1, <1>2, PromptKeeps, QuietStep DEF LoaderInv

LEMMA StillKeeps ==
  ASSUME LoaderInv, UNCHANGED biosVars
  PROVE  LoaderInv'
<1>1. UNCHANGED <<buf, cmd, args, load, mem, due>>
  BY DEF biosVars
<1>2. (Loading' <=> Loading) /\ (LoadInv' <=> LoadInv) /\ FileWords' = FileWords
  BY <1>1 DEF Loading, LoadInv, FileWords
<1> QED
  BY <1>1, <1>2 DEF LoaderInv

LEMMA LoaderInit == Init => LoaderInv
<1> SUFFICES ASSUME Init PROVE LoaderInv
  OBVIOUS
<1>1. /\ buf = <<>> /\ cmd = "none" /\ args = <<>> /\ load = NoLoad /\ due = 0
  BY DEF Init, BiosInit, Idle
<1>2. mem \in [Cells -> Bytes]
  <2>1. 0 \in Bytes
    BY WeightFacts DEF Bytes
  <2> QED
    BY <2>1 DEF Init, BiosInit
<1>3. load \in [address : Nat, length : Nat, i : Nat]
  BY <1>1 DEF NoLoad
<1>4. <<>> \in Seq(Nat) /\ <<>> \in Seq(Seq(Nat))
  OBVIOUS
<1> QED
  BY <1>1, <1>2, <1>3, <1>4 DEF LoaderInv, Loading

LEMMA LoaderStep ==
  ASSUME LoaderInv, [Next]_vars
  PROVE  LoaderInv' /\ [AsTyped]_biosVars
<1>1. CASE BiosActs
  BY <1>1, BiosKeeps DEF BiosActs
<1>2. CASE UNCHANGED biosVars
  BY <1>2, StillKeeps
<1>3. CASE ProgramEnds
  <2>1. \E p \in {"bsort", "ssort", "mmult", "bdd"} : \E r : MainStarts(Typed(p, <<>>, <<r>>))
    BY <1>3 DEF ProgramEnds, run_and_time
  <2>2. PICK p \in {"bsort", "ssort", "mmult", "bdd"} : \E r : MainStarts(Typed(p, <<>>, <<r>>))
    BY <2>1
  <2>3. PICK r : MainStarts(Typed(p, <<>>, <<r>>))
    BY <2>2
  <2>4. Quiet(Typed(p, <<>>, <<r>>).cmd)
    BY QuietNames DEF Typed
  <2> QED
    BY <2>3, <2>4, StartKeeps
<1>4. CASE Reset
  <2>1. MainStarts(Nothing) \/ UNCHANGED biosVars
    BY <1>4 DEF Reset
  <2>2. Quiet(Nothing.cmd)
    BY QuietNames DEF Nothing, Typed
  <2> QED
    BY <1>2, <2>1, <2>2, StartKeeps
<1> QED
  BY <1>1, <1>2, <1>3, <1>4 DEF Next, ProgramRuns, BddRuns, vars

-----------------------------------------------------------------------------
\* store() takes as many digits as the host sends for the length it gave, for
\* every length, size of a word, memory and reset in between.
THEOREM LoaderTakesFile == Spec => []HostAndLoaderAgree
<1>1. LoaderInv => HostAndLoaderAgree
  <2> SUFFICES ASSUME LoaderInv PROVE HostAndLoaderAgree
    OBVIOUS
  <2>1. CASE Loading
    <3> DEFINE MAX == DIGITS * WORD
               missing == (FileWords - (load.i + 1)) * MAX
    <3>1. /\ load.length \in Nat /\ load.i \in Nat /\ Len(buf) \in Nat
      <4>1. load \in [address : Nat, length : Nat, i : Nat] /\ buf \in Seq(Nat)
        BY DEF LoaderInv
      <4> QED
        BY <4>1
    <3>2. MAX \in Nat /\ FileWords \in Nat
      BY <3>1, WeightFacts, MissingWords DEF FileWords
    <3> DEFINE owed == (FileWords - load.i) * MAX
    <3>3. Len(buf) < MAX /\ due = owed - Len(buf) /\ load.i < FileWords
      BY <2>1 DEF LoaderInv, LoadInv
    <3> HIDE DEF MAX
    <3>4. owed = missing + MAX /\ missing \in Nat
      BY <3>1, <3>2, <3>3, WordLess
    <3> HIDE DEF missing, owed
    <3>5. due > 0
      BY <3>1, <3>2, <3>3, <3>4
    <3> QED
      BY <2>1, <3>5 DEF HostAndLoaderAgree
  <2>2. CASE ~Loading
    BY <2>2 DEF LoaderInv, HostAndLoaderAgree
  <2> QED
    BY <2>1, <2>2
<1> QED
  BY <1>1, LoaderInit, LoaderStep, PTL DEF Spec

\* For every base, number of digits, size of a word and memory: a store and a
\* word of a file leave in memory the digits that were typed and change no
\* other byte, a load prints the digits of what is there, and no other step
\* writes memory.
THEOREM MemoryKeepsWhatIsTyped == Spec => MemoryIsAsTyped
<1>1. LoaderInv /\ [Next]_vars => LoaderInv' /\ [AsTyped]_biosVars
  BY LoaderStep
<1> QED
  BY <1>1, LoaderInit, PTL DEF Spec, MemoryIsAsTyped, AsTyped

-----------------------------------------------------------------------------
(* The sorts.  What they start from is descending, so the array has a      *)
(* closed form at every step.                                              *)

USE SizeAssumption

\* What main() prints for a sorted array.
LEMMA NoMismatch ==
  ASSUME NEW a, \A k \in Index : a[k] = k + 1
  PROVE  compare_arrays(a) = 0
<1>1. {k \in Index : a[k] # sorted_array[k]} = {}
  BY DEF sorted_array, Index
<1> QED
  BY <1>1, FS_EmptySet DEF compare_arrays

\* Swapping two places of an array of numbers.
LEMMA SwappedAt ==
  ASSUME NEW a \in [Index -> Int], NEW i \in Index, NEW j \in Index
  PROVE  /\ Swapped(a, i, j) \in [Index -> Int]
         /\ \A k \in Index :
              Swapped(a, i, j)[k] = IF k = i THEN a[j] ELSE IF k = j THEN a[i] ELSE a[k]
BY DEF Swapped, Index

-----------------------------------------------------------------------------
(* Bubble sort: behind i passes the i largest are in place; the others     *)
(* descend, except that the largest of them has risen to place j.          *)

BubbleAt(i, j, k) ==
  IF k >= SIZE - i THEN k + 1
  ELSE IF k < j THEN SIZE - i - 1 - k
  ELSE IF k = j THEN SIZE - i
  ELSE SIZE - i - k

BubbleInv ==
  /\ bpc \in {"sort", "done"}
  /\ bi \in 0 .. SIZE - 1 /\ bj \in 0 .. SIZE - bi - 1
  /\ barray \in [Index -> Int]
  /\ \A k \in Index : barray[k] = BubbleAt(bi, bj, k)
  /\ bpc = "done" => bi = SIZE - 1

LEMMA BubbleInit == BsortInit("sort") => BubbleInv
<1> SUFFICES ASSUME BsortInit("sort") PROVE BubbleInv
  OBVIOUS
<1>1. unsorted_array \in [Index -> Int] /\ \A k \in Index : unsorted_array[k] = SIZE - k
  BY DEF unsorted_array, Index
<1> QED
  BY <1>1 DEF BsortInit, BubbleInv, BubbleAt, Index

LEMMA BubbleStep == BubbleInv /\ [bubble_sort]_bsortVars => BubbleInv'
<1> SUFFICES ASSUME BubbleInv, [bubble_sort]_bsortVars PROVE BubbleInv'
  OBVIOUS
<1>1. CASE Bubble
  <2>1. /\ bj \in Index /\ bj + 1 \in Index /\ bi \in 0 .. SIZE - 2
        /\ bj < SIZE - bi - 1
    BY <1>1 DEF Bubble, BubbleInv, Index
  <2>2. barray[bj] = SIZE - bi /\ barray[bj + 1] = SIZE - bi - (bj + 1)
    BY <2>1 DEF BubbleInv, BubbleAt, Index
  <2>3. barray' = Swapped(barray, bj, bj + 1)
    BY <1>1, <2>1, <2>2 DEF Bubble, Index
  <2>4. barray' \in [Index -> Int]
    BY <2>1, <2>3, SwappedAt DEF BubbleInv
  <2>5. \A k \in Index :
          barray'[k] = IF k = bj THEN barray[bj + 1]
                       ELSE IF k = bj + 1 THEN barray[bj] ELSE barray[k]
    BY <2>1, <2>3, SwappedAt DEF BubbleInv
  <2>6. \A k \in Index : barray'[k] = BubbleAt(bi, bj + 1, k)
    BY <2>1, <2>2, <2>5 DEF BubbleInv, BubbleAt, Index
  <2> QED
    BY <1>1, <2>1, <2>4, <2>6 DEF Bubble, BubbleInv, Index
<1>2. CASE BubblePassEnds
  <2>1. \A k \in Index : BubbleAt(bi, bj, k) = BubbleAt(bi + 1, 0, k)
    BY <1>2 DEF BubblePassEnds, BubbleInv, BubbleAt, Index
  <2> QED
    BY <1>2, <2>1 DEF BubblePassEnds, BubbleInv
<1>3. CASE BubbleEnds
  BY <1>3 DEF BubbleEnds, BubbleInv
<1>4. CASE UNCHANGED bsortVars
  BY <1>4 DEF bsortVars, BubbleInv
<1> QED
  BY <1>1, <1>2, <1>3, <1>4 DEF bubble_sort

LEMMA BubbleResult == BubbleInv => BubbleSorts
<1> SUFFICES ASSUME BubbleInv, bpc = "done" PROVE compare_arrays(barray) = 0
  BY DEF BubbleSorts
<1>1. \A k \in Index : barray[k] = k + 1
  BY DEF BubbleInv, BubbleAt, Index
<1> QED
  BY <1>1, NoMismatch

\* bsort.c sorts the numbers SIZE, ..., 1 for every SIZE, so that main() prints
\* 0 mismatches (lines 27-39).
THEOREM BubbleSortSorts == BsortSpec => []BubbleSorts
BY BubbleResult, BubbleInit, BubbleStep, PTL DEF BsortSpec

-----------------------------------------------------------------------------
(* Selection sort: behind i rounds the i smallest and the i largest have   *)
(* changed places, and what is between them still descends.                *)

SelectAt(i, k) == IF k < i \/ k >= SIZE - i THEN k + 1 ELSE SIZE - k

\* Where the smallest of places i to j - 1 is.
SmallestAt(i, j) ==
  IF 2 * i >= SIZE THEN i ELSE IF j <= SIZE - i THEN j - 1 ELSE SIZE - 1 - i

SelectInv ==
  /\ spc \in {"scan", "done"}
  /\ sarray \in [Index -> Int]
  /\ \A k \in Index : sarray[k] = SelectAt(si, k)
  /\ spc = "scan" => /\ si \in 0 .. SIZE - 2 /\ sj \in si + 1 .. SIZE
                     /\ min_index = SmallestAt(si, sj)
  /\ spc = "done" => si = SIZE - 1

LEMMA SelectInit == SsortInit("scan") => SelectInv
<1> SUFFICES ASSUME SsortInit("scan") PROVE SelectInv
  OBVIOUS
<1>1. unsorted_array \in [Index -> Int] /\ \A k \in Index : unsorted_array[k] = SIZE - k
  BY DEF unsorted_array, Index
<1> QED
  BY <1>1 DEF SsortInit, SelectInv, SelectAt, SmallestAt, Index

LEMMA SelectStep == SelectInv /\ [selection_sort]_ssortVars => SelectInv'
<1> SUFFICES ASSUME SelectInv, [selection_sort]_ssortVars PROVE SelectInv'
  OBVIOUS
<1>1. CASE Scan
  <2>1. /\ spc = "scan" /\ si \in 0 .. SIZE - 2 /\ sj \in si + 1 .. SIZE - 1
        /\ min_index = SmallestAt(si, sj) /\ sj \in Index
    <3>1. si \in 0 .. SIZE - 2 /\ sj \in si + 1 .. SIZE /\ sj < SIZE
      BY <1>1 DEF Scan, SelectInv
    <3> QED
      BY <1>1, <3>1 DEF Scan, SelectInv, Index
  <2> min_index \in Index
    BY <2>1 DEF SmallestAt, Index
  <2>2. sarray[sj] = SelectAt(si, sj) /\ sarray[min_index] = SelectAt(si, min_index)
    BY <2>1 DEF SelectInv
  <2>3. min_index' = SmallestAt(si, sj + 1)
    BY <1>1, <2>1, <2>2 DEF Scan, SelectAt, SmallestAt, Index
  <2> QED
    BY <1>1, <2>1, <2>3 DEF Scan, SelectInv, Index
<1>2. CASE Select
  <2>1. /\ spc = "scan" /\ si \in 0 .. SIZE - 2 /\ sj = SIZE /\ si \in Index
        /\ min_index = IF 2 * si >= SIZE THEN si ELSE SIZE - 1 - si
        /\ min_index \in Index
    <3>1. /\ spc = "scan" /\ si \in 0 .. SIZE - 2 /\ sj \in si + 1 .. SIZE /\ sj >= SIZE
          /\ min_index = SmallestAt(si, sj)
      BY <1>2 DEF Select, SelectInv
    <3>2. sj = SIZE /\ si \in Index
      BY <3>1 DEF Index
    <3>3. SmallestAt(si, SIZE) = IF 2 * si >= SIZE THEN si ELSE SIZE - 1 - si
      BY <3>1 DEF SmallestAt
    <3>4. min_index \in Index
      BY <3>1, <3>2, <3>3 DEF Index
    <3> QED
      BY <3>1, <3>2, <3>3, <3>4
  <2>2. sarray' \in [Index -> Int]
    BY <1>2, <2>1, SwappedAt DEF Select, SelectInv
  <2>3. \A k \in Index :
          sarray'[k] = IF k = si THEN sarray[min_index]
                       ELSE IF k = min_index THEN sarray[si] ELSE sarray[k]
    BY <1>2, <2>1, SwappedAt DEF Select, SelectInv
  <2>4. sarray[si] = SelectAt(si, si) /\ sarray[min_index] = SelectAt(si, min_index)
    BY <2>1 DEF SelectInv
  <2>5. \A k \in Index : sarray'[k] = SelectAt(si + 1, k)
    <3> SUFFICES ASSUME NEW k \in Index PROVE sarray'[k] = SelectAt(si + 1, k)
      OBVIOUS
    <3>1. k \in 0 .. SIZE - 1 /\ si \in 0 .. SIZE - 2 /\ sarray[k] = SelectAt(si, k)
      BY <2>1 DEF SelectInv, Index
    <3>2. CASE 2 * si >= SIZE
      <4>1. min_index = si
        BY <2>1, <3>2
      <4> QED
        BY <2>3, <3>1, <3>2, <4>1 DEF SelectAt
    <3>3. CASE ~(2 * si >= SIZE)
      <4>1. min_index = SIZE - 1 - si
        BY <2>1, <3>3
      <4>2. sarray[si] = SIZE - si /\ sarray[min_index] = si + 1
        BY <2>4, <3>1, <3>3, <4>1 DEF SelectAt
      <4> QED
        BY <2>3, <3>1, <3>3, <4>1, <4>2 DEF SelectAt
    <3> QED
      BY <3>2, <3>3
  <2>6. CASE si + 1 < SIZE - 1
    <3>1. si' = si + 1 /\ sj' = si + 2 /\ min_index' = si + 1 /\ spc' = "scan"
      BY <1>2, <2>1, <2>6 DEF Select, SelectNext
    <3>2. min_index' = SmallestAt(si', sj')
      BY <2>1, <2>6, <3>1 DEF SmallestAt
    <3> QED
      BY <2>1, <2>2, <2>5, <2>6, <3>1, <3>2 DEF SelectInv
  <2>7. CASE ~(si + 1 < SIZE - 1)
    BY <1>2, <2>1, <2>2, <2>5, <2>7 DEF Select, SelectNext, SelectInv
  <2> QED
    BY <2>6, <2>7
<1>3. CASE UNCHANGED ssortVars
  BY <1>3 DEF ssortVars, SelectInv
<1> QED
  BY <1>1, <1>2, <1>3 DEF selection_sort

LEMMA SelectResult == SelectInv => SelectionSorts
<1> SUFFICES ASSUME SelectInv, spc = "done" PROVE compare_arrays(sarray) = 0
  BY DEF SelectionSorts
<1>1. \A k \in Index : sarray[k] = k + 1
  BY DEF SelectInv, SelectAt, Index
<1> QED
  BY <1>1, NoMismatch

\* ssort.c sorts the numbers SIZE, ..., 1 for every SIZE, so that main() prints
\* 0 mismatches (lines 27-43).
THEOREM SelectionSortSorts == SsortSpec => []SelectionSorts
BY SelectResult, SelectInit, SelectStep, PTL DEF SsortSpec

-----------------------------------------------------------------------------
(* The matrix product.                                                     *)

USE DimAssumption

\* What the product of row i of the identity and column j of B is behind k terms.
Partial(i, j, k) == IF k > i THEN j ELSE 0

\* times() keeps product + ta * tb, which is the product of its arguments; ta is
\* 0 if the element of A is.
TimesInv ==
  mpc = "times" =>
    /\ mi < DIM /\ mj < DIM /\ mk < DIM
    /\ ta \in Nat /\ tb \in Nat /\ product \in Nat
    /\ mi # mk => ta = 0 /\ product = 0
    /\ mi = mk => product + ta * tb = mj

MmultInv ==
  /\ mpc \in {"loop", "times", "done"}
  /\ mi \in 0 .. DIM /\ mj \in 0 .. DIM /\ mk \in 0 .. DIM
  /\ mi = DIM => mj = 0
  /\ mj = DIM => mk = 0
  /\ s = Partial(mi, mj, mk)
  /\ sum \in Int /\ 2 * sum = mi * (DIM * (DIM - 1)) + mj * (mj - 1)
  /\ TimesInv
  /\ mpc = "done" => mi = DIM

\* One round of times(): half of b, twice a.
LEMMA Halving ==
  ASSUME NEW a \in Nat, NEW b \in Nat
  PROVE  /\ 2 * a \in Nat /\ b \div 2 \in Nat
         /\ b % 2 = 1 => a + (2 * a) * (b \div 2) = a * b
         /\ b % 2 # 1 => (2 * a) * (b \div 2) = a * b
<1>1. b \div 2 \in Nat /\ b % 2 \in {0, 1} /\ b = 2 * (b \div 2) + (b % 2)
  OBVIOUS
<1>2. \A q \in Nat : (2 * a) * q = a * (2 * q) /\ a * (2 * q + 1) = a * (2 * q) + a
  OBVIOUS
<1> QED
  BY <1>1, <1>2

LEMMA NatTimesNat ==
  ASSUME NEW a \in Nat, NEW b \in Nat
  PROVE  a * b \in Nat
OBVIOUS

\* A row more.
LEMMA RowMore ==
  ASSUME NEW i \in Nat, NEW c \in Int
  PROVE  i * c + c = (i + 1) * c
OBVIOUS

LEMMA MmultInitHolds == MmultInit("loop") => MmultInv
BY DEF MmultInit, MmultInv, TimesInv, Partial

LEMMA MmultStepHolds == MmultInv /\ [mmult]_mmultVars => MmultInv'
<1> SUFFICES ASSUME MmultInv, [mmult]_mmultVars PROVE MmultInv'
  OBVIOUS
<1>1. CASE CallTimes
  <2>1. /\ mi \in Nat /\ mj \in Nat /\ mk \in Nat /\ mi < DIM /\ mj < DIM /\ mk < DIM
        /\ ta' = (IF mi = mk THEN 1 ELSE 0) /\ tb' = mj /\ product' = 0
    BY <1>1 DEF CallTimes, MmultInv, A, B, Abs
  <2>2. TimesInv'
    BY <1>1, <2>1 DEF CallTimes, TimesInv
  <2> QED
    BY <1>1, <2>2 DEF CallTimes, MmultInv, Partial
<1>2. CASE TimesRound
  <2>1. mpc = "times" /\ TimesInv /\ ta \in Nat /\ tb \in Nat /\ product \in Nat
    BY <1>2 DEF TimesRound, MmultInv, TimesInv
  <2>2. ta' \in Nat /\ tb' \in Nat /\ product' \in Nat
    BY <1>2, <2>1, Halving DEF TimesRound
  <2>3. product' + ta' * tb' = product + ta * tb
    <3>1. CASE tb % 2 = 1
      <4>1. ta + ta' * tb' = ta * tb
        BY <1>2, <2>1, <3>1, Halving DEF TimesRound
      <4>2. product' = product + ta
        BY <1>2, <3>1 DEF TimesRound
      <4> DEFINE p == ta' * tb'
                 q == ta * tb
      <4>3. p \in Nat /\ q \in Nat
        BY <2>1, <2>2, NatTimesNat
      <4> HIDE DEF p, q
      <4>4. ta + p = q => product + ta + p = product + q
        BY <2>1, <4>3
      <4> QED
        BY <4>1, <4>2, <4>4 DEF p, q
    <3>2. CASE tb % 2 # 1
      BY <1>2, <2>1, <3>2, Halving DEF TimesRound
    <3> QED
      BY <3>1, <3>2
  <2>4. mi # mk => ta' = 0 /\ product' = 0
    BY <1>2, <2>1 DEF TimesRound, TimesInv
  <2>5. TimesInv'
    BY <1>2, <2>1, <2>2, <2>3, <2>4 DEF TimesRound, TimesInv
  <2> QED
    BY <1>2, <2>5 DEF TimesRound, MmultInv, Partial
<1>3. CASE TimesReturns
  <2>1. /\ mpc = "times" /\ tb = 0 /\ mi < DIM /\ mj < DIM /\ mk < DIM
        /\ mi \in Nat /\ mj \in Nat /\ mk \in Nat /\ product \in Nat
        /\ ta \in Nat
        /\ mi # mk => product = 0
        /\ mi = mk => product + ta * tb = mj
    BY <1>3 DEF TimesReturns, MmultInv, TimesInv
  <2>2. ta * tb = 0
    BY <2>1
  <2>3. product = IF mi = mk THEN mj ELSE 0
    BY <2>1, <2>2
  <2>4. s' = s + product /\ mpc' = "loop" /\ mk' = mk + 1 /\ UNCHANGED <<mi, mj, sum>>
    BY <1>3, <2>1 DEF TimesReturns, Signed, A, B
  <2>5. s' = Partial(mi, mj, mk + 1)
    BY <2>1, <2>3, <2>4 DEF MmultInv, Partial
  <2> QED
    BY <2>1, <2>4, <2>5 DEF MmultInv, TimesInv
<1>4. CASE ElementEnds
  <2>1. /\ mpc = "loop" /\ mi \in Nat /\ mj \in Nat /\ mi < DIM /\ mj < DIM /\ mk = DIM
        /\ s = mj
    BY <1>4 DEF ElementEnds, MmultInv, Partial
  <2>2. /\ sum' = sum + mj /\ mj' = mj + 1 /\ mk' = 0 /\ s' = 0 /\ mi' = mi
        /\ mpc' = "loop"
    BY <1>4, <2>1 DEF ElementEnds
  <2>3. (mj + 1) * mj = mj * (mj - 1) + 2 * mj
    BY <2>1
  <2> DEFINE p == mi * (DIM * (DIM - 1))
             q == mj * (mj - 1)
  <2>4. p \in Int /\ q \in Int /\ sum \in Int /\ 2 * sum = p + q
    BY <2>1 DEF MmultInv
  <2>5. 2 * sum' = mi * (DIM * (DIM - 1)) + (mj + 1) * mj
    <3> HIDE DEF p, q
    <3>1. 2 * (sum + mj) = p + (q + 2 * mj)
      BY <2>1, <2>4
    <3> QED
      BY <2>2, <2>3, <3>1 DEF p, q
  <2>6. (mj + 1) - 1 = mj
    BY <2>1
  <2>7. 2 * sum' = mi' * (DIM * (DIM - 1)) + mj' * (mj' - 1)
    BY <2>2, <2>5, <2>6
  <2> QED
    BY <2>1, <2>2, <2>4, <2>7 DEF MmultInv, TimesInv, Partial
<1>5. CASE RowEnds
  <2>1. mpc = "loop" /\ mi \in Nat /\ mi < DIM /\ mj = DIM /\ mk = 0
    BY <1>5 DEF RowEnds, MmultInv
  <2>2. mi' = mi + 1 /\ mj' = 0 /\ UNCHANGED <<mpc, mk, s, sum>>
    BY <1>5 DEF RowEnds
  <2>3. 2 * sum = (mi + 1) * (DIM * (DIM - 1))
    BY <2>1, RowMore DEF MmultInv
  <2>4. 2 * sum' = mi' * (DIM * (DIM - 1)) + mj' * (mj' - 1)
    BY <2>2, <2>3
  <2> QED
    BY <2>1, <2>2, <2>4 DEF MmultInv, TimesInv, Partial
<1>6. CASE MmultEnds
  BY <1>6 DEF MmultEnds, MmultInv, TimesInv, Partial
<1>7. CASE UNCHANGED mmultVars
  BY <1>7 DEF mmultVars, MmultInv, TimesInv, Partial
<1> QED
  BY <1>1, <1>2, <1>3, <1>4, <1>5, <1>6, <1>7 DEF mmult

LEMMA MmultResult == MmultInv => SumIsThatOfB
<1> SUFFICES ASSUME MmultInv, mpc = "done" PROVE 2 * sum = DIM * (DIM * (DIM - 1))
  BY DEF SumIsThatOfB
<1>1. mi = DIM /\ mj = 0
  BY DEF MmultInv
<1> QED
  BY <1>1 DEF MmultInv

\* mmult.c computes the identity times B, for every DIM: what it prints is the
\* sum of the elements of B (lines 37-54).
THEOREM ProductIsB == MmultSpec => []SumIsThatOfB
BY MmultResult, MmultInitHolds, MmultStepHolds, PTL DEF MmultSpec

-----------------------------------------------------------------------------
(* The programs in the system.  A program runs from its main(), whatever   *)
(* has been left of it; nothing else touches what it works on.             *)

ProgramInv ==
  /\ running = "bsort" => BubbleInv
  /\ running = "ssort" => SelectInv
  /\ running = "mmult" => MmultInv

LEMMA BubbleStarts == BsortMain("sort") => BubbleInv'
<1> SUFFICES ASSUME BsortMain("sort") PROVE BubbleInv'
  OBVIOUS
<1>1. unsorted_array \in [Index -> Int] /\ \A k \in Index : unsorted_array[k] = SIZE - k
  BY DEF unsorted_array, Index
<1> QED
  BY <1>1 DEF BsortMain, BubbleInv, BubbleAt, Index

LEMMA SelectStarts == SsortMain("scan") => SelectInv'
<1> SUFFICES ASSUME SsortMain("scan") PROVE SelectInv'
  OBVIOUS
<1>1. unsorted_array \in [Index -> Int] /\ \A k \in Index : unsorted_array[k] = SIZE - k
  BY DEF unsorted_array, Index
<1> QED
  BY <1>1 DEF SsortMain, SelectInv, SelectAt, SmallestAt, Index

LEMMA MmultStarts == MmultMain("loop") => MmultInv'
BY DEF MmultMain, MmultInv, TimesInv, Partial

\* The BIOS reports no program.
ProgramNames == {"bsort", "ssort", "mmult", "bdd"}

LEMMA BiosReportsNone ==
  ASSUME LoaderInv, BiosStep
  PROVE  last'.cmd \notin ProgramNames
<1>1. /\ "none" \notin ProgramNames /\ "word" \notin ProgramNames
      /\ \A c \in Commands : c \notin ProgramNames
  BY DEF ProgramNames, Commands, Loads, Stores
<1>2. ASSUME NEW c, NEW tokens, NEW printed, last' = Typed(c, tokens, printed),
             c \in Commands \union {"none", "word"}
      PROVE  last'.cmd \notin ProgramNames
  BY <1>1, <1>2 DEF Typed
<1>3. ASSUME NEW b, NEW shown, Editing(b, shown) PROVE last'.cmd \notin ProgramNames
  BY <1>2, <1>3 DEF Editing, Nothing
<1>4. ASSUME NEW token, NEW shown, TokenRead(token, shown)
      PROVE  last'.cmd \notin ProgramNames
  <2> DEFINE tokens == Append(args, token)
  <2>1. CASE cmd = "none"
    <3>1. last' = Nothing \/ Done("none", <<>>, token)
      BY <1>4, <2>1 DEF TokenRead
    <3> QED
      BY <1>2, <3>1 DEF Nothing, Done
  <2>2. CASE cmd # "none" /\ Len(tokens) < Expected(cmd)
    <3>1. last' = Nothing
      BY <1>4, <2>2 DEF TokenRead
    <3> QED
      BY <1>2, <3>1 DEF Nothing
  <2>3. CASE cmd # "none" /\ ~(Len(tokens) < Expected(cmd))
    <3>1. cmd \in Commands
      BY <2>3 DEF LoaderInv
    <3>2. file(tokens) \/ jal(tokens) \/ lx(cmd, tokens) \/ sx(cmd, tokens)
      BY <1>4, <2>3, <3>1 DEF TokenRead, Commands
    <3>3. \E c \in Commands : \E printed : last' = Typed(c, tokens, printed)
      <4>1. "file" \in Commands /\ "jal" \in Commands
        BY DEF Commands
      <4> QED
        BY <3>1, <3>2, <4>1 DEF file, jal, lx, sx, Done
    <3> QED
      BY <1>2, <3>3
  <2> QED
    BY <2>1, <2>2, <2>3
<1>5. CASE FileDigit
  <2>1. last' = Nothing \/ \E tokens, printed : last' = Typed("word", tokens, printed)
    BY <1>5 DEF FileDigit
  <2> QED
    BY <1>2, <2>1 DEF Nothing
<1> QED
  BY <1>3, <1>4, <1>5 DEF BiosStep, Backspace, Delimiter, Character

\* A step of the BIOS leaves it running or starts a program at its main().
LEMMA BiosStarts ==
  ASSUME BiosActs
  PROVE  ProgramInv'
BY BubbleStarts, SelectStarts, MmultStarts DEF BiosActs, Begins, ProgramInv

LEMMA ProgramStep ==
  ASSUME ProgramInv, [Next]_vars
  PROVE  ProgramInv'
<1>1. CASE BiosActs
  BY <1>1, BiosStarts
<1>2. ASSUME running' \notin ProgramNames PROVE ProgramInv'
  BY <1>2 DEF ProgramInv, ProgramNames
<1>3. ASSUME running' = running, [bubble_sort]_bsortVars, [selection_sort]_ssortVars,
             [mmult]_mmultVars
      PROVE  ProgramInv'
  BY <1>3, BubbleStep, SelectStep, MmultStepHolds DEF ProgramInv
<1>4. CASE ProgramRuns \/ BddRuns
  BY <1>3, <1>4 DEF ProgramRuns, BddRuns, biosVars, programVars
<1>5. ASSUME NEW l, MainStarts(l) PROVE ProgramInv'
  BY <1>2, <1>5 DEF MainStarts, ProgramNames
<1>6. CASE ProgramEnds
  BY <1>5, <1>6 DEF ProgramEnds, run_and_time
<1>7. CASE Reset
  BY <1>3, <1>5, <1>7 DEF Reset, biosVars, programVars
<1>8. CASE UNCHANGED vars
  BY <1>3, <1>8 DEF vars, biosVars, programVars
<1> QED
  BY <1>1, <1>4, <1>6, <1>7, <1>8 DEF Next

Reported == SortsReport /\ ProductReported

LEMMA ReportStep ==
  ASSUME LoaderInv, ProgramInv, Reported, [Next]_vars
  PROVE  Reported'
<1>1. ASSUME last'.cmd \notin ProgramNames PROVE Reported'
  BY <1>1 DEF Reported, SortsReport, ProductReported, ProgramNames
<1>2. ASSUME last' = last PROVE Reported'
  BY <1>2 DEF Reported, SortsReport, ProductReported
<1>3. CASE BiosActs
  BY <1>1, <1>3, BiosReportsNone DEF BiosActs
<1>4. CASE UNCHANGED biosVars
  BY <1>2, <1>4 DEF biosVars
<1>5. CASE ProgramEnds
  <2>1. CASE run_and_time("bsort", bpc = "done", compare_arrays(barray))
    <3>1. last' = Typed("bsort", <<>>, <<compare_arrays(barray)>>)
          /\ compare_arrays(barray) = 0
      BY <2>1, BubbleResult DEF run_and_time, MainStarts, ProgramInv, BubbleSorts
    <3> QED
      BY <3>1 DEF Typed, Reported, SortsReport, ProductReported
  <2>2. CASE run_and_time("ssort", spc = "done", compare_arrays(sarray))
    <3>1. last' = Typed("ssort", <<>>, <<compare_arrays(sarray)>>)
          /\ compare_arrays(sarray) = 0
      BY <2>2, SelectResult DEF run_and_time, MainStarts, ProgramInv, SelectionSorts
    <3> QED
      BY <3>1 DEF Typed, Reported, SortsReport, ProductReported
  <2>3. CASE run_and_time("mmult", mpc = "done", sum)
    <3>1. last' = Typed("mmult", <<>>, <<sum>>) /\ 2 * sum = DIM * (DIM * (DIM - 1))
      BY <2>3, MmultResult DEF run_and_time, MainStarts, ProgramInv, SumIsThatOfB
    <3>2. last'.cmd = "mmult" /\ last'.printed[1] = sum
      BY <3>1 DEF Typed
    <3> QED
      BY <3>1, <3>2 DEF Reported, SortsReport, ProductReported
  <2>4. CASE run_and_time("bdd", dpc = "done", bddResult)
    <3>1. last'.cmd = "bdd"
      BY <2>4 DEF run_and_time, MainStarts, Typed
    <3> QED
      BY <3>1 DEF Reported, SortsReport, ProductReported
  <2> QED
    BY <1>5, <2>1, <2>2, <2>3, <2>4 DEF ProgramEnds
<1>6. CASE Reset
  <2>1. MainStarts(Nothing) \/ UNCHANGED biosVars
    BY <1>6 DEF Reset
  <2>2. MainStarts(Nothing) => last'.cmd = "none"
    BY DEF MainStarts, Nothing, Typed
  <2> QED
    BY <1>1, <1>4, <2>1, <2>2 DEF ProgramNames
<1> QED
  BY <1>3, <1>4, <1>5, <1>6 DEF Next, ProgramRuns, BddRuns, vars

LEMMA ProgramInit == Init => ProgramInv /\ Reported
<1> SUFFICES ASSUME Init PROVE ProgramInv /\ Reported
  OBVIOUS
<1>1. running \in {"bios", "test"} /\ last = Nothing
  BY DEF Init, BiosInit, Idle
<1> QED
  BY <1>1 DEF ProgramInv, Reported, SortsReport, ProductReported, Nothing, Typed

\* In the system, started by the host over the BIOS, one after the other and cut
\* short by resets, the sorts print no mismatch and mmult the sum of B.
THEOREM ResultsArePrinted == Spec => [](SortsReport /\ ProductReported)
<1>1. LoaderInv /\ ProgramInv /\ Reported /\ [Next]_vars
        => LoaderInv' /\ ProgramInv' /\ Reported'
  BY LoaderStep, ProgramStep, ReportStep
<1>2. Reported => SortsReport /\ ProductReported
  BY DEF Reported
<1> QED
  BY <1>1, <1>2, LoaderInit, ProgramInit, PTL DEF Spec

-----------------------------------------------------------------------------
(* The decision diagrams, for every N.                                     *)

Triples == Int \X Int \X Int

\* A table of nodes in which each is there once and in its normal form, and
\* literals that name a node of it, a constant or nothing.
Table(t) ==
  /\ t \in Seq(Triples)
  /\ \A k, l \in DOMAIN t : t[k] = t[l] => k = l
  /\ \A k \in DOMAIN t : /\ t[k][2] # t[k][3] /\ t[k][3] % 2 = 0
                         /\ t[k][2] < 2 * k /\ t[k][3] < 2 * k
Literals(t) == {l \in Int : l < 2 * (Len(t) + 1)}

RowInv(r) ==
  /\ r \in [nodes : Seq(Triples), out : Seq(Int)]
  /\ Table(r.nodes) /\ r.out \in Seq(Literals(r.nodes)) /\ Len(nodes) <= Len(r.nodes)

\* Behind its first place.
Filled(r) == RowInv(r) /\ r.out # <<>>

LEMMA NotFacts ==
  ASSUME NEW l \in Int
  PROVE  /\ Not(l) \in Int
         /\ \A n \in Int : l < 2 * n => Not(l) < 2 * n
         /\ \A k \in Int : k # l => Not(k) # Not(l)
         /\ l % 2 \in {0, 1} /\ (l % 2 = 1 => Not(l) % 2 = 0)
<1>1. PICK h \in Int : l = 2 * h \/ l = 2 * h + 1
  <2>1. l = 2 * (l \div 2) \/ l = 2 * (l \div 2) + 1
    OBVIOUS
  <2>2. l \div 2 \in Int
    OBVIOUS
  <2> QED
    BY <2>1, <2>2
<1>2. \A k \in Int : k # l => Not(k) # Not(l)
  BY DEF Not
<1> QED
  BY <1>1, <1>2 DEF Not

LEMMA NotIfFacts ==
  ASSUME NEW c \in {0, 1}, NEW l \in Int
  PROVE  /\ NotIf(c, l) \in Int
         /\ \A n \in Int : l < 2 * n => NotIf(c, l) < 2 * n
         /\ \A k \in Int : k # l => NotIf(c, k) # NotIf(c, l)
         /\ NotIf(l % 2, l) % 2 = 0
BY NotFacts DEF NotIf

\* A longer table has all the literals.
LEMMA MoreLiterals ==
  ASSUME NEW t, NEW u, Len(t) \in Nat, Len(u) \in Nat, Len(t) <= Len(u)
  PROVE  Literals(t) \subseteq Literals(u)
BY DEF Literals

LEMMA RowOf ==
  ASSUME NEW u, Table(u), Len(nodes) <= Len(u), NEW o \in Seq(Literals(u))
  PROVE  RowInv([nodes |-> u, out |-> o])
<1> DEFINE w == [nodes |-> u, out |-> o]
<1>1. u \in Seq(Triples) /\ o \in Seq(Int)
  BY DEF Table, Literals
<1>2. w \in [nodes : Seq(Triples), out : Seq(Int)] /\ w.nodes = u /\ w.out = o
  BY <1>1
<1> HIDE DEF w
<1>3. RowInv(w)
  BY <1>2 DEF RowInv
<1> QED
  BY <1>3 DEF w

LEMMA OneOut ==
  ASSUME NEW r, RowInv(r), NEW l \in Literals(r.nodes)
  PROVE  Filled([r EXCEPT !.out = Append(@, l)])
<1>1. Append(r.out, l) \in Seq(Literals(r.nodes)) /\ Append(r.out, l) \in Seq(Int)
  BY DEF RowInv, Literals
<1>2. Append(r.out, l) # <<>>
  <2>1. r.out \in Line /\ l \in Int
    BY DEF RowInv, Line, Literals
  <2> QED
    BY <2>1, FrontOfAppend
<1> QED
  BY <1>1, <1>2 DEF RowInv, Filled

LEMMA NodeMade ==
  ASSUME NEW r, RowInv(r), NEW v \in Int, NEW t \in Literals(r.nodes),
         NEW e \in Literals(r.nodes), t # e, e % 2 = 0, NEW c \in {0, 1}
  PROVE  Filled(BddUniqueCreateInt(r, <<v, t, e>>, c))
<1> DEFINE node == <<v, t, e>>
           Same == {k \in DOMAIN r.nodes : r.nodes[k] = node}
           L == Len(r.nodes)
<1>1. r.nodes \in Seq(Triples) /\ L \in Nat /\ DOMAIN r.nodes = 1 .. L
  BY DEF RowInv
<1>2. t \in Int /\ e \in Int /\ t < 2 * (L + 1) /\ e < 2 * (L + 1) /\ node \in Triples
  BY DEF Literals, Triples
<1>3. CASE Same # {}
  <2>1. PICK j : j = CHOOSE k \in Same : TRUE
    OBVIOUS
  <2>2. j \in 1 .. L
    BY <1>1, <1>3, <2>1
  <2>3. 2 * j + c \in Literals(r.nodes)
    BY <1>1, <2>2 DEF Literals
  <2>4. BddUniqueCreateInt(r, node, c) = [r EXCEPT !.out = Append(@, 2 * j + c)]
    BY <1>3, <2>1 DEF BddUniqueCreateInt
  <2> QED
    BY <2>3, <2>4, OneOut
<1>4. CASE Same = {}
  <2> DEFINE u == Append(r.nodes, node)
             o == Append(r.out, 2 * (L + 1) + c)
  <2>1. BddUniqueCreateInt(r, node, c) = [nodes |-> u, out |-> o]
    BY <1>4 DEF BddUniqueCreateInt
  <2>2. /\ u \in Seq(Triples) /\ Len(u) = L + 1 /\ DOMAIN u = 1 .. L + 1
        /\ u[L + 1] = node /\ \A k \in 1 .. L : u[k] = r.nodes[k]
    BY <1>1, <1>2
  <2>3. Table(u)
    <3>1. \A k \in 1 .. L : r.nodes[k] # node
      BY <1>1, <1>4
    <3>2. /\ \A k, l \in 1 .. L : r.nodes[k] = r.nodes[l] => k = l
          /\ \A k \in 1 .. L : /\ r.nodes[k][2] # r.nodes[k][3] /\ r.nodes[k][3] % 2 = 0
                               /\ r.nodes[k][2] < 2 * k /\ r.nodes[k][3] < 2 * k
      BY <1>1 DEF RowInv, Table
    <3> HIDE DEF u, node
    <3>3. \A k, l \in 1 .. L + 1 : u[k] = u[l] => k = l
      BY <1>1, <2>2, <3>1, <3>2
    <3>4. node[2] = t /\ node[3] = e
      BY DEF node
    <3>5. ASSUME NEW k \in 1 .. L + 1
          PROVE  /\ u[k][2] # u[k][3] /\ u[k][3] % 2 = 0
                 /\ u[k][2] < 2 * k /\ u[k][3] < 2 * k
      <4>1. CASE k = L + 1
        BY <1>2, <2>2, <3>4, <4>1
      <4>2. CASE k # L + 1
        <5>1. k \in 1 .. L /\ u[k] = r.nodes[k]
          BY <1>1, <2>2, <4>2
        <5> QED
          BY <3>2, <5>1
      <4> QED
        BY <4>1, <4>2
    <3> QED
      BY <2>2, <3>3, <3>5 DEF Table
  <2>4. o \in Seq(Literals(u)) /\ o \in Seq(Int)
    <3>1. Literals(r.nodes) \subseteq Literals(u)
      <4>1. Len(u) \in Nat /\ Len(r.nodes) \in Nat /\ Len(r.nodes) <= Len(u)
        BY <1>1, <2>2
      <4> HIDE DEF u
      <4> QED
        BY <4>1, MoreLiterals
    <3>2. 2 * (L + 1) + c \in Literals(u)
      BY <1>1, <2>2 DEF Literals
    <3>3. r.out \in Seq(Literals(u))
      <4>1. r.out \in Seq(Literals(r.nodes))
        BY DEF RowInv
      <4> HIDE DEF u
      <4> QED
        BY <3>1, <4>1
    <3>4. Literals(u) \subseteq Int
      BY DEF Literals
    <3> HIDE DEF u
    <3> QED
      BY <3>2, <3>3, <3>4
  <2>5. Len(nodes) <= Len(u)
    <3>1. Len(nodes) <= L /\ Len(nodes) \in Int
      BY DEF RowInv
    <3> QED
      BY <1>1, <2>2, <3>1
  <2>6. o # <<>>
    BY DEF RowInv
  <2> QED
    <3> HIDE DEF u, o
    <3> QED
      BY <2>1, <2>3, <2>4, <2>5, <2>6, RowOf DEF Filled
<1> QED
  BY <1>3, <1>4

LEMMA PlaceMade ==
  ASSUME NEW r, RowInv(r), NEW v \in Int, NEW use,
         NEW pair \in Literals(r.nodes) \X Literals(r.nodes)
  PROVE  Filled(gennode(r, v, pair, use))
<1>1. Len(r.nodes) \in Nat
  BY DEF RowInv
<1>2. pair[1] \in Literals(r.nodes) /\ pair[2] \in Literals(r.nodes)
  OBVIOUS
<1>3. ASSUME NEW t \in Literals(r.nodes), NEW e \in Literals(r.nodes)
      PROVE  Filled(BddUniqueCreate(r, v, t, e))
  <2>1. t \in Int /\ e \in Int
    BY DEF Literals
  <2>2. e % 2 \in {0, 1}
    BY <2>1, NotFacts
  <2>3. NotIf(e % 2, t) \in Literals(r.nodes) /\ NotIf(e % 2, e) \in Literals(r.nodes)
    <3> DEFINE n == Len(r.nodes) + 1
    <3>1. t < 2 * n /\ e < 2 * n /\ n \in Int
      BY <1>1 DEF Literals
    <3> HIDE DEF n
    <3>2. /\ NotIf(e % 2, t) \in Int /\ NotIf(e % 2, t) < 2 * n
          /\ NotIf(e % 2, e) \in Int /\ NotIf(e % 2, e) < 2 * n
      BY <2>1, <2>2, <3>1, NotIfFacts
    <3> QED
      BY <3>2 DEF Literals, n
  <2>4. NotIf(e % 2, e) % 2 = 0
    BY <2>1, <2>2, NotIfFacts
  <2>5. t # e => NotIf(e % 2, t) # NotIf(e % 2, e)
    BY <2>1, <2>2, NotIfFacts
  <2>6. CASE t = e
    BY <2>6, OneOut DEF BddUniqueCreate
  <2>7. CASE t # e
    <3>1. Filled(BddUniqueCreateInt(r, <<v, NotIf(e % 2, t), NotIf(e % 2, e)>>, e % 2))
      BY <2>2, <2>3, <2>4, <2>5, <2>7, NodeMade
    <3> QED
      BY <2>7, <3>1 DEF BddUniqueCreate
  <2> QED
    BY <2>6, <2>7
<1> QED
  BY <1>2, <1>3, OneOut DEF gennode

\* Everything a place is made of is a literal of the row before.
LEMMA AtIsLiteral ==
  ASSUME Table(nodes), pBuf \in Seq(Literals(nodes)), NEW k \in Nat
  PROVE  At(k) \in Literals(nodes)
<1>1. Len(nodes) \in Nat /\ Len(pBuf) \in Nat
  BY DEF Table
<1>2. CASE k < Len(pBuf)
  <2>1. k + 1 \in 1 .. Len(pBuf)
    BY <1>1, <1>2
  <2> QED
    BY <1>2, <2>1 DEF At
<1>3. CASE ~(k < Len(pBuf))
  BY <1>1, <1>3 DEF At, Stray, Literals
<1> QED
  BY <1>2, <1>3

LEMMA NotIsLiteral ==
  ASSUME NEW t, Len(t) \in Nat, NEW l \in Literals(t)
  PROVE  Not(l) \in Literals(t)
<1> DEFINE n == Len(t) + 1
<1>1. l \in Int /\ l < 2 * n /\ n \in Int
  BY DEF Literals
<1> HIDE DEF n
<1>2. Not(l) \in Int /\ Not(l) < 2 * n
  BY <1>1, NotFacts
<1> QED
  BY <1>2 DEF Literals, n

LEMMA PairsAreLiterals ==
  ASSUME Table(nodes), pBuf \in Seq(Literals(nodes)), NEW k \in Nat
  PROVE  /\ Inner(k) \in Literals(nodes) \X Literals(nodes)
         /\ Outer(k) \in Literals(nodes) \X Literals(nodes)
<1>1. \A i \in Nat : At(i) \in Literals(nodes)
  BY AtIsLiteral
<1>2. Len(nodes) \in Nat /\ 0 \in Literals(nodes) /\ 1 \in Literals(nodes)
  BY DEF Literals, Table
<1>3. Not(At(1)) \in Literals(nodes) /\ At(0) \in Literals(nodes)
  BY <1>1, <1>2, NotIsLiteral
<1>4. /\ At(k) \in Literals(nodes) /\ At(k + 1) \in Literals(nodes)
      /\ At(2 * k) \in Literals(nodes) /\ At(2 * k + 1) \in Literals(nodes)
  BY <1>1
<1>5. k # 0 => At(2 * k - 1) \in Literals(nodes) /\ At(k - 1) \in Literals(nodes)
  BY <1>1
<1>6. Inner(k) \in Literals(nodes) \X Literals(nodes)
  BY <1>2, <1>3, <1>4, <1>5 DEF Inner
<1>7. Outer(k) \in Literals(nodes) \X Literals(nodes)
  BY <1>2, <1>3, <1>4, <1>5 DEF Outer
<1> QED
  BY <1>6, <1>7

\* A row of given width is made place by place.
LEMMA PlacesDef ==
  ASSUME levelsize \in Nat, NEW marks
  PROVE  Places(marks) =
           [k \in 0 .. levelsize |->
              IF k = 0 THEN [nodes |-> nodes, out |-> <<>>]
              ELSE Place(Places(marks)[k - 1], k - 1, marks)]
<1> DEFINE width == levelsize
           first == [nodes |-> nodes, out |-> <<>>]
           Eq(g, n) == g = [k \in 0 .. n |->
                              IF k = 0 THEN first ELSE Place(g[k - 1], k - 1, marks)]
           S == {n \in Nat : \E g : Eq(g, n)}
<1> HIDE DEF first
<1>1. 0 \in S
  <2>1. Eq([k \in 0 .. 0 |-> first], 0)
    OBVIOUS
  <2>2. \E g : Eq(g, 0)
    <3> HIDE DEF Eq
    <3> QED
      BY <2>1
  <2> HIDE DEF Eq
  <2> QED
    BY <2>2
<1>2. ASSUME NEW n \in Nat, n \in S PROVE n + 1 \in S
  <2>1. PICK g : Eq(g, n)
    BY <1>2
  <2> DEFINE h == [k \in 0 .. n + 1 |->
                     IF k = 0 THEN first ELSE Place(g[k - 1], k - 1, marks)]
  <2>2. ASSUME NEW k \in 0 .. n PROVE h[k] = g[k]
    BY <2>1
  <2>3. ASSUME NEW k \in 0 .. n + 1
        PROVE  h[k] = IF k = 0 THEN first ELSE Place(h[k - 1], k - 1, marks)
    <3>1. CASE k = 0
      BY <3>1
    <3>2. CASE k # 0
      <4>1. k - 1 \in 0 .. n
        BY <3>2
      <4>2. h[k - 1] = g[k - 1]
        BY <2>2, <4>1
      <4> QED
        BY <3>2, <4>2
    <3> QED
      BY <3>1, <3>2
  <2>4. Eq(h, n + 1)
    <3>1. h = [k \in 0 .. n + 1 |-> h[k]]
      OBVIOUS
    <3> HIDE DEF h
    <3> QED
      BY <2>3, <3>1
  <2>5. \E g_1 : Eq(g_1, n + 1)
    <3> HIDE DEF h, Eq
    <3> QED
      BY <2>4
  <2> HIDE DEF Eq
  <2> QED
    BY <2>5
<1>3. width \in S
  <2> HIDE DEF S
  <2>1. Nat \subseteq S
    BY <1>1, <1>2, SetInduction
  <2> QED
    BY <2>1
<1>4. PICK g : Eq(g, width)
  BY <1>3
<1> DEFINE p == CHOOSE g_1 : Eq(g_1, width)
<1>5. Eq(p, width)
  BY <1>4
<1>6. Places(marks) = p
  BY DEF Places, first
<1> QED
  BY <1>5, <1>6 DEF first

LEMMA RowMade ==
  ASSUME Table(nodes), pBuf \in Seq(Literals(nodes)), Var \in Int, row \in Int,
         levelsize \in Nat, NEW marks
  PROVE  \A k \in 0 .. levelsize : RowInv(Places(marks)[k])
<1> DEFINE p == Places(marks)
           width == levelsize
           S == {k \in 0 .. width : RowInv(p[k])}
<1>1. p = [k \in 0 .. width |->
             IF k = 0 THEN [nodes |-> nodes, out |-> <<>>] ELSE Place(p[k - 1], k - 1, marks)]
  BY PlacesDef
<1>2. nodes \in Seq(Triples) /\ Len(nodes) \in Nat /\ 0 \in Literals(nodes)
  BY DEF Table, Literals
<1> HIDE DEF p, width
<1>3. width \in Nat
  BY DEF width
<1>4. 0 \in S
  <2>1. p[0] = [nodes |-> nodes, out |-> <<>>]
    BY <1>1, <1>3
  <2>2. <<>> \in Seq(Literals(nodes))
    OBVIOUS
  <2> QED
    <3>1. RowInv([nodes |-> nodes, out |-> <<>>])
      <4>1. Len(nodes) <= Len(nodes)
        BY <1>2
      <4> QED
        BY <2>2, <4>1, RowOf
    <3> QED
      BY <1>3, <2>1, <3>1
<1>5. ASSUME NEW k \in 0 .. width - 1, k \in S PROVE k + 1 \in S
  <2>1. k + 1 \in 0 .. width /\ k + 1 # 0 /\ (k + 1) - 1 = k /\ k \in Nat
    BY <1>3
  <2>2. p[k + 1] = Place(p[k], k, marks) /\ RowInv(p[k])
    BY <1>1, <1>5, <2>1
  <2>3. Inner(k) \in Literals(nodes) \X Literals(nodes)
        /\ Outer(k) \in Literals(nodes) \X Literals(nodes)
    BY <2>1, PairsAreLiterals
  <2> DEFINE pair == IF row < col THEN Inner(k) ELSE Outer(k)
  <2>4. pair \in Literals(nodes) \X Literals(nodes)
    BY <2>3
  <2>5. Var - row \in Int
    OBVIOUS
  <2> HIDE DEF pair
  <2>6. RowInv(gennode(p[k], Var - row, pair, fUse))
    <3>1. Len(p[k].nodes) \in Nat /\ Len(nodes) <= Len(p[k].nodes)
      BY <2>2 DEF RowInv
    <3>2. pair \in Literals(p[k].nodes) \X Literals(p[k].nodes)
      BY <1>2, <2>4, <3>1, MoreLiterals
    <3> QED
      BY <2>2, <2>5, <3>2, PlaceMade DEF Filled
  <2>7. RowInv([p[k] EXCEPT !.out = Append(@, 0)])
    <3>1. Len(p[k].nodes) \in Nat /\ Len(nodes) <= Len(p[k].nodes)
      BY <2>2 DEF RowInv
    <3>2. 0 \in Literals(p[k].nodes)
      BY <3>1 DEF Literals
    <3> QED
      BY <2>2, <3>2, OneOut DEF Filled
  <2>8. RowInv(Place(p[k], k, marks))
    BY <2>6, <2>7 DEF Place, pair
  <2> QED
    BY <2>1, <2>2, <2>8
<1>6. 0 .. width \subseteq S
  <2> HIDE DEF S
  <2> QED
    BY <1>3, <1>4, <1>5, UpTo
<1> QED
  BY <1>3, <1>6 DEF p, width

\* The same for the column of one place per row.
LEMMA LastRowsDef ==
  ASSUME m \in Nat
  PROVE  LastRows = [j \in 0 .. m |->
                       IF j = 0 THEN [nodes |-> nodes, out |-> <<At(0)>>]
                       ELSE LastRow(LastRows[j - 1], j - 1)]
<1> DEFINE first == [nodes |-> nodes, out |-> <<At(0)>>]
           Eq(g, n) == g = [j \in 0 .. n |->
                              IF j = 0 THEN first ELSE LastRow(g[j - 1], j - 1)]
           S == {n \in Nat : \E g : Eq(g, n)}
<1> HIDE DEF first
<1>1. 0 \in S
  <2>1. Eq([j \in 0 .. 0 |-> first], 0)
    OBVIOUS
  <2>2. \E g : Eq(g, 0)
    <3> HIDE DEF Eq
    <3> QED
      BY <2>1
  <2> HIDE DEF Eq
  <2> QED
    BY <2>2
<1>2. ASSUME NEW n \in Nat, n \in S PROVE n + 1 \in S
  <2>1. PICK g : Eq(g, n)
    BY <1>2
  <2> DEFINE h == [j \in 0 .. n + 1 |-> IF j = 0 THEN first ELSE LastRow(g[j - 1], j - 1)]
  <2>2. ASSUME NEW j \in 0 .. n PROVE h[j] = g[j]
    BY <2>1
  <2>3. ASSUME NEW j \in 0 .. n + 1
        PROVE  h[j] = IF j = 0 THEN first ELSE LastRow(h[j - 1], j - 1)
    <3>1. CASE j = 0
      BY <3>1
    <3>2. CASE j # 0
      <4>1. j - 1 \in 0 .. n
        BY <3>2
      <4>2. h[j - 1] = g[j - 1]
        BY <2>2, <4>1
      <4> QED
        BY <3>2, <4>2
    <3> QED
      BY <3>1, <3>2
  <2>4. Eq(h, n + 1)
    <3>1. h = [j \in 0 .. n + 1 |-> h[j]]
      OBVIOUS
    <3> HIDE DEF h
    <3> QED
      BY <2>3, <3>1
  <2>5. \E g_1 : Eq(g_1, n + 1)
    <3> HIDE DEF h, Eq
    <3> QED
      BY <2>4
  <2> HIDE DEF Eq
  <2> QED
    BY <2>5
<1>3. m \in S
  <2> HIDE DEF S
  <2>1. Nat \subseteq S
    BY <1>1, <1>2, SetInduction
  <2> QED
    BY <2>1
<1>4. PICK g : Eq(g, m)
  BY <1>3
<1> DEFINE p == CHOOSE g_1 : Eq(g_1, m)
<1>5. Eq(p, m)
  BY <1>4
<1>6. LastRows = p
  BY DEF LastRows, first
<1> QED
  BY <1>5, <1>6 DEF first

LEMMA LastColumnMade ==
  ASSUME Table(nodes), pBuf \in Seq(Literals(nodes)), Var2 \in Int, m \in Nat
  PROVE  /\ RowInv(LastColumn)
         /\ Last(LastColumn.out) \in Literals(LastColumn.nodes)
         /\ \A j \in 0 .. m : Filled(LastRows[j])
<1> DEFINE p == LastRows
           S == {j \in 0 .. m : Filled(p[j])}
<1>1. p = [j \in 0 .. m |->
             IF j = 0 THEN [nodes |-> nodes, out |-> <<At(0)>>] ELSE LastRow(p[j - 1], j - 1)]
  BY LastRowsDef
<1>2. nodes \in Seq(Triples) /\ Len(nodes) \in Nat /\ At(0) \in Literals(nodes)
  BY AtIsLiteral DEF Table
<1>3. \A r : Filled(r) => Last(r.out) \in Literals(r.nodes)
  BY DEF Filled, RowInv, Last
<1> HIDE DEF p
<1>4. 0 \in S
  <2>1. p[0] = [nodes |-> nodes, out |-> <<At(0)>>]
    BY <1>1
  <2>2. <<At(0)>> \in Seq(Literals(nodes)) /\ <<At(0)>> # <<>>
    BY <1>2
  <2> QED
    <3> DEFINE o == <<At(0)>>
               w == [nodes |-> nodes, out |-> o]
    <3>1. o \in Seq(Literals(nodes)) /\ o # <<>> /\ Len(nodes) <= Len(nodes)
      BY <1>2, <2>2
    <3>2. p[0] = w
      BY <2>1
    <3> HIDE DEF o
    <3>3. RowInv(w) /\ w.out = o
      BY <3>1, RowOf
    <3> HIDE DEF w
    <3>4. Filled(p[0])
      BY <3>1, <3>2, <3>3 DEF Filled
    <3> QED
      BY <3>4
<1>5. ASSUME NEW j \in 0 .. m - 1, j \in S PROVE j + 1 \in S
  <2>1. j + 1 \in 0 .. m /\ j + 1 # 0 /\ (j + 1) - 1 = j /\ j \in Nat
    OBVIOUS
  <2>2. p[j + 1] = LastRow(p[j], j) /\ Filled(p[j])
    BY <1>1, <1>5, <2>1
  <2> DEFINE lit == Last(p[j].out)
             pair == <<lit, Not(lit)>>
  <2>3. lit \in Literals(p[j].nodes)
    BY <1>3, <2>2
  <2>4. Len(p[j].nodes) \in Nat /\ RowInv(p[j])
    BY <2>2 DEF RowInv, Filled
  <2> HIDE DEF lit
  <2>5. pair \in Literals(p[j].nodes) \X Literals(p[j].nodes)
    BY <2>3, <2>4, NotIsLiteral
  <2>6. Var2 - j \in Int
    BY <2>1
  <2> HIDE DEF pair
  <2>7. Filled(gennode(p[j], Var2 - j, pair, M - m >= N - j /\ j < N))
    BY <2>4, <2>5, <2>6, PlaceMade
  <2> QED
    BY <2>1, <2>2, <2>7 DEF LastRow, pair, lit
<1>6. 0 .. m \subseteq S
  <2> HIDE DEF S
  <2> QED
    BY <1>4, <1>5, UpTo
<1>7. Filled(p[m])
  BY <1>6
<1>8. LastColumn = p[m]
  BY DEF LastColumn, p
<1> QED
  BY <1>3, <1>6, <1>7, <1>8 DEF Filled, p

\* The literals that bdd() keeps name nodes of the table; the walk marks some of
\* them and counts what it marks.
TableInv ==
  /\ Table(nodes) /\ pBuf \in Seq(Literals(nodes))
  /\ Var \in Int /\ Var2 \in Int /\ m \in 0 .. M /\ col \in Nat /\ row \in 0 .. col
  /\ pOutputs \in [0 .. M - 1 -> Literals(nodes)]

WalkInv ==
  /\ stack \in Seq(Literals(nodes))
  /\ pMarks \subseteq 1 .. Len(nodes) /\ count \in 0 .. Len(nodes)
  /\ dpc \in {"off", "rows"} => pMarks = {} /\ count = 0
  /\ dpc = "count" => count = Cardinality(pMarks)

BddInv == TableInv /\ WalkInv

LEMMA SizeOfOutput == M \in Nat /\ 1 < M /\ N \in Nat /\ NUMVAR \in Int
<1>1. N \in Nat /\ N > 1
  BY NAssumption
<1>2. N * N \in Int
  BY <1>1
<1> QED
  BY <1>1, <1>2 DEF M, NUMVAR

LEMMA ColumnVarType ==
  ASSUME NEW v \in Int, NEW i \in Int
  PROVE  ColumnVar(v, i) \in Int
BY SizeOfOutput DEF ColumnVar

LEMMA LevelType ==
  ASSUME NEW bits \in Nat, NEW n \in Nat
  PROVE  Level(bits, n) \in Nat
<1>1. Powers(2, bits)[bits] \in Nat
  BY PowersType
<1> QED
  BY <1>1 DEF Level, TwoTo

\* What a row leaves: a longer table, in which the literals from before still
\* name nodes.
LEMMA LongerTable ==
  ASSUME TableInv, WalkInv, NEW r, RowInv(r), nodes' = r.nodes
  PROVE  /\ Table(nodes') /\ Len(nodes) \in Nat /\ Len(nodes') \in Nat
         /\ Literals(nodes) \subseteq Literals(nodes')
         /\ pMarks \subseteq 1 .. Len(nodes') /\ count \in 0 .. Len(nodes')
<1>1. Len(nodes) \in Nat /\ Len(r.nodes) \in Nat /\ Len(nodes) <= Len(r.nodes)
  BY DEF RowInv, TableInv, Table
<1>2. Literals(nodes) \subseteq Literals(r.nodes)
  BY <1>1, MoreLiterals
<1> QED
  BY <1>1, <1>2 DEF RowInv, WalkInv

LEMMA SeqMore ==
  ASSUME NEW S, NEW T, S \subseteq T
  PROVE  Seq(S) \subseteq Seq(T)
OBVIOUS

LEMMA RowStepKeeps == BddInv /\ RowStep => BddInv'
<1> SUFFICES ASSUME TableInv, WalkInv, RowStep PROVE BddInv'
  BY DEF BddInv
<1>1. /\ Table(nodes) /\ pBuf \in Seq(Literals(nodes)) /\ Var \in Int /\ Var2 \in Int
      /\ m \in 0 .. M /\ col \in Nat /\ row \in 0 .. col /\ col < m - 1 /\ M \in Nat
  BY SizeOfOutput DEF TableInv, RowStep
<1>2. levelsize \in Nat
  <2>1. m - col - 1 \in Nat /\ m - col - 2 \in Nat /\ col + row \in Nat
    BY <1>1
  <2> QED
    BY <1>1, <2>1, LevelType DEF levelsize
<1>3. PICK marks : nodes' = Places(marks)[levelsize].nodes
                   /\ pBuf' = Places(marks)[levelsize].out
  BY DEF RowStep, Row
<1> DEFINE r == Places(marks)[levelsize]
<1>4. RowInv(r)
  <2>1. levelsize \in 0 .. levelsize
    BY <1>2
  <2> QED
    BY <1>1, <1>2, <2>1, RowMade
<1> HIDE DEF r
<1>5. nodes' = r.nodes /\ pBuf' = r.out
  BY <1>3 DEF r
<1>6. /\ Table(nodes') /\ Literals(nodes) \subseteq Literals(nodes')
      /\ pMarks \subseteq 1 .. Len(nodes') /\ count \in 0 .. Len(nodes')
  BY <1>4, <1>5, LongerTable
<1>7. pBuf' \in Seq(Literals(nodes'))
  BY <1>4, <1>5 DEF RowInv
<1>8. /\ UNCHANGED <<dpc, m, Var2, pOutputs, stack, pMarks, count>>
      /\ \/ row < col /\ row' = row + 1 /\ UNCHANGED <<col, Var>>
         \/ row' = 0 /\ col' = col + 1 /\ Var' = ColumnVar(Var, col + 1)
  BY DEF RowStep
<1>9. col' \in Nat /\ row' \in 0 .. col' /\ Var' \in Int
  <2>1. ColumnVar(Var, col + 1) \in Int
    BY <1>1, ColumnVarType
  <2> QED
    BY <1>1, <1>8, <2>1
<1>10. stack' \in Seq(Literals(nodes')) /\ pOutputs' \in [0 .. M - 1 -> Literals(nodes')]
  <2>1. stack \in Seq(Literals(nodes)) /\ pOutputs \in [0 .. M - 1 -> Literals(nodes)]
    BY DEF TableInv, WalkInv
  <2>2. stack \in Seq(Literals(nodes'))
    BY <1>6, <2>1, SeqMore
  <2> QED
    BY <1>6, <1>8, <2>1, <2>2
<1> QED
  BY <1>1, <1>6, <1>7, <1>8, <1>9, <1>10 DEF BddInv, TableInv, WalkInv

LEMMA OutputStepKeeps == BddInv /\ OutputStep => BddInv'
<1> SUFFICES ASSUME TableInv, WalkInv, OutputStep PROVE BddInv'
  BY DEF BddInv
<1>1. /\ Table(nodes) /\ pBuf \in Seq(Literals(nodes)) /\ Var2 \in Int
      /\ m \in 1 .. M /\ M \in Nat /\ 1 < M /\ N \in Nat /\ NUMVAR \in Int
  BY SizeOfOutput DEF TableInv, OutputStep
<1> DEFINE r == LastColumn
           lit == Last(r.out)
<1>2. RowInv(r) /\ lit \in Literals(r.nodes)
  BY <1>1, LastColumnMade
<1> HIDE DEF r, lit
<1>3. /\ nodes' = r.nodes /\ pOutputs' = [pOutputs EXCEPT ![m - 1] = Output(lit)]
      /\ Var2' = (IF m <= N THEN Var2 + (m - 1) ELSE Var2 + (M - m))
      /\ m' = m - 1 /\ FirstColumn /\ Var' = ColumnVar(NUMVAR - 1, 1)
      /\ UNCHANGED <<dpc, pSkip, stack, pMarks, count>>
  BY DEF OutputStep, r, lit
<1>4. /\ Table(nodes') /\ Literals(nodes) \subseteq Literals(nodes') /\ Len(nodes') \in Nat
      /\ pMarks \subseteq 1 .. Len(nodes') /\ count \in 0 .. Len(nodes')
  BY <1>2, <1>3, LongerTable
<1>5. Output(lit) \in Literals(nodes')
  BY <1>2, <1>3, <1>4, NotIsLiteral DEF Output
<1>6. stack' \in Seq(Literals(nodes')) /\ pOutputs' \in [0 .. M - 1 -> Literals(nodes')]
  <2>1. stack \in Seq(Literals(nodes)) /\ pOutputs \in [0 .. M - 1 -> Literals(nodes)]
    BY DEF TableInv, WalkInv
  <2>2. stack \in Seq(Literals(nodes'))
    BY <1>4, <2>1, SeqMore
  <2> QED
    BY <1>3, <1>4, <1>5, <2>1, <2>2
<1>7. /\ col' = 1 /\ row' = 0 /\ pBuf' \in Seq(Literals(nodes'))
  <2>1. 1 \in Literals(nodes')
    BY <1>4 DEF Literals
  <2> QED
    BY <1>3, <2>1 DEF FirstColumn
<1>8. Var' \in Int /\ Var2' \in Int /\ m' \in 0 .. M
  <2>1. ColumnVar(NUMVAR - 1, 1) \in Int
    BY <1>1, ColumnVarType
  <2> QED
    BY <1>1, <1>3, <2>1
<1> QED
  BY <1>3, <1>4, <1>6, <1>7, <1>8 DEF BddInv, TableInv, WalkInv

\* The walk goes only to nodes of the table.
LEMMA ChildrenAreLiterals ==
  ASSUME Table(nodes), NEW i \in Literals(nodes), i >= 2
  PROVE  /\ i \div 2 \in 1 .. Len(nodes)
         /\ BddThen(i) \in Literals(nodes) /\ BddElse(i) \in Literals(nodes)
<1> DEFINE L == Len(nodes)
           k == i \div 2
<1>1. L \in Nat /\ i \in Int /\ i < 2 * (L + 1)
  BY DEF Table, Literals
<1>2. k \in 1 .. L /\ i % 2 \in {0, 1}
  <2> HIDE DEF L
  <2> QED
    BY <1>1
<1> HIDE DEF k
<1>3. /\ nodes[k][2] \in Int /\ nodes[k][3] \in Int
      /\ nodes[k][2] < 2 * k /\ nodes[k][3] < 2 * k /\ k \in Int
  <2>1. k \in DOMAIN nodes /\ nodes[k] \in Int \X Int \X Int
    BY <1>2 DEF Table, Triples
  <2> QED
    BY <1>2, <2>1 DEF Table
<1>4. /\ NotIf(i % 2, nodes[k][2]) \in Int /\ NotIf(i % 2, nodes[k][2]) < 2 * k
      /\ NotIf(i % 2, nodes[k][3]) \in Int /\ NotIf(i % 2, nodes[k][3]) < 2 * k
  BY <1>2, <1>3, NotIfFacts
<1>5. 2 * k < 2 * (L + 1)
  BY <1>1, <1>2
<1>6. /\ BddThen(i) = NotIf(i % 2, nodes[k][2]) /\ BddElse(i) = NotIf(i % 2, nodes[k][3])
  BY DEF BddThen, BddElse, k
<1>7. \A l \in Int : l < 2 * k => l \in Literals(nodes)
  BY <1>1, <1>3, <1>5 DEF Literals
<1> QED
  BY <1>2, <1>4, <1>6, <1>7 DEF k

\* A mark more is counted, and there are no more marks than nodes.
LEMMA MarksCounted ==
  ASSUME NEW n \in Nat, NEW S \in SUBSET (1 .. n)
  PROVE  /\ IsFiniteSet(S) /\ Cardinality(S) \in 0 .. n
         /\ \A x \in 1 .. n : x \notin S => Cardinality(S \union {x}) = Cardinality(S) + 1
<1>1. IsFiniteSet(1 .. n) /\ Cardinality(1 .. n) = n
  BY FS_Interval
<1>2. IsFiniteSet(S) /\ Cardinality(S) <= n
  BY <1>1, FS_Subset
<1>3. Cardinality(S) \in Nat
  BY <1>2, FS_CardinalityType
<1> QED
  BY <1>2, <1>3, FS_AddElement

LEMMA VisitKeeps ==
  ASSUME BddInv, Visit, nodes' = nodes
  PROVE  WalkInv'
<1> DEFINE i == Last(stack)
           fresh == i >= 2 /\ (Marked(i) <=> dpc = "unmark")
           L == Len(nodes)
<1>1. /\ Table(nodes) /\ L \in Nat /\ stack \in Seq(Literals(nodes)) /\ stack # <<>>
      /\ pMarks \in SUBSET (1 .. L) /\ count \in 0 .. L
      /\ dpc \in {"count", "unmark"} /\ dpc' = dpc
      /\ dpc = "count" => count = Cardinality(pMarks)
  BY DEF BddInv, TableInv, WalkInv, Visit, Table
<1>2. /\ stack' = IF fresh THEN Front(stack) \o <<BddElse(i), BddThen(i)>> ELSE Front(stack)
      /\ pMarks' = IF ~fresh THEN pMarks
                   ELSE IF dpc = "count" THEN pMarks \union {i \div 2}
                   ELSE pMarks \ {i \div 2}
      /\ count' = IF fresh /\ dpc = "count" THEN count + 1 ELSE count
  BY DEF Visit
<1>3. i \in Literals(nodes) /\ Front(stack) \in Seq(Literals(nodes))
  BY <1>1 DEF Last, Front
<1>4. fresh => /\ i \div 2 \in 1 .. L
               /\ BddThen(i) \in Literals(nodes) /\ BddElse(i) \in Literals(nodes)
  BY <1>1, <1>3, ChildrenAreLiterals
<1>5. fresh /\ dpc = "count" => i \div 2 \notin pMarks
  BY DEF Marked
<1> HIDE DEF i, fresh, L
<1>6. stack' \in Seq(Literals(nodes))
  <2>1. fresh => Front(stack) \o <<BddElse(i), BddThen(i)>> \in Seq(Literals(nodes))
    <3> SUFFICES ASSUME fresh
                 PROVE  Front(stack) \o <<BddElse(i), BddThen(i)>> \in Seq(Literals(nodes))
      OBVIOUS
    <3>1. <<BddElse(i), BddThen(i)>> \in Seq(Literals(nodes))
      BY <1>4
    <3> QED
      BY <1>3, <3>1
  <2> QED
    BY <1>2, <1>3, <2>1
<1>7. CASE fresh /\ dpc = "count"
  <2>1. pMarks' \in SUBSET (1 .. L) /\ Cardinality(pMarks') = count + 1 /\ count' = count + 1
    BY <1>1, <1>2, <1>4, <1>5, <1>7, MarksCounted
  <2>2. count' \in 0 .. L
    BY <1>1, <2>1, MarksCounted
  <2> QED
    BY <1>1, <1>6, <1>7, <2>1, <2>2 DEF WalkInv, L
<1>8. CASE ~(fresh /\ dpc = "count")
  <2>1. pMarks' \in SUBSET (1 .. L) /\ count' = count /\ (dpc = "count" => pMarks' = pMarks)
    BY <1>1, <1>2, <1>8
  <2> QED
    BY <1>1, <1>6, <2>1 DEF WalkInv, L
<1> QED
  BY <1>7, <1>8

LEMMA CountKeeps == BddInv /\ BddCountNodesArray => BddInv'
<1> SUFFICES ASSUME BddInv, BddCountNodesArray PROVE BddInv'
  OBVIOUS
<1>1. UNCHANGED <<col, row, Var, Var2, pBuf, nodes, pOutputs>>
  BY DEF BddCountNodesArray
<1>2. \A i \in 0 .. M - 1 : <<pOutputs[i]>> \in Seq(Literals(nodes))
  BY DEF BddInv, TableInv
<1>3. ASSUME NEW i \in 0 .. M - 1, NEW phase \in {"count", "unmark"}, Walk(phase, i),
             UNCHANGED <<pMarks, count>>, phase = "count" => count = Cardinality(pMarks)
      PROVE  BddInv'
  <2>1. m' \in 0 .. M /\ dpc' = phase /\ stack' \in Seq(Literals(nodes))
    BY <1>2, <1>3, SizeOfOutput DEF Walk
  <2> QED
    BY <1>1, <1>3, <2>1 DEF BddInv, TableInv, WalkInv
<1>4. CASE CountStarts
  <2>1. 0 \in 0 .. M - 1
    BY SizeOfOutput
  <2>2. pMarks = {} /\ count = 0 /\ Cardinality({}) = 0
    BY <1>4, FS_EmptySet DEF CountStarts, BddInv, WalkInv
  <2> QED
    BY <1>3, <1>4, <2>1, <2>2 DEF CountStarts
<1>5. CASE Visit
  <2>1. WalkInv' /\ m' = m
    BY <1>1, <1>5, VisitKeeps DEF Visit
  <2> QED
    BY <1>1, <2>1 DEF BddInv, TableInv
<1>6. CASE WalkEnds
  <2>1. /\ dpc \in {"count", "unmark"} /\ UNCHANGED <<pMarks, count>> /\ m \in 0 .. M
        /\ dpc = "count" => count = Cardinality(pMarks)
    BY <1>6 DEF WalkEnds, BddInv, TableInv, WalkInv
  <2>2. CASE m + 1 < M
    <3>1. m + 1 \in 0 .. M - 1 /\ Walk(dpc, m + 1)
      BY <1>6, <2>1, <2>2, SizeOfOutput DEF WalkEnds
    <3> QED
      BY <1>3, <2>1, <3>1
  <2>3. CASE ~(m + 1 < M) /\ dpc = "count"
    <3>1. 0 \in 0 .. M - 1 /\ Walk("unmark", 0)
      BY <1>6, <2>3, SizeOfOutput DEF WalkEnds
    <3> QED
      BY <1>3, <2>1, <3>1
  <2>4. CASE ~(m + 1 < M) /\ dpc # "count"
    <3>1. dpc' = "done" /\ UNCHANGED <<m, stack>>
      BY <1>6, <2>4 DEF WalkEnds
    <3> QED
      BY <1>1, <2>1, <3>1 DEF BddInv, TableInv, WalkInv
  <2> QED
    BY <2>2, <2>3, <2>4
<1> QED
  BY <1>4, <1>5, <1>6 DEF BddCountNodesArray

\* An empty table, from which bdd() starts.
LEMMA EmptyTable ==
  ASSUME NEW t, t = <<>>
  PROVE  /\ Table(t) /\ Len(t) = 0 /\ <<1>> \in Seq(Literals(t)) /\ Stray \in Literals(t)
         /\ <<>> \in Seq(Literals(t))
BY DEF Table, Literals, Stray

LEMMA BddStarts == (\E pc : BddMain(pc)) => BddInv'
<1> SUFFICES ASSUME NEW pc, BddMain(pc) PROVE BddInv'
  OBVIOUS
<1>1. ColumnVar(NUMVAR - 1, 1) \in Int /\ M \in Nat /\ 1 < M /\ N \in Nat
  BY SizeOfOutput, ColumnVarType
<1>2. Cardinality({}) = 0
  BY FS_EmptySet
<1>3. nodes' = <<>> /\ Len(nodes') = 0
  BY EmptyTable DEF BddMain
<1>4. TableInv'
  BY <1>1, <1>3, EmptyTable DEF BddMain, TableInv
<1>5. WalkInv'
  BY <1>2, <1>3, EmptyTable DEF BddMain, WalkInv
<1> QED
  BY <1>4, <1>5 DEF BddInv

LEMMA BddBegins == (\E pc : BddInit(pc)) => BddInv
<1> SUFFICES ASSUME NEW pc, BddInit(pc) PROVE BddInv
  OBVIOUS
<1>1. ColumnVar(NUMVAR - 1, 1) \in Int /\ M \in Nat /\ 1 < M /\ N \in Nat
  BY SizeOfOutput, ColumnVarType
<1>2. Cardinality({}) = 0
  BY FS_EmptySet
<1>3. nodes = <<>> /\ Len(nodes) = 0
  BY EmptyTable DEF BddInit
<1>4. TableInv
  BY <1>1, <1>3, EmptyTable DEF BddInit, TableInv
<1>5. WalkInv
  BY <1>2, <1>3, EmptyTable DEF BddInit, WalkInv
<1> QED
  BY <1>4, <1>5 DEF BddInv

LEMMA BddStep == BddInv /\ [Next]_vars => BddInv'
<1> SUFFICES ASSUME BddInv, [Next]_vars PROVE BddInv'
  OBVIOUS
<1>1. CASE UNCHANGED bddVars
  BY <1>1 DEF bddVars, BddInv, TableInv, WalkInv
<1>2. ASSUME NEW pc, BddMain(pc) PROVE BddInv'
  BY <1>2, BddStarts
<1>3. CASE BddRuns
  BY <1>3, RowStepKeeps, OutputStepKeeps DEF BddRuns, bdd_rows
<1>4. CASE ProgramRuns
  BY <1>1, <1>4, CountKeeps DEF ProgramRuns, programVars
<1>5. CASE BiosActs
  BY <1>1, <1>2, <1>5 DEF BiosActs, Begins
<1>6. CASE ProgramEnds \/ Reset
  BY <1>1, <1>2, <1>6 DEF ProgramEnds, Reset, run_and_time, ProgramsOff, programVars
<1>7. CASE UNCHANGED vars
  BY <1>1, <1>7 DEF vars, programVars
<1> QED
  BY <1>3, <1>4, <1>5, <1>6, <1>7 DEF Next

\* bdd.c makes no node twice and none that is not in its normal form, however the
\* rows of all outputs share the table, for every N: the diagrams are reduced,
\* and without cycles.
THEOREM DiagramsAreReduced == Spec => []BddReduced
<1>1. BddInv => BddReduced
  BY DEF BddInv, TableInv, Table, BddReduced
<1>2. Init => BddInv
  BY BddBegins DEF Init
<1> QED
  BY <1>1, <1>2, BddStep, PTL DEF Spec

\* BddCountNodesArray() marks and counts nodes of the table, each once: what it
\* returns is never more than the number of nodes that there are.
THEOREM CountIsOfNodes == Spec => []NodesCountedOnce
<1>1. BddInv => NodesCountedOnce
  <2> SUFFICES ASSUME BddInv PROVE NodesCountedOnce
    OBVIOUS
  <2>1. Len(nodes) \in Nat /\ DOMAIN nodes = 1 .. Len(nodes)
    BY DEF BddInv, TableInv, Table
  <2> QED
    BY <2>1 DEF BddInv, WalkInv, NodesCountedOnce, bddResult, nObjs
<1>2. Init => BddInv
  BY BddBegins DEF Init
<1> QED
  BY <1>1, <1>2, BddStep, PTL DEF Spec

-----------------------------------------------------------------------------
(* The bits of a number, which may be negative.                            *)

BitOf(x, p) == (x \div p) % 2

LEMMA QuotientIs ==
  ASSUME NEW x \in Int, NEW p \in Nat \ {0}, NEW q \in Int, NEW r \in 0 .. p - 1,
         x = p * q + r
  PROVE  x \div p = q /\ x % p = r
OBVIOUS

LEMMA QuotientExists ==
  ASSUME NEW x \in Int, NEW p \in Nat \ {0}
  PROVE  /\ x \div p \in Int /\ x % p \in 0 .. p - 1
         /\ x = p * (x \div p) + (x % p)
OBVIOUS

LEMMA TwiceOrOneMore ==
  ASSUME NEW x \in Int
  PROVE  \E h \in Int : x = 2 * h \/ x = 2 * h + 1
<1>1. x = 2 * (x \div 2) \/ x = 2 * (x \div 2) + 1
  OBVIOUS
<1>2. x \div 2 \in Int
  OBVIOUS
<1> QED
  BY <1>1, <1>2

LEMMA Times ==
  ASSUME NEW p \in Int, NEW q \in Int
  PROVE  p * (q + 1) = p * q + p /\ p * (q - 1) = p * q - p /\ p * q \in Int
OBVIOUS

LEMMA Parity ==
  ASSUME NEW q \in Int
  PROVE  /\ q % 2 \in {0, 1} /\ (q + 1) % 2 = 1 - (q % 2) /\ (q - 1) % 2 = 1 - (q % 2)
OBVIOUS

\* A step of p turns the bit over.
LEMMA BitTurns ==
  ASSUME NEW x \in Int, NEW p \in Nat \ {0}
  PROVE  /\ BitOf(x, p) \in {0, 1}
         /\ BitOf(x + p, p) = 1 - BitOf(x, p) /\ BitOf(x - p, p) = 1 - BitOf(x, p)
<1> DEFINE q == x \div p
           r == x % p
<1>1. q \in Int /\ r \in 0 .. p - 1 /\ x = p * q + r
  BY QuotientExists
<1> HIDE DEF q, r
<1>2. x + p = p * (q + 1) + r /\ x - p = p * (q - 1) + r
  BY <1>1, Times
<1>3. (x + p) \div p = q + 1 /\ (x - p) \div p = q - 1
  <2>1. x + p \in Int /\ x - p \in Int /\ q + 1 \in Int /\ q - 1 \in Int
    BY <1>1
  <2> QED
    BY <1>1, <1>2, <2>1, QuotientIs
<1>4. q % 2 \in {0, 1} /\ (q + 1) % 2 = 1 - (q % 2) /\ (q - 1) % 2 = 1 - (q % 2)
  BY <1>1, Parity
<1> QED
  BY <1>3, <1>4 DEF BitOf, q

LEMMA BitOfSmall ==
  ASSUME NEW p \in Nat \ {0}, NEW x \in Int
  PROVE  /\ x \in 0 .. p - 1 => BitOf(x, p) = 0
         /\ x \in p .. 2 * p - 1 => BitOf(x, p) = 1
         /\ x \in -p .. -1 => BitOf(x, p) = 1
<1>1. ASSUME x \in 0 .. p - 1 PROVE x \div p = 0
  <2>1. x = p * 0 + x
    OBVIOUS
  <2> QED
    BY <1>1, <2>1, QuotientIs
<1>2. ASSUME x \in p .. 2 * p - 1 PROVE x \div p = 1
  <2>1. x = p * 1 + (x - p) /\ x - p \in 0 .. p - 1
    BY <1>2
  <2> QED
    BY <2>1, QuotientIs
<1>3. ASSUME x \in -p .. -1 PROVE x \div p = -1
  <2>1. x = p * (-1) + (x + p) /\ x + p \in 0 .. p - 1
    BY <1>3
  <2>2. -1 \in Int
    OBVIOUS
  <2> QED
    BY <2>1, <2>2, QuotientIs
<1> QED
  BY <1>1, <1>2, <1>3 DEF BitOf

\* A bit of the half is the next bit of the number.
LEMMA BitOfHalf ==
  ASSUME NEW x \in Int, NEW b \in {0, 1}, NEW p \in Nat \ {0}
  PROVE  BitOf(2 * x + b, 2 * p) = BitOf(x, p)
<1> DEFINE q == x \div p
           r == x % p
<1>1. q \in Int /\ r \in 0 .. p - 1 /\ x = p * q + r
  BY QuotientExists
<1> HIDE DEF q, r
<1>2. 2 * x + b = (2 * p) * q + (2 * r + b)
  BY <1>1
<1>3. (2 * x + b) \div (2 * p) = q
  <2>1. 2 * x + b \in Int /\ 2 * p \in Nat \ {0} /\ 2 * r + b \in 0 .. 2 * p - 1
    BY <1>1
  <2> QED
    BY <1>1, <1>2, <2>1, QuotientIs
<1> QED
  BY <1>3 DEF BitOf, q

LEMMA HalfOf ==
  ASSUME NEW x \in Int
  PROVE  x \div 2 \in Int /\ \E b \in {0, 1} : x = 2 * (x \div 2) + b
<1>1. x = 2 * (x \div 2) \/ x = 2 * (x \div 2) + 1
  OBVIOUS
<1> QED
  BY <1>1

-----------------------------------------------------------------------------
(* Powers of two, and the sizes of levels.                                 *)

LEMMA TwoToFacts ==
  /\ TwoTo(0) = 1
  /\ \A n \in Nat : TwoTo(n) \in Nat \ {0} /\ TwoTo(n + 1) = 2 * TwoTo(n)
<1>1. TwoTo(0) = 1
  BY PowersNext DEF TwoTo
<1>2. ASSUME NEW n \in Nat PROVE TwoTo(n) \in Nat \ {0} /\ TwoTo(n + 1) = 2 * TwoTo(n)
  <2>1. Powers(2, n)[n] \in Nat \ {0}
    BY PowersType
  <2>2. Powers(2, n + 1)[n + 1] = 2 * Powers(2, n + 1)[n]
    <3>1. n + 1 \in Nat /\ n \in 0 .. (n + 1) - 1
      OBVIOUS
    <3> QED
      BY <3>1, PowersNext
  <2>3. Powers(2, n + 1)[n] = Powers(2, n)[n]
    <3>1. Powers(2, n + 1)[n + 0] = Powers(2, n)[n] * Powers(2, 0)[0]
      <4>1. n + 1 \in Nat /\ n \in 0 .. n /\ 0 \in 0 .. 0 /\ n + 0 <= n + 1 /\ 2 \in Nat \ {0}
        OBVIOUS
      <4> QED
        BY <4>1, PowersSum
    <3>2. Powers(2, 0)[0] = 1
      BY PowersNext
    <3> QED
      BY <2>1, <3>1, <3>2
  <2> QED
    BY <2>1, <2>2, <2>3 DEF TwoTo
<1> QED
  BY <1>1, <1>2

LEMMA TwoToGrows ==
  ASSUME NEW n \in Nat, NEW k \in Nat, k <= n
  PROVE  TwoTo(k) <= TwoTo(n)
<1> DEFINE d == n - k
           S == {i \in 0 .. d : TwoTo(k) <= TwoTo(k + i)}
<1>1. 0 \in S
  BY TwoToFacts
<1>2. ASSUME NEW i \in 0 .. d - 1, i \in S PROVE i + 1 \in S
  <2>1. TwoTo(k + i) \in Nat /\ TwoTo((k + i) + 1) = 2 * TwoTo(k + i) /\ TwoTo(k) \in Nat
    <3>1. k + i \in Nat
      BY <1>2
    <3> QED
      BY <3>1, TwoToFacts
  <2>2. k + (i + 1) = (k + i) + 1 /\ i + 1 \in 0 .. d /\ TwoTo(k) <= TwoTo(k + i)
    BY <1>2
  <2> QED
    BY <2>1, <2>2
<1>3. 0 .. d \subseteq S
  <2>1. d \in Nat
    OBVIOUS
  <2> HIDE DEF d, S
  <2> QED
    BY <1>1, <1>2, <2>1, UpTo
<1>4. d \in S /\ k + d = n
  BY <1>3
<1> QED
  BY <1>4

LEMMA Logarithm ==
  ASSUME NEW n \in Nat \ {0}
  PROVE  /\ floorlog2(n) \in 0 .. n
         /\ TwoTo(floorlog2(n)) <= n /\ n < TwoTo(floorlog2(n) + 1)
<1> DEFINE Is(t, i) == TwoTo(t) <= i /\ i < TwoTo(t + 1)
           S == {i \in Nat : \E t \in 0 .. i + 1 : t <= i + 1 /\ Is(t, i + 1)}
<1>1. 0 \in S
  <2>1. TwoTo(0) = 1 /\ TwoTo(0 + 1) = 2
    BY TwoToFacts
  <2>2. Is(0, 0 + 1) /\ 0 \in 0 .. 0 + 1
    BY <2>1
  <2> QED
    BY <2>2
<1>2. ASSUME NEW i \in Nat, i \in S PROVE i + 1 \in S
  <2>1. PICK t \in 0 .. i + 1 : Is(t, i + 1)
    BY <1>2
  <2>2. /\ TwoTo(t + 1) \in Nat /\ TwoTo(t) \in Nat
        /\ TwoTo((t + 1) + 1) = 2 * TwoTo(t + 1) /\ TwoTo(t + 1) = 2 * TwoTo(t)
    <3>1. t + 1 \in Nat /\ t \in Nat
      OBVIOUS
    <3> QED
      BY <3>1, TwoToFacts
  <2>3. CASE (i + 1) + 1 < TwoTo(t + 1)
    <3>1. Is(t, (i + 1) + 1) /\ t \in 0 .. (i + 1) + 1
      BY <2>1, <2>2, <2>3
    <3> QED
      BY <3>1
  <2>4. CASE ~((i + 1) + 1 < TwoTo(t + 1))
    <3>1. Is(t + 1, (i + 1) + 1) /\ t + 1 \in 0 .. (i + 1) + 1
      BY <2>1, <2>2, <2>4
    <3> QED
      BY <3>1
  <2> QED
    BY <2>3, <2>4
<1>3. n - 1 \in S
  <2> HIDE DEF S
  <2>1. Nat \subseteq S
    BY <1>1, <1>2, SetInduction
  <2>2. n - 1 \in Nat
    OBVIOUS
  <2> QED
    BY <2>1, <2>2
<1>4. \E t \in 0 .. n : Is(t, n)
  <2>1. (n - 1) + 1 = n
    OBVIOUS
  <2> QED
    BY <1>3, <2>1
<1> QED
  BY <1>4 DEF floorlog2

LEMMA LevelIs ==
  ASSUME NEW bits \in Nat, NEW n \in Nat \ {0}
  PROVE  /\ TwoTo(bits) \in Nat \ {0}
         /\ Level(bits, n) = IF n <= TwoTo(bits) THEN n ELSE TwoTo(bits)
<1> DEFINE t == floorlog2(n)
<1>1. t \in Nat /\ TwoTo(t) <= n /\ n < TwoTo(t + 1)
  BY Logarithm
<1> HIDE DEF t
<1>2. TwoTo(bits) \in Nat \ {0} /\ TwoTo(t) \in Nat /\ TwoTo(t + 1) \in Nat
  BY <1>1, TwoToFacts
<1>3. CASE bits > t
  <2>1. TwoTo(t + 1) <= TwoTo(bits)
    BY <1>1, <1>3, TwoToGrows
  <2> QED
    BY <1>1, <1>2, <1>3, <2>1 DEF Level, t
<1>4. CASE ~(bits > t)
  <2>1. TwoTo(bits) <= TwoTo(t)
    BY <1>1, <1>4, TwoToGrows
  <2> QED
    BY <1>1, <1>2, <1>4, <2>1 DEF Level, t
<1> QED
  BY <1>3, <1>4

-----------------------------------------------------------------------------
(* The columns of the multiplier and their variables.                      *)

Triangle(x) == (x * (x + 1)) \div 2

LEMMA Doubled ==
  ASSUME NEW h \in Int
  PROVE  (2 * h) * (2 * h + 1) = 2 * (h * (2 * h + 1)) /\ h * (2 * h + 1) \in Int
         /\ (2 * h + 1) * (2 * h + 2) = 2 * ((2 * h + 1) * (h + 1))
         /\ (2 * h + 1) * (h + 1) \in Int
OBVIOUS

LEMMA HalfOfDouble ==
  ASSUME NEW y \in Int
  PROVE  (2 * y) \div 2 = y
OBVIOUS

LEMMA TriangleIs ==
  ASSUME NEW x \in Int
  PROVE  Triangle(x) \in Int /\ 2 * Triangle(x) = x * (x + 1)
<1>1. PICK h \in Int : x = 2 * h \/ x = 2 * h + 1
  BY TwiceOrOneMore
<1>2. \E y \in Int : x * (x + 1) = 2 * y
  <2>1. CASE x = 2 * h
    <3>1. x * (x + 1) = 2 * (h * (2 * h + 1)) /\ h * (2 * h + 1) \in Int
      BY <2>1, Doubled
    <3> QED
      BY <3>1
  <2>2. CASE x = 2 * h + 1
    <3>1. x + 1 = 2 * h + 2
      BY <2>2
    <3>2. x * (x + 1) = 2 * ((2 * h + 1) * (h + 1)) /\ (2 * h + 1) * (h + 1) \in Int
      BY <2>2, <3>1, Doubled
    <3> QED
      BY <3>2
  <2> QED
    BY <1>1, <2>1, <2>2
<1>3. PICK y \in Int : x * (x + 1) = 2 * y
  BY <1>2
<1>4. Triangle(x) = y
  BY <1>3, HalfOfDouble DEF Triangle
<1> QED
  BY <1>3, <1>4

LEMMA NextProduct ==
  ASSUME NEW x \in Int
  PROVE  (x + 1) * ((x + 1) + 1) = x * (x + 1) + 2 * (x + 1)
OBVIOUS

LEMMA TriangleNext ==
  ASSUME NEW x \in Int
  PROVE  Triangle(x + 1) = Triangle(x) + x + 1
<1>1. Triangle(x) \in Int /\ 2 * Triangle(x) = x * (x + 1)
  BY TriangleIs
<1>2. Triangle(x + 1) \in Int /\ 2 * Triangle(x + 1) = (x + 1) * ((x + 1) + 1)
  <2>1. x + 1 \in Int
    OBVIOUS
  <2> QED
    BY <2>1, TriangleIs
<1>3. (x + 1) * ((x + 1) + 1) = x * (x + 1) + 2 * (x + 1)
  BY NextProduct
<1>4. ASSUME NEW y \in Int, NEW z \in Int, 2 * z = 2 * y + 2 * (x + 1)
      PROVE  z = y + x + 1
  BY <1>4
<1>5. 2 * Triangle(x + 1) = 2 * Triangle(x) + 2 * (x + 1)
  BY <1>1, <1>2, <1>3
<1> QED
  BY <1>1, <1>2, <1>4, <1>5

LEMMA SquareIsTriangles ==
  ASSUME NEW n \in Int
  PROVE  n * n = Triangle(n) + Triangle(n - 2) + (n - 1)
<1>1. /\ Triangle(n) \in Int /\ 2 * Triangle(n) = n * (n + 1)
      /\ Triangle(n - 2) \in Int /\ 2 * Triangle(n - 2) = (n - 2) * ((n - 2) + 1)
  BY TriangleIs
<1>2. n * (n + 1) + (n - 2) * ((n - 2) + 1) + 2 * (n - 1) = 2 * (n * n)
  OBVIOUS
<1> DEFINE z == Triangle(n)
           u == Triangle(n - 2)
           p == n * (n + 1)
           q == (n - 2) * ((n - 2) + 1)
           w == n * n
<1>3. p \in Int /\ q \in Int /\ w \in Int
  OBVIOUS
<1>4. z \in Int /\ u \in Int /\ 2 * z = p /\ 2 * u = q /\ p + q + 2 * (n - 1) = 2 * w
  BY <1>1, <1>2
<1> HIDE DEF z, u, p, q, w
<1>5. w = z + u + (n - 1)
  BY <1>3, <1>4
<1> QED
  BY <1>5 DEF z, u, w

LEMMA BeforeIs ==
  ASSUME NEW c \in Int
  PROVE  /\ c >= N => Before(c) = Triangle(M - 2 - c)
         /\ c < N => Before(c) = NUMVAR - Triangle(c + 1)
<1>1. N \in Nat /\ M \in Nat
  BY SizeOfOutput
<1>2. (M - 1 - c) * (M - 2 - c) = (M - 2 - c) * ((M - 2 - c) + 1)
  BY <1>1
<1>3. (c + 1) * (c + 2) = (c + 1) * ((c + 1) + 1)
  BY <1>1
<1> QED
  BY <1>1, <1>2, <1>3 DEF Before, Triangle

LEMMA ColumnBelow ==
  ASSUME NEW c \in 0 .. M - 2
  PROVE  /\ Before(c) \in Int /\ Height(c) \in Nat
         /\ Before(c) = Before(c + 1) + Height(c + 1)
<1>1. N \in Nat /\ 1 < N /\ M = 2 * N /\ NUMVAR = N * N /\ NUMVAR \in Int
  BY SizeOfOutput, NAssumption DEF M, NUMVAR
<1>2. /\ Triangle(M - 2 - c) \in Int /\ Triangle(M - 2 - (c + 1)) \in Int
      /\ Triangle(c + 1) \in Int /\ Triangle((c + 1) + 1) \in Int
  BY <1>1, TriangleIs
<1>3. Before(c) \in Int /\ Height(c) \in Nat
  BY <1>1, <1>2, BeforeIs DEF Height
<1>4. CASE c >= N
  <2>1. Before(c) = Triangle(M - 2 - c) /\ Before(c + 1) = Triangle(M - 2 - (c + 1))
    BY <1>1, <1>4, BeforeIs
  <2>2. (M - 2 - (c + 1)) + 1 = M - 2 - c /\ M - 2 - (c + 1) \in Int
    BY <1>1
  <2>3. Triangle(M - 2 - c) = Triangle(M - 2 - (c + 1)) + (M - 2 - (c + 1)) + 1
    BY <2>2, TriangleNext
  <2> HIDE DEF Triangle
  <2>4. Height(c + 1) = M - 2 - c
    BY <1>1, <1>4 DEF Height
  <2> QED
    BY <1>1, <1>2, <1>3, <2>1, <2>3, <2>4
<1>5. CASE c + 1 < N
  <2>1. Before(c) = NUMVAR - Triangle(c + 1) /\ Before(c + 1) = NUMVAR - Triangle((c + 1) + 1)
    BY <1>1, <1>5, BeforeIs
  <2>2. Triangle((c + 1) + 1) = Triangle(c + 1) + (c + 1) + 1
    BY TriangleNext
  <2>3. Height(c + 1) = c + 2
    BY <1>1, <1>5 DEF Height
  <2> QED
    BY <1>1, <1>2, <1>3, <2>1, <2>2, <2>3
<1>6. CASE c + 1 = N
  <2>1. Before(c) = NUMVAR - Triangle(N) /\ Before(c + 1) = Triangle(N - 2)
    <3>1. M - 2 - (c + 1) = N - 2 /\ c + 1 >= N /\ c < N
      BY <1>1, <1>6
    <3> QED
      BY <1>1, <1>6, <3>1, BeforeIs
  <2>2. NUMVAR = Triangle(N) + Triangle(N - 2) + (N - 1)
    BY <1>1, SquareIsTriangles
  <2>3. Height(c + 1) = N - 1
    BY <1>1, <1>6 DEF Height
  <2>4. Triangle(N) \in Int /\ Triangle(N - 2) \in Int /\ N \in Int /\ NUMVAR \in Int
    BY <1>1, TriangleIs
  <2>5. Before(c) = Before(c + 1) + Height(c + 1)
    BY <2>1, <2>2, <2>3, <2>4
  <2> QED
    BY <1>3, <2>5
<1> QED
  BY <1>1, <1>3, <1>4, <1>5, <1>6

LEMMA OuterColumns ==
  Before(M - 2) = 0 /\ Before(M - 1) = 0 /\ Before(0) = NUMVAR - 1 /\ Height(0) = 1
<1>1. N \in Nat /\ 1 < N /\ M = 2 * N /\ NUMVAR \in Int
  BY SizeOfOutput, NAssumption DEF M
<1>2. Triangle(0) = 0 /\ Triangle(-1) = 0 /\ Triangle(1) = 1
  <2>1. 0 * (0 + 1) = 0 /\ (-1) * (-1 + 1) = 0 /\ 1 * (1 + 1) = 2
    OBVIOUS
  <2> QED
    BY <2>1 DEF Triangle
<1>3. Before(M - 2) = Triangle(M - 2 - (M - 2)) /\ Before(M - 1) = Triangle(M - 2 - (M - 1))
  <2>1. M - 2 \in Int /\ M - 1 \in Int /\ M - 2 >= N /\ M - 1 >= N
    BY <1>1
  <2> QED
    BY <2>1, BeforeIs
<1>4. M - 2 - (M - 2) = 0 /\ M - 2 - (M - 1) = -1
  BY <1>1
<1>5. Before(0) = NUMVAR - Triangle(0 + 1) /\ 0 + 1 = 1
  BY <1>1, BeforeIs
<1> QED
  BY <1>1, <1>2, <1>3, <1>4, <1>5 DEF Height

\* The columns lie side by side, the highest first.
LEMMA BeforeFalls ==
  ASSUME NEW c \in 0 .. M - 1, NEW d \in 0 .. c
  PROVE  Before(c) \in Nat /\ Before(d) \in Nat /\ Before(c) <= Before(d)
<1>1. M \in Nat /\ 1 < M
  BY SizeOfOutput
<1> DEFINE S == {i \in 0 .. M - 1 : Before(M - 1 - i) \in Nat}
           R == {i \in 0 .. c - d : Before(d + i) <= Before(d)}
<1>2. 0 \in S
  <2>1. M - 1 - 0 = M - 1
    BY <1>1
  <2> QED
    BY <1>1, <2>1, OuterColumns
<1>3. ASSUME NEW i \in 0 .. (M - 1) - 1, i \in S PROVE i + 1 \in S
  <2> DEFINE e == M - 1 - (i + 1)
  <2>1. e \in 0 .. M - 2 /\ e + 1 = M - 1 - i /\ i + 1 \in 0 .. M - 1
    BY <1>1, <1>3
  <2> HIDE DEF e
  <2>2. Before(e) = Before(e + 1) + Height(e + 1) /\ Before(e + 1) \in Nat
    BY <1>3, <2>1, ColumnBelow
  <2>3. Height(e + 1) \in Nat
    BY <1>1, <2>1, SizeOfOutput DEF Height, M
  <2>4. Before(e) \in Nat
    BY <2>2, <2>3
  <2> QED
    BY <2>1, <2>4 DEF e
<1>4. 0 .. M - 1 \subseteq S
  <2>1. M - 1 \in Nat
    BY <1>1
  <2> HIDE DEF S
  <2> QED
    BY <1>2, <1>3, <2>1, UpTo
<1>5. ASSUME NEW e \in 0 .. M - 1 PROVE Before(e) \in Nat
  <2>1. M - 1 - e \in 0 .. M - 1 /\ M - 1 - (M - 1 - e) = e
    BY <1>1, <1>5
  <2> QED
    BY <1>4, <2>1
<1>6. 0 \in R
  <2>1. d \in 0 .. M - 1 /\ d + 0 = d /\ c - d >= 0
    BY <1>1
  <2> QED
    BY <1>5, <2>1
<1>7. ASSUME NEW i \in 0 .. (c - d) - 1, i \in R PROVE i + 1 \in R
  <2>1. /\ d + i \in 0 .. M - 2 /\ d + (i + 1) = (d + i) + 1 /\ (d + i) + 1 \in 0 .. M - 1
        /\ i + 1 \in 0 .. c - d /\ d \in 0 .. M - 1
    BY <1>1, <1>7
  <2>2. Before(d + i) = Before((d + i) + 1) + Height((d + i) + 1)
    BY <2>1, ColumnBelow
  <2>3. Height((d + i) + 1) \in Nat
    BY <1>1, <2>1, SizeOfOutput DEF Height, M
  <2>4. Before((d + i) + 1) \in Nat /\ Before(d + i) <= Before(d) /\ Before(d) \in Nat
    BY <1>5, <1>7, <2>1
  <2> QED
    BY <2>1, <2>2, <2>3, <2>4
<1>8. 0 .. (c - d) \subseteq R
  <2>1. c - d \in Nat
    BY <1>1
  <2> HIDE DEF R
  <2> QED
    BY <1>6, <1>7, <2>1, UpTo
<1>9. Before(d + (c - d)) <= Before(d) /\ d + (c - d) = c
  <2>1. c - d \in 0 .. (c - d) /\ d + (c - d) = c
    BY <1>1
  <2> QED
    BY <1>8, <2>1
<1> QED
  BY <1>1, <1>5, <1>9

Column(c) == Before(c) .. Before(c) + Height(c) - 1

LEMMA ColumnFacts ==
  ASSUME NEW c \in 0 .. M - 1
  PROVE  /\ Before(c) \in Nat /\ Height(c) \in Nat /\ Before(c) + Height(c) <= NUMVAR
         /\ c > 0 => Before(c - 1) = Before(c) + Height(c)
<1>1. M \in Nat /\ 1 < M /\ NUMVAR \in Int
  BY SizeOfOutput
<1>2. Before(c) \in Nat /\ Before(c) <= Before(0) /\ Before(0) \in Nat
  <2>1. 0 \in 0 .. c /\ c \in 0 .. M - 1
    BY <1>1
  <2> QED
    BY <2>1, BeforeFalls
<1>3. Height(c) \in Nat
  BY <1>1, SizeOfOutput DEF Height, M
<1>4. CASE c > 0
  <2>1. c - 1 \in 0 .. M - 2 /\ (c - 1) + 1 = c /\ 0 \in 0 .. c - 1 /\ c - 1 \in 0 .. M - 1
    BY <1>1, <1>4
  <2>2. Before(c - 1) = Before(c) + Height(c)
    BY <2>1, ColumnBelow
  <2>3. Before(c - 1) <= Before(0)
    BY <2>1, BeforeFalls
  <2> QED
    BY <1>1, <1>2, <1>3, <2>2, <2>3, OuterColumns
<1>5. CASE c = 0
  BY <1>1, <1>2, <1>3, <1>5, OuterColumns
<1> QED
  BY <1>4, <1>5

LEMMA OneColumn ==
  ASSUME NEW c \in 0 .. M - 2, NEW d \in 0 .. M - 2, NEW v \in Column(c), v \in Column(d)
  PROVE  c = d
<1>1. M \in Nat /\ 1 < M
  BY SizeOfOutput
<1>2. ASSUME NEW e \in 0 .. M - 2, NEW f \in 0 .. M - 2, e < f, v \in Column(e), v \in Column(f)
      PROVE  FALSE
  <2>1. f - 1 \in 0 .. M - 1 /\ e \in 0 .. f - 1 /\ f \in 0 .. M - 1 /\ e \in 0 .. M - 1
    BY <1>1, <1>2
  <2>2. Before(f - 1) <= Before(e) /\ Before(f - 1) = Before(f) + Height(f)
    BY <1>1, <1>2, <2>1, BeforeFalls, ColumnFacts
  <2>3. Before(e) \in Nat /\ Before(f) \in Nat /\ Height(e) \in Nat /\ Height(f) \in Nat
    BY <2>1, ColumnFacts
  <2> QED
    BY <1>2, <2>2, <2>3 DEF Column
<1> QED
  BY <1>2

LEMMA WeightIs ==
  ASSUME NEW c \in 0 .. M - 2, NEW v \in Column(c)
  PROVE  Weight(v) = TwoTo(c)
<1>1. Weight(v) = TwoTo(CHOOSE d \in 0 .. M - 2 : v \in Column(d))
  BY DEF Weight, Column
<1> DEFINE e == CHOOSE d \in 0 .. M - 2 : v \in Column(d)
<1>2. e \in 0 .. M - 2 /\ v \in Column(e)
  OBVIOUS
<1> HIDE DEF e
<1>3. e = c
  BY <1>2, OneColumn
<1> QED
  BY <1>1, <1>3 DEF e

\* Every variable has a column.
LEMMA SomeColumn ==
  ASSUME NEW v \in 0 .. NUMVAR - 1
  PROVE  \E c \in 0 .. M - 2 : v \in Column(c)
<1>1. M \in Nat /\ 1 < M /\ NUMVAR \in Int
  BY SizeOfOutput
<1> DEFINE S == {i \in 0 .. M - 2 : v >= Before(i) => \E c \in 0 .. M - 2 : v \in Column(c)}
<1>2. 0 \in S
  <2>1. 0 \in 0 .. M - 2 /\ (v >= Before(0) => v \in Column(0))
    BY <1>1, OuterColumns DEF Column
  <2> QED
    BY <2>1
<1>3. ASSUME NEW i \in 0 .. (M - 2) - 1, i \in S PROVE i + 1 \in S
  <2>1. i + 1 \in 0 .. M - 2 /\ i \in 0 .. M - 2 /\ i + 1 \in 0 .. M - 1
    BY <1>1, <1>3
  <2>2. Before(i) = Before(i + 1) + Height(i + 1) /\ Before(i) \in Nat
        /\ Before(i + 1) \in Nat /\ Height(i + 1) \in Nat
    <3>1. i \in 0 .. M - 1
      BY <1>1, <2>1
    <3> QED
      BY <2>1, <3>1, ColumnBelow, ColumnFacts
  <2>3. v >= Before(i + 1) => v >= Before(i) \/ v \in Column(i + 1)
    BY <1>1, <2>2 DEF Column
  <2> QED
    BY <1>3, <2>1, <2>3
<1>4. 0 .. M - 2 \subseteq S
  <2>1. M - 2 \in Nat
    BY <1>1
  <2> HIDE DEF S
  <2> QED
    BY <1>2, <1>3, <2>1, UpTo
<1>5. M - 2 \in S
  BY <1>1, <1>4
<1> QED
  BY <1>1, <1>5, OuterColumns

-----------------------------------------------------------------------------
(* The sum of the partial products, column by column and row by row.       *)

\* The variables of column c are in the rows FirstRow(c) .. N - 1, one in each.
FirstRow(c) == IF c >= N THEN c + 1 - N ELSE 0
UsedRow(c, j) == M - 1 - c >= N - j /\ j < N
TopVar(c) == Before(c) + (IF c < N THEN c ELSE N - 1)

\* The lowest variable that the rows before row j of column c have added.
Added(c, j) ==
  TopVar(c) + 1 - (IF j < FirstRow(c) THEN FirstRow(c) ELSE IF j > N THEN N ELSE j)

LEMMA AddedFacts ==
  ASSUME NEW c \in 0 .. M - 1, NEW j \in 0 .. c
  PROVE  /\ Added(c, 0) = Before(c) + Height(c) /\ Added(c, c + 1) = Before(c)
         /\ Added(c, j) \in Before(c) .. Before(c) + Height(c)
         /\ UsedRow(c, j) => /\ Added(c, j) = TopVar(c) - j + 1
                             /\ Added(c, j + 1) = TopVar(c) - j
                             /\ TopVar(c) - j \in Column(c) /\ c <= M - 2
         /\ ~UsedRow(c, j) => Added(c, j + 1) = Added(c, j)
<1>1. N \in Nat /\ 1 < N /\ M = 2 * N
  BY NAssumption DEF M
<1>2. Before(c) \in Nat /\ Height(c) \in Nat
  BY ColumnFacts
<1>3. CASE c < N
  <2>1. FirstRow(c) = 0 /\ TopVar(c) = Before(c) + c /\ Height(c) = c + 1
    BY <1>1, <1>3 DEF FirstRow, TopVar, Height
  <2> QED
    BY <1>1, <1>2, <1>3, <2>1 DEF Added, UsedRow, Column
<1>4. CASE c >= N
  <2>1. FirstRow(c) = c + 1 - N /\ TopVar(c) = Before(c) + N - 1 /\ Height(c) = M - 1 - c
    BY <1>1, <1>2, <1>4 DEF FirstRow, TopVar, Height
  <2>2. /\ Added(c, 0) = Before(c) + Height(c) /\ Added(c, c + 1) = Before(c)
        /\ Added(c, j) \in Before(c) .. Before(c) + Height(c)
    BY <1>1, <1>2, <1>4, <2>1 DEF Added
  <2>3. UsedRow(c, j) => /\ Added(c, j) = TopVar(c) - j + 1
                         /\ Added(c, j + 1) = TopVar(c) - j
    BY <1>1, <1>2, <1>4, <2>1 DEF Added, UsedRow
  <2>4. UsedRow(c, j) => TopVar(c) - j \in Column(c) /\ c <= M - 2
    BY <1>1, <1>2, <1>4, <2>1 DEF UsedRow, Column
  <2>5. ~UsedRow(c, j) => Added(c, j + 1) = Added(c, j)
    BY <1>1, <1>2, <1>4, <2>1 DEF Added, UsedRow
  <2> QED
    BY <2>2, <2>3, <2>4, <2>5
<1> QED
  BY <1>1, <1>3, <1>4

LEMMA AddedType ==
  ASSUME NEW c \in 0 .. M - 1, NEW j \in 0 .. c + 1
  PROVE  Added(c, j) \in 0 .. NUMVAR
<1>1. Before(c) \in Nat /\ Height(c) \in Nat /\ Before(c) + Height(c) <= NUMVAR /\ NUMVAR \in Int
  BY ColumnFacts, SizeOfOutput
<1>2. c \in 0 .. c
  OBVIOUS
<1>3. CASE j = c + 1
  BY <1>1, <1>2, <1>3, AddedFacts
<1>4. CASE j # c + 1
  <2>1. j \in 0 .. c
    BY <1>4
  <2> QED
    BY <1>1, <2>1, AddedFacts
<1> QED
  BY <1>3, <1>4

\* The variables as the code counts them.
LEMMA TopVarNext ==
  /\ TopVar(1) = ColumnVar(NUMVAR - 1, 1) /\ TopVar(0) = NUMVAR - 1 /\ TopVar(M - 1) = N - 1
  /\ \A c \in 0 .. M - 2 : TopVar(c) \in Int /\ TopVar(c + 1) = ColumnVar(TopVar(c), c + 1)
<1>1. N \in Nat /\ 1 < N /\ M = 2 * N /\ NUMVAR \in Int
  BY NAssumption, SizeOfOutput DEF M
<1>2. ASSUME NEW c \in 0 .. M - 2
      PROVE  TopVar(c) \in Int /\ TopVar(c + 1) = ColumnVar(TopVar(c), c + 1)
  <2>1. c + 1 \in 0 .. M - 1 /\ c \in 0 .. M - 1
    BY <1>1
  <2>2. /\ Before(c) \in Nat /\ Before(c + 1) \in Nat /\ Before(c) = Before(c + 1) + Height(c + 1)
    BY <2>1, ColumnFacts, ColumnBelow
  <2> QED
    BY <1>1, <2>2 DEF TopVar, ColumnVar, Height
<1>3. TopVar(0) = NUMVAR - 1 /\ TopVar(M - 1) = N - 1
  BY <1>1, OuterColumns DEF TopVar
<1>4. TopVar(0 + 1) = ColumnVar(TopVar(0), 0 + 1)
  BY <1>1, <1>2
<1> QED
  BY <1>2, <1>3, <1>4

\* What the partial products with the values a add up to, from the last to
\* variable v.
Inputs == [0 .. NUMVAR - 1 -> {0, 1}]
Sums(G, a) ==
  /\ G \in [0 .. NUMVAR -> Nat] /\ G[NUMVAR] = 0
  /\ \A v \in 0 .. NUMVAR - 1 : G[v] = G[v + 1] + a[v] * Weight(v)

\* The sum as column c sees it before its row j, and what that row adds.
Subtotal(G, c, j) == G[Added(c, j)] \div TwoTo(c)
InputOf(a, c, j) == IF UsedRow(c, j) THEN a[TopVar(c) - j] ELSE 0

LEMMA WeightType ==
  ASSUME NEW v \in 0 .. NUMVAR - 1
  PROVE  Weight(v) \in Nat
<1>1. PICK c \in 0 .. M - 2 : v \in Column(c)
  BY SomeColumn
<1>2. Weight(v) = TwoTo(c) /\ c \in Nat
  BY <1>1, WeightIs
<1> QED
  BY <1>2, TwoToFacts

LEMMA SumsExist ==
  ASSUME NEW a \in Inputs
  PROVE  \E G : Sums(G, a)
<1> DEFINE Upto(G, i) == /\ G \in [0 .. NUMVAR -> Nat] /\ G[NUMVAR] = 0
                         /\ \A v \in NUMVAR - i .. NUMVAR - 1 : G[v] = G[v + 1] + a[v] * Weight(v)
           S == {i \in 0 .. NUMVAR : \E G : Upto(G, i)}
<1>1. NUMVAR \in Nat
  BY NAssumption DEF NUMVAR
<1>2. 0 \in S
  <2>1. Upto([v \in 0 .. NUMVAR |-> 0], 0)
    BY <1>1
  <2>2. \E G : Upto(G, 0)
    <3> HIDE DEF Upto
    <3> QED
      BY <2>1
  <2> QED
    BY <1>1, <2>2
<1>3. ASSUME NEW i \in 0 .. NUMVAR - 1, i \in S PROVE i + 1 \in S
  <2>1. PICK G : Upto(G, i)
    BY <1>3
  <2> DEFINE w == NUMVAR - (i + 1)
             x == G[w + 1] + a[w] * Weight(w)
             H == [G EXCEPT ![w] = x]
  <2>2. w \in 0 .. NUMVAR - 1 /\ w + 1 \in 0 .. NUMVAR /\ NUMVAR - i = w + 1 /\ w # NUMVAR
    BY <1>1
  <2>3. x \in Nat
    <3>1. Weight(w) \in Nat /\ a[w] \in {0, 1} /\ G[w + 1] \in Nat
      BY <2>1, <2>2, WeightType DEF Inputs
    <3> HIDE DEF w
    <3> QED
      BY <3>1
  <2>0. G \in [0 .. NUMVAR -> Nat] /\ G[NUMVAR] = 0
    BY <2>1
  <2> HIDE DEF w, x, Upto
  <2>4. H \in [0 .. NUMVAR -> Nat] /\ H[NUMVAR] = 0
    BY <1>1, <2>0, <2>2, <2>3
  <2>5. H[w] = x /\ \A v \in w + 1 .. NUMVAR : H[v] = G[v]
    BY <1>1, <2>0, <2>2
  <2>6. ASSUME NEW v \in w .. NUMVAR - 1 PROVE H[v] = H[v + 1] + a[v] * Weight(v)
    <3>1. v + 1 \in w + 1 .. NUMVAR
      BY <1>1, <2>2
    <3>2. CASE v = w
      BY <2>5, <3>1, <3>2 DEF x
    <3>3. CASE v # w
      <4>1. v \in w + 1 .. NUMVAR - 1 /\ v \in w + 1 .. NUMVAR
        BY <1>1, <2>2, <3>3
      <4>2. G[v] = G[v + 1] + a[v] * Weight(v)
        BY <2>1, <2>2, <4>1 DEF Upto
      <4> QED
        BY <2>5, <3>1, <4>1, <4>2
    <3> QED
      BY <3>2, <3>3
  <2> HIDE DEF H
  <2>7. Upto(H, i + 1)
    BY <2>4, <2>6 DEF w, Upto
  <2>8. \E G_1 : Upto(G_1, i + 1)
    <3> HIDE DEF Upto
    <3> QED
      BY <2>7
  <2> HIDE DEF Upto
  <2> QED
    BY <1>1, <2>8
<1>4. 0 .. NUMVAR \subseteq S
  <2> HIDE DEF S
  <2> QED
    BY <1>1, <1>2, <1>3, UpTo
<1>5. PICK G : Upto(G, NUMVAR)
  BY <1>1, <1>4
<1>6. Sums(G, a)
  BY <1>1, <1>5 DEF Sums
<1> QED
  BY <1>6

LEMMA SumsType ==
  ASSUME NEW a, NEW G, Sums(G, a), NEW c \in 0 .. M - 1, NEW j \in 0 .. c + 1
  PROVE  G[Added(c, j)] \in Nat /\ TwoTo(c) \in Nat \ {0} /\ Subtotal(G, c, j) \in Nat
<1>1. Added(c, j) \in 0 .. NUMVAR
  BY AddedType
<1>2. G[Added(c, j)] \in Nat
  BY <1>1 DEF Sums
<1>3. TwoTo(c) \in Nat \ {0}
  BY TwoToFacts
<1> QED
  BY <1>2, <1>3, DivMod DEF Subtotal

LEMMA SubtotalStep ==
  ASSUME NEW a \in Inputs, NEW G, Sums(G, a), NEW c \in 0 .. M - 1, NEW j \in 0 .. c
  PROVE  /\ InputOf(a, c, j) \in {0, 1}
         /\ Subtotal(G, c, j + 1) = Subtotal(G, c, j) + InputOf(a, c, j)
<1>1. j \in 0 .. c + 1 /\ j + 1 \in 0 .. c + 1
  OBVIOUS
<1>2. G[Added(c, j)] \in Nat /\ TwoTo(c) \in Nat \ {0} /\ Subtotal(G, c, j) \in Nat
  BY <1>1, SumsType
<1>3. CASE ~UsedRow(c, j)
  <2>1. Added(c, j + 1) = Added(c, j)
    BY <1>3, AddedFacts
  <2> QED
    BY <1>2, <1>3, <2>1 DEF Subtotal, InputOf
<1>4. CASE UsedRow(c, j)
  <2> DEFINE v == TopVar(c) - j
             p == TwoTo(c)
  <2>1. /\ Added(c, j) = v + 1 /\ Added(c, j + 1) = v /\ v \in Column(c) /\ c \in 0 .. M - 2
    BY <1>4, AddedFacts, SizeOfOutput
  <2>2. v \in 0 .. NUMVAR - 1
    BY <2>1, ColumnFacts, SizeOfOutput DEF Column
  <2>3. Weight(v) = p
    BY <2>1, WeightIs
  <2>4. a[v] \in {0, 1} /\ G[v] = G[v + 1] + a[v] * p
    BY <2>2, <2>3 DEF Inputs, Sums
  <2>5. InputOf(a, c, j) = a[v] /\ p \in Nat \ {0} /\ G[v + 1] \in Nat
    BY <1>2, <1>4, <2>1 DEF InputOf
  <2> HIDE DEF v, p
  <2>6. G[v] = p * a[v] + G[v + 1]
    BY <2>4, <2>5
  <2>7. G[v] \div p = a[v] + (G[v + 1] \div p)
    <3>1. a[v] \in Nat
      BY <2>4
    <3>2. (p * a[v] + G[v + 1]) \div p = a[v] + (G[v + 1] \div p)
      BY <2>5, <3>1, DivOfSum
    <3> QED
      BY <2>6, <3>2
  <2>8. Subtotal(G, c, j + 1) = G[v] \div p /\ Subtotal(G, c, j) = G[v + 1] \div p
    BY <2>1 DEF Subtotal, p
  <2> QED
    BY <1>2, <2>4, <2>5, <2>7, <2>8
<1> QED
  BY <1>3, <1>4

LEMMA SubtotalHalves ==
  ASSUME NEW a, NEW G, Sums(G, a), NEW c \in 0 .. M - 2
  PROVE  Subtotal(G, c + 1, 0) = Subtotal(G, c, c + 1) \div 2
<1>1. M \in Nat /\ c \in 0 .. M - 1 /\ c + 1 \in 0 .. M - 1 /\ 0 \in 0 .. c + 1
      /\ c + 1 \in 0 .. c + 1 /\ c \in 0 .. c
  BY SizeOfOutput
<1>2. Added(c, c + 1) = Before(c) /\ Added(c + 1, 0) = Before(c + 1) + Height(c + 1)
  BY <1>1, AddedFacts
<1>3. Before(c) = Before(c + 1) + Height(c + 1)
  BY ColumnBelow
<1>4. G[Before(c)] \in Nat
  BY <1>1, <1>2, SumsType
<1>5. TwoTo(c) \in Nat \ {0} /\ TwoTo(c + 1) = 2 * TwoTo(c)
  BY TwoToFacts
<1>6. (G[Before(c)] \div TwoTo(c)) \div 2 = G[Before(c)] \div (TwoTo(c) * 2)
  BY <1>4, <1>5, DivDiv
<1>7. TwoTo(c) * 2 = TwoTo(c + 1)
  BY <1>5
<1> QED
  BY <1>2, <1>3, <1>6, <1>7 DEF Subtotal

\* Below the second column there is one partial product, of weight 1.
LEMMA SubtotalStarts ==
  ASSUME NEW a \in Inputs, NEW G, Sums(G, a)
  PROVE  Subtotal(G, 0, 0) = 0 /\ Subtotal(G, 1, 0) = 0
<1>1. M \in Nat /\ 1 < M /\ 0 \in 0 .. M - 1 /\ 0 \in 0 .. 0 /\ 0 \in 0 .. M - 2 /\ NUMVAR \in Int
  BY SizeOfOutput
<1>2. Added(0, 0) = Before(0) + Height(0)
  BY <1>1, AddedFacts
<1>3. Added(0, 0) = NUMVAR
  BY <1>1, <1>2, OuterColumns
<1>4. Subtotal(G, 0, 0) = 0
  <2>1. G[Added(0, 0)] = 0 /\ TwoTo(0) = 1
    BY <1>3, TwoToFacts DEF Sums
  <2>2. 0 \div 1 = 0
    OBVIOUS
  <2> QED
    BY <2>1, <2>2 DEF Subtotal
<1>5. InputOf(a, 0, 0) \in {0, 1} /\ Subtotal(G, 0, 0 + 1) = Subtotal(G, 0, 0) + InputOf(a, 0, 0)
  BY <1>1, SubtotalStep
<1>6. Subtotal(G, 0 + 1, 0) = Subtotal(G, 0, 0 + 1) \div 2
  BY <1>1, SubtotalHalves
<1>7. Subtotal(G, 0, 0 + 1) \in {0, 1}
  BY <1>4, <1>5
<1>8. Subtotal(G, 0 + 1, 0) = 0
  BY <1>6, <1>7
<1> QED
  BY <1>4, <1>8

LEMMA TwoToSum ==
  ASSUME NEW n \in Nat, NEW k \in Nat
  PROVE  TwoTo(n + k) = TwoTo(n) * TwoTo(k)
<1>1. n + k \in Nat /\ n \in 0 .. n /\ k \in 0 .. k /\ n + k <= n + k /\ 2 \in Nat \ {0}
  OBVIOUS
<1>2. Powers(2, n + k)[n + k] = Powers(2, n)[n] * Powers(2, k)[k]
  BY <1>1, PowersSum
<1> QED
  BY <1>2 DEF TwoTo

\* The columns above column c do not change its bit of the sum.
LEMMA HigherColumns ==
  ASSUME NEW a \in Inputs, NEW G, Sums(G, a), NEW c \in 0 .. M - 1
  PROVE  \E h \in Nat : G[0] = G[Before(c)] + TwoTo(c + 1) * h
<1> DEFINE b == Before(c)
           p == TwoTo(c + 1)
           S == {i \in 0 .. b : \E h \in Nat : G[b - i] = G[b] + p * h}
<1>1. b \in 0 .. NUMVAR /\ NUMVAR \in Nat /\ M \in Nat /\ 1 < M
  BY ColumnFacts, SizeOfOutput
<1>2. p \in Nat \ {0} /\ c + 1 \in Nat
  BY TwoToFacts
<1>3. \A v \in 0 .. NUMVAR : G[v] \in Nat
  BY DEF Sums
<1>4. 0 \in S
  <2>1. b - 0 = b /\ G[b] \in Nat
    BY <1>1, <1>3
  <2>2. G[b - 0] = G[b] + p * 0
    BY <1>2, <2>1
  <2> QED
    BY <1>1, <2>2
<1>5. ASSUME NEW i \in 0 .. b - 1, i \in S PROVE i + 1 \in S
  <2> DEFINE v == b - (i + 1)
  <2>1. v \in 0 .. NUMVAR - 1 /\ v + 1 = b - i /\ v < b
    BY <1>1
  <2>2. PICK d \in 0 .. M - 2 : v \in Column(d)
    BY <2>1, SomeColumn
  <2>3. Weight(v) = TwoTo(d)
    BY <2>2, WeightIs
  <2>4. c < d
    <3>1. SUFFICES ASSUME d <= c PROVE FALSE
      OBVIOUS
    <3>2. d \in 0 .. c
      BY <3>1
    <3>3. Before(c) <= Before(d) /\ Before(d) \in Nat
      BY <3>2, BeforeFalls
    <3> QED
      BY <1>1, <2>1, <2>2, <3>3 DEF Column
  <2> DEFINE k == d - (c + 1)
  <2>5. k \in Nat /\ (c + 1) + k = d
    BY <2>4
  <2>6. TwoTo(d) = p * TwoTo(k) /\ TwoTo(k) \in Nat
    <3>1. TwoTo((c + 1) + k) = TwoTo(c + 1) * TwoTo(k)
      <4>1. c + 1 \in Nat
        BY <1>1
      <4> QED
        BY <2>5, <4>1, TwoToSum
    <3> QED
      BY <2>5, <3>1, TwoToFacts
  <2>7. PICK h \in Nat : G[b - i] = G[b] + p * h
    BY <1>5
  <2>8. a[v] \in {0, 1} /\ G[v] = G[v + 1] + a[v] * Weight(v)
    BY <2>1 DEF Inputs, Sums
  <2> HIDE DEF v, p, b, k
  <2>9. a[v] * (p * TwoTo(k)) = p * (a[v] * TwoTo(k)) /\ a[v] * TwoTo(k) \in Nat
    BY <1>2, <2>6, <2>8
  <2> DEFINE y == a[v] * TwoTo(k)
  <2>10. G[v] = (G[b] + p * h) + p * y /\ y \in Nat
    BY <2>1, <2>3, <2>6, <2>7, <2>8, <2>9
  <2> HIDE DEF y
  <2>11. p * (h + y) = p * h + p * y /\ p * h \in Nat /\ p * y \in Nat /\ h + y \in Nat
    BY <1>2, <2>10
  <2>12. G[b] \in Nat
    BY <1>1, <1>3
  <2>13. G[v] = G[b] + p * (h + y)
    BY <2>10, <2>11, <2>12
  <2>14. v = b - (i + 1) /\ i + 1 \in 0 .. b
    BY <1>1 DEF v
  <2> QED
    BY <2>11, <2>13, <2>14
<1>6. 0 .. b \subseteq S
  <2>1. b \in Nat
    BY <1>1
  <2> HIDE DEF S, b
  <2> QED
    BY <1>4, <1>5, <2>1, UpTo
<1>7. b \in S /\ b - b = 0
  BY <1>1, <1>6
<1> QED
  BY <1>7

LEMMA BitOfSum ==
  ASSUME NEW a \in Inputs, NEW G, Sums(G, a), NEW c \in 0 .. M - 1
  PROVE  BitOf(G[0], TwoTo(c)) = Subtotal(G, c, c + 1) % 2
<1> DEFINE p == TwoTo(c)
           x == G[Before(c)]
<1>1. c \in 0 .. c /\ c + 1 \in 0 .. c + 1
  OBVIOUS
<1>2. Subtotal(G, c, c + 1) = x \div p /\ x \in Nat /\ p \in Nat \ {0}
  BY <1>1, AddedFacts, SumsType DEF Subtotal
<1>3. PICK h \in Nat : G[0] = x + TwoTo(c + 1) * h
  BY HigherColumns
<1>4. TwoTo(c + 1) = 2 * p
  BY TwoToFacts
<1> HIDE DEF p, x
<1>5. (2 * p) * h = p * (2 * h) /\ p * (2 * h) \in Nat /\ 2 * h \in Nat
  BY <1>2
<1>6. G[0] = p * (2 * h) + x
  <2>1. TwoTo(c + 1) * h = p * (2 * h)
    BY <1>4, <1>5
  <2>2. \A y \in Nat : x + y = y + x
    BY <1>2
  <2> QED
    BY <1>3, <1>5, <2>1, <2>2
<1>7. G[0] \div p = 2 * h + (x \div p) /\ x \div p \in Nat
  <2>1. (p * (2 * h) + x) \div p = 2 * h + (x \div p)
    BY <1>2, <1>5, DivOfSum
  <2> QED
    BY <1>2, <1>6, <2>1, DivMod
<1>8. \A q \in Nat : (2 * h + q) % 2 = q % 2
  OBVIOUS
<1> QED
  BY <1>2, <1>7, <1>8 DEF BitOf, p

-----------------------------------------------------------------------------
(* What the literals of a table mean.                                      *)

Named(t) == {l \in Nat : l < 2 * (Len(t) + 1)}

\* The variable of a literal; the constants come after all variables.
VarOf(t, l) == IF l < 2 THEN NUMVAR ELSE t[l \div 2][1]

\* The children of a node have later variables, and never the last one, which
\* only output 0 depends on.
Ordered(t) ==
  \A k \in DOMAIN t :
    /\ t[k][1] \in 0 .. NUMVAR - 1
    /\ t[k][2] \in Nat /\ VarOf(t, t[k][2]) > t[k][1] /\ VarOf(t, t[k][2]) # NUMVAR - 1
    /\ t[k][3] \in Nat /\ VarOf(t, t[k][3]) > t[k][1] /\ VarOf(t, t[k][3]) # NUMVAR - 1

\* The values F of the nodes for the values a of the variables, and of a literal.
Value(F, l) == IF l % 2 = 0 THEN F[l \div 2] ELSE 1 - F[l \div 2]
Values(F, t, a) ==
  /\ F \in [Nat -> {0, 1}] /\ F[0] = 0
  /\ \A k \in DOMAIN t :
       F[k] = IF a[t[k][1]] = 1 THEN Value(F, t[k][2]) ELSE Value(F, t[k][3])

\* u is t with nodes behind it.
Extends(t, u) == Len(t) <= Len(u) /\ \A k \in 1 .. Len(t) : u[k] = t[k]

LEMMA ExtendsFacts ==
  ASSUME NEW t \in Seq(Triples), NEW u \in Seq(Triples), Extends(t, u)
  PROVE  /\ Named(t) \subseteq Named(u)
         /\ \A l \in Named(t) : VarOf(u, l) = VarOf(t, l)
         /\ \A a : \A F : Values(F, u, a) => Values(F, t, a)
<1>1. Len(t) \in Nat /\ Len(u) \in Nat /\ DOMAIN t = 1 .. Len(t) /\ DOMAIN u = 1 .. Len(u)
  OBVIOUS
<1>2. Len(t) <= Len(u) /\ \A k \in 1 .. Len(t) : u[k] = t[k]
  BY DEF Extends
<1>3. Named(t) \subseteq Named(u)
  BY <1>1, <1>2 DEF Named
<1>4. ASSUME NEW l \in Named(t) PROVE VarOf(u, l) = VarOf(t, l)
  <2>1. CASE l < 2
    BY <2>1 DEF VarOf
  <2>2. CASE ~(l < 2)
    <3>1. l \div 2 \in 1 .. Len(t)
      <4> DEFINE n == Len(t)
      <4>1. l \in Nat /\ l < 2 * (n + 1) /\ n \in Nat
        BY <1>1 DEF Named
      <4> HIDE DEF n
      <4>2. l \div 2 \in 1 .. n
        BY <2>2, <4>1
      <4> QED
        BY <4>2 DEF n
    <3> QED
      BY <1>2, <3>1 DEF VarOf
  <2> QED
    BY <2>1, <2>2
<1>5. ASSUME NEW a, NEW F, Values(F, u, a) PROVE Values(F, t, a)
  <2>1. ASSUME NEW k \in DOMAIN t PROVE k \in DOMAIN u /\ u[k] = t[k]
    BY <1>1, <1>2
  <2> QED
    BY <1>5, <2>1 DEF Values
<1> QED
  BY <1>3, <1>4, <1>5

LEMMA ExtendsSelf ==
  ASSUME NEW t \in Seq(Triples)
  PROVE  Extends(t, t)
BY DEF Extends

LEMMA ExtendsMore ==
  ASSUME NEW t \in Seq(Triples), NEW u \in Seq(Triples), NEW w \in Seq(Triples),
         Extends(t, u), Extends(u, w)
  PROVE  Extends(t, w)
<1>1. Len(t) \in Nat /\ Len(u) \in Nat /\ Len(w) \in Nat
  OBVIOUS
<1> QED
  BY <1>1 DEF Extends

LEMMA HalfOfLiteral ==
  ASSUME NEW l \in Nat
  PROVE  /\ Not(l) \in Nat /\ Not(l) \div 2 = l \div 2 /\ l \div 2 \in Nat
         /\ Not(l) < 2 <=> l < 2
         /\ l % 2 = 0 => Not(l) % 2 = 1
         /\ l % 2 # 0 => Not(l) % 2 = 0
<1>1. PICK h \in Int : l = 2 * h \/ l = 2 * h + 1
  BY TwiceOrOneMore
<1>2. h \in Nat
  BY <1>1
<1> QED
  BY <1>1, <1>2 DEF Not

LEMMA ValueFacts ==
  ASSUME NEW F \in [Nat -> {0, 1}], NEW l \in Nat
  PROVE  /\ Value(F, l) \in {0, 1} /\ Value(F, Not(l)) = 1 - Value(F, l)
         /\ F[0] = 0 => Value(F, 0) = 0 /\ Value(F, 1) = 1
<1>1. Not(l) \in Nat /\ Not(l) \div 2 = l \div 2 /\ l \div 2 \in Nat
      /\ (l % 2 = 0 => Not(l) % 2 = 1) /\ (l % 2 # 0 => Not(l) % 2 = 0)
  BY HalfOfLiteral
<1>2. F[l \div 2] \in {0, 1}
  BY <1>1
<1>3. 0 \div 2 = 0 /\ 1 \div 2 = 0 /\ 0 % 2 = 0 /\ 1 % 2 = 1
  OBVIOUS
<1> QED
  BY <1>1, <1>2, <1>3 DEF Value

LEMMA NotNamed ==
  ASSUME NEW t \in Seq(Triples), NEW l \in Named(t)
  PROVE  Not(l) \in Named(t) /\ VarOf(t, Not(l)) = VarOf(t, l)
<1>1. l \in Nat /\ l < 2 * (Len(t) + 1) /\ Len(t) \in Nat
  BY DEF Named
<1>2. Not(l) \in Nat /\ Not(l) \div 2 = l \div 2 /\ (Not(l) < 2 <=> l < 2)
  BY <1>1, HalfOfLiteral
<1>3. Not(l) < 2 * (Len(t) + 1)
  <2> DEFINE n == Len(t) + 1
  <2>1. n \in Int /\ l < 2 * n /\ l \in Int
    BY <1>1
  <2> HIDE DEF n
  <2>2. Not(l) < 2 * n
    BY <2>1, NotFacts
  <2> QED
    BY <2>2 DEF n
<1> QED
  BY <1>2, <1>3 DEF Named, VarOf

\* The literal c of a node.
LEMMA LiteralOfNode ==
  ASSUME NEW k \in Nat, NEW c \in {0, 1}
  PROVE  /\ (2 * k + c) \div 2 = k /\ (2 * k + c) % 2 = c
         /\ k >= 1 => ~(2 * k + c < 2)
OBVIOUS

\* z is r with the node for variable v and the literal c of it.
Adds(r, z, node, c) ==
  /\ Ordered(z.nodes) /\ Extends(r.nodes, z.nodes)
  /\ \E k \in DOMAIN z.nodes :
       /\ z.nodes[k] = node /\ z.out = Append(r.out, 2 * k + c)
       /\ \A i \in DOMAIN z.nodes : i \notin DOMAIN r.nodes => i = k

Below(t, l, v) == l \in Named(t) /\ VarOf(t, l) > v /\ VarOf(t, l) # NUMVAR - 1

LEMMA NodeAdds ==
  ASSUME NEW r, RowInv(r), Ordered(r.nodes), NEW v \in 0 .. NUMVAR - 1,
         NEW t, NEW e, Below(r.nodes, t, v), Below(r.nodes, e, v), NEW c \in {0, 1}
  PROVE  Adds(r, BddUniqueCreateInt(r, <<v, t, e>>, c), <<v, t, e>>, c)
<1> DEFINE node == <<v, t, e>>
           Same == {k \in DOMAIN r.nodes : r.nodes[k] = node}
           L == Len(r.nodes)
           z == BddUniqueCreateInt(r, node, c)
<1>1. /\ r.nodes \in Seq(Triples) /\ L \in Nat /\ DOMAIN r.nodes = 1 .. L
      /\ r \in [nodes : Seq(Triples), out : Seq(Int)]
  BY DEF RowInv
<1>2. t \in Nat /\ e \in Nat /\ node \in Triples /\ node[1] = v /\ node[2] = t /\ node[3] = e
  BY DEF Below, Named, Triples
<1>3. CASE Same # {}
  <2>1. PICK j : j = CHOOSE k \in Same : TRUE
    OBVIOUS
  <2>2. j \in DOMAIN r.nodes /\ r.nodes[j] = node
    BY <1>3, <2>1
  <2>3. z = [r EXCEPT !.out = Append(@, 2 * j + c)]
    BY <1>3, <2>1 DEF BddUniqueCreateInt
  <2>4. z.nodes = r.nodes /\ z.out = Append(r.out, 2 * j + c)
    BY <1>1, <2>3
  <2>5. Extends(r.nodes, z.nodes)
    BY <1>1, <2>4, ExtendsSelf
  <2> HIDE DEF z, node, Same
  <2>6. Adds(r, z, node, c)
    BY <2>2, <2>4, <2>5 DEF Adds
  <2> QED
    BY <2>6 DEF z, node
<1>4. CASE Same = {}
  <2> DEFINE u == Append(r.nodes, node)
  <2>1. z = [nodes |-> u, out |-> Append(r.out, 2 * (L + 1) + c)]
    BY <1>4 DEF BddUniqueCreateInt
  <2>2. z.nodes = u /\ z.out = Append(r.out, 2 * (L + 1) + c)
    <3> HIDE DEF z, u, L
    <3> QED
      BY <2>1
  <2>3. /\ u \in Seq(Triples) /\ Len(u) = L + 1 /\ DOMAIN u = 1 .. L + 1
        /\ u[L + 1] = node /\ \A k \in 1 .. L : u[k] = r.nodes[k]
    BY <1>1, <1>2
  <2> HIDE DEF u, z, Same, node
  <2>4. Extends(r.nodes, u)
    BY <1>1, <2>3 DEF Extends
  <2>5. /\ Named(r.nodes) \subseteq Named(u)
        /\ \A l \in Named(r.nodes) : VarOf(u, l) = VarOf(r.nodes, l)
    BY <1>1, <2>3, <2>4, ExtendsFacts
  <2>6. Ordered(u)
    <3>1. ASSUME NEW k \in 1 .. L
          PROVE  /\ r.nodes[k][1] \in 0 .. NUMVAR - 1
                 /\ \A i \in {2, 3} : /\ r.nodes[k][i] \in Named(r.nodes)
                                      /\ VarOf(r.nodes, r.nodes[k][i]) > r.nodes[k][1]
                                      /\ VarOf(r.nodes, r.nodes[k][i]) # NUMVAR - 1
      <4>1. /\ r.nodes[k][1] \in 0 .. NUMVAR - 1
            /\ \A i \in {2, 3} : /\ r.nodes[k][i] \in Nat
                                 /\ VarOf(r.nodes, r.nodes[k][i]) > r.nodes[k][1]
                                 /\ VarOf(r.nodes, r.nodes[k][i]) # NUMVAR - 1
        BY <1>1 DEF Ordered
      <4>2. r.nodes[k][2] < 2 * k /\ r.nodes[k][3] < 2 * k
        BY <1>1 DEF RowInv, Table
      <4>3. \A i \in {2, 3} : r.nodes[k][i] < 2 * (L + 1)
        BY <1>1, <4>1, <4>2
      <4> QED
        BY <4>1, <4>3 DEF Named
    <3>2. ASSUME NEW k \in 1 .. L + 1
          PROVE  /\ u[k][1] \in 0 .. NUMVAR - 1
                 /\ \A i \in {2, 3} : /\ u[k][i] \in Nat
                                      /\ VarOf(u, u[k][i]) > u[k][1]
                                      /\ VarOf(u, u[k][i]) # NUMVAR - 1
      <4>1. CASE k = L + 1
        <5>1. u[k] = node
          BY <2>3, <4>1
        <5>2. \A i \in {2, 3} : Below(r.nodes, node[i], v)
          BY <1>2
        <5>3. \A i \in {2, 3} : node[i] \in Nat
          BY <1>2
        <5> QED
          BY <1>2, <2>5, <5>1, <5>2, <5>3 DEF Below
      <4>2. CASE k # L + 1
        <5>1. k \in 1 .. L /\ u[k] = r.nodes[k]
          BY <1>1, <2>3, <4>2
        <5>2. Named(r.nodes) \subseteq Nat
          BY DEF Named
        <5> QED
          BY <2>5, <3>1, <5>1, <5>2
      <4> QED
        BY <4>1, <4>2
    <3> QED
      BY <2>3, <3>2 DEF Ordered
  <2>7. L + 1 \in DOMAIN z.nodes /\ z.nodes[L + 1] = node
    BY <1>1, <2>2, <2>3
  <2>8. \A i \in DOMAIN z.nodes : i \notin DOMAIN r.nodes => i = L + 1
    BY <1>1, <2>2, <2>3
  <2>9. Adds(r, z, node, c)
    BY <2>2, <2>4, <2>6, <2>7, <2>8 DEF Adds
  <2> QED
    BY <2>9 DEF z, node
<1> QED
  BY <1>3, <1>4

\* The value that gennode() gives a place.
Chosen(F, a, v, use, pair) == IF use /\ a[v] = 1 THEN Value(F, pair[1]) ELSE Value(F, pair[2])

\* z is r with a literal for a place of variable v, and perhaps a node for it.
Meant(r, z, l, v, use, pair) ==
  /\ Ordered(z.nodes) /\ Extends(r.nodes, z.nodes)
  /\ l \in Named(z.nodes) /\ z.out = Append(r.out, l)
  /\ use => VarOf(z.nodes, l) >= v /\ (v # NUMVAR - 1 => VarOf(z.nodes, l) # NUMVAR - 1)
  /\ ~use => l = pair[2] /\ z.nodes = r.nodes
  /\ \A a : \A F : Values(F, z.nodes, a) => Value(F, l) = Chosen(F, a, v, use, pair)
  /\ \A i \in DOMAIN z.nodes : i \notin DOMAIN r.nodes =>
       use /\ z.nodes[i][1] = v /\ l \in {2 * i, 2 * i + 1}

LEMMA NodeMeans ==
  ASSUME NEW r, RowInv(r), Ordered(r.nodes), NEW v \in 0 .. NUMVAR - 1,
         NEW t, NEW e, Below(r.nodes, t, v), Below(r.nodes, e, v), t # e
  PROVE  \E l : Meant(r, BddUniqueCreate(r, v, t, e), l, v, TRUE, <<t, e>>)
<1> DEFINE c == e % 2
           node == <<v, NotIf(c, t), NotIf(c, e)>>
           z == BddUniqueCreateInt(r, node, c)
<1>1. /\ r.nodes \in Seq(Triples) /\ t \in Named(r.nodes) /\ e \in Named(r.nodes)
      /\ t \in Nat /\ e \in Nat
  BY DEF RowInv, Below, Named
<1>2. c \in {0, 1}
  BY <1>1, NotFacts
<1>3. Below(r.nodes, NotIf(c, t), v) /\ Below(r.nodes, NotIf(c, e), v)
  <2>1. \A l \in Named(r.nodes) : Not(l) \in Named(r.nodes)
                                  /\ VarOf(r.nodes, Not(l)) = VarOf(r.nodes, l)
    BY <1>1, NotNamed
  <2> QED
    BY <1>1, <2>1 DEF Below, NotIf
<1>4. Adds(r, z, node, c)
  BY <1>2, <1>3, NodeAdds
<1>5. BddUniqueCreate(r, v, t, e) = z
  BY DEF BddUniqueCreate
<1>6. z.nodes \in Seq(Triples)
  <2>1. NotIf(c, e) % 2 = 0 /\ NotIf(c, t) # NotIf(c, e)
    <3>1. t \in Int /\ e \in Int
      BY <1>1
    <3>2. NotIf(e % 2, e) % 2 = 0
      BY <1>2, <3>1, NotIfFacts
    <3>3. NotIf(c, t) # NotIf(c, e)
      <4> HIDE DEF c
      <4> QED
        BY <1>2, <3>1, NotIfFacts
    <3> QED
      BY <3>2, <3>3
  <2>2. NotIf(c, t) \in Literals(r.nodes) /\ NotIf(c, e) \in Literals(r.nodes)
    BY <1>3 DEF Below, Named, Literals
  <2>3. v \in Int
    OBVIOUS
  <2> HIDE DEF c
  <2>4. Filled(z)
    BY <1>2, <2>1, <2>2, <2>3, NodeMade
  <2> QED
    BY <2>4 DEF Filled, RowInv
<1>7. node[1] = v /\ node[2] = NotIf(c, t) /\ node[3] = NotIf(c, e)
  OBVIOUS
<1> HIDE DEF c, node, z
<1>8. PICK k \in DOMAIN z.nodes :
        /\ z.nodes[k] = node /\ z.out = Append(r.out, 2 * k + c)
        /\ \A i \in DOMAIN z.nodes : i \notin DOMAIN r.nodes => i = k
  BY <1>4 DEF Adds
<1> DEFINE l == 2 * k + c
<1>9. k \in Nat /\ k >= 1 /\ k <= Len(z.nodes) /\ Len(z.nodes) \in Nat
  BY <1>6
<1>10. l \div 2 = k /\ l % 2 = c /\ ~(l < 2) /\ l \in Nat
  <2>1. k \in Nat /\ k >= 1
    BY <1>9
  <2>2. 2 * k + c \in Nat
    BY <1>2, <2>1
  <2> QED
    BY <1>2, <2>1, <2>2, LiteralOfNode
<1>11. l \in Named(z.nodes)
  <2> DEFINE n == Len(z.nodes)
  <2>1. k \in Nat /\ k <= n /\ n \in Nat
    BY <1>9
  <2> HIDE DEF n
  <2>2. 2 * k + c < 2 * (n + 1)
    BY <1>2, <2>1
  <2> QED
    BY <1>10, <2>2 DEF Named, n
<1>12. VarOf(z.nodes, l) = v
  BY <1>7, <1>8, <1>10 DEF VarOf
<1>13. ASSUME NEW a, NEW F, Values(F, z.nodes, a)
       PROVE  Value(F, l) = Chosen(F, a, v, TRUE, <<t, e>>)
  <2>1. F \in [Nat -> {0, 1}]
        /\ F[k] = IF a[v] = 1 THEN Value(F, NotIf(c, t)) ELSE Value(F, NotIf(c, e))
    BY <1>7, <1>8, <1>13 DEF Values
  <2>2. /\ Value(F, t) \in {0, 1} /\ Value(F, Not(t)) = 1 - Value(F, t)
        /\ Value(F, e) \in {0, 1} /\ Value(F, Not(e)) = 1 - Value(F, e)
    BY <1>1, <2>1, ValueFacts
  <2>3. Value(F, l) = IF c = 0 THEN F[k] ELSE 1 - F[k]
    BY <1>10 DEF Value
  <2>4. Chosen(F, a, v, TRUE, <<t, e>>) = IF a[v] = 1 THEN Value(F, t) ELSE Value(F, e)
    BY DEF Chosen
  <2>5. CASE c = 0
    <3>1. NotIf(c, t) = t /\ NotIf(c, e) = e
      BY <2>5 DEF NotIf
    <3> QED
      BY <2>1, <2>3, <2>4, <2>5, <3>1
  <2>6. CASE c = 1
    <3>1. NotIf(c, t) = Not(t) /\ NotIf(c, e) = Not(e)
      BY <2>6 DEF NotIf
    <3>2. F[k] = IF a[v] = 1 THEN 1 - Value(F, t) ELSE 1 - Value(F, e)
      BY <2>1, <2>2, <3>1
    <3>3. Value(F, l) = 1 - F[k]
      BY <2>3, <2>6
    <3>4. CASE a[v] = 1
      <4>1. F[k] = 1 - Value(F, t) /\ Chosen(F, a, v, TRUE, <<t, e>>) = Value(F, t)
        BY <2>4, <3>2, <3>4
      <4>2. 1 - (1 - Value(F, t)) = Value(F, t)
        BY <2>2
      <4> QED
        BY <3>3, <4>1, <4>2
    <3>5. CASE a[v] # 1
      <4>1. F[k] = 1 - Value(F, e) /\ Chosen(F, a, v, TRUE, <<t, e>>) = Value(F, e)
        BY <2>4, <3>2, <3>5
      <4>2. 1 - (1 - Value(F, e)) = Value(F, e)
        BY <2>2
      <4> QED
        BY <3>3, <4>1, <4>2
    <3> QED
      BY <3>4, <3>5
  <2> QED
    BY <1>2, <2>5, <2>6
<1>14. ASSUME NEW i \in DOMAIN z.nodes, i \notin DOMAIN r.nodes
       PROVE  z.nodes[i][1] = v /\ l \in {2 * i, 2 * i + 1}
  BY <1>2, <1>7, <1>8, <1>9, <1>14
<1>15. Ordered(z.nodes) /\ Extends(r.nodes, z.nodes)
  BY <1>4 DEF Adds
<1>16. z.out = Append(r.out, l)
  BY <1>8
<1>17. VarOf(z.nodes, l) >= v /\ (v # NUMVAR - 1 => VarOf(z.nodes, l) # NUMVAR - 1)
  BY <1>12
<1> HIDE DEF l
<1>18. Meant(r, z, l, v, TRUE, <<t, e>>)
  BY <1>11, <1>13, <1>14, <1>15, <1>16, <1>17 DEF Meant
<1> QED
  BY <1>5, <1>18

LEMMA PlaceMeans ==
  ASSUME NEW r, RowInv(r), Ordered(r.nodes), NEW v, NEW use \in BOOLEAN, NEW pair,
         pair[1] \in Named(r.nodes), pair[2] \in Named(r.nodes), pair = <<pair[1], pair[2]>>,
         use => /\ v \in 0 .. NUMVAR - 1
                /\ Below(r.nodes, pair[1], v) /\ Below(r.nodes, pair[2], v)
  PROVE  \E l : Meant(r, gennode(r, v, pair, use), l, v, use, pair)
<1> DEFINE e == pair[2]
           w == [r EXCEPT !.out = Append(@, e)]
<1>1. r.nodes \in Seq(Triples) /\ r \in [nodes : Seq(Triples), out : Seq(Int)]
  BY DEF RowInv
<1>2. w.nodes = r.nodes /\ w.out = Append(r.out, e)
  BY <1>1
<1>3. Extends(r.nodes, w.nodes)
  BY <1>1, <1>2, ExtendsSelf
<1>4. CASE ~use
  <2>1. gennode(r, v, pair, use) = w
    BY <1>4 DEF gennode
  <2> HIDE DEF w
  <2>2. Meant(r, w, e, v, use, pair)
    BY <1>2, <1>3, <1>4 DEF Meant, Chosen
  <2> QED
    BY <2>1, <2>2
<1>5. CASE use /\ pair[1] = pair[2]
  <2>1. gennode(r, v, pair, use) = w
    BY <1>5 DEF gennode, BddUniqueCreate
  <2>2. VarOf(r.nodes, e) >= v /\ VarOf(r.nodes, e) # NUMVAR - 1
    <3>1. v \in Int /\ VarOf(r.nodes, e) > v
      BY <1>5 DEF Below
    <3>2. VarOf(r.nodes, e) \in Int
      <4>1. e \in Nat /\ e < 2 * (Len(r.nodes) + 1) /\ Len(r.nodes) \in Nat
        BY <1>1 DEF Named
      <4>2. CASE e < 2
        BY <4>2, SizeOfOutput DEF VarOf
      <4>3. CASE ~(e < 2)
        <5> DEFINE n == Len(r.nodes)
        <5>1. e < 2 * (n + 1) /\ n \in Nat /\ e \in Nat
          BY <4>1
        <5> HIDE DEF n, e
        <5>2. e \div 2 \in 1 .. n
          BY <4>3, <5>1
        <5>3. e \div 2 \in DOMAIN r.nodes
          BY <1>1, <5>2 DEF n
        <5>4. r.nodes[e \div 2][1] \in 0 .. NUMVAR - 1
          BY <5>3 DEF Ordered
        <5> QED
          BY <4>3, <5>4 DEF VarOf
      <4> QED
        BY <4>2, <4>3
    <3> QED
      BY <1>5, <3>1, <3>2 DEF Below
  <2> HIDE DEF w, e
  <2>3. \A a : \A F : Value(F, e) = Chosen(F, a, v, use, pair)
    BY <1>5 DEF Chosen, e
  <2>4. e \in Named(w.nodes)
    BY <1>2 DEF e
  <2>5. Meant(r, w, e, v, use, pair)
    BY <1>2, <1>3, <1>5, <2>2, <2>3, <2>4 DEF Meant
  <2> QED
    BY <2>1, <2>5
<1>6. CASE use /\ pair[1] # pair[2]
  <2> DEFINE t == pair[1]
  <2>1. gennode(r, v, pair, use) = BddUniqueCreate(r, v, t, e)
    BY <1>6 DEF gennode
  <2>2. \E l : Meant(r, BddUniqueCreate(r, v, t, e), l, v, TRUE, <<t, e>>)
    BY <1>6, NodeMeans
  <2>3. pair = <<t, e>> /\ use = TRUE
    BY <1>6
  <2> HIDE DEF t, e
  <2> QED
    BY <2>1, <2>2, <2>3
<1> QED
  BY <1>4, <1>5, <1>6

-----------------------------------------------------------------------------
(* The places of a row.  Place k holds a bit of the sum so far less the cut *)
(* of k, for the bit p = 2^b of output col + b; d is the largest sum.      *)

Cut(p, d, k) == IF k = 0 THEN d - p ELSE (IF d > p THEN d ELSE p) + k

\* The places of the buffer that the rows before have written.
Width(p, d) == IF d <= p THEN d ELSE p
Shaped(p, d) == nbuf = Width(p, d) /\ Len(pBuf) = IF d = 0 THEN 1 ELSE Width(p, d)

\* Literals that a row takes from the buffer.
Taken == {0, 1} \union {pBuf[i] : i \in DOMAIN pBuf} \union {Not(pBuf[i]) : i \in DOMAIN pBuf}

\* What place i of the buffer means, if only the even cuts are kept.
Right(F, x, p, d, even) ==
  \A i \in 0 .. Len(pBuf) - 1 :
    (even => Cut(p, d, i) % 2 = 0) => Value(F, pBuf[i + 1]) = BitOf(x - Cut(p, d, i), p)

LEMMA AtIs ==
  ASSUME pBuf \in Seq(Nat), NEW i \in 0 .. Len(pBuf) - 1
  PROVE  At(i) = pBuf[i + 1] /\ At(i) \in Nat /\ At(i) \in Taken /\ Not(At(i)) \in Taken
<1>1. Len(pBuf) \in Nat /\ i + 1 \in 1 .. Len(pBuf) /\ i < Len(pBuf)
  OBVIOUS
<1>2. At(i) = pBuf[i + 1] /\ i + 1 \in DOMAIN pBuf
  BY <1>1 DEF At
<1> QED
  BY <1>2 DEF Taken

LEMMA CutType ==
  ASSUME NEW p \in Int, NEW d \in Int, NEW k \in Int
  PROVE  Cut(p, d, k) \in Int
BY DEF Cut

\* One bit, whichever way its place is written.
LEMMA SameBit ==
  ASSUME NEW p \in Nat \ {0}, NEW x \in Int, NEW y \in Int
  PROVE  /\ y = x => BitOf(y, p) = BitOf(x, p)
         /\ y = x + p => BitOf(y, p) = 1 - BitOf(x, p)
         /\ y = x - p => BitOf(y, p) = 1 - BitOf(x, p)
         /\ y = x + 2 * p => BitOf(y, p) = BitOf(x, p)
         /\ y = x - 2 * p => BitOf(y, p) = BitOf(x, p)
<1>1. BitOf(x, p) \in {0, 1} /\ BitOf(x + p, p) = 1 - BitOf(x, p) /\ BitOf(x - p, p) = 1 - BitOf(x, p)
  BY BitTurns
<1>2. BitOf((x + p) + p, p) = 1 - BitOf(x + p, p) /\ BitOf((x - p) - p, p) = 1 - BitOf(x - p, p)
  <2>1. x + p \in Int /\ x - p \in Int
    OBVIOUS
  <2> QED
    BY <2>1, BitTurns
<1>3. BitOf((x + p) + p, p) = BitOf(x, p) /\ BitOf((x - p) - p, p) = BitOf(x, p)
  BY <1>1, <1>2
<1>4. x + 2 * p = (x + p) + p /\ x - 2 * p = (x - p) - p
  OBVIOUS
<1> QED
  BY <1>1, <1>3, <1>4

LEMMA SameParity ==
  ASSUME NEW x \in Int, NEW y \in Int, NEW q \in Int
  PROVE  /\ y = x => y % 2 = x % 2
         /\ y = x + 2 * q => y % 2 = x % 2
         /\ y = x - 2 * q => y % 2 = x % 2
         /\ y = x + 4 * q => y % 2 = x % 2
OBVIOUS

LEMMA InnerMeans ==
  ASSUME NEW q \in Nat \ {0}, NEW p, p = 2 * q, NEW d \in Nat, Shaped(p, d),
         levelsize = Width(p, d + 1), pBuf \in Seq(Nat),
         NEW F \in [Nat -> {0, 1}], F[0] = 0, NEW x \in 0 .. d,
         NEW even \in BOOLEAN, Right(F, x, p, d, even), NEW k \in 0 .. levelsize - 1
  PROVE  /\ (even => Cut(p, d + 1, k) % 2 = 0) =>
              Value(F, Inner(k)[2]) = BitOf(x - Cut(p, d + 1, k), p)
         /\ ~even => Value(F, Inner(k)[1]) = BitOf(x + 1 - Cut(p, d + 1, k), p)
<1> DEFINE n == Len(pBuf)
           c == Cut(p, d + 1, k)
<1>1. p \in Nat \ {0} /\ n \in Nat /\ p >= 2
  OBVIOUS
<1>2. nbuf = Width(p, d) /\ n = IF d = 0 THEN 1 ELSE Width(p, d)
  BY DEF Shaped
<1>3. c \in Int /\ k \in Nat /\ \A i \in Int : Cut(p, d, i) \in Int
  <2>1. levelsize \in Int
    BY <1>1 DEF Width
  <2>2. k \in Nat
    BY <2>1
  <2> QED
    BY <1>1, <2>2, CutType
<1>4. ASSUME NEW i \in 0 .. n - 1
      PROVE  /\ At(i) \in Nat /\ Value(F, At(i)) \in {0, 1}
             /\ Value(F, Not(At(i))) = 1 - Value(F, At(i))
             /\ (even => Cut(p, d, i) % 2 = 0) => Value(F, At(i)) = BitOf(x - Cut(p, d, i), p)
  <2>1. At(i) = pBuf[i + 1] /\ At(i) \in Nat
    BY AtIs
  <2> QED
    BY <2>1, ValueFacts DEF Right
<1>5. Value(F, 0) = 0 /\ Value(F, 1) = 1
  <2>1. 0 \in Nat
    OBVIOUS
  <2> QED
    BY <2>1, ValueFacts
<1>6. CASE p <= d
  <2>1. nbuf = p /\ n = p /\ levelsize = p
    BY <1>1, <1>2, <1>6 DEF Width
  <2>2. Inner(k) = <<At(k), IF k = 0 THEN Not(At(1)) ELSE IF k = p - 1 THEN At(0) ELSE At(k + 1)>>
    BY <2>1 DEF Inner
  <2>3. Cut(p, d, 0) = d - p /\ \A i \in 1 .. p - 1 : Cut(p, d, i) = d + i
    BY <1>1, <1>6 DEF Cut
  <2>4. c = IF k = 0 THEN d + 1 - p ELSE d + 1 + k
    BY <1>1, <1>3, <1>6 DEF Cut
  <2>5. k \in 0 .. n - 1 /\ 1 \in 0 .. n - 1 /\ 0 \in 0 .. n - 1
    BY <1>1, <1>3, <2>1
  <2> HIDE DEF n, c
  <2>6. ASSUME ~even PROVE Value(F, At(k)) = BitOf(x + 1 - c, p)
    <3>1. Value(F, At(k)) = BitOf(x - Cut(p, d, k), p)
      BY <1>4, <2>5, <2>6
    <3>2. x - Cut(p, d, k) = x + 1 - c
      <4>1. k # 0 => k \in 1 .. p - 1
        BY <1>3, <2>1, <2>5
      <4>2. Cut(p, d, k) = c - 1
        <5>1. CASE k = 0
          <6>1. Cut(p, d, k) = d - p /\ c = d + 1 - p
            BY <2>3, <2>4, <5>1
          <6> QED
            BY <1>1, <6>1
        <5>2. CASE k # 0
          <6>1. Cut(p, d, k) = d + k /\ c = d + 1 + k
            BY <2>3, <2>4, <4>1, <5>2
          <6> QED
            BY <1>1, <1>3, <6>1
        <5> QED
          BY <5>1, <5>2
      <4> QED
        BY <1>3, <4>2
    <3> QED
      BY <3>1, <3>2
  <2>7. ASSUME even => c % 2 = 0, k = 0 PROVE Value(F, Not(At(1))) = BitOf(x - c, p)
    <3>1. Cut(p, d, 1) = c + 2 * q
      BY <1>1, <2>3, <2>4, <2>7
    <3>2. even => Cut(p, d, 1) % 2 = 0
      BY <1>3, <2>7, <3>1, SameParity
    <3>3. Value(F, Not(At(1))) = 1 - BitOf(x - Cut(p, d, 1), p)
      BY <1>4, <2>5, <3>2
    <3>4. x - Cut(p, d, 1) \in Int /\ x - c = (x - Cut(p, d, 1)) + p /\ x - c \in Int
      <4>1. Cut(p, d, 1) \in Int
        BY <1>3
      <4>2. x \in Int /\ q \in Int
        OBVIOUS
      <4>3. \A y \in Int : y = c + 2 * q => x - y \in Int /\ x - c = (x - y) + p /\ x - c \in Int
        BY <1>3, <4>2
      <4> QED
        BY <3>1, <4>1, <4>3
    <3> QED
      BY <1>1, <3>3, <3>4, SameBit
  <2>8. ASSUME even => c % 2 = 0, k # 0, k = p - 1 PROVE Value(F, At(0)) = BitOf(x - c, p)
    <3>1. Cut(p, d, 0) = c - 4 * q /\ Cut(p, d, 0) \in Int
      BY <1>1, <1>3, <2>3, <2>4, <2>8
    <3>2. even => Cut(p, d, 0) % 2 = 0
      <4>1. c = Cut(p, d, 0) + 4 * q
        BY <1>3, <3>1
      <4> QED
        BY <1>3, <2>8, <3>1, <4>1, SameParity
    <3>3. Value(F, At(0)) = BitOf(x - Cut(p, d, 0), p)
      BY <1>4, <2>5, <3>2
    <3>4. x - Cut(p, d, 0) \in Int /\ x - c = (x - Cut(p, d, 0)) - 2 * p /\ x - c \in Int
      <4>1. x \in Int /\ q \in Int
        OBVIOUS
      <4>2. \A y \in Int : y = c - 4 * q => x - y \in Int /\ x - c = (x - y) - 2 * p /\ x - c \in Int
        BY <1>3, <4>1
      <4> QED
        BY <3>1, <4>2
    <3> QED
      BY <1>1, <3>3, <3>4, SameBit
  <2>9. ASSUME even => c % 2 = 0, k # 0, k # p - 1 PROVE Value(F, At(k + 1)) = BitOf(x - c, p)
    <3>1. k + 1 \in 1 .. p - 1 /\ k + 1 \in 0 .. n - 1
      BY <1>1, <1>3, <2>1, <2>5, <2>9
    <3>2. Cut(p, d, k + 1) = c
      BY <1>3, <2>3, <2>4, <2>9, <3>1
    <3>3. Value(F, At(k + 1)) = BitOf(x - Cut(p, d, k + 1), p)
      BY <1>4, <2>9, <3>1, <3>2
    <3> QED
      BY <3>2, <3>3
  <2> QED
    BY <2>2, <2>6, <2>7, <2>8, <2>9 DEF c
<1>7. CASE d < p
  <2>1. nbuf = d /\ levelsize = d + 1 /\ n = IF d = 0 THEN 1 ELSE d
    BY <1>1, <1>2, <1>7 DEF Width
  <2>2. Inner(k) = IF k = 0 THEN <<At(0), 0>>
                   ELSE <<IF k = 1 THEN 1 ELSE At(k - 1), IF k = d THEN At(0) ELSE At(k)>>
    <3>1. levelsize # nbuf /\ levelsize - 1 = d
      BY <2>1
    <3> QED
      BY <3>1 DEF Inner
  <2>3. Cut(p, d, 0) = d - p /\ \A i \in 1 .. d - 1 : Cut(p, d, i) = p + i
    BY <1>1, <1>7 DEF Cut
  <2>4. c = IF k = 0 THEN d + 1 - p ELSE p + k
    BY <1>1, <1>3, <1>7 DEF Cut
  <2>5. k \in 0 .. d /\ 0 \in 0 .. n - 1 /\ (k # 0 /\ k # d => k \in 0 .. n - 1)
        /\ (k > 1 => k - 1 \in 0 .. n - 1)
    <3>1. k \in 0 .. d /\ n \in Nat /\ n >= 1 /\ n >= d
      BY <1>3, <2>1
    <3> HIDE DEF n
    <3> QED
      BY <3>1
  <2> HIDE DEF n, c
  <2>6. ASSUME ~even, k = 0 PROVE Value(F, At(0)) = BitOf(x + 1 - c, p)
    <3>1. Value(F, At(0)) = BitOf(x - Cut(p, d, 0), p)
      BY <1>4, <2>5, <2>6
    <3>2. x - Cut(p, d, 0) = x + 1 - c
      BY <1>1, <2>3, <2>4, <2>6
    <3> QED
      BY <3>1, <3>2
  <2>7. ASSUME k = 0 PROVE Value(F, 0) = BitOf(x - c, p)
    <3>1. x - c \in 0 .. p - 1
      BY <1>1, <1>7, <2>4, <2>7
    <3> QED
      BY <1>1, <1>5, <3>1, BitOfSmall
  <2>8. ASSUME k = 1 PROVE Value(F, 1) = BitOf(x + 1 - c, p)
    <3>1. x + 1 - c \in -p .. -1
      BY <1>1, <1>7, <2>4, <2>8
    <3> QED
      BY <1>1, <1>5, <3>1, BitOfSmall
  <2>9. ASSUME ~even, k > 1 PROVE Value(F, At(k - 1)) = BitOf(x + 1 - c, p)
    <3>1. Value(F, At(k - 1)) = BitOf(x - Cut(p, d, k - 1), p)
      BY <1>4, <2>5, <2>9
    <3>2. k - 1 \in 1 .. d - 1
      BY <2>5, <2>9
    <3>3. x - Cut(p, d, k - 1) = x + 1 - c
      <4>1. Cut(p, d, k - 1) = p + (k - 1) /\ c = p + k
        BY <1>3, <2>3, <2>4, <2>9, <3>2
      <4> QED
        BY <1>1, <1>3, <4>1
    <3> QED
      BY <3>1, <3>3
  <2>10. ASSUME even => c % 2 = 0, k # 0, k = d PROVE Value(F, At(0)) = BitOf(x - c, p)
    <3>1. Cut(p, d, 0) = c - 4 * q /\ Cut(p, d, 0) \in Int
      BY <1>1, <1>3, <2>3, <2>4, <2>10
    <3>2. even => Cut(p, d, 0) % 2 = 0
      <4>1. c = Cut(p, d, 0) + 4 * q
        BY <1>3, <3>1
      <4> QED
        BY <1>3, <2>10, <3>1, <4>1, SameParity
    <3>3. Value(F, At(0)) = BitOf(x - Cut(p, d, 0), p)
      BY <1>4, <2>5, <3>2
    <3>4. x - Cut(p, d, 0) \in Int /\ x - c = (x - Cut(p, d, 0)) - 2 * p /\ x - c \in Int
      <4>1. x \in Int /\ q \in Int
        OBVIOUS
      <4>2. \A y \in Int : y = c - 4 * q => x - y \in Int /\ x - c = (x - y) - 2 * p /\ x - c \in Int
        BY <1>3, <4>1
      <4> QED
        BY <3>1, <4>2
    <3> QED
      BY <1>1, <3>3, <3>4, SameBit
  <2>11. ASSUME even => c % 2 = 0, k # 0, k # d PROVE Value(F, At(k)) = BitOf(x - c, p)
    <3>1. k \in 1 .. d - 1 /\ k \in 0 .. n - 1
      BY <2>5, <2>11
    <3>2. Cut(p, d, k) = c
      BY <2>3, <2>4, <2>11, <3>1
    <3>3. Value(F, At(k)) = BitOf(x - Cut(p, d, k), p)
      BY <1>4, <2>11, <3>1, <3>2
    <3> QED
      BY <3>2, <3>3
  <2>12. CASE k = 0
    BY <2>2, <2>6, <2>7, <2>12 DEF c
  <2>13. CASE k # 0
    <3>1. Inner(k)[1] = (IF k = 1 THEN 1 ELSE At(k - 1)) /\ Inner(k)[2] = (IF k = d THEN At(0) ELSE At(k))
      BY <2>2, <2>13
    <3>2. k = 1 \/ k > 1
      BY <1>3, <2>13
    <3> QED
      BY <2>8, <2>9, <2>10, <2>11, <2>13, <3>1, <3>2 DEF c
  <2> QED
    BY <2>12, <2>13
<1> QED
  BY <1>1, <1>6, <1>7

\* What InnerMeans asks for, as one fact about place k of level d + 1, so that it can be cited.
InnerReady(F, x, p, q, d, even, k) ==
  /\ q \in Nat \ {0} /\ p = 2 * q /\ d \in Nat /\ Shaped(p, d)
  /\ levelsize = Width(p, d + 1) /\ pBuf \in Seq(Nat)
  /\ F \in [Nat -> {0, 1}] /\ F[0] = 0 /\ x \in 0 .. d
  /\ even \in BOOLEAN /\ Right(F, x, p, d, even) /\ k \in 0 .. levelsize - 1

LEMMA InnerPlace ==
  ASSUME NEW F, NEW x, NEW p, NEW q, NEW d, NEW even, NEW k, InnerReady(F, x, p, q, d, even, k)
  PROVE  /\ (even => Cut(p, d + 1, k) % 2 = 0) =>
              Value(F, Inner(k)[2]) = BitOf(x - Cut(p, d + 1, k), p)
         /\ ~even => Value(F, Inner(k)[1]) = BitOf(x + 1 - Cut(p, d + 1, k), p)
  BY InnerMeans DEF InnerReady

LEMMA OuterMeans ==
  ASSUME NEW q \in Nat \ {0}, NEW p, p = 2 * q, col \in Nat \ {0}, Shaped(p, 2 * col - 1),
         levelsize = Width(q, col), pBuf \in Seq(Nat),
         NEW F \in [Nat -> {0, 1}], F[0] = 0, NEW x \in 0 .. 2 * col - 1,
         NEW even \in BOOLEAN, Right(F, x, p, 2 * col - 1, even), NEW k \in 0 .. levelsize - 1
  PROVE  /\ Value(F, Outer(k)[2]) = BitOf(x - 2 * Cut(q, col, k), p)
         /\ ~even => Value(F, Outer(k)[1]) = BitOf(x + 1 - 2 * Cut(q, col, k), p)
<1> DEFINE n == Len(pBuf)
           d == 2 * col - 1
           c == 2 * Cut(q, col, k)
<1>1. p \in Nat \ {0} /\ n \in Nat /\ p >= 2 /\ d \in Nat \ {0}
  OBVIOUS
<1>2. nbuf = Width(p, d) /\ n = Width(p, d)
  BY <1>1 DEF Shaped
<1>3. c \in Int /\ k \in Nat /\ Cut(q, col, k) \in Int
      /\ \A i \in Int : Cut(p, d, i) \in Int
  <2>1. levelsize \in Int
    BY DEF Width
  <2>2. k \in Nat
    BY <2>1
  <2>3. Cut(q, col, k) \in Int
    BY <2>2, CutType
  <2>4. \A i \in Int : Cut(p, d, i) \in Int
    <3>1. p \in Int /\ d \in Int
      BY <1>1
    <3> HIDE DEF d
    <3> QED
      BY <3>1, CutType
  <2> QED
    BY <2>2, <2>3, <2>4
<1>4. ASSUME NEW i \in 0 .. n - 1
      PROVE  /\ At(i) \in Nat /\ Value(F, At(i)) \in {0, 1}
             /\ Value(F, Not(At(i))) = 1 - Value(F, At(i))
             /\ (even => Cut(p, d, i) % 2 = 0) => Value(F, At(i)) = BitOf(x - Cut(p, d, i), p)
  <2>1. At(i) = pBuf[i + 1] /\ At(i) \in Nat
    BY AtIs
  <2> QED
    BY <2>1, ValueFacts DEF Right
<1>5. Value(F, 0) = 0
  <2>1. 0 \in Nat
    OBVIOUS
  <2> QED
    BY <2>1, ValueFacts
<1>6. CASE p <= d
  <2>1. nbuf = p /\ n = p /\ levelsize = q /\ q < col
    BY <1>1, <1>2, <1>6 DEF Width
  <2>2. Outer(k) = <<At(2 * k), IF k = 0 THEN Not(At(1)) ELSE At(2 * k + 1)>>
    BY <2>1 DEF Outer
  <2>3. Cut(p, d, 0) = d - p /\ \A i \in 1 .. p - 1 : Cut(p, d, i) = d + i
    BY <1>1, <1>6 DEF Cut
  <2>4. c = IF k = 0 THEN d + 1 - p ELSE d + 1 + 2 * k
    BY <1>1, <1>3, <2>1 DEF Cut
  <2>5. 2 * k \in 0 .. n - 1 /\ 2 * k + 1 \in 1 .. n - 1 /\ 2 * k + 1 \in 0 .. n - 1
    BY <1>1, <1>3, <2>1
  <2> HIDE DEF n, c, d
  <2>6. ASSUME ~even PROVE Value(F, At(2 * k)) = BitOf(x + 1 - c, p)
    <3>1. Value(F, At(2 * k)) = BitOf(x - Cut(p, d, 2 * k), p)
      BY <1>4, <2>5, <2>6
    <3>2. x - Cut(p, d, 2 * k) = x + 1 - c
      <4>1. CASE k = 0
        BY <1>1, <2>3, <2>4, <4>1
      <4>2. CASE k # 0
        <5>1. 2 * k \in 1 .. p - 1
          BY <1>1, <1>3, <2>1, <2>5, <4>2
        <5>2. Cut(p, d, 2 * k) = d + 2 * k
          BY <2>3, <5>1
        <5> QED
          BY <1>1, <1>3, <2>4, <4>2, <5>2
      <4> QED
        BY <4>1, <4>2
    <3> QED
      BY <3>1, <3>2
  <2>7. Cut(p, d, 2 * k + 1) = d + 2 * k + 1 /\ (d + 2 * k + 1) % 2 = 0
    <3>1. Cut(p, d, 2 * k + 1) = d + (2 * k + 1)
      BY <2>1, <2>3, <2>5
    <3>2. d + (2 * k + 1) = 2 * (col + k)
      BY <1>3 DEF d
    <3>3. (2 * (col + k)) % 2 = 0 /\ d + (2 * k + 1) = d + 2 * k + 1
      BY <1>1, <1>3
    <3> QED
      BY <3>1, <3>2, <3>3
  <2>8. Value(F, At(2 * k + 1)) = BitOf(x - (d + 2 * k + 1), p)
    BY <1>4, <2>5, <2>7
  <2>9. CASE k = 0
    <3>1. Value(F, Not(At(1))) = 1 - BitOf(x - (d + 1), p)
      <4>1. 2 * k + 1 = 1 /\ d + 2 * k + 1 = d + 1
        BY <1>1, <2>9
      <4>2. Value(F, Not(At(1))) = 1 - Value(F, At(1)) /\ Value(F, At(1)) = BitOf(x - (d + 1), p)
        BY <1>4, <2>5, <2>8, <4>1
      <4> QED
        BY <4>2
    <3>2. x - (d + 1) \in Int /\ x - c = (x - (d + 1)) + p /\ x - c \in Int
      BY <1>1, <1>3, <2>4, <2>9
    <3>3. Value(F, Not(At(1))) = BitOf(x - c, p)
      BY <1>1, <3>1, <3>2, SameBit
    <3> QED
      BY <2>2, <2>6, <2>9, <3>3 DEF c
  <2>10. CASE k # 0
    <3>1. x - (d + 2 * k + 1) = x - c
      BY <1>1, <1>3, <2>4, <2>10
    <3> QED
      BY <2>2, <2>6, <2>8, <2>10, <3>1 DEF c
  <2> QED
    BY <2>9, <2>10
<1>7. CASE d < p
  <2>1. nbuf = d /\ n = d /\ levelsize = col /\ col <= q
    BY <1>1, <1>2, <1>7 DEF Width
  <2>2. Outer(k) = IF k = 0 THEN <<At(0), 0>> ELSE <<At(2 * k - 1), At(2 * k)>>
    BY <1>3, <2>1 DEF Outer
  <2>3. Cut(p, d, 0) = d - p /\ \A i \in 1 .. d - 1 : Cut(p, d, i) = p + i
    BY <1>1, <1>7 DEF Cut
  <2>4. c = IF k = 0 THEN d + 1 - p ELSE p + 2 * k
    BY <1>1, <1>3, <2>1 DEF Cut
  <2>5. 0 \in 0 .. n - 1 /\ (k # 0 => /\ 2 * k - 1 \in 1 .. d - 1 /\ 2 * k \in 1 .. d - 1
                                     /\ 2 * k - 1 \in 0 .. n - 1 /\ 2 * k \in 0 .. n - 1)
    BY <1>1, <1>3, <2>1
  <2> HIDE DEF n, c, d
  <2>6. CASE k = 0
    <3>1. x - c \in 0 .. p - 1
      BY <1>1, <1>7, <2>4, <2>6 DEF d
    <3>2. BitOf(x - c, p) = 0
      BY <1>1, <3>1, BitOfSmall
    <3>3. ASSUME ~even PROVE Value(F, At(0)) = BitOf(x + 1 - c, p)
      <4>1. Value(F, At(0)) = BitOf(x - Cut(p, d, 0), p)
        BY <1>4, <2>5, <3>3
      <4>2. x - Cut(p, d, 0) = x + 1 - c
        BY <1>1, <2>3, <2>4, <2>6
      <4> QED
        BY <4>1, <4>2
    <3> QED
      BY <1>5, <2>2, <2>6, <3>2, <3>3 DEF c
  <2>7. CASE k # 0
    <3>1. Cut(p, d, 2 * k) = p + 2 * k /\ Cut(p, d, 2 * k - 1) = p + (2 * k - 1)
      BY <2>3, <2>5, <2>7
    <3>2. (p + 2 * k) % 2 = 0
      <4>1. p + 2 * k = 2 * (q + k)
        BY <1>3
      <4>2. (2 * (q + k)) % 2 = 0
        BY <1>3
      <4> QED
        BY <4>1, <4>2
    <3>3. Value(F, At(2 * k)) = BitOf(x - (p + 2 * k), p)
      BY <1>4, <2>5, <2>7, <3>1, <3>2
    <3>4. ASSUME ~even PROVE Value(F, At(2 * k - 1)) = BitOf(x - (p + (2 * k - 1)), p)
      BY <1>4, <2>5, <2>7, <3>1, <3>4
    <3>5. x - (p + 2 * k) = x - c /\ x - (p + (2 * k - 1)) = x + 1 - c
      BY <1>1, <1>3, <2>4, <2>7
    <3> QED
      BY <2>2, <2>7, <3>3, <3>4, <3>5 DEF c
  <2> QED
    BY <2>6, <2>7
<1> QED
  BY <1>1, <1>6, <1>7

\* A row reads nothing that is not there.
LEMMA PairsTaken ==
  ASSUME NEW q \in Nat \ {0}, NEW p, p = 2 * q, pBuf \in Seq(Nat), NEW k \in 0 .. levelsize - 1
  PROVE  /\ \A d \in Nat : Shaped(p, d) /\ levelsize = Width(p, d + 1) =>
              Inner(k)[1] \in Taken /\ Inner(k)[2] \in Taken
         /\ col \in Nat \ {0} /\ Shaped(p, 2 * col - 1) /\ levelsize = Width(q, col) =>
              Outer(k)[1] \in Taken /\ Outer(k)[2] \in Taken
         /\ Inner(k) = <<Inner(k)[1], Inner(k)[2]>> /\ Outer(k) = <<Outer(k)[1], Outer(k)[2]>>
<1> DEFINE n == Len(pBuf)
<1>1. p \in Nat \ {0} /\ n \in Nat /\ p >= 2
  OBVIOUS
<1>2. \A i \in 0 .. n - 1 : At(i) \in Taken /\ Not(At(i)) \in Taken
  BY AtIs
<1>3. 0 \in Taken /\ 1 \in Taken
  BY DEF Taken
<1>4. Inner(k) = <<Inner(k)[1], Inner(k)[2]>> /\ Outer(k) = <<Outer(k)[1], Outer(k)[2]>>
  BY DEF Inner, Outer
<1>5. ASSUME NEW d \in Nat, Shaped(p, d), levelsize = Width(p, d + 1)
      PROVE  Inner(k)[1] \in Taken /\ Inner(k)[2] \in Taken
  <2>1. nbuf = Width(p, d) /\ n = IF d = 0 THEN 1 ELSE Width(p, d)
    BY <1>5 DEF Shaped
  <2>2. CASE p <= d
    <3>1. nbuf = p /\ n = p /\ levelsize = p
      BY <1>1, <1>5, <2>1, <2>2 DEF Width
    <3>2. Inner(k) = <<At(k), IF k = 0 THEN Not(At(1)) ELSE IF k = p - 1 THEN At(0) ELSE At(k + 1)>>
      BY <3>1 DEF Inner
    <3>3. /\ k \in 0 .. n - 1 /\ 1 \in 0 .. n - 1 /\ 0 \in 0 .. n - 1
          /\ (k # p - 1 => k + 1 \in 0 .. n - 1)
      BY <1>1, <3>1
    <3> HIDE DEF n
    <3> QED
      BY <1>2, <3>2, <3>3
  <2>3. CASE ~(p <= d)
    <3>1. nbuf = d /\ levelsize = d + 1 /\ n = IF d = 0 THEN 1 ELSE d
      BY <1>1, <1>5, <2>1, <2>3 DEF Width
    <3>2. Inner(k) = IF k = 0 THEN <<At(0), 0>>
                     ELSE <<IF k = 1 THEN 1 ELSE At(k - 1), IF k = d THEN At(0) ELSE At(k)>>
      BY <3>1 DEF Inner
    <3>3. /\ 0 \in 0 .. n - 1 /\ (k # 0 /\ k # d => k \in 0 .. n - 1)
          /\ (k # 0 /\ k # 1 => k - 1 \in 0 .. n - 1)
      BY <1>1, <3>1
    <3> HIDE DEF n
    <3> QED
      BY <1>2, <1>3, <3>2, <3>3
  <2> QED
    BY <2>2, <2>3
<1>6. ASSUME col \in Nat \ {0}, Shaped(p, 2 * col - 1), levelsize = Width(q, col)
      PROVE  Outer(k)[1] \in Taken /\ Outer(k)[2] \in Taken
  <2> DEFINE d == 2 * col - 1
  <2>1. nbuf = Width(p, d) /\ n = Width(p, d) /\ d \in Nat \ {0}
    BY <1>6 DEF Shaped
  <2>2. CASE p <= d
    <3>1. nbuf = p /\ n = p /\ levelsize = q
      BY <1>1, <1>6, <2>1, <2>2 DEF Width
    <3>2. Outer(k) = <<At(2 * k), IF k = 0 THEN Not(At(1)) ELSE At(2 * k + 1)>>
      BY <3>1 DEF Outer
    <3>3. 2 * k \in 0 .. n - 1 /\ 2 * k + 1 \in 0 .. n - 1 /\ 1 \in 0 .. n - 1
      BY <1>1, <3>1
    <3> HIDE DEF n, d
    <3> QED
      BY <1>2, <3>2, <3>3
  <2>3. CASE ~(p <= d)
    <3>1. nbuf = d /\ n = d /\ levelsize = col
      BY <1>1, <1>6, <2>1, <2>3 DEF Width
    <3>2. Outer(k) = IF k = 0 THEN <<At(0), 0>> ELSE <<At(2 * k - 1), At(2 * k)>>
      BY <1>6, <3>1 DEF Outer
    <3>3. 0 \in 0 .. n - 1 /\ (k # 0 => 2 * k - 1 \in 0 .. n - 1 /\ 2 * k \in 0 .. n - 1)
      BY <1>1, <1>6, <3>1
    <3> HIDE DEF n, d
    <3> QED
      BY <1>2, <1>3, <3>2, <3>3
  <2> QED
    BY <2>2, <2>3
<1> QED
  BY <1>4, <1>5, <1>6

-----------------------------------------------------------------------------
(* The marks.  A row of the marks of the row at the top, moved down.       *)

\* A shift of the marks of a row.
MarkShift(T, i, n, turns) ==
  IF i <= turns THEN Rotated(T, n) ELSE Shortened(T, n + turns + 1 - i)

LEMMA MarksShiftedDef ==
  ASSUME NEW marked, NEW n, NEW turns, NEW nshift \in Nat
  PROVE  MarksShifted(marked, n, turns, nshift) =
           [i \in 0 .. nshift |->
              IF i = 0 THEN marked
              ELSE MarkShift(MarksShifted(marked, n, turns, nshift)[i - 1], i, n, turns)]
<1> DEFINE Eq(g, j) == g = [i \in 0 .. j |->
                              IF i = 0 THEN marked ELSE MarkShift(g[i - 1], i, n, turns)]
           S == {j \in Nat : \E g : Eq(g, j)}
<1>1. 0 \in S
  <2>1. Eq([i \in 0 .. 0 |-> marked], 0)
    OBVIOUS
  <2>2. \E g : Eq(g, 0)
    <3> HIDE DEF Eq
    <3> QED
      BY <2>1
  <2> HIDE DEF Eq
  <2> QED
    BY <2>2
<1>2. ASSUME NEW j \in Nat, j \in S PROVE j + 1 \in S
  <2>1. PICK g : Eq(g, j)
    BY <1>2
  <2> DEFINE h == [i \in 0 .. j + 1 |->
                     IF i = 0 THEN marked ELSE MarkShift(g[i - 1], i, n, turns)]
  <2>2. ASSUME NEW i \in 0 .. j PROVE h[i] = g[i]
    BY <2>1
  <2>3. ASSUME NEW i \in 0 .. j + 1
        PROVE  h[i] = IF i = 0 THEN marked ELSE MarkShift(h[i - 1], i, n, turns)
    <3>1. CASE i = 0
      BY <3>1
    <3>2. CASE i # 0
      <4>1. i - 1 \in 0 .. j
        BY <3>2
      <4>2. h[i - 1] = g[i - 1]
        BY <2>2, <4>1
      <4> QED
        BY <3>2, <4>2
    <3> QED
      BY <3>1, <3>2
  <2>4. Eq(h, j + 1)
    <3>1. h = [i \in 0 .. j + 1 |-> h[i]]
      OBVIOUS
    <3> HIDE DEF h
    <3> QED
      BY <2>3, <3>1
  <2>5. \E g_1 : Eq(g_1, j + 1)
    <3> HIDE DEF h, Eq
    <3> QED
      BY <2>4
  <2> HIDE DEF Eq
  <2> QED
    BY <2>5
<1>3. nshift \in S
  <2> HIDE DEF S
  <2>1. Nat \subseteq S
    BY <1>1, <1>2, SetInduction
  <2> QED
    BY <2>1
<1>4. PICK g : Eq(g, nshift)
  BY <1>3
<1> DEFINE z == CHOOSE g_1 : Eq(g_1, nshift)
<1>5. Eq(z, nshift)
  BY <1>4
<1>6. MarksShifted(marked, n, turns, nshift) = z
  BY DEF MarksShifted, MarkShift
<1> QED
  BY <1>5, <1>6

\* The places of a row whose cut is odd.
OddCuts(p, d) == {k \in 0 .. Width(p, d) - 1 : Cut(p, d, k) % 2 = 1}

LEMMA CutParity ==
  ASSUME NEW q \in Nat \ {0}, NEW p, p = 2 * q, NEW d \in Nat, NEW k \in Nat
  PROVE  /\ d >= p => Cut(p, d, k) % 2 = (d + k) % 2
         /\ d <= p /\ k = 0 => Cut(p, d, k) % 2 = d % 2
         /\ d <= p /\ k # 0 => Cut(p, d, k) % 2 = k % 2
<1>1. p \in Nat
  OBVIOUS
<1>2. CASE k = 0
  <2>1. Cut(p, d, k) = d - 2 * q /\ d + k = d
    BY <1>1, <1>2 DEF Cut
  <2>2. (d - 2 * q) % 2 = d % 2
    BY SameParity
  <2> QED
    BY <1>2, <2>1, <2>2
<1>3. CASE k # 0
  <2>1. d >= p => Cut(p, d, k) = d + k
    BY <1>1, <1>3 DEF Cut
  <2>2. d <= p => Cut(p, d, k) = k + 2 * q
    BY <1>1, <1>3 DEF Cut
  <2>3. (k + 2 * q) % 2 = k % 2
    BY SameParity
  <2> QED
    BY <1>3, <2>1, <2>2, <2>3
<1> QED
  BY <1>2, <1>3

\* A row of full width is turned around by one place.
LEMMA RotatedCuts ==
  ASSUME NEW q \in Nat \ {0}, NEW p, p = 2 * q, NEW d \in Nat, d >= p
  PROVE  Rotated(OddCuts(p, d + 1), p) = OddCuts(p, d)
<1> DEFINE T == OddCuts(p, d + 1)
<1>1. p \in Nat /\ p >= 2 /\ Width(p, d + 1) = p /\ Width(p, d) = p
  BY DEF Width
<1>2. T = {k \in 0 .. p - 1 : (d + 1 + k) % 2 = 1}
  <2>1. \A k \in 0 .. p - 1 : Cut(p, d + 1, k) % 2 = (d + 1 + k) % 2
    <3>1. d + 1 \in Nat /\ d + 1 >= p /\ \A k \in 0 .. p - 1 : k \in Nat
      BY <1>1
    <3> QED
      BY <3>1, CutParity
  <2> QED
    BY <1>1, <2>1 DEF OddCuts
<1>3. OddCuts(p, d) = {k \in 0 .. p - 1 : (d + k) % 2 = 1}
  <2>1. \A k \in 0 .. p - 1 : Cut(p, d, k) % 2 = (d + k) % 2
    <3>1. \A k \in 0 .. p - 1 : k \in Nat
      BY <1>1
    <3> QED
      BY <3>1, CutParity
  <2> QED
    BY <1>1, <2>1 DEF OddCuts
<1> HIDE DEF T
<1>4. Rotated(T, p) = {(k + 1) % p : k \in T}
  <2>1. {x \in T : x < p} = T /\ {x \in T : x >= p} = {}
    BY <1>1, <1>2
  <2> QED
    BY <2>1 DEF Rotated
<1>5. ASSUME NEW k \in 0 .. p - 1
      PROVE  (k + 1) % p = IF k = p - 1 THEN 0 ELSE k + 1
  <2>1. CASE k = p - 1
    <3>1. k + 1 = p * 1 + 0 /\ 0 \in 0 .. p - 1 /\ p \in Nat \ {0} /\ k + 1 \in Int
      BY <1>1, <2>1
    <3>2. (k + 1) % p = 0
      BY <3>1, QuotientIs
    <3> QED
      BY <2>1, <3>2
  <2>2. CASE k # p - 1
    <3>1. k + 1 = p * 0 + (k + 1) /\ k + 1 \in 0 .. p - 1 /\ p \in Nat \ {0} /\ k + 1 \in Int
      BY <1>1, <2>2
    <3>2. (k + 1) % p = k + 1
      BY <3>1, QuotientIs
    <3> QED
      BY <2>2, <3>2
  <2> QED
    BY <2>1, <2>2
<1>6. \A k \in 0 .. p - 1 : (k + 1) % p \in 0 .. p - 1
                            /\ (d + ((k + 1) % p)) % 2 = (d + 1 + k) % 2
  <2> TAKE k \in 0 .. p - 1
  <2>1. (d + (k + 1)) % 2 = (d + 1 + k) % 2
    BY <1>1
  <2>2. k = p - 1 => (d + 0) % 2 = (d + 1 + k) % 2
    <3>1. k = p - 1 => d + 1 + k = d + 2 * q
      BY <1>1
    <3>2. (d + 2 * q) % 2 = (d + 0) % 2
      BY SameParity
    <3> QED
      BY <3>1, <3>2
  <2> QED
    BY <1>1, <1>5, <2>1, <2>2
<1>7. \A k \in 0 .. p - 1 : \E i \in 0 .. p - 1 : k = (i + 1) % p
  <2> TAKE k \in 0 .. p - 1
  <2>1. CASE k = 0
    <3>1. p - 1 \in 0 .. p - 1
      BY <1>1
    <3>2. k = ((p - 1) + 1) % p
      BY <1>5, <2>1, <3>1
    <3> QED
      BY <3>1, <3>2
  <2>2. CASE k # 0
    <3>1. k - 1 \in 0 .. p - 1 /\ k - 1 # p - 1 /\ (k - 1) + 1 = k
      BY <1>1, <2>2
    <3>2. k = ((k - 1) + 1) % p
      BY <1>5, <3>1
    <3> QED
      BY <3>1, <3>2
  <2> QED
    BY <2>1, <2>2
<1> QED
  <2>1. ASSUME NEW k \in Rotated(T, p) PROVE k \in OddCuts(p, d)
    BY <1>2, <1>3, <1>4, <1>6, <2>1
  <2>2. ASSUME NEW k \in OddCuts(p, d) PROVE k \in Rotated(T, p)
    <3>1. k \in 0 .. p - 1 /\ (d + k) % 2 = 1
      BY <1>3, <2>2
    <3>2. PICK i \in 0 .. p - 1 : k = (i + 1) % p
      BY <1>7, <3>1
    <3>3. i \in T
      BY <1>2, <1>6, <3>1, <3>2
    <3> QED
      BY <1>4, <3>2, <3>3
  <2> QED
    BY <2>1, <2>2 DEF T

\* A row that is not of full width loses its last place.
LEMMA ShortenedCuts ==
  ASSUME NEW q \in Nat \ {0}, NEW p, p = 2 * q, NEW d \in Nat \ {0}, d < p
  PROVE  Shortened(OddCuts(p, d + 1), d + 1) = OddCuts(p, d)
<1> DEFINE T == OddCuts(p, d + 1)
<1>1. p \in Nat /\ p >= 2 /\ Width(p, d + 1) = d + 1 /\ Width(p, d) = d
  BY DEF Width
<1>2. \A k \in 0 .. d : Cut(p, d + 1, k) % 2 = IF k = 0 THEN (d + 1) % 2 ELSE k % 2
  <2>1. d + 1 \in Nat /\ d + 1 <= p /\ \A k \in 0 .. d : k \in Nat
    BY <1>1
  <2> QED
    BY <2>1, CutParity
<1>3. \A k \in 0 .. d - 1 : Cut(p, d, k) % 2 = IF k = 0 THEN d % 2 ELSE k % 2
  <2>1. d <= p /\ \A k \in 0 .. d - 1 : k \in Nat
    BY <1>1
  <2> QED
    BY <2>1, CutParity
<1>4. T = {k \in 0 .. d : (IF k = 0 THEN (d + 1) % 2 ELSE k % 2) = 1}
  <2>1. (d + 1) - 1 = d
    OBVIOUS
  <2> QED
    BY <1>1, <1>2, <2>1 DEF OddCuts
<1>5. OddCuts(p, d) = {k \in 0 .. d - 1 : (IF k = 0 THEN d % 2 ELSE k % 2) = 1}
  BY <1>1, <1>3 DEF OddCuts
<1> HIDE DEF T
<1>6. d \in T <=> d % 2 = 1
  BY <1>4
<1>7. Shortened(T, d + 1) = (IF d \in T THEN T \union {0} ELSE T \ {0}) \ {d}
  <2>1. (d + 1) - 1 = d
    OBVIOUS
  <2> QED
    BY <2>1 DEF Shortened
<1>8. \A k : k \in Shortened(T, d + 1) <=> k \in OddCuts(p, d)
  <2> TAKE k
  <2>1. CASE k = 0
    <3>1. k # d /\ (k \in Shortened(T, d + 1) <=> d \in T) /\ (k \in OddCuts(p, d) <=> d % 2 = 1)
      BY <1>5, <1>7, <2>1
    <3> QED
      BY <1>6, <3>1
  <2>2. CASE k # 0
    <3>1. k \in Shortened(T, d + 1) <=> k \in T /\ k # d
      BY <1>7, <2>2
    <3>2. k \in T /\ k # d <=> k \in OddCuts(p, d)
      BY <1>4, <1>5, <2>2
    <3> QED
      BY <3>1, <3>2
  <2> QED
    BY <2>1, <2>2
<1> QED
  BY <1>8 DEF T

\* The places that SkipMarks marks first.
EvenPlaces(n) == {k \in 0 .. n - 1 : k % 2 = 0}
OddPlaces(n) == {0} \union {k \in 0 .. n - 1 : k % 2 = 1}

\* The marks for the last row of the column but one are the odd cuts.
LEMMA FirstMarks ==
  ASSUME NEW q \in Nat \ {0}, NEW p, p = 2 * q, NEW c \in Nat \ {0}
  PROVE  OddCuts(p, 2 * c - 1) =
           IF 2 * Width(q, c) = Width(p, 2 * c - 1)
           THEN EvenPlaces(Width(p, 2 * c - 1)) ELSE OddPlaces(Width(p, 2 * c - 1))
<1> DEFINE d == 2 * c - 1
           n == Width(p, d)
<1>1. p \in Nat /\ p >= 2 /\ d \in Nat \ {0} /\ n \in Nat \ {0}
  BY DEF Width
<1>2. CASE d >= p
  <2>1. n = p /\ 2 * Width(q, c) = p
    BY <1>1, <1>2 DEF Width
  <2>2. \A k \in 0 .. n - 1 : Cut(p, d, k) % 2 = 1 <=> k % 2 = 0
    <3> TAKE k \in 0 .. n - 1
    <3>1. k \in Nat /\ d + k = (k - 1) + 2 * c /\ k - 1 \in Int /\ c \in Int
      BY <1>1
    <3>2. Cut(p, d, k) % 2 = (d + k) % 2
      BY <1>1, <1>2, <3>1, CutParity
    <3>3. (d + k) % 2 = (k - 1) % 2
      <4>1. ((k - 1) + 2 * c) % 2 = (k - 1) % 2
        BY <3>1, SameParity
      <4> QED
        BY <3>1, <4>1
    <3>4. (k - 1) % 2 = 1 <=> k % 2 = 0
      BY <3>1
    <3> QED
      BY <3>2, <3>3, <3>4
  <2> QED
    BY <2>1, <2>2 DEF OddCuts, EvenPlaces
<1>3. CASE d < p
  <2>1. n = d /\ 2 * Width(q, c) # n
    BY <1>1, <1>3 DEF Width
  <2>2. ASSUME NEW k \in 0 .. n - 1 PROVE Cut(p, d, k) % 2 = 1 <=> k = 0 \/ k % 2 = 1
    <3>1. k \in Nat /\ d % 2 = 1
      BY <1>1
    <3>2. Cut(p, d, k) % 2 = IF k = 0 THEN d % 2 ELSE k % 2
      BY <1>1, <1>3, <3>1, CutParity
    <3> QED
      BY <3>1, <3>2
  <2>3. 0 \in 0 .. n - 1
    BY <1>1
  <2> QED
    BY <2>1, <2>2, <2>3 DEF OddCuts, OddPlaces
<1> QED
  BY <1>1, <1>2, <1>3

\* So are the marks of every row below it.
LEMMA MarksAreCuts ==
  ASSUME NEW q \in Nat \ {0}, NEW p, p = 2 * q, NEW top \in Nat, NEW low \in 1 .. top,
         NEW turns, turns = (IF Width(p, low) + (top - low) > Width(p, top)
                             THEN Width(p, low) + (top - low) - Width(p, top) ELSE 0)
  PROVE  MarksShifted(OddCuts(p, top), Width(p, top), turns, top - low)[top - low] = OddCuts(p, low)
<1> DEFINE n == Width(p, top)
           nshift == top - low
           T == MarksShifted(OddCuts(p, top), n, turns, nshift)
           S == {i \in 0 .. nshift : T[i] = OddCuts(p, top - i)}
<1>1. p \in Nat \ {0} /\ nshift \in Nat /\ n \in Nat /\ top - nshift = low
  BY DEF Width
<1>2. T = [i \in 0 .. nshift |->
             IF i = 0 THEN OddCuts(p, top) ELSE MarkShift(T[i - 1], i, n, turns)]
  BY <1>1, MarksShiftedDef
<1>3. \A i \in 1 .. nshift :
        /\ i <= turns => n = p /\ top - i >= p
        /\ ~(i <= turns) => n + turns + 1 - i = top - i + 1 /\ top - i < p
  <2> TAKE i \in 1 .. nshift
  <2> DEFINE w == Width(p, low)
  <2>1. n = (IF top <= p THEN top ELSE p) /\ w = IF low <= p THEN low ELSE p
    BY DEF Width
  <2>2. turns = IF w + nshift > n THEN w + nshift - n ELSE 0
    OBVIOUS
  <2>3. top \in Int /\ low \in Int /\ low <= top /\ nshift = top - low /\ i \in Int /\ i >= 1
        /\ i <= nshift /\ p \in Int
    BY <1>1
  <2> HIDE DEF n, w, nshift
  <2>4. CASE top <= p
    <3>1. n = top /\ w = low
      BY <2>1, <2>3, <2>4
    <3>2. turns = 0
      BY <2>2, <2>3, <3>1
    <3> QED
      BY <2>3, <2>4, <3>1, <3>2
  <2>5. CASE top > p /\ low >= p
    <3>1. n = p /\ w = p
      BY <2>1, <2>3, <2>5
    <3>2. turns = nshift
      BY <2>2, <2>3, <3>1
    <3> QED
      BY <2>3, <2>5, <3>1, <3>2
  <2>6. CASE top > p /\ low < p
    <3>1. n = p /\ w = low
      BY <2>1, <2>3, <2>6
    <3>2. turns = top - p
      BY <2>2, <2>3, <2>6, <3>1
    <3> QED
      BY <2>3, <2>6, <3>1, <3>2
  <2> QED
    BY <2>3, <2>4, <2>5, <2>6
<1> HIDE DEF T, n
<1>4. 0 \in S
  <2>1. T[0] = OddCuts(p, top) /\ top - 0 = top
    BY <1>1, <1>2
  <2> QED
    BY <1>1, <2>1
<1>5. ASSUME NEW i \in 0 .. nshift - 1, i \in S PROVE i + 1 \in S
  <2> DEFINE d == top - (i + 1)
  <2>1. i + 1 \in 1 .. nshift /\ i + 1 \in 0 .. nshift /\ i + 1 # 0 /\ (i + 1) - 1 = i
        /\ d \in Nat \ {0} /\ top - i = d + 1
    BY <1>1
  <2>2. T[i + 1] = MarkShift(OddCuts(p, d + 1), i + 1, n, turns)
    BY <1>2, <1>5, <2>1
  <2>3. CASE i + 1 <= turns
    <3>1. n = p /\ d >= p
      BY <1>3, <2>1, <2>3
    <3>2. T[i + 1] = Rotated(OddCuts(p, d + 1), p)
      BY <2>2, <2>3, <3>1 DEF MarkShift
    <3> HIDE DEF d
    <3>3. T[i + 1] = OddCuts(p, d)
      BY <2>1, <3>1, <3>2, RotatedCuts
    <3> QED
      BY <2>1, <3>3 DEF d
  <2>4. CASE ~(i + 1 <= turns)
    <3>1. n + turns + 1 - (i + 1) = d + 1 /\ d < p
      BY <1>3, <2>1, <2>4
    <3>2. T[i + 1] = Shortened(OddCuts(p, d + 1), d + 1)
      BY <2>2, <2>4, <3>1 DEF MarkShift
    <3> HIDE DEF d
    <3>3. T[i + 1] = OddCuts(p, d)
      BY <2>1, <3>1, <3>2, ShortenedCuts
    <3> QED
      BY <2>1, <3>3 DEF d
  <2> QED
    BY <2>3, <2>4
<1>6. nshift \in S
  <2> HIDE DEF S
  <2>1. 0 .. nshift \subseteq S
    BY <1>1, <1>4, <1>5, UpTo
  <2> QED
    BY <1>1, <2>1
<1> QED
  BY <1>1, <1>6 DEF T, n

LEMMA SkipMarksAre ==
  ASSUME NEW q \in Nat \ {0}, NEW p, p = 2 * q, col \in Nat \ {0}, row \in 0 .. col - 1,
         pSkip = {}, levelsize = Width(p, col + row), Level(m - col - 2, col) = Width(q, col),
         Level(m - col - 1, 2 * col - 1) = Width(p, 2 * col - 1)
  PROVE  SkipMarks = OddCuts(p, col + row)
<1> DEFINE top == 2 * col - 1
           low == col + row
           turns == IF levelsize + (col - 1 - row) > Width(p, top)
                    THEN levelsize + (col - 1 - row) - Width(p, top) ELSE 0
<1>1. top \in Nat /\ low \in 1 .. top /\ col - 1 - row = top - low
  OBVIOUS
<1>2. SkipMarks = MarksShifted(OddCuts(p, top), Width(p, top), turns, col - 1 - row)[col - 1 - row]
  <2>1. OddCuts(p, top) = pSkip \union
          (IF 2 * Width(q, col) = Width(p, top) THEN {k \in 0 .. Width(p, top) - 1 : k % 2 = 0}
           ELSE {0} \union {k \in 0 .. Width(p, top) - 1 : k % 2 = 1})
    <3>1. OddCuts(p, top) = IF 2 * Width(q, col) = Width(p, top)
                            THEN EvenPlaces(Width(p, top)) ELSE OddPlaces(Width(p, top))
      BY FirstMarks
    <3> HIDE DEF top
    <3> QED
      BY <3>1 DEF EvenPlaces, OddPlaces
  <2> QED
    BY <2>1 DEF SkipMarks
<1>3. turns = IF Width(p, low) + (top - low) > Width(p, top)
              THEN Width(p, low) + (top - low) - Width(p, top) ELSE 0
  BY <1>1
<1> HIDE DEF top, low, turns
<1>4. MarksShifted(OddCuts(p, top), Width(p, top), turns, top - low)[top - low] = OddCuts(p, low)
  BY <1>1, <1>3, MarksAreCuts
<1> QED
  BY <1>1, <1>2, <1>4 DEF low

-----------------------------------------------------------------------------
(* A row, place by place.                                                  *)

\* A literal of the table above the variables that are still to come.
Kept(t, l, b) == l \in Named(t) /\ VarOf(t, l) >= b /\ VarOf(t, l) # NUMVAR - 1

\* Then and Else of place k.
Pair(k) == IF row < col THEN Inner(k) ELSE Outer(k)
Skips(k, marks) == fSkip /\ k \in marks

\* What the code knows of a row that is not of the last column.
RowIs(p, q) ==
  /\ m \in Nat /\ m <= M /\ col \in Nat \ {0} /\ col <= m - 2 /\ row \in 0 .. col
  /\ Var = TopVar(col) /\ pSkip = {} /\ Table(nodes) /\ Ordered(nodes)
  /\ q = TwoTo(m - col - 2) /\ p = TwoTo(m - col - 1)
  /\ Shaped(p, col + row - 1)
  /\ pBuf \in Seq(Nat) /\ \A i \in DOMAIN pBuf : Kept(nodes, pBuf[i], Added(col, row))

LEMMA RowSizes ==
  ASSUME NEW p, NEW q, RowIs(p, q)
  PROVE  /\ q \in Nat \ {0} /\ p = 2 * q /\ p \in Nat
         /\ row < col => levelsize = Width(p, col + row)
         /\ row = col => levelsize = Width(q, col)
         /\ levelsize \in Nat \ {0} /\ levelsize <= 2 * M
         /\ Level(m - col - 2, col) = Width(q, col)
         /\ Level(m - col - 1, 2 * col - 1) = Width(p, 2 * col - 1)
<1> DEFINE b == m - col - 2
<1>1. /\ m \in Nat /\ m <= M /\ col \in Nat \ {0} /\ col <= m - 2 /\ row \in 0 .. col
      /\ q = TwoTo(b) /\ p = TwoTo(m - col - 1) /\ M \in Nat
  BY SizeOfOutput DEF RowIs
<1>2. b \in Nat /\ m - col - 1 = b + 1 /\ b + 1 \in Nat
  BY <1>1
<1> HIDE DEF b
<1>3. q \in Nat \ {0} /\ p = 2 * q
  BY <1>1, <1>2, TwoToFacts
<1>4. /\ \A n \in Nat \ {0} : Level(b, n) = Width(q, n)
      /\ \A n \in Nat \ {0} : Level(b + 1, n) = Width(p, n)
  BY <1>1, <1>2, LevelIs DEF Width
<1>5. col + row \in Nat \ {0} /\ 2 * col - 1 \in Nat \ {0} /\ m - col - 2 = b
  BY <1>1 DEF b
<1>6. /\ row < col => levelsize = Width(p, col + row)
      /\ row = col => levelsize = Width(q, col)
  BY <1>1, <1>2, <1>4, <1>5 DEF levelsize
<1>7. levelsize \in Nat \ {0} /\ levelsize <= 2 * M
  <2>1. row < col \/ row = col
    BY <1>1
  <2>2. /\ Width(p, col + row) \in Nat \ {0} /\ Width(p, col + row) <= col + row
        /\ Width(q, col) \in Nat \ {0} /\ Width(q, col) <= col
    BY <1>1, <1>3 DEF Width
  <2> QED
    BY <1>1, <1>6, <2>1, <2>2
<1> QED
  BY <1>1, <1>2, <1>3, <1>4, <1>5, <1>6, <1>7

\* The variable of a literal is a number.
LEMMA VarOfType ==
  ASSUME NEW t \in Seq(Triples), NEW l \in Named(t)
  PROVE  VarOf(t, l) \in Int
<1>1. l \in Nat /\ l < 2 * (Len(t) + 1) /\ Len(t) \in Nat /\ NUMVAR \in Int
  BY SizeOfOutput DEF Named
<1>2. CASE l < 2
  BY <1>1, <1>2 DEF VarOf
<1>3. CASE ~(l < 2)
  <2> DEFINE n == Len(t)
             h == l \div 2
  <2>1. n \in Nat /\ l < 2 * (n + 1)
    BY <1>1
  <2> HIDE DEF n
  <2>2. h \in 1 .. n
    BY <1>1, <1>3, <2>1
  <2>3. h \in DOMAIN t
    BY <2>2 DEF n
  <2>4. t[h] \in Triples
    BY <2>3
  <2> QED
    BY <1>3, <2>4 DEF VarOf, Triples
<1> QED
  BY <1>2, <1>3

\* What is taken from the row before is as far up as all of it.
LEMMA TakenKept ==
  ASSUME Table(nodes), NEW b \in 0 .. NUMVAR, pBuf \in Seq(Nat),
         \A i \in DOMAIN pBuf : Kept(nodes, pBuf[i], b), NEW l \in Taken
  PROVE  Kept(nodes, l, b)
<1>1. nodes \in Seq(Triples) /\ Len(nodes) \in Nat /\ NUMVAR \in Int /\ b <= NUMVAR
  BY SizeOfOutput DEF Table
<1>2. \A i \in {0, 1} : Kept(nodes, i, b)
  <2>1. \A i \in {0, 1} : i \in Named(nodes) /\ VarOf(nodes, i) = NUMVAR
    BY <1>1 DEF Named, VarOf
  <2> QED
    BY <1>1, <2>1 DEF Kept
<1>3. ASSUME NEW i \in DOMAIN pBuf PROVE Kept(nodes, Not(pBuf[i]), b)
  BY <1>1, NotNamed DEF Kept
<1> QED
  BY <1>2, <1>3 DEF Taken

\* The literal of place k, in the table t, and what it means.
Placed(t, l, k, marks) ==
  /\ Kept(t, l, Added(col, row + 1))
  /\ \A a : \A F : Values(F, t, a) =>
       Value(F, l) = IF Skips(k, marks) THEN 0 ELSE Chosen(F, a, Var - row, fUse, Pair(k))

LEMMA PlacedMore ==
  ASSUME NEW t \in Seq(Triples), NEW u \in Seq(Triples), Extends(t, u),
         NEW l, NEW k, NEW marks, Placed(t, l, k, marks)
  PROVE  Placed(u, l, k, marks)
<1>1. l \in Named(u) /\ VarOf(u, l) = VarOf(t, l)
  BY ExtendsFacts DEF Placed, Kept
<1>2. \A a : \A F : Values(F, u, a) => Values(F, t, a)
  BY ExtendsFacts
<1> QED
  BY <1>1, <1>2 DEF Placed, Kept

\* Node i of the table t is behind place k, where it was made.
Behind(t, i, l, k, marks) ==
  /\ fUse /\ ~Skips(k, marks) /\ t[i][1] = Var - row
  /\ l \in {2 * i, 2 * i + 1} /\ Placed(t, l, k, marks)

LEMMA PlaceIs ==
  ASSUME NEW p, NEW q, RowIs(p, q), NEW k \in 0 .. levelsize - 1, NEW marks,
         NEW r, RowInv(r), Ordered(r.nodes), Extends(nodes, r.nodes)
  PROVE  \E l : LET z == Place(r, k, marks)
                IN /\ Ordered(z.nodes) /\ Extends(r.nodes, z.nodes)
                   /\ z.out = Append(r.out, l) /\ Placed(z.nodes, l, k, marks)
                   /\ \A i \in DOMAIN z.nodes : i \notin DOMAIN r.nodes =>
                        Behind(z.nodes, i, l, k, marks)
<1> DEFINE v == Var - row
           pair == Pair(k)
           b == Added(col, row)
           w == Added(col, row + 1)
<1>1. /\ Table(nodes) /\ nodes \in Seq(Triples) /\ r.nodes \in Seq(Triples)
      /\ r \in [nodes : Seq(Triples), out : Seq(Int)]
  BY DEF RowIs, RowInv, Table
<1>2. col \in 0 .. M - 1 /\ row \in 0 .. col /\ col >= 1 /\ col <= M - 2 /\ M \in Nat /\ NUMVAR \in Int
  BY SizeOfOutput DEF RowIs
<1>3. b \in 0 .. NUMVAR /\ w \in 0 .. NUMVAR
  <2>1. row \in 0 .. col + 1 /\ row + 1 \in 0 .. col + 1
    BY <1>2
  <2> QED
    BY <1>2, <2>1, AddedType
<1>4. fUse \in BOOLEAN /\ (fUse <=> UsedRow(col, row))
  BY DEF fUse, UsedRow
<1>5. fUse => v \in 0 .. NUMVAR - 2 /\ b = v + 1 /\ w = v
  <2> SUFFICES ASSUME fUse PROVE v \in 0 .. NUMVAR - 2 /\ b = v + 1 /\ w = v
    OBVIOUS
  <2>1. b = TopVar(col) - row + 1 /\ w = TopVar(col) - row /\ TopVar(col) - row \in Column(col)
    BY <1>2, <1>4, AddedFacts
  <2>2. v = TopVar(col) - row
    BY DEF RowIs
  <2>3. Before(col) \in Nat /\ Height(col) \in Nat /\ Before(0) = NUMVAR - 1
        /\ Before(col - 1) = Before(col) + Height(col) /\ Before(col - 1) <= Before(0)
        /\ Before(col - 1) \in Nat
    <3>1. col - 1 \in 0 .. M - 1 /\ 0 \in 0 .. col - 1
      BY <1>2
    <3> QED
      BY <1>2, <3>1, ColumnFacts, OuterColumns, BeforeFalls
  <2>4. v \in Before(col) .. Before(col) + Height(col) - 1
    BY <2>1, <2>2 DEF Column
  <2> HIDE DEF v
  <2>5. v \in Int /\ v >= Before(col) /\ v <= Before(col) + Height(col) - 1
    BY <2>3, <2>4
  <2>6. v \in 0 .. NUMVAR - 2
    BY <1>2, <2>3, <2>5
  <2> QED
    BY <2>1, <2>2, <2>6
<1>6. ~fUse => w = b
  BY <1>2, <1>4, AddedFacts
<1>7. pair[1] \in Taken /\ pair[2] \in Taken /\ pair = <<pair[1], pair[2]>>
  <2>1. /\ q \in Nat \ {0} /\ p = 2 * q /\ Shaped(p, col + row - 1) /\ pBuf \in Seq(Nat)
        /\ col \in Nat \ {0}
    BY RowSizes DEF RowIs
  <2>2. CASE row < col
    <3>1. levelsize = Width(p, (col + row - 1) + 1) /\ col + row - 1 \in Nat
      <4>1. (col + row - 1) + 1 = col + row /\ col + row - 1 \in Nat
        BY <1>2
      <4> QED
        BY <2>2, <4>1, RowSizes
    <3> QED
      BY <2>1, <2>2, <3>1, PairsTaken DEF Pair
  <2>3. CASE ~(row < col)
    <3>1. row = col /\ col + row - 1 = 2 * col - 1
      BY <1>2, <2>3
    <3>2. levelsize = Width(q, col) /\ Shaped(p, 2 * col - 1)
      BY <2>1, <3>1, RowSizes
    <3> QED
      BY <2>1, <2>3, <3>2, PairsTaken DEF Pair
  <2> QED
    BY <2>2, <2>3
<1>8. ASSUME NEW l \in Taken
      PROVE  /\ l \in Named(r.nodes) /\ VarOf(r.nodes, l) >= b /\ VarOf(r.nodes, l) # NUMVAR - 1
             /\ VarOf(r.nodes, l) \in Int
  <2>1. Kept(nodes, l, b)
    BY <1>1, <1>3, TakenKept DEF RowIs
  <2>2. l \in Named(r.nodes) /\ VarOf(r.nodes, l) = VarOf(nodes, l)
    BY <1>1, <2>1, ExtendsFacts DEF Kept
  <2>3. VarOf(r.nodes, l) \in Int
    BY <1>1, <1>2, <2>2, VarOfType
  <2> QED
    BY <2>1, <2>2, <2>3 DEF Kept
<1>9. CASE Skips(k, marks)
  <2> DEFINE z == [r EXCEPT !.out = Append(@, 0)]
  <2>1. Place(r, k, marks) = z
    BY <1>9 DEF Place, Skips
  <2>2. z.nodes = r.nodes /\ z.out = Append(r.out, 0)
    BY <1>1
  <2>3. Kept(r.nodes, 0, w)
    <3>1. 0 \in Named(r.nodes) /\ VarOf(r.nodes, 0) = NUMVAR
      BY <1>1 DEF Named, VarOf
    <3> QED
      BY <1>2, <1>3, <3>1 DEF Kept
  <2>4. \A a : \A F : Values(F, r.nodes, a) => Value(F, 0) = 0
    <3> SUFFICES ASSUME NEW a, NEW F, Values(F, r.nodes, a) PROVE Value(F, 0) = 0
      OBVIOUS
    <3>1. F \in [Nat -> {0, 1}] /\ F[0] = 0 /\ 0 \in Nat
      BY DEF Values
    <3> QED
      BY <3>1, ValueFacts
  <2>5. Placed(r.nodes, 0, k, marks)
    BY <1>9, <2>3, <2>4 DEF Placed
  <2>6. Extends(r.nodes, r.nodes)
    BY <1>1, ExtendsSelf
  <2> HIDE DEF z
  <2> QED
    BY <2>1, <2>2, <2>5, <2>6
<1>10. CASE ~Skips(k, marks)
  <2> DEFINE z == gennode(r, v, pair, fUse)
  <2>1. Place(r, k, marks) = z
    BY <1>10 DEF Place, Skips, Pair
  <2>2. PICK l : Meant(r, z, l, v, fUse, pair)
    <3>1. fUse => /\ v \in 0 .. NUMVAR - 1
                  /\ Below(r.nodes, pair[1], v) /\ Below(r.nodes, pair[2], v)
      <4> SUFFICES ASSUME fUse
                   PROVE  /\ v \in 0 .. NUMVAR - 1
                          /\ Below(r.nodes, pair[1], v) /\ Below(r.nodes, pair[2], v)
        OBVIOUS
      <4>1. v \in 0 .. NUMVAR - 2 /\ b = v + 1
        BY <1>5
      <4> HIDE DEF v, b
      <4>2. \A x \in Int : x >= b => x > v
        BY <1>2, <4>1
      <4> QED
        BY <1>2, <1>7, <1>8, <4>1, <4>2 DEF Below
    <3>2. pair[1] \in Named(r.nodes) /\ pair[2] \in Named(r.nodes)
      BY <1>7, <1>8
    <3> HIDE DEF v, pair
    <3> QED
      BY <1>4, <1>7, <3>1, <3>2, PlaceMeans
  <2> HIDE DEF z
  <2>3. Kept(z.nodes, l, w)
    <3>1. l \in Named(z.nodes)
      BY <2>2 DEF Meant
    <3>2. CASE fUse
      <4>1. v # NUMVAR - 1 /\ w = v
        BY <1>2, <1>5, <3>2
      <4> HIDE DEF v, w
      <4> QED
        BY <2>2, <3>1, <3>2, <4>1 DEF Kept, Meant
    <3>3. CASE ~fUse
      <4>1. l = pair[2] /\ z.nodes = r.nodes /\ w = b
        BY <1>6, <2>2, <3>3 DEF Meant
      <4> HIDE DEF b, w, pair
      <4> QED
        BY <1>7, <1>8, <3>1, <4>1 DEF Kept
    <3> QED
      BY <3>2, <3>3
  <2>4. Placed(z.nodes, l, k, marks)
    <3>1. \A a : \A F : Values(F, z.nodes, a) => Value(F, l) = Chosen(F, a, v, fUse, pair)
      BY <2>2 DEF Meant
    <3> QED
      BY <1>10, <2>3, <3>1 DEF Placed
  <2>5. Ordered(z.nodes) /\ Extends(r.nodes, z.nodes) /\ z.out = Append(r.out, l)
    BY <2>2 DEF Meant
  <2>6. \A i \in DOMAIN z.nodes : i \notin DOMAIN r.nodes => Behind(z.nodes, i, l, k, marks)
    BY <1>10, <2>2, <2>4 DEF Meant, Behind
  <2> QED
    BY <2>1, <2>4, <2>5, <2>6
<1> QED
  BY <1>9, <1>10

\* A row as far as k places.
RowTo(r, k, marks) ==
  /\ RowInv(r) /\ Ordered(r.nodes) /\ Extends(nodes, r.nodes)
  /\ r.out \in Seq(Nat) /\ Len(r.out) = k
  /\ \A i \in 1 .. k : Placed(r.nodes, r.out[i], i - 1, marks)
  /\ \A i \in DOMAIN r.nodes : i \notin DOMAIN nodes =>
       \E n \in 0 .. k - 1 : \E l : Behind(r.nodes, i, l, n, marks)

LEMMA AppendFacts ==
  ASSUME NEW e \in Seq(Nat), NEW l \in Nat
  PROVE  /\ Append(e, l) \in Seq(Nat) /\ Len(Append(e, l)) = Len(e) + 1
         /\ \A i \in 1 .. Len(e) + 1 : Append(e, l)[i] = IF i = Len(e) + 1 THEN l ELSE e[i]
OBVIOUS

LEMMA RowMeans ==
  ASSUME NEW p, NEW q, RowIs(p, q), pBuf \in Seq(Literals(nodes)), NEW marks
  PROVE  RowTo(Places(marks)[levelsize], levelsize, marks)
<1> DEFINE z == Places(marks)
           width == levelsize
           S == {k \in 0 .. width : RowTo(z[k], k, marks)}
<1>1. z = [k \in 0 .. width |->
             IF k = 0 THEN [nodes |-> nodes, out |-> <<>>] ELSE Place(z[k - 1], k - 1, marks)]
  <2>1. levelsize \in Nat
    BY RowSizes
  <2> QED
    BY <2>1, PlacesDef
<1>2. nodes \in Seq(Triples) /\ Table(nodes) /\ Ordered(nodes) /\ Len(nodes) \in Nat
  BY DEF RowIs, Table
<1>3. width \in Nat
  BY RowSizes
<1>4. \A k \in 0 .. width : RowInv(z[k])
  <2>1. Var \in Int /\ row \in Int /\ levelsize \in Nat
    <3>1. col \in 0 .. M - 2
      BY SizeOfOutput DEF RowIs
    <3> QED
      BY <3>1, RowSizes, TopVarNext DEF RowIs
  <2> QED
    BY <1>2, <2>1, RowMade
<1> HIDE DEF z
<1>5. 0 \in S
  <2>1. z[0] = [nodes |-> nodes, out |-> <<>>]
    BY <1>1, <1>3
  <2>2. z[0].nodes = nodes /\ z[0].out = <<>> /\ <<>> \in Seq(Nat) /\ Len(<<>>) = 0 /\ 0 \in 0 .. width
    BY <1>3, <2>1
  <2>3. Extends(nodes, nodes)
    BY <1>2, ExtendsSelf
  <2>4. \A i \in 1 .. 0 : Placed(nodes, z[0].out[i], i - 1, marks)
    OBVIOUS
  <2>5. RowTo(z[0], 0, marks)
    BY <1>2, <1>4, <2>2, <2>3, <2>4 DEF RowTo
  <2> QED
    BY <2>2, <2>5
<1>6. ASSUME NEW k \in 0 .. width - 1, k \in S PROVE k + 1 \in S
  <2>1. k + 1 \in 0 .. width /\ k + 1 # 0 /\ (k + 1) - 1 = k /\ k \in Nat
    BY <1>3
  <2>2. z[k + 1] = Place(z[k], k, marks) /\ RowTo(z[k], k, marks) /\ RowInv(z[k + 1])
    BY <1>1, <1>4, <1>6, <2>1
  <2> DEFINE r == z[k]
             y == z[k + 1]
  <2>3. /\ RowInv(r) /\ Ordered(r.nodes) /\ Extends(nodes, r.nodes) /\ r.out \in Seq(Nat) /\ Len(r.out) = k
        /\ \A i \in 1 .. k : Placed(r.nodes, r.out[i], i - 1, marks)
        /\ \A i \in DOMAIN r.nodes : i \notin DOMAIN nodes =>
             \E n \in 0 .. k - 1 : \E l : Behind(r.nodes, i, l, n, marks)
    BY <2>2 DEF RowTo
  <2>4. PICK l : /\ Ordered(y.nodes) /\ Extends(r.nodes, y.nodes)
                 /\ y.out = Append(r.out, l) /\ Placed(y.nodes, l, k, marks)
                 /\ \A i \in DOMAIN y.nodes : i \notin DOMAIN r.nodes =>
                      Behind(y.nodes, i, l, k, marks)
    <3>1. k \in 0 .. levelsize - 1
      OBVIOUS
    <3> HIDE DEF r, width
    <3>2. \E l : LET w == Place(r, k, marks)
                 IN /\ Ordered(w.nodes) /\ Extends(r.nodes, w.nodes)
                    /\ w.out = Append(r.out, l) /\ Placed(w.nodes, l, k, marks)
                    /\ \A i \in DOMAIN w.nodes : i \notin DOMAIN r.nodes =>
                         Behind(w.nodes, i, l, k, marks)
      BY <2>3, <3>1, PlaceIs
    <3> QED
      BY <2>2, <3>2 DEF r
  <2> HIDE DEF r, y, width
  <2>5. r.nodes \in Seq(Triples) /\ y.nodes \in Seq(Triples) /\ RowInv(y)
    BY <2>2, <2>3 DEF RowInv, y
  <2>6. l \in Nat
    BY <2>4 DEF Placed, Kept, Named
  <2>7. Extends(nodes, y.nodes)
    BY <1>2, <2>3, <2>4, <2>5, ExtendsMore
  <2>8. /\ y.out \in Seq(Nat) /\ Len(y.out) = k + 1
        /\ \A i \in 1 .. k + 1 : y.out[i] = IF i = k + 1 THEN l ELSE r.out[i]
    BY <2>3, <2>4, <2>6, AppendFacts
  <2>9. ASSUME NEW i \in 1 .. k + 1 PROVE Placed(y.nodes, y.out[i], i - 1, marks)
    <3>1. CASE i = k + 1
      <4>1. y.out[i] = l /\ i - 1 = k
        BY <2>1, <2>8, <3>1
      <4> QED
        BY <2>4, <4>1
    <3>2. CASE i # k + 1
      <4>1. i \in 1 .. k /\ y.out[i] = r.out[i]
        BY <2>1, <2>8, <3>2
      <4>2. Placed(r.nodes, r.out[i], i - 1, marks)
        BY <2>3, <4>1
      <4> QED
        BY <2>4, <2>5, <4>1, <4>2, PlacedMore
    <3> QED
      BY <3>1, <3>2
  <2>10. ASSUME NEW i \in DOMAIN y.nodes, i \notin DOMAIN nodes
         PROVE  \E n \in 0 .. (k + 1) - 1 : \E h : Behind(y.nodes, i, h, n, marks)
    <3>1. CASE i \in DOMAIN r.nodes
      <4>1. PICK n \in 0 .. k - 1 : \E h : Behind(r.nodes, i, h, n, marks)
        BY <2>3, <2>10, <3>1
      <4>2. PICK h : Behind(r.nodes, i, h, n, marks)
        BY <4>1
      <4>3. y.nodes[i] = r.nodes[i]
        BY <2>4, <2>5, <3>1 DEF Extends
      <4>4. Placed(y.nodes, h, n, marks)
        BY <2>4, <2>5, <4>2, PlacedMore DEF Behind
      <4>5. n \in 0 .. (k + 1) - 1
        BY <2>1
      <4> QED
        BY <4>2, <4>3, <4>4, <4>5 DEF Behind
    <3>2. CASE i \notin DOMAIN r.nodes
      <4>1. k \in 0 .. (k + 1) - 1
        BY <2>1
      <4> QED
        BY <2>4, <3>2, <4>1
    <3> QED
      BY <3>1, <3>2
  <2>11. RowTo(y, k + 1, marks)
    BY <2>4, <2>5, <2>7, <2>8, <2>9, <2>10 DEF RowTo
  <2> QED
    BY <2>1, <2>11 DEF y
<1>7. 0 .. width \subseteq S
  <2> HIDE DEF S, width
  <2> QED
    BY <1>3, <1>5, <1>6, UpTo
<1> QED
  BY <1>3, <1>7 DEF z

-----------------------------------------------------------------------------
(* What the buffer holds after j rows of column c, for output n - 1.       *)

BufferMeans(t, e, n, c, j) ==
  \A a \in Inputs : \A F : \A G : Values(F, t, a) /\ Sums(G, a) =>
    /\ Subtotal(G, c, j) \in 0 .. c + j - 1
    /\ \A i \in 0 .. Len(e) - 1 :
         (c >= N /\ j >= N => Cut(TwoTo(n - c - 1), c + j - 1, i) % 2 = 0) =>
           Value(F, e[i + 1]) =
             BitOf(Subtotal(G, c, j) - Cut(TwoTo(n - c - 1), c + j - 1, i), TwoTo(n - c - 1))

BufferInv(t, e, k, n, c, j) ==
  /\ e \in Seq(Nat) /\ k = Width(TwoTo(n - c - 1), c + j - 1)
  /\ Len(e) = IF c + j - 1 = 0 THEN 1 ELSE k
  /\ \A i \in DOMAIN e : Kept(t, e[i], Added(c, j))
  /\ BufferMeans(t, e, n, c, j)

\* Bits of half the sum.
LEMMA HalfBit ==
  ASSUME NEW x \in Int, NEW c \in Int, NEW q \in Nat \ {0}
  PROVE  BitOf(x - 2 * c, 2 * q) = BitOf((x \div 2) - c, q)
<1>1. PICK b \in {0, 1} : x = 2 * (x \div 2) + b
  BY HalfOf
<1> DEFINE h == x \div 2
<1>2. h \in Int /\ x = 2 * h + b
  BY <1>1, HalfOf
<1> HIDE DEF h
<1>3. h - c \in Int /\ x - 2 * c = 2 * (h - c) + b
  BY <1>2
<1>4. BitOf(2 * (h - c) + b, 2 * q) = BitOf(h - c, q)
  BY <1>3, BitOfHalf
<1> QED
  BY <1>3, <1>4 DEF h

\* What the values of the variables make of a place.
LEMMA PlaceValue ==
  ASSUME NEW p, NEW q, RowIs(p, q), NEW a \in Inputs, NEW G, Sums(G, a),
         NEW F \in [Nat -> {0, 1}], F[0] = 0, NEW even \in BOOLEAN, even <=> col >= N /\ row >= N,
         NEW x, x = Subtotal(G, col, row), x \in 0 .. col + row - 1,
         Right(F, x, p, col + row - 1, even), NEW k \in 0 .. levelsize - 1
  PROVE  LET y == Chosen(F, a, Var - row, fUse, Pair(k))
             u == Subtotal(G, col, row + 1)
         IN /\ row < col /\ (even => Cut(p, col + row, k) % 2 = 0) =>
                 y = BitOf(u - Cut(p, col + row, k), p)
            /\ row = col => y = BitOf(u - 2 * Cut(q, col, k), p)
<1> DEFINE d == col + row - 1
           w == InputOf(a, col, row)
           u == Subtotal(G, col, row + 1)
           y == Chosen(F, a, Var - row, fUse, Pair(k))
           first == Value(F, Pair(k)[1])
           second == Value(F, Pair(k)[2])
<1>1. /\ q \in Nat \ {0} /\ p = 2 * q /\ Shaped(p, d) /\ pBuf \in Seq(Nat)
      /\ col \in Nat \ {0} /\ row \in 0 .. col /\ col \in 0 .. M - 1 /\ d \in Nat /\ k \in Nat
      /\ N \in Nat
  <2>1. levelsize \in Nat
    BY RowSizes
  <2>2. k \in Nat
    BY <2>1
  <2> QED
    BY <2>2, RowSizes, SizeOfOutput DEF RowIs
<1>2. w \in {0, 1} /\ u = x + w
  BY <1>1, SubtotalStep
<1>3. w = (IF fUse THEN a[Var - row] ELSE 0)
  BY DEF InputOf, UsedRow, fUse, RowIs
<1>4. fUse => ~even
  BY <1>1 DEF fUse
<1>5. y = IF w = 1 THEN first ELSE second
  BY <1>3 DEF Chosen
<1>6. w = 1 => fUse
  BY <1>3
<1>7. CASE row < col
  <2> DEFINE c == Cut(p, d + 1, k)
  <2>1. d + 1 = col + row /\ levelsize = Width(p, d + 1)
    <3>1. d + 1 = col + row
      BY <1>1
    <3> QED
      BY <1>7, <3>1, RowSizes
  <2>2. Right(F, x, p, d, even) /\ x \in 0 .. d
    OBVIOUS
  <2>3. c \in Int
    BY <1>1, <2>1, CutType
  <2>4. InnerReady(F, x, p, q, d, even, k)
    BY <1>1, <2>1, <2>2 DEF InnerReady
  <2> HIDE DEF d, c, w, u, y, first, second
  <2>4a. /\ (even => Cut(p, d + 1, k) % 2 = 0) =>
               Value(F, Inner(k)[2]) = BitOf(x - Cut(p, d + 1, k), p)
         /\ ~even => Value(F, Inner(k)[1]) = BitOf(x + 1 - Cut(p, d + 1, k), p)
    BY <2>4, InnerPlace
  <2>5. /\ (even => c % 2 = 0) => second = BitOf(x - c, p)
        /\ ~even => first = BitOf(x + 1 - c, p)
    BY <1>7, <2>4a DEF Pair, first, second, c
  <2>6. ASSUME even => c % 2 = 0 PROVE y = BitOf(u - c, p)
    <3>1. CASE w = 1
      <4>1. u = x + 1 /\ y = first /\ ~even
        BY <1>2, <1>4, <1>5, <1>6, <3>1
      <4>2. first = BitOf(x + 1 - c, p)
        BY <2>5, <4>1
      <4>3. u - c = x + 1 - c
        <5>1. x \in Int /\ c \in Int
          BY <1>1, CutType DEF c
        <5> QED
          BY <4>1, <5>1
      <4> QED
        BY <4>1, <4>2, <4>3
    <3>2. CASE w # 1
      <4>1. u = x /\ y = second
        BY <1>2, <1>5, <3>2, <2>2
      <4> QED
        BY <2>5, <2>6, <4>1
    <3> QED
      BY <3>1, <3>2
  <2>7. (even => Cut(p, col + row, k) % 2 = 0) => y = BitOf(u - Cut(p, col + row, k), p)
    BY <2>1, <2>6 DEF c
  <2> QED
    BY <1>1, <1>7, <2>7 DEF y, u
<1>8. CASE ~(row < col)
  <2> DEFINE c == 2 * Cut(q, col, k)
  <2>1. row = col /\ d = 2 * col - 1
    BY <1>1, <1>8
  <2>2. levelsize = Width(q, col) /\ Shaped(p, 2 * col - 1) /\ x \in 0 .. 2 * col - 1
        /\ Right(F, x, p, 2 * col - 1, even)
    BY <1>1, <2>1, RowSizes
  <2>3. /\ Value(F, Outer(k)[2]) = BitOf(x - c, p)
        /\ ~even => Value(F, Outer(k)[1]) = BitOf(x + 1 - c, p)
    BY <1>1, <2>2, OuterMeans
  <2>4. second = BitOf(x - c, p) /\ (~even => first = BitOf(x + 1 - c, p))
    BY <1>8, <2>3 DEF Pair
  <2> HIDE DEF c, w, u, y, first, second
  <2>5. y = BitOf(u - c, p)
    <3>1. CASE w = 1
      <4>1. u = x + 1 /\ y = first /\ ~even
        BY <1>2, <1>4, <1>5, <1>6, <3>1
      <4>2. first = BitOf(x + 1 - c, p)
        BY <2>4, <4>1
      <4>3. u - c = x + 1 - c
        <5>1. x \in Int /\ c \in Int
          <6>1. q \in Int /\ col \in Int /\ k \in Int /\ row \in Int
            BY <1>1
          <6>2. Cut(q, col, k) \in Int
            BY <6>1, CutType
          <6> QED
            BY <6>1, <6>2 DEF c
        <5> QED
          BY <4>1, <5>1
      <4> QED
        BY <4>1, <4>2, <4>3
    <3>2. CASE w # 1
      <4>1. u = x /\ y = second
        BY <1>2, <1>5, <3>2, <2>2
      <4> QED
        BY <2>4, <4>1
    <3> QED
      BY <3>1, <3>2
  <2> QED
    BY <1>8, <2>5 DEF y, u, c
<1> QED
  BY <1>7, <1>8

\* The marks are used up in the row that they are for.
LEMMA MarksUsed ==
  ASSUME NEW p, NEW q, RowIs(p, q), NEW marks, marks = IF fSkip THEN SkipMarks ELSE pSkip
  PROVE  /\ fSkip => marks = OddCuts(p, col + row) /\ marks \ (0 .. levelsize - 1) = {}
         /\ ~fSkip => marks = {}
<1>1. q \in Nat \ {0} /\ p = 2 * q /\ col \in Nat \ {0} /\ row \in 0 .. col /\ pSkip = {}
      /\ Level(m - col - 2, col) = Width(q, col)
      /\ Level(m - col - 1, 2 * col - 1) = Width(p, 2 * col - 1)
  BY RowSizes DEF RowIs
<1>2. ASSUME fSkip PROVE marks = OddCuts(p, col + row) /\ marks \ (0 .. levelsize - 1) = {}
  <2>1. row < col /\ row \in 0 .. col - 1
    BY <1>1, <1>2 DEF fSkip
  <2>2. levelsize = Width(p, col + row)
    BY <2>1, RowSizes
  <2>3. marks = OddCuts(p, col + row)
    BY <1>1, <1>2, <2>1, <2>2, SkipMarksAre
  <2> QED
    BY <2>2, <2>3 DEF OddCuts
<1> QED
  BY <1>1, <1>2

LEMMA RowBuffer ==
  ASSUME NEW p, NEW q, RowIs(p, q), pBuf \in Seq(Literals(nodes)),
         BufferMeans(nodes, pBuf, m, col, row), Row,
         NEW c, NEW j, <<c, j>> = IF row < col THEN <<col, row + 1>> ELSE <<col + 1, 0>>
  PROVE  /\ Ordered(nodes') /\ Extends(nodes, nodes') /\ nodes' \in Seq(Triples)
         /\ pSkip' = {} /\ nbuf' \in 0 .. 2 * M
         /\ BufferInv(nodes', pBuf', nbuf', m, c, j)
<1> DEFINE marks == IF fSkip THEN SkipMarks ELSE pSkip
           r == Places(marks)[levelsize]
           width == levelsize
<1>1. /\ nodes' = r.nodes /\ pBuf' = r.out /\ nbuf' = Len(r.out)
      /\ pSkip' = IF fSkip THEN marks \ (0 .. levelsize - 1) ELSE marks
  BY DEF Row
<1>2. fSkip => marks = OddCuts(p, col + row) /\ marks \ (0 .. levelsize - 1) = {}
  BY MarksUsed
<1>3. ~fSkip => marks = {}
  BY MarksUsed
<1> HIDE DEF marks
<1>4. RowTo(r, width, marks)
  BY RowMeans
<1> HIDE DEF r
<1>5. /\ q \in Nat \ {0} /\ p = 2 * q /\ Shaped(p, col + row - 1) /\ pBuf \in Seq(Nat)
      /\ col \in Nat \ {0} /\ row \in 0 .. col /\ col \in 1 .. M - 2 /\ M \in Nat /\ N \in Nat
      /\ width \in Nat \ {0} /\ width <= 2 * M
      /\ q = TwoTo(m - col - 2) /\ p = TwoTo(m - col - 1) /\ m \in Nat
  BY RowSizes, SizeOfOutput DEF RowIs
<1>6. /\ Ordered(nodes') /\ Extends(nodes, nodes') /\ nodes' \in Seq(Triples)
      /\ pBuf' \in Seq(Nat) /\ Len(pBuf') = width /\ nbuf' = width
      /\ \A i \in 1 .. width : Placed(nodes', pBuf'[i], i - 1, marks)
  BY <1>1, <1>4 DEF RowTo, RowInv
<1>7. pSkip' = {}
  BY <1>1, <1>2, <1>3
<1>8. /\ row < col => c = col /\ j = row + 1
      /\ ~(row < col) => c = col + 1 /\ j = 0 /\ row = col
  BY <1>5
<1>9. width = Width(TwoTo(m - c - 1), c + j - 1) /\ c + j - 1 \in Nat \ {0}
  <2>1. CASE row < col
    <3>1. width = Width(p, col + row) /\ c + j - 1 = col + row
      BY <1>5, <1>8, <2>1, RowSizes
    <3> QED
      BY <1>5, <1>8, <2>1, <3>1
  <2>2. CASE ~(row < col)
    <3>1. width = Width(q, col) /\ c + j - 1 = col /\ m - c - 1 = m - col - 2
      BY <1>5, <1>8, <2>2, RowSizes
    <3> QED
      BY <1>5, <1>8, <2>2, <3>1
  <2> QED
    BY <2>1, <2>2
<1>10. Added(c, j) = Added(col, row + 1)
  <2>1. CASE row < col
    BY <1>8, <2>1
  <2>2. CASE ~(row < col)
    <3>1. /\ Added(col, col + 1) = Before(col) /\ Added(col + 1, 0) = Before(col + 1) + Height(col + 1)
          /\ Before(col) = Before(col + 1) + Height(col + 1)
      <4>1. col \in 0 .. M - 1 /\ col \in 0 .. M - 2 /\ col + 1 \in 0 .. M - 1 /\ 0 \in 0 .. col + 1
            /\ col \in 0 .. col
        BY <1>5
      <4> QED
        BY <4>1, AddedFacts, ColumnBelow
    <3> QED
      BY <1>8, <2>2, <3>1
  <2> QED
    BY <2>1, <2>2
<1>11. \A i \in DOMAIN pBuf' : Kept(nodes', pBuf'[i], Added(c, j))
  BY <1>6, <1>10 DEF Placed
<1>12. ASSUME NEW a \in Inputs, NEW F, NEW G, Values(F, nodes', a), Sums(G, a)
       PROVE  /\ Subtotal(G, c, j) \in 0 .. c + j - 1
              /\ \A i \in 0 .. Len(pBuf') - 1 :
                   (c >= N /\ j >= N => Cut(TwoTo(m - c - 1), c + j - 1, i) % 2 = 0) =>
                     Value(F, pBuf'[i + 1]) =
                       BitOf(Subtotal(G, c, j) - Cut(TwoTo(m - c - 1), c + j - 1, i), TwoTo(m - c - 1))
  <2> DEFINE x == Subtotal(G, col, row)
             u == Subtotal(G, col, row + 1)
             even == col >= N /\ row >= N
  <2>1. F \in [Nat -> {0, 1}] /\ F[0] = 0 /\ Values(F, nodes, a)
    <3>1. nodes \in Seq(Triples)
      BY DEF RowIs, Table
    <3>2. Values(F, nodes, a)
      BY <1>6, <1>12, <3>1, ExtendsFacts
    <3> QED
      BY <3>2 DEF Values
  <2>2. x \in 0 .. col + row - 1 /\ Right(F, x, p, col + row - 1, even)
    BY <1>5, <1>12, <2>1 DEF BufferMeans, Right
  <2>3. u \in 0 .. col + row
    <3> DEFINE w == InputOf(a, col, row)
    <3>1. w \in {0, 1} /\ u = x + w
      <4>1. col \in 0 .. M - 1
        BY <1>5
      <4> QED
        BY <1>5, <1>12, <4>1, SubtotalStep
    <3>2. x \in 0 .. col + row - 1 /\ col \in Int /\ row \in Int
      BY <1>5, <2>2
    <3> HIDE DEF x, u, w
    <3> QED
      BY <3>1, <3>2
  <2>4. ASSUME NEW i \in 0 .. width - 1, ~Skips(i, marks)
        PROVE  Value(F, pBuf'[i + 1]) = Chosen(F, a, Var - row, fUse, Pair(i))
    <3>1. i + 1 \in 1 .. width /\ (i + 1) - 1 = i
      BY <1>5
    <3>2. Placed(nodes', pBuf'[i + 1], i, marks)
      BY <1>6, <3>1
    <3> QED
      BY <1>12, <2>4, <3>2 DEF Placed
  <2>5. ASSUME NEW i \in 0 .. width - 1
        PROVE  LET y == Chosen(F, a, Var - row, fUse, Pair(i))
               IN /\ row < col /\ (even => Cut(p, col + row, i) % 2 = 0) =>
                       y = BitOf(u - Cut(p, col + row, i), p)
                  /\ row = col => y = BitOf(u - 2 * Cut(q, col, i), p)
    <3>1. even \in BOOLEAN /\ (even <=> col >= N /\ row >= N) /\ x = Subtotal(G, col, row)
          /\ i \in 0 .. levelsize - 1
      OBVIOUS
    <3> HIDE DEF even, x
    <3> QED
      BY <1>12, <2>1, <2>2, <3>1, PlaceValue
  <2>6. CASE row < col
    <3>1. Subtotal(G, c, j) = u /\ c + j - 1 = col + row /\ TwoTo(m - c - 1) = p /\ c = col /\ j = row + 1
      BY <1>5, <1>8, <2>6
    <3>2. ASSUME NEW i \in 0 .. width - 1, c >= N /\ j >= N => Cut(p, col + row, i) % 2 = 0
          PROVE  Value(F, pBuf'[i + 1]) = BitOf(u - Cut(p, col + row, i), p)
      <4>1. even => Cut(p, col + row, i) % 2 = 0
        BY <1>5, <3>1, <3>2
      <4>2. ~Skips(i, marks)
        <5> SUFFICES ASSUME fSkip PROVE i \notin marks
          BY DEF Skips
        <5>1. c >= N /\ j >= N
          BY <1>5, <3>1 DEF fSkip
        <5>2. Cut(p, col + row, i) % 2 = 0
          BY <3>2, <5>1
        <5> QED
          BY <1>2, <5>2 DEF OddCuts
      <4> QED
        BY <2>4, <2>5, <2>6, <4>1, <4>2
    <3> QED
      BY <1>6, <2>3, <3>1, <3>2
  <2>7. CASE ~(row < col)
    <3>1. row = col /\ c = col + 1 /\ j = 0 /\ c + j - 1 = col /\ TwoTo(m - c - 1) = q
      <4>1. row = col /\ c = col + 1 /\ j = 0
        BY <1>8, <2>7
      <4>2. c + j - 1 = col /\ m - c - 1 = m - col - 2
        BY <1>5, <4>1
      <4> QED
        BY <1>5, <4>1, <4>2
    <3>2. Subtotal(G, c, j) = u \div 2 /\ u \in Nat
      <4>1. col \in 0 .. M - 2 /\ row + 1 = col + 1
        BY <1>5, <3>1
      <4> QED
        BY <1>12, <2>3, <3>1, <4>1, SubtotalHalves
    <3>3. u \div 2 \in 0 .. col
      <4> HIDE DEF u
      <4> QED
        BY <1>5, <2>3, <3>1
    <3>4. ASSUME NEW i \in 0 .. width - 1
          PROVE  Value(F, pBuf'[i + 1]) = BitOf(u \div 2 - Cut(q, col, i), q)
      <4>1. ~Skips(i, marks)
        BY <2>7 DEF Skips, fSkip
      <4>2. Value(F, pBuf'[i + 1]) = BitOf(u - 2 * Cut(q, col, i), p)
        BY <2>4, <2>5, <3>1, <4>1
      <4>3. Cut(q, col, i) \in Int /\ u \in Int
        <5>1. i \in Int /\ q \in Int /\ col \in Int
          BY <1>5
        <5> QED
          BY <3>2, <5>1, CutType
      <4> DEFINE w == Cut(q, col, i)
      <4>4. BitOf(u - 2 * w, p) = BitOf((u \div 2) - w, q)
        <5>1. w \in Int
          BY <4>3
        <5> HIDE DEF u, w
        <5> QED
          <6>1. u \in Int /\ q \in Nat \ {0} /\ p = 2 * q
            BY <1>5, <4>3
          <6>2. BitOf(u - 2 * w, 2 * q) = BitOf((u \div 2) - w, q)
            BY <5>1, <6>1, HalfBit
          <6> QED
            BY <6>1, <6>2
      <4> QED
        BY <4>2, <4>4
    <3> QED
      BY <1>6, <3>1, <3>2, <3>3, <3>4
  <2> QED
    BY <2>6, <2>7
<1>13. BufferMeans(nodes', pBuf', m, c, j)
  BY <1>12 DEF BufferMeans
<1>14. BufferInv(nodes', pBuf', nbuf', m, c, j)
  BY <1>6, <1>9, <1>11, <1>13 DEF BufferInv
<1>15. nbuf' \in 0 .. 2 * M
  BY <1>5, <1>6
<1> QED
  BY <1>6, <1>7, <1>14, <1>15

-----------------------------------------------------------------------------
(* The last column of an output.                                           *)

\* The bit for the place 1 is the parity.
LEMMA LastBit ==
  ASSUME NEW x \in Int
  PROVE  BitOf(x, 1) = x % 2
<1>1. x = 1 * x + 0 /\ 0 \in 0 .. 1 - 1
  OBVIOUS
<1>2. x \div 1 = x
  BY <1>1, QuotientIs
<1> QED
  BY <1>2 DEF BitOf

LEMMA UsedVar ==
  ASSUME NEW c \in 0 .. M - 1, NEW j \in 0 .. c, UsedRow(c, j)
  PROVE  /\ TopVar(c) - j \in 0 .. NUMVAR - 1
         /\ Added(c, j) = (TopVar(c) - j) + 1 /\ Added(c, j + 1) = TopVar(c) - j
         /\ TopVar(c) - j = NUMVAR - 1 <=> c = 0
<1> DEFINE v == TopVar(c) - j
<1>1. /\ Added(c, j) = v + 1 /\ Added(c, j + 1) = v /\ v \in Column(c) /\ c <= M - 2
  BY AddedFacts
<1>2. /\ Before(c) \in Nat /\ Height(c) \in Nat /\ Before(c) + Height(c) <= NUMVAR
      /\ (c > 0 => Before(c - 1) = Before(c) + Height(c)) /\ NUMVAR \in Int /\ M \in Nat
  BY ColumnFacts, SizeOfOutput
<1>3. v \in Before(c) .. Before(c) + Height(c) - 1
  BY <1>1 DEF Column
<1> HIDE DEF v
<1>4. v \in 0 .. NUMVAR - 1
  BY <1>2, <1>3
<1>5. c = 0 => v = NUMVAR - 1
  BY <1>2, <1>3, OuterColumns
<1>6. c > 0 => v # NUMVAR - 1
  <2> SUFFICES ASSUME c > 0 PROVE v # NUMVAR - 1
    OBVIOUS
  <2>1. c - 1 \in 0 .. M - 1 /\ 0 \in 0 .. c - 1
    BY <1>2
  <2>2. Before(c - 1) <= NUMVAR - 1 /\ Before(c - 1) \in Nat
    BY <2>1, BeforeFalls, OuterColumns
  <2> QED
    BY <1>2, <1>3, <2>2
<1> QED
  BY <1>1, <1>4, <1>5, <1>6 DEF v

\* The parity that the literal of output m - 1 starts with.
Odd == IF m = 1 THEN 1 ELSE m + 1

\* Node i of the table t is of row j of the last column.
OfRow(t, i, j) ==
  /\ UsedRow(m - 1, j) /\ t[i][1] = TopVar(m - 1) - j
  /\ \E l \in {2 * i, 2 * i + 1} : \A a \in Inputs : \A F : \A G : Values(F, t, a) /\ Sums(G, a) =>
       Value(F, l) = (Subtotal(G, m - 1, j + 1) + (j + 1) + Odd) % 2

\* The last column after j of its rows.
LastTo(r, j) ==
  LET l == Last(r.out)
  IN /\ Filled(r) /\ Ordered(r.nodes) /\ Extends(nodes, r.nodes)
     /\ l \in Named(r.nodes) /\ VarOf(r.nodes, l) >= Added(m - 1, j)
     /\ m # 1 => VarOf(r.nodes, l) # NUMVAR - 1
     /\ \A a \in Inputs : \A F : \A G : Values(F, r.nodes, a) /\ Sums(G, a) =>
          Value(F, l) = (Subtotal(G, m - 1, j) + j + Odd) % 2
     /\ \A i \in DOMAIN r.nodes : i \notin DOMAIN nodes => \E n \in 0 .. j - 1 : OfRow(r.nodes, i, n)

LastColumnIs ==
  /\ m \in 1 .. M /\ Var2 = TopVar(m - 1) /\ Table(nodes) /\ Ordered(nodes)
  /\ pBuf \in Seq(Literals(nodes))
  /\ m = 1 => pBuf = <<1>>
  /\ m # 1 => BufferInv(nodes, pBuf, nbuf, m, m - 1, 0)

LEMMA LastStarts ==
  ASSUME LastColumnIs
  PROVE  LET l == At(0)
         IN /\ l \in Named(nodes) /\ VarOf(nodes, l) >= Added(m - 1, 0)
            /\ m # 1 => VarOf(nodes, l) # NUMVAR - 1
            /\ \A a \in Inputs : \A F : \A G : Values(F, nodes, a) /\ Sums(G, a) =>
                 Value(F, l) = (Subtotal(G, m - 1, 0) + 0 + Odd) % 2
<1>1. /\ m \in 1 .. M /\ M \in Nat /\ N \in Nat /\ 1 < N /\ nodes \in Seq(Triples) /\ Len(nodes) \in Nat
      /\ NUMVAR \in Int
  BY SizeOfOutput, NAssumption DEF LastColumnIs, Table
<1>2. CASE m = 1
  <2>1. At(0) = 1
    BY <1>2 DEF LastColumnIs, At
  <2>2. 1 \in Named(nodes) /\ VarOf(nodes, 1) = NUMVAR
    BY <1>1 DEF Named, VarOf
  <2>3. Added(0, 0) = NUMVAR
    <3>1. 0 \in 0 .. M - 1 /\ 0 \in 0 .. 0
      BY <1>1
    <3>2. Added(0, 0) = Before(0) + Height(0)
      BY <3>1, AddedFacts
    <3> QED
      BY <1>1, <3>2, OuterColumns
  <2>4. ASSUME NEW a \in Inputs, NEW F, NEW G, Values(F, nodes, a), Sums(G, a)
        PROVE  Value(F, 1) = (Subtotal(G, m - 1, 0) + 0 + Odd) % 2
    <3>1. F \in [Nat -> {0, 1}] /\ F[0] = 0 /\ 1 \in Nat
      BY <2>4 DEF Values
    <3>2. Value(F, 1) = 1
      BY <3>1, ValueFacts
    <3>3. Subtotal(G, m - 1, 0) = 0
      <4>1. m - 1 = 0
        BY <1>2
      <4> QED
        BY <2>4, <4>1, SubtotalStarts
    <3> QED
      BY <1>2, <3>2, <3>3 DEF Odd
  <2> QED
    BY <1>1, <1>2, <2>1, <2>2, <2>3, <2>4
<1>3. CASE m # 1
  <2> DEFINE d == (m - 1) + 0 - 1
             p == TwoTo(m - (m - 1) - 1)
  <2>1. BufferInv(nodes, pBuf, nbuf, m, m - 1, 0)
    BY <1>3 DEF LastColumnIs
  <2>2. d = m - 2 /\ d \in Nat
    BY <1>1, <1>3
  <2>3. p = 1
    <3>1. m - (m - 1) - 1 = 0
      BY <1>1
    <3> QED
      BY <3>1, TwoToFacts
  <2>4. pBuf \in Seq(Nat) /\ Len(pBuf) = 1
    <3>1. pBuf \in Seq(Nat) /\ Len(pBuf) = (IF d = 0 THEN 1 ELSE nbuf) /\ nbuf = Width(p, d)
      BY <2>1 DEF BufferInv
    <3> HIDE DEF d, p
    <3>2. Width(1, d) = (IF d <= 1 THEN d ELSE 1) /\ d \in Nat
      BY <2>2 DEF Width
    <3>3. d # 0 => Width(1, d) = 1
      BY <3>2
    <3> QED
      BY <2>3, <3>1, <3>3
  <2>5. At(0) = pBuf[1] /\ 1 \in DOMAIN pBuf
    BY <2>4 DEF At
  <2>6. Kept(nodes, pBuf[1], Added(m - 1, 0)) /\ BufferMeans(nodes, pBuf, m, m - 1, 0)
    BY <2>1, <2>5 DEF BufferInv
  <2>7. ASSUME NEW a \in Inputs, NEW F, NEW G, Values(F, nodes, a), Sums(G, a)
        PROVE  Value(F, pBuf[1]) = (Subtotal(G, m - 1, 0) + 0 + Odd) % 2
    <3> DEFINE x == Subtotal(G, m - 1, 0)
    <3>1. x \in 0 .. d /\ Value(F, pBuf[0 + 1]) = BitOf(x - Cut(p, d, 0), p)
      <4>1. 0 \in 0 .. Len(pBuf) - 1 /\ ~(0 >= N)
        BY <1>1, <2>4
      <4> QED
        BY <2>6, <2>7, <4>1 DEF BufferMeans
    <3> HIDE DEF x, d, p
    <3>2. x - Cut(p, d, 0) = x - m + 3 /\ x - m + 3 \in Int /\ x \in Int
      BY <1>1, <2>2, <2>3, <3>1 DEF Cut
    <3>3. Value(F, pBuf[1]) = (x - m + 3) % 2
      BY <2>3, <3>1, <3>2, LastBit
    <3>4. x + 0 + Odd = (x - m + 3) + 2 * (m - 1) /\ m - 1 \in Int /\ x + 0 + Odd \in Int
      BY <1>1, <1>3, <3>2 DEF Odd
    <3>5. (x + 0 + Odd) % 2 = (x - m + 3) % 2
      BY <3>2, <3>4, SameParity
    <3> QED
      BY <3>3, <3>5 DEF x
  <2> QED
    BY <2>5, <2>6, <2>7 DEF Kept
<1> QED
  BY <1>2, <1>3

LEMMA OfRowMore ==
  ASSUME NEW t \in Seq(Triples), NEW u \in Seq(Triples), Extends(t, u),
         NEW i \in DOMAIN t, NEW j, OfRow(t, i, j)
  PROVE  OfRow(u, i, j)
<1>1. u[i] = t[i]
  BY DEF Extends
<1>2. \A a : \A F : Values(F, u, a) => Values(F, t, a)
  BY ExtendsFacts
<1> QED
  BY <1>1, <1>2 DEF OfRow

LEMMA LastRowMeans ==
  ASSUME LastColumnIs, NEW j \in 0 .. m - 1, NEW r, LastTo(r, j),
         Filled(LastRow(r, j))
  PROVE  LastTo(LastRow(r, j), j + 1)
<1> DEFINE l == Last(r.out)
           v == Var2 - j
           use == M - m >= N - j /\ j < N
           pair == <<l, Not(l)>>
           z == LastRow(r, j)
           c == m - 1
           b == Added(m - 1, j)
           w == Added(m - 1, j + 1)
<1>1. /\ m \in 1 .. M /\ M \in Nat /\ N \in Nat /\ NUMVAR \in Int
      /\ c \in 0 .. M - 1 /\ j \in 0 .. c /\ j \in 0 .. c + 1 /\ j + 1 \in 0 .. c + 1
  BY SizeOfOutput DEF LastColumnIs
<1>2. /\ RowInv(r) /\ Ordered(r.nodes) /\ Extends(nodes, r.nodes) /\ r.nodes \in Seq(Triples)
      /\ r.out \in Seq(Int) /\ nodes \in Seq(Triples)
      /\ l \in Named(r.nodes) /\ VarOf(r.nodes, l) >= b
      /\ m # 1 => VarOf(r.nodes, l) # NUMVAR - 1
  BY DEF LastTo, Filled, RowInv, LastColumnIs, Table
<1>3. z = gennode(r, v, pair, use)
  BY DEF LastRow
<1>4. use <=> UsedRow(c, j)
  <2>1. M - m >= N - j <=> M - 1 - c >= N - j
    BY <1>1
  <2> QED
    BY <2>1 DEF UsedRow
<1>5. use => /\ v \in 0 .. NUMVAR - 1 /\ b = v + 1 /\ w = v
             /\ (v = NUMVAR - 1 <=> m = 1)
  <2>1. v = TopVar(c) - j /\ (c = 0 <=> m = 1)
    BY <1>1 DEF LastColumnIs
  <2> HIDE DEF v, use
  <2> SUFFICES ASSUME use PROVE /\ v \in 0 .. NUMVAR - 1 /\ b = v + 1 /\ w = v
                                /\ (v = NUMVAR - 1 <=> m = 1)
    OBVIOUS
  <2>2. UsedRow(c, j) /\ j \in 0 .. c
    BY <1>1, <1>4
  <2> QED
    BY <1>1, <2>1, <2>2, UsedVar
<1>6. ~use => w = b
  <2>1. j \in 0 .. c
    BY <1>1
  <2> QED
    BY <1>1, <1>4, <2>1, AddedFacts
<1>7. Not(l) \in Named(r.nodes) /\ VarOf(r.nodes, Not(l)) = VarOf(r.nodes, l)
      /\ VarOf(r.nodes, l) \in Int /\ l \in Nat
  BY <1>2, NotNamed, VarOfType DEF Named
<1>8. use \in BOOLEAN
  OBVIOUS
<1>9. pair[1] = l /\ pair[2] = Not(l)
  OBVIOUS
<1> HIDE DEF v, use, l, z, b, w
<1>10. PICK y : Meant(r, z, y, v, use, pair)
  <2>1. use => /\ v \in 0 .. NUMVAR - 1 /\ Below(r.nodes, l, v) /\ Below(r.nodes, Not(l), v)
    <3> SUFFICES ASSUME use PROVE /\ v \in 0 .. NUMVAR - 1
                                  /\ Below(r.nodes, l, v) /\ Below(r.nodes, Not(l), v)
      OBVIOUS
    <3>1. v \in 0 .. NUMVAR - 1 /\ b = v + 1
      BY <1>5
    <3>2. VarOf(r.nodes, l) > v
      BY <1>1, <1>2, <1>7, <3>1
    <3>3. VarOf(r.nodes, l) # NUMVAR - 1
      BY <1>1, <1>2, <1>5, <1>7, <3>2
    <3> QED
      BY <1>2, <1>7, <3>1, <3>2, <3>3 DEF Below
  <2>2. pair = <<pair[1], pair[2]>>
    OBVIOUS
  <2> HIDE DEF pair
  <2> QED
    BY <1>2, <1>3, <1>7, <1>8, <1>9, <2>1, <2>2, PlaceMeans
<1>11. /\ Ordered(z.nodes) /\ Extends(r.nodes, z.nodes)
       /\ y \in Named(z.nodes) /\ z.out = Append(r.out, y)
       /\ use => VarOf(z.nodes, y) >= v /\ (v # NUMVAR - 1 => VarOf(z.nodes, y) # NUMVAR - 1)
       /\ ~use => y = Not(l) /\ z.nodes = r.nodes
       /\ \A a : \A F : Values(F, z.nodes, a) => Value(F, y) = Chosen(F, a, v, use, pair)
  BY <1>9, <1>10 DEF Meant
<1>12. Last(z.out) = y
  <2>1. y \in Int
    BY <1>11 DEF Named
  <2> QED
    BY <1>2, <1>11, <2>1 DEF Last
<1>13. z.nodes \in Seq(Triples) /\ Extends(nodes, z.nodes) /\ Filled(z)
  <2>1. Filled(z)
    BY DEF z
  <2>2. z.nodes \in Seq(Triples)
    BY <2>1 DEF Filled, RowInv
  <2> QED
    BY <1>2, <1>11, <2>1, <2>2, ExtendsMore
<1>14. VarOf(z.nodes, y) >= w /\ (m # 1 => VarOf(z.nodes, y) # NUMVAR - 1)
  <2>1. CASE use
    BY <1>5, <1>11, <2>1
  <2>2. CASE ~use
    BY <1>2, <1>6, <1>7, <1>11, <2>2
  <2> QED
    BY <2>1, <2>2
<1>15. ASSUME NEW a \in Inputs, NEW F, NEW G, Values(F, z.nodes, a), Sums(G, a)
       PROVE  Value(F, y) = (Subtotal(G, c, j + 1) + (j + 1) + Odd) % 2
  <2> DEFINE x == Subtotal(G, c, j)
             u == Subtotal(G, c, j + 1)
             i == InputOf(a, c, j)
             old == Value(F, l)
  <2>1. Values(F, r.nodes, a)
    BY <1>2, <1>11, <1>13, <1>15, ExtendsFacts
  <2>2. old = (x + j + Odd) % 2
    BY <1>15, <2>1 DEF LastTo, l
  <2>3. i \in {0, 1} /\ u = x + i /\ x \in Int
    <3>1. j \in 0 .. c /\ j \in 0 .. c + 1
      BY <1>1
    <3> QED
      BY <1>1, <1>15, <3>1, SubtotalStep, SumsType
  <2>4. i = IF use THEN a[v] ELSE 0
    <3>1. v = TopVar(c) - j
      BY DEF LastColumnIs, v
    <3> QED
      BY <1>4, <3>1 DEF InputOf
  <2>5. Value(F, Not(l)) = 1 - old
    BY <1>7, <1>15, ValueFacts DEF Values
  <2>6. Value(F, y) = IF i = 1 THEN old ELSE 1 - old
    <3>1. Value(F, y) = Chosen(F, a, v, use, pair)
      BY <1>11, <1>15
    <3>2. Chosen(F, a, v, use, pair) = IF use /\ a[v] = 1 THEN old ELSE Value(F, Not(l))
      BY <1>9 DEF Chosen
    <3>3. i = 1 <=> use /\ a[v] = 1
      BY <2>4
    <3> QED
      BY <2>5, <3>1, <3>2, <3>3
  <2>7. Odd \in Int /\ j \in Int
    BY <1>1 DEF Odd
  <2> HIDE DEF x, u, i, old, c
  <2> DEFINE e == x + j + Odd
  <2>8. e \in Int /\ u + (j + 1) + Odd = IF i = 1 THEN e + 2 * 1 ELSE e + 1
    BY <2>3, <2>7
  <2> HIDE DEF e
  <2>9. (e + 2 * 1) % 2 = e % 2 /\ (e + 1) % 2 = 1 - (e % 2)
    BY <2>8, Parity, SameParity
  <2>10. old = e % 2
    BY <2>2 DEF e
  <2> QED
    BY <2>6, <2>8, <2>9, <2>10 DEF u
<1>16. ASSUME NEW i \in DOMAIN z.nodes, i \notin DOMAIN nodes
       PROVE  \E n \in 0 .. (j + 1) - 1 : OfRow(z.nodes, i, n)
  <2>1. CASE i \in DOMAIN r.nodes
    <3>1. PICK n \in 0 .. j - 1 : OfRow(r.nodes, i, n)
      BY <1>16, <2>1 DEF LastTo
    <3>2. n \in 0 .. (j + 1) - 1
      BY <1>1
    <3> QED
      BY <1>2, <1>11, <1>13, <2>1, <3>1, <3>2, OfRowMore
  <2>2. CASE i \notin DOMAIN r.nodes
    <3>1. use /\ z.nodes[i][1] = v /\ y \in {2 * i, 2 * i + 1}
      BY <1>10, <2>2 DEF Meant
    <3>2. v = TopVar(c) - j
      BY DEF LastColumnIs, v
    <3>3. OfRow(z.nodes, i, j)
      BY <1>4, <1>15, <3>1, <3>2 DEF OfRow
    <3>4. j \in 0 .. (j + 1) - 1
      BY <1>1
    <3> QED
      BY <3>3, <3>4
  <2> QED
    BY <2>1, <2>2
<1> QED
  BY <1>11, <1>12, <1>13, <1>14, <1>15, <1>16 DEF LastTo, z, w

\* The literal that is the bit of the sum for output m - 1.
OutputMeans(t, l, o) ==
  /\ l \in Named(t)
  /\ \A a \in Inputs : \A F : \A G : Values(F, t, a) /\ Sums(G, a) =>
       Value(F, l) = BitOf(G[0], TwoTo(o))

LEMMA OutputIs ==
  ASSUME LastColumnIs
  PROVE  LET r == LastColumn
         IN /\ r.nodes \in Seq(Triples) /\ Ordered(r.nodes) /\ Extends(nodes, r.nodes)
            /\ OutputMeans(r.nodes, Output(Last(r.out)), m - 1)
            /\ \A i \in DOMAIN r.nodes : i \notin DOMAIN nodes =>
                 \E n \in 0 .. m - 1 : OfRow(r.nodes, i, n)
<1> DEFINE z == LastRows
           S == {j \in 0 .. m : LastTo(z[j], j)}
<1>1. /\ m \in 1 .. M /\ M \in Nat /\ NUMVAR \in Int /\ nodes \in Seq(Triples)
      /\ Table(nodes) /\ Ordered(nodes) /\ m - 1 \in 0 .. M - 1
  BY SizeOfOutput DEF LastColumnIs, Table
<1>2. Var2 \in Int
  <2>1. m - 1 = M - 1 \/ m - 1 \in 0 .. M - 2
    BY <1>1
  <2>2. TopVar(m - 1) \in Int
    BY <2>1, SizeOfOutput, TopVarNext
  <2> QED
    BY <2>2 DEF LastColumnIs
<1>3. z = [j \in 0 .. m |->
             IF j = 0 THEN [nodes |-> nodes, out |-> <<At(0)>>] ELSE LastRow(z[j - 1], j - 1)]
  BY <1>1, LastRowsDef
<1>4. \A j \in 0 .. m : Filled(z[j])
  BY <1>1, <1>2, LastColumnMade DEF LastColumnIs
<1> HIDE DEF z
<1>5. 0 \in S
  <2> DEFINE first == [nodes |-> nodes, out |-> <<At(0)>>]
  <2>1. z[0] = first /\ 0 \in 0 .. m
    BY <1>1, <1>3
  <2>2. first.nodes = nodes /\ Last(first.out) = At(0)
    BY DEF Last
  <2>3. Extends(nodes, nodes) /\ Filled(first)
    BY <1>1, <1>4, <2>1, ExtendsSelf
  <2> HIDE DEF first
  <2>4. LastTo(first, 0)
    BY <1>1, <2>2, <2>3, LastStarts DEF LastTo
  <2> QED
    BY <2>1, <2>4
<1>6. ASSUME NEW j \in 0 .. m - 1, j \in S PROVE j + 1 \in S
  <2>1. j + 1 \in 0 .. m /\ j + 1 # 0 /\ (j + 1) - 1 = j
    BY <1>1
  <2>2. z[j + 1] = LastRow(z[j], j) /\ LastTo(z[j], j) /\ Filled(z[j + 1])
    BY <1>3, <1>4, <1>6, <2>1
  <2>3. LastTo(z[j + 1], j + 1)
    BY <2>2, LastRowMeans
  <2> QED
    BY <2>1, <2>3
<1>7. 0 .. m \subseteq S
  <2> HIDE DEF S
  <2>1. m \in Nat
    BY <1>1
  <2> QED
    BY <1>5, <1>6, <2>1, UpTo
<1> DEFINE r == LastColumn
           l == Last(r.out)
           c == m - 1
<1>8. LastTo(r, m)
  <2>1. r = z[m]
    BY DEF LastColumn, z
  <2> QED
    BY <1>1, <1>7, <2>1
<1> HIDE DEF r
<1>9. /\ r.nodes \in Seq(Triples) /\ Ordered(r.nodes) /\ Extends(nodes, r.nodes) /\ l \in Named(r.nodes)
  BY <1>8 DEF LastTo, Filled, RowInv
<1>10. Output(l) \in Named(r.nodes)
  BY <1>9, NotNamed DEF Output
<1>11. ASSUME NEW a \in Inputs, NEW F, NEW G, Values(F, r.nodes, a), Sums(G, a)
       PROVE  Value(F, Output(l)) = BitOf(G[0], TwoTo(c))
  <2> DEFINE x == Subtotal(G, c, m)
  <2>1. Value(F, l) = (x + m + Odd) % 2
    BY <1>8, <1>11 DEF LastTo
  <2>2. BitOf(G[0], TwoTo(c)) = x % 2 /\ x \in Int
    <3>1. c \in 0 .. M - 1 /\ c + 1 = m /\ m \in 0 .. c + 1
      BY <1>1
    <3> QED
      BY <1>11, <3>1, BitOfSum, SumsType
  <2> HIDE DEF x, c
  <2>3. CASE m = 1
    <3>1. x + m + Odd = x + 2 * 1
      BY <2>2, <2>3 DEF Odd
    <3>2. (x + 2 * 1) % 2 = x % 2
      BY <2>2, SameParity
    <3> QED
      BY <2>1, <2>2, <2>3, <3>1, <3>2 DEF Output
  <2>4. CASE m # 1
    <3>1. x + m + Odd = (x + 1) + 2 * m /\ m \in Int
      BY <1>1, <2>2, <2>4 DEF Odd
    <3>2. ((x + 1) + 2 * m) % 2 = (x + 1) % 2 /\ (x + 1) % 2 = 1 - (x % 2) /\ x % 2 \in {0, 1}
      BY <2>2, <3>1, Parity, SameParity
    <3>3. Value(F, Not(l)) = 1 - Value(F, l)
      BY <1>9, <1>11, ValueFacts DEF Values, Named
    <3> QED
      BY <2>1, <2>2, <2>4, <3>1, <3>2, <3>3 DEF Output
  <2> QED
    BY <2>3, <2>4
<1>12. \A i \in DOMAIN r.nodes : i \notin DOMAIN nodes => \E n \in 0 .. m - 1 : OfRow(r.nodes, i, n)
  BY <1>8 DEF LastTo
<1> QED
  BY <1>9, <1>10, <1>11, <1>12 DEF OutputMeans, r

-----------------------------------------------------------------------------
(* The invariant of bdd.c: what is kept from step to step.                 *)

\* The stack of the count goes down in the table of the nodes.
StackInv ==
  /\ Len(stack) <= NUMVAR
  /\ \A k \in DOMAIN stack :
       /\ stack[k] \in Named(nodes) /\ VarOf(nodes, stack[k]) >= k - 1
       /\ k >= 2 => VarOf(nodes, stack[k]) # NUMVAR - 1

\* The rows of an output, and the outputs that are complete.
ColumnsInv ==
  /\ Var = TopVar(col) /\ col >= 1 /\ (m > 0 => Var2 = TopVar(m - 1)) /\ stack = <<>>
  /\ m < 2 => pBuf = <<1>> /\ col = 1 /\ row = 0
  /\ m >= 2 => /\ col <= m - 1 /\ (col = m - 1 => row = 0)
               /\ BufferInv(nodes, pBuf, nbuf, m, col, row)
  /\ \A o \in m .. M - 1 : OutputMeans(nodes, pOutputs[o], o)

MeansInv ==
  /\ Ordered(nodes) /\ pSkip = {} /\ nbuf \in 0 .. 2 * M /\ pBuf \in Seq(Nat) /\ StackInv
  /\ dpc \in {"off", "rows"} => ColumnsInv
  /\ dpc \notin {"off", "rows"} => \A o \in 0 .. M - 1 : OutputMeans(nodes, pOutputs[o], o)

LEMMA MeansMore ==
  ASSUME NEW t \in Seq(Triples), NEW u \in Seq(Triples), Extends(t, u), NEW l, NEW o,
         OutputMeans(t, l, o)
  PROVE  OutputMeans(u, l, o)
<1>1. Named(t) \subseteq Named(u)
  BY ExtendsFacts
<1>2. \A a : \A F : Values(F, u, a) => Values(F, t, a)
  BY ExtendsFacts
<1> QED
  BY <1>1, <1>2 DEF OutputMeans

LEMMA NumberOfVariables == NUMVAR \in Nat /\ NUMVAR >= 4
<1>1. N \in Nat /\ N >= 2
  BY NAssumption
<1>2. N * N >= 4 /\ N * N \in Nat
  BY <1>1
<1> QED
  BY <1>2 DEF NUMVAR

\* The buffer that the first column starts with.
LEMMA FirstBuffer ==
  ASSUME NEW t \in Seq(Triples), NEW n \in 2 .. M
  PROVE  BufferInv(t, <<1>>, 0, n, 1, 0)
<1> DEFINE p == TwoTo(n - 1 - 1)
<1>1. M \in Nat /\ 1 < M /\ NUMVAR \in Int /\ Len(t) \in Nat /\ N \in Nat /\ 1 < N
  BY SizeOfOutput, NAssumption
<1>2. p \in Nat \ {0}
  <2>1. n - 1 - 1 \in Nat
    BY <1>1
  <2> QED
    BY <2>1, TwoToFacts
<1> HIDE DEF p
<1>3. 1 + 0 - 1 = 0 /\ Width(p, 0) = 0
  BY <1>2 DEF Width
<1>4. Kept(t, 1, Added(1, 0))
  <2>1. 1 \in Named(t) /\ VarOf(t, 1) = NUMVAR
    BY <1>1 DEF Named, VarOf
  <2>2. Added(1, 0) \in 0 .. NUMVAR
    <3>1. 1 \in 0 .. M - 1 /\ 0 \in 0 .. 1 + 1
      BY <1>1
    <3> QED
      BY <3>1, AddedType
  <2> QED
    BY <1>1, <2>1, <2>2 DEF Kept
<1> DEFINE e == <<1>>
<1>5. e \in Seq(Nat) /\ Len(e) = 1 /\ e[1] = 1 /\ DOMAIN e = {1}
  OBVIOUS
<1> HIDE DEF e
<1>6. ASSUME NEW a \in Inputs, NEW F, NEW G, Values(F, t, a), Sums(G, a)
      PROVE  /\ Subtotal(G, 1, 0) \in 0 .. 1 + 0 - 1
             /\ \A i \in 0 .. Len(e) - 1 :
                  (1 >= N /\ 0 >= N => Cut(p, 1 + 0 - 1, i) % 2 = 0) =>
                    Value(F, e[i + 1]) = BitOf(Subtotal(G, 1, 0) - Cut(p, 1 + 0 - 1, i), p)
  <2>1. Subtotal(G, 1, 0) = 0
    BY <1>6, SubtotalStarts
  <2>2. Value(F, 1) = 1
    <3>1. F \in [Nat -> {0, 1}] /\ F[0] = 0 /\ 1 \in Nat
      BY <1>6 DEF Values
    <3> QED
      BY <3>1, ValueFacts
  <2>3. 0 - Cut(p, 1 + 0 - 1, 0) = p /\ p \in p .. 2 * p - 1
    BY <1>2, <1>3 DEF Cut
  <2>4. BitOf(0 - Cut(p, 1 + 0 - 1, 0), p) = 1
    BY <1>2, <2>3, BitOfSmall
  <2>5. \A i \in 0 .. Len(e) - 1 : i = 0 /\ e[i + 1] = 1
    BY <1>5
  <2> QED
    BY <2>1, <2>2, <2>4, <2>5
<1>7. BufferMeans(t, e, n, 1, 0)
  BY <1>6 DEF BufferMeans, p
<1>8. \A i \in DOMAIN e : Kept(t, e[i], Added(1, 0))
  BY <1>4, <1>5
<1>9. BufferInv(t, e, 0, n, 1, 0)
  BY <1>3, <1>5, <1>7, <1>8 DEF BufferInv, p
<1> QED
  BY <1>9 DEF e

LEMMA EmptyMeans ==
  ASSUME NEW t, t = <<>>
  PROVE  Ordered(t) /\ t \in Seq(Triples)
BY DEF Ordered

LEMMA MeansStarts == (\E pc \in {"off", "rows"} : BddMain(pc)) => MeansInv'
<1> SUFFICES ASSUME NEW pc \in {"off", "rows"}, BddMain(pc) PROVE MeansInv'
  OBVIOUS
<1>1. /\ dpc' = pc /\ m' = M /\ col' = 1 /\ row' = 0
      /\ Var' = ColumnVar(NUMVAR - 1, 1) /\ Var2' = N - 1
      /\ nbuf' = 0 /\ pBuf' = <<1>> /\ pSkip' = {} /\ nodes' = <<>> /\ stack' = <<>>
  BY DEF BddMain
<1>2. M \in Nat /\ 1 < M /\ NUMVAR \in Nat /\ M \in 2 .. M
  BY SizeOfOutput, NumberOfVariables
<1>3. Ordered(nodes') /\ nodes' \in Seq(Triples)
  BY <1>1, EmptyMeans
<1>4. BufferInv(nodes', pBuf', nbuf', m', col', row')
  BY <1>1, <1>2, <1>3, FirstBuffer
<1>5. StackInv'
  BY <1>1, <1>2 DEF StackInv
<1>6. ColumnsInv'
  BY <1>1, <1>2, <1>4, TopVarNext DEF ColumnsInv
<1>7. pBuf' \in Seq(Nat)
  BY <1>1
<1> QED
  BY <1>1, <1>2, <1>3, <1>5, <1>6, <1>7 DEF MeansInv

LEMMA MeansBegins == (\E pc \in {"off", "rows"} : BddInit(pc)) => MeansInv
<1> SUFFICES ASSUME NEW pc \in {"off", "rows"}, BddInit(pc) PROVE MeansInv
  OBVIOUS
<1>1. /\ dpc = pc /\ m = M /\ col = 1 /\ row = 0
      /\ Var = ColumnVar(NUMVAR - 1, 1) /\ Var2 = N - 1
      /\ nbuf = 0 /\ pBuf = <<1>> /\ pSkip = {} /\ nodes = <<>> /\ stack = <<>>
  BY DEF BddInit
<1>2. M \in Nat /\ 1 < M /\ NUMVAR \in Nat /\ M \in 2 .. M
  BY SizeOfOutput, NumberOfVariables
<1>3. Ordered(nodes) /\ nodes \in Seq(Triples)
  BY <1>1, EmptyMeans
<1>4. BufferInv(nodes, pBuf, nbuf, m, col, row)
  BY <1>1, <1>2, <1>3, FirstBuffer
<1>5. StackInv
  BY <1>1, <1>2 DEF StackInv
<1>6. ColumnsInv
  BY <1>1, <1>2, <1>4, TopVarNext DEF ColumnsInv
<1>7. pBuf \in Seq(Nat)
  BY <1>1
<1> QED
  BY <1>1, <1>2, <1>3, <1>5, <1>6, <1>7 DEF MeansInv

LEMMA RowStepMeans == BddInv /\ MeansInv /\ RowStep => MeansInv'
<1> SUFFICES ASSUME BddInv, MeansInv, RowStep PROVE MeansInv'
  OBVIOUS
<1>1. /\ ColumnsInv /\ dpc = "rows" /\ Ordered(nodes) /\ pSkip = {} /\ pBuf \in Seq(Nat)
      /\ Table(nodes) /\ pBuf \in Seq(Literals(nodes)) /\ nodes \in Seq(Triples)
      /\ m \in 0 .. M /\ col \in Nat /\ row \in 0 .. col /\ col < m - 1
      /\ M \in Nat /\ 1 < M
  BY SizeOfOutput DEF MeansInv, BddInv, TableInv, Table, RowStep
<1>2. /\ Var = TopVar(col) /\ col >= 1 /\ Var2 = TopVar(m - 1) /\ stack = <<>> /\ m >= 2
      /\ BufferInv(nodes, pBuf, nbuf, m, col, row)
      /\ \A o \in m .. M - 1 : OutputMeans(nodes, pOutputs[o], o)
  BY <1>1 DEF ColumnsInv
<1> DEFINE p == TwoTo(m - col - 1)
           q == TwoTo(m - col - 2)
<1>3. RowIs(p, q)
  BY <1>1, <1>2 DEF RowIs, BufferInv, Shaped
<1>4. /\ UNCHANGED <<dpc, m, Var2, pOutputs, stack>> /\ Row
      /\ IF row < col THEN row' = row + 1 /\ col' = col /\ Var' = Var
         ELSE row' = 0 /\ col' = col + 1 /\ Var' = ColumnVar(Var, col + 1)
  BY DEF RowStep
<1>5. <<col', row'>> = IF row < col THEN <<col, row + 1>> ELSE <<col + 1, 0>>
  BY <1>4
<1> HIDE DEF p, q
<1>6. /\ Ordered(nodes') /\ Extends(nodes, nodes') /\ nodes' \in Seq(Triples)
      /\ pSkip' = {} /\ nbuf' \in 0 .. 2 * M
      /\ BufferInv(nodes', pBuf', nbuf', m, col', row')
  BY <1>1, <1>2, <1>3, <1>4, <1>5, RowBuffer DEF BufferInv
<1>7. Var' = TopVar(col')
  <2>1. col \in 0 .. M - 2
    BY <1>1
  <2> QED
    BY <1>2, <1>4, <2>1, TopVarNext
<1>8. col' >= 1 /\ col' <= m - 1 /\ (col' = m - 1 => row' = 0)
  BY <1>1, <1>2, <1>4
<1>9. \A o \in m .. M - 1 : OutputMeans(nodes', pOutputs'[o], o)
  BY <1>1, <1>2, <1>4, <1>6, MeansMore
<1>10. ColumnsInv'
  BY <1>1, <1>2, <1>4, <1>6, <1>7, <1>8, <1>9 DEF ColumnsInv
<1>11. StackInv'
  <2>1. stack' = <<>> /\ NUMVAR \in Nat
    BY <1>2, <1>4, NumberOfVariables
  <2> QED
    BY <2>1 DEF StackInv
<1>12. pBuf' \in Seq(Nat)
  BY <1>6 DEF BufferInv
<1> QED
  BY <1>1, <1>4, <1>6, <1>10, <1>11, <1>12 DEF MeansInv

LEMMA OutputStepMeans == BddInv /\ MeansInv /\ OutputStep => MeansInv'
<1> SUFFICES ASSUME BddInv, MeansInv, OutputStep PROVE MeansInv'
  OBVIOUS
<1>1. /\ ColumnsInv /\ dpc = "rows" /\ Ordered(nodes) /\ pSkip = {}
      /\ Table(nodes) /\ pBuf \in Seq(Literals(nodes)) /\ nodes \in Seq(Triples)
      /\ m \in 1 .. M /\ col >= m - 1 /\ col \in Nat /\ M \in Nat /\ 1 < M /\ N \in Nat /\ M = 2 * N
      /\ pOutputs \in [0 .. M - 1 -> Literals(nodes)]
  BY SizeOfOutput DEF MeansInv, BddInv, TableInv, Table, OutputStep, M
<1>2. LastColumnIs
  <2>1. m # 1 => col = m - 1 /\ row = 0 /\ m >= 2
    BY <1>1 DEF ColumnsInv
  <2> QED
    BY <1>1, <2>1 DEF LastColumnIs, ColumnsInv
<1> DEFINE r == LastColumn
           l == Output(Last(r.out))
<1>3. /\ r.nodes \in Seq(Triples) /\ Ordered(r.nodes) /\ Extends(nodes, r.nodes)
      /\ OutputMeans(r.nodes, l, m - 1)
  BY <1>2, OutputIs
<1>4. /\ nodes' = r.nodes /\ pOutputs' = [pOutputs EXCEPT ![m - 1] = l]
      /\ Var2' = (IF m <= N THEN Var2 + (m - 1) ELSE Var2 + (M - m))
      /\ m' = m - 1 /\ col' = 1 /\ row' = 0 /\ nbuf' = 0 /\ pBuf' = <<1>>
      /\ Var' = ColumnVar(NUMVAR - 1, 1) /\ UNCHANGED <<dpc, pSkip, stack>>
  BY DEF OutputStep, FirstColumn
<1> HIDE DEF r, l
<1>5. Ordered(nodes') /\ nodes' \in Seq(Triples) /\ Extends(nodes, nodes')
  BY <1>3, <1>4
<1>6. m' >= 2 => BufferInv(nodes', pBuf', nbuf', m', col', row') /\ col' <= m' - 1
                 /\ (col' = m' - 1 => row' = 0)
  <2> SUFFICES ASSUME m' >= 2
               PROVE  BufferInv(nodes', pBuf', nbuf', m', col', row') /\ col' <= m' - 1
                      /\ (col' = m' - 1 => row' = 0)
    OBVIOUS
  <2>1. m' \in 2 .. M
    BY <1>1, <1>4
  <2> QED
    BY <1>4, <1>5, <2>1, FirstBuffer
<1>7. m' > 0 => Var2' = TopVar(m' - 1)
  <2> SUFFICES ASSUME m' > 0 PROVE Var2' = TopVar(m' - 1)
    OBVIOUS
  <2> DEFINE c == m - 2
  <2>1. c \in 0 .. M - 2 /\ m' - 1 = c /\ m - 1 = c + 1
    BY <1>1, <1>4
  <2>2. Var2 = TopVar(c + 1)
    BY <1>1, <2>1 DEF ColumnsInv
  <2> HIDE DEF c
  <2>3. TopVar(c) \in Int /\ TopVar(c + 1) = ColumnVar(TopVar(c), c + 1)
    BY <2>1, TopVarNext
  <2>4. CASE m <= N
    <3>1. TopVar(c + 1) = TopVar(c) - (c + 1)
      BY <1>1, <2>1, <2>3, <2>4 DEF ColumnVar
    <3> QED
      BY <1>1, <1>4, <2>1, <2>2, <2>3, <2>4, <3>1
  <2>5. CASE ~(m <= N)
    <3>1. TopVar(c + 1) = TopVar(c) - (M - (c + 1) - 1)
      BY <1>1, <2>1, <2>3, <2>5 DEF ColumnVar
    <3> QED
      BY <1>1, <1>4, <2>1, <2>2, <2>3, <2>5, <3>1
  <2> QED
    BY <2>4, <2>5
<1>8. ASSUME NEW o \in m' .. M - 1 PROVE OutputMeans(nodes', pOutputs'[o], o)
  <2>1. o \in 0 .. M - 1 /\ m - 1 \in 0 .. M - 1
    BY <1>1, <1>4
  <2>2. CASE o = m - 1
    <3>1. pOutputs'[o] = l
      BY <1>1, <1>4, <2>1, <2>2
    <3> QED
      BY <1>3, <1>4, <2>2, <3>1
  <2>3. CASE o # m - 1
    <3>1. pOutputs'[o] = pOutputs[o] /\ o \in m .. M - 1
      BY <1>1, <1>4, <2>1, <2>3
    <3>2. OutputMeans(nodes, pOutputs[o], o)
      BY <1>1, <3>1 DEF ColumnsInv
    <3> QED
      BY <1>1, <1>5, <3>1, <3>2, MeansMore
  <2> QED
    BY <2>2, <2>3
<1>9. ColumnsInv'
  <2>1. stack' = <<>>
    BY <1>1, <1>4 DEF ColumnsInv
  <2>2. Var' = TopVar(col') /\ col' >= 1
    BY <1>4, TopVarNext
  <2> QED
    BY <1>4, <1>6, <1>7, <1>8, <2>1, <2>2 DEF ColumnsInv
<1>10. StackInv'
  <2>1. stack' = <<>> /\ NUMVAR \in Nat
    BY <1>1, <1>4, NumberOfVariables DEF ColumnsInv
  <2> QED
    BY <2>1 DEF StackInv
<1>11. pSkip' = {} /\ nbuf' \in 0 .. 2 * M /\ pBuf' \in Seq(Nat)
  BY <1>1, <1>4
<1> QED
  BY <1>1, <1>4, <1>5, <1>9, <1>10, <1>11 DEF MeansInv

-----------------------------------------------------------------------------
(* The count goes down.                                                    *)

LEMMA VarOfRange ==
  ASSUME NEW t \in Seq(Triples), Ordered(t), NEW l \in Named(t)
  PROVE  VarOf(t, l) \in 0 .. NUMVAR
<1>1. l \in Nat /\ l < 2 * (Len(t) + 1) /\ Len(t) \in Nat /\ NUMVAR \in Nat
  BY NumberOfVariables DEF Named
<1>2. CASE l < 2
  BY <1>1, <1>2 DEF VarOf
<1>3. CASE ~(l < 2)
  <2> DEFINE n == Len(t)
             h == l \div 2
  <2>1. n \in Nat /\ l < 2 * (n + 1)
    BY <1>1
  <2> HIDE DEF n
  <2>2. h \in 1 .. n
    BY <1>1, <1>3, <2>1
  <2>3. h \in DOMAIN t
    BY <2>2 DEF n
  <2>4. t[h][1] \in 0 .. NUMVAR - 1
    BY <2>3 DEF Ordered
  <2> QED
    BY <1>1, <1>3, <2>4 DEF VarOf
<1> QED
  BY <1>2, <1>3

\* The children of a literal are further down.
LEMMA ChildrenBelow ==
  ASSUME Table(nodes), Ordered(nodes), NEW l \in Named(nodes), l >= 2
  PROVE  /\ l \div 2 \in DOMAIN nodes /\ VarOf(nodes, l) = nodes[l \div 2][1]
         /\ nodes[l \div 2][1] \in 0 .. NUMVAR - 1
         /\ BddThen(l) \in Named(nodes) /\ VarOf(nodes, BddThen(l)) > VarOf(nodes, l)
         /\ VarOf(nodes, BddThen(l)) # NUMVAR - 1
         /\ BddElse(l) \in Named(nodes) /\ VarOf(nodes, BddElse(l)) > VarOf(nodes, l)
         /\ VarOf(nodes, BddElse(l)) # NUMVAR - 1
<1> DEFINE k == l \div 2
           L == Len(nodes)
<1>1. l \in Nat /\ l < 2 * (L + 1) /\ L \in Nat /\ nodes \in Seq(Triples)
  BY DEF Named, Table
<1>2. k \in 1 .. L
  <2> HIDE DEF L
  <2> QED
    BY <1>1
<1>3. k \in DOMAIN nodes
  BY <1>1, <1>2
<1> HIDE DEF k
<1>4. ASSUME NEW e \in {nodes[k][2], nodes[k][3]}
      PROVE  /\ e \in Named(nodes) /\ VarOf(nodes, e) > nodes[k][1] /\ VarOf(nodes, e) # NUMVAR - 1
             /\ \A c : /\ NotIf(c, e) \in Named(nodes)
                       /\ VarOf(nodes, NotIf(c, e)) = VarOf(nodes, e)
  <2>1. e \in Nat /\ VarOf(nodes, e) > nodes[k][1] /\ VarOf(nodes, e) # NUMVAR - 1
    BY <1>3 DEF Ordered
  <2>2. e < 2 * k
    BY <1>3 DEF Table
  <2>3. e \in Named(nodes)
    <3>1. 2 * k < 2 * (L + 1) /\ k \in Int /\ L + 1 \in Int
      <4> HIDE DEF L
      <4> QED
        BY <1>1, <1>2
    <3>2. e < 2 * (L + 1)
      <4> HIDE DEF L
      <4> QED
        BY <1>1, <2>1, <2>2, <3>1
    <3> QED
      BY <2>1, <3>2 DEF Named
  <2>4. Not(e) \in Named(nodes) /\ VarOf(nodes, Not(e)) = VarOf(nodes, e)
    BY <1>1, <2>3, NotNamed
  <2> QED
    BY <2>1, <2>3, <2>4 DEF NotIf
<1>5. VarOf(nodes, l) = nodes[k][1]
  BY <1>1 DEF VarOf, k
<1>6. BddThen(l) = NotIf(l % 2, nodes[k][2]) /\ BddElse(l) = NotIf(l % 2, nodes[k][3])
  BY DEF BddThen, BddElse, k
<1>7. nodes[k][1] \in 0 .. NUMVAR - 1
  BY <1>3 DEF Ordered
<1>8. /\ BddThen(l) \in Named(nodes) /\ VarOf(nodes, BddThen(l)) = VarOf(nodes, nodes[k][2])
      /\ BddElse(l) \in Named(nodes) /\ VarOf(nodes, BddElse(l)) = VarOf(nodes, nodes[k][3])
  BY <1>4, <1>6
<1>9. /\ VarOf(nodes, nodes[k][2]) > nodes[k][1] /\ VarOf(nodes, nodes[k][2]) # NUMVAR - 1
      /\ VarOf(nodes, nodes[k][3]) > nodes[k][1] /\ VarOf(nodes, nodes[k][3]) # NUMVAR - 1
  BY <1>4
<1> QED
  BY <1>3, <1>5, <1>7, <1>8, <1>9 DEF k

LEMMA OneOnStack ==
  ASSUME Table(nodes), Ordered(nodes), NEW l \in Named(nodes), stack' = <<l>>, nodes' = nodes
  PROVE  StackInv'
<1>1. nodes \in Seq(Triples) /\ NUMVAR \in Nat /\ NUMVAR >= 4
  BY NumberOfVariables DEF Table
<1>2. VarOf(nodes, l) \in 0 .. NUMVAR
  BY <1>1, VarOfRange
<1>3. Len(stack') = 1 /\ DOMAIN stack' = {1} /\ stack'[1] = l
  OBVIOUS
<1> QED
  BY <1>1, <1>2, <1>3 DEF StackInv

LEMMA FrontFacts ==
  ASSUME NEW S, NEW e \in Seq(S), e # <<>>
  PROVE  /\ Len(e) \in Nat \ {0} /\ Front(e) \in Seq(S) /\ Len(Front(e)) = Len(e) - 1
         /\ \A i \in 1 .. Len(e) - 1 : Front(e)[i] = e[i]
         /\ Last(e) = e[Len(e)] /\ Len(e) \in DOMAIN e
<1>1. Len(e) \in Nat \ {0}
  OBVIOUS
<1>2. Front(e) = [i \in 1 .. Len(e) - 1 |-> e[i]]
  BY <1>1 DEF Front
<1> QED
  BY <1>1, <1>2 DEF Last

LEMMA Joined ==
  ASSUME NEW S, NEW e \in Seq(S), NEW w \in Seq(S)
  PROVE  /\ e \o w \in Seq(S) /\ Len(e \o w) = Len(e) + Len(w)
         /\ \A i \in 1 .. Len(e) + Len(w) :
              (e \o w)[i] = IF i <= Len(e) THEN e[i] ELSE w[i - Len(e)]
<1>1. e \o w \in Seq(S)
  OBVIOUS
<1>2. Len(e \o w) = Len(e) + Len(w)
  OBVIOUS
<1>3. \A i \in 1 .. Len(e) + Len(w) :
         (e \o w)[i] = IF i <= Len(e) THEN e[i] ELSE w[i - Len(e)]
  OBVIOUS
<1> QED
  BY <1>1, <1>2, <1>3

LEMMA TwoMore ==
  ASSUME NEW S, NEW e \in Seq(S), NEW x \in S, NEW y \in S
  PROVE  LET z == e \o <<x, y>>
         IN /\ z \in Seq(S) /\ Len(z) = Len(e) + 2 /\ DOMAIN z = 1 .. Len(e) + 2
            /\ \A i \in 1 .. Len(e) : z[i] = e[i]
            /\ z[Len(e) + 1] = x /\ z[Len(e) + 2] = y
<1> DEFINE w == <<x, y>>
<1>1. w \in Seq(S) /\ Len(w) = 2 /\ w[1] = x /\ w[2] = y
  OBVIOUS
<1> HIDE DEF w
<1>2. Len(e) \in Nat
  OBVIOUS
<1> DEFINE z == e \o w
<1>3. /\ z \in Seq(S) /\ Len(z) = Len(e) + Len(w)
      /\ \A i \in 1 .. Len(e) + Len(w) : z[i] = IF i <= Len(e) THEN e[i] ELSE w[i - Len(e)]
  <2>1. w \in Seq(S)
    BY <1>1
  <2> QED
    BY ONLY <2>1, Joined, e \in Seq(S) DEF z
<1> HIDE DEF z
<1>4. Len(z) = Len(e) + 2 /\ DOMAIN z = 1 .. Len(e) + 2
  BY <1>1, <1>3
<1>5. \A i \in 1 .. Len(e) + 2 : z[i] = IF i <= Len(e) THEN e[i] ELSE w[i - Len(e)]
  BY <1>1, <1>3
<1>6. \A i \in 1 .. Len(e) : z[i] = e[i]
  BY <1>2, <1>5
<1>7. z[Len(e) + 1] = x /\ z[Len(e) + 2] = y
  <2> DEFINE n == Len(e)
  <2>1. n + 1 \in 1 .. n + 2 /\ n + 2 \in 1 .. n + 2 /\ ~(n + 1 <= n) /\ ~(n + 2 <= n)
        /\ (n + 1) - n = 1 /\ (n + 2) - n = 2
    BY <1>2
  <2> QED
    BY <1>1, <1>5, <2>1
<1> QED
  BY <1>3, <1>4, <1>6, <1>7 DEF z, w

LEMMA VisitStack ==
  ASSUME BddInv, MeansInv, Visit, nodes' = nodes
  PROVE  StackInv'
<1> DEFINE i == Last(stack)
           n == Len(stack)
           S == Literals(nodes)
<1>1. /\ Table(nodes) /\ Ordered(nodes) /\ nodes \in Seq(Triples) /\ stack \in Seq(S) /\ stack # <<>>
      /\ NUMVAR \in Nat /\ NUMVAR >= 4 /\ n <= NUMVAR
      /\ \A k \in DOMAIN stack :
           /\ stack[k] \in Named(nodes) /\ VarOf(nodes, stack[k]) >= k - 1
           /\ k >= 2 => VarOf(nodes, stack[k]) # NUMVAR - 1
  BY NumberOfVariables DEF BddInv, TableInv, WalkInv, MeansInv, StackInv, Visit, Table
<1>2. /\ n \in Nat \ {0} /\ Front(stack) \in Seq(S) /\ Len(Front(stack)) = n - 1
      /\ \A k \in 1 .. n - 1 : Front(stack)[k] = stack[k]
      /\ i = stack[n] /\ n \in DOMAIN stack /\ DOMAIN stack = 1 .. n
  BY <1>1, FrontFacts
<1>3. i \in Named(nodes) /\ VarOf(nodes, i) >= n - 1 /\ (n >= 2 => VarOf(nodes, i) # NUMVAR - 1)
  BY <1>1, <1>2
<1>4. i \in S
  BY <1>1, <1>2
<1>5. \/ stack' = Front(stack)
      \/ i >= 2 /\ stack' = Front(stack) \o <<BddElse(i), BddThen(i)>>
  BY DEF Visit
<1> HIDE DEF i, n
<1> DEFINE f == Front(stack)
<1>6. CASE stack' = f
  <2>1. f \in Seq(S) /\ Len(f) = n - 1 /\ \A k \in 1 .. n - 1 : f[k] = stack[k]
    BY <1>2
  <2> HIDE DEF f
  <2>2. DOMAIN f = 1 .. n - 1
    BY <1>2, <2>1
  <2> QED
    BY <1>1, <1>2, <1>6, <2>1, <2>2 DEF StackInv
<1>7. CASE i >= 2 /\ stack' = f \o <<BddElse(i), BddThen(i)>>
  <2> DEFINE x == BddElse(i)
             y == BddThen(i)
             z == f \o <<x, y>>
  <2>1. /\ x \in Named(nodes) /\ VarOf(nodes, x) > VarOf(nodes, i) /\ VarOf(nodes, x) # NUMVAR - 1
        /\ y \in Named(nodes) /\ VarOf(nodes, y) > VarOf(nodes, i) /\ VarOf(nodes, y) # NUMVAR - 1
        /\ VarOf(nodes, i) \in 0 .. NUMVAR - 1
    BY <1>1, <1>3, <1>7, ChildrenBelow
  <2>2. x \in S /\ y \in S
    BY <1>1, <1>4, <1>7, ChildrenAreLiterals
  <2>3. VarOf(nodes, x) \in Int /\ VarOf(nodes, y) \in Int
    BY <1>1, <2>1, VarOfType
  <2> HIDE DEF x, y
  <2>4. f \in Seq(S) /\ Len(f) = n - 1 /\ \A k \in 1 .. n - 1 : f[k] = stack[k]
    BY <1>2
  <2> HIDE DEF f
  <2>5. /\ Len(z) = Len(f) + 2 /\ DOMAIN z = 1 .. Len(f) + 2
        /\ \A k \in 1 .. Len(f) : z[k] = f[k]
        /\ z[Len(f) + 1] = x /\ z[Len(f) + 2] = y
    BY <2>2, <2>4, TwoMore
  <2> HIDE DEF z
  <2>6. /\ Len(z) = n + 1 /\ DOMAIN z = 1 .. n + 1
        /\ \A k \in 1 .. n - 1 : z[k] = stack[k]
        /\ z[n] = x /\ z[n + 1] = y
    <3>1. (n - 1) + 2 = n + 1 /\ (n - 1) + 1 = n
      BY <1>2
    <3> QED
      BY <2>4, <2>5, <3>1
  <2>7. n + 1 <= NUMVAR
    <3>1. CASE n = 1
      BY <1>1, <3>1
    <3>2. CASE n # 1
      BY <1>1, <1>2, <1>3, <2>1, <3>2
    <3> QED
      BY <3>1, <3>2
  <2>8. ASSUME NEW k \in 1 .. n + 1
        PROVE  /\ z[k] \in Named(nodes) /\ VarOf(nodes, z[k]) >= k - 1
               /\ k >= 2 => VarOf(nodes, z[k]) # NUMVAR - 1
    <3>1. CASE k \in 1 .. n - 1
      <4>1. z[k] = stack[k] /\ k \in DOMAIN stack
        BY <1>2, <2>6, <3>1
      <4> QED
        BY <1>1, <4>1
    <3>2. CASE k = n
      BY <1>2, <1>3, <2>1, <2>3, <2>6, <3>2
    <3>3. CASE k = n + 1
      BY <1>2, <1>3, <2>1, <2>3, <2>6, <3>3
    <3> QED
      BY <1>2, <3>1, <3>2, <3>3
  <2>9. stack' = z
    BY <1>7 DEF x, y, z
  <2> QED
    BY <2>6, <2>7, <2>8, <2>9 DEF StackInv
<1> QED
  BY <1>5, <1>6, <1>7

LEMMA CountMeans == BddInv /\ MeansInv /\ BddCountNodesArray => MeansInv'
<1> SUFFICES ASSUME BddInv, MeansInv, BddCountNodesArray PROVE MeansInv'
  OBVIOUS
<1>1. UNCHANGED <<nodes, pOutputs, pBuf, nbuf, pSkip>>
  BY DEF BddCountNodesArray
<1>2. Table(nodes) /\ Ordered(nodes) /\ M \in Nat /\ 1 < M
  BY SizeOfOutput DEF BddInv, TableInv, MeansInv
<1>3. /\ dpc \in {"count", "unmark"} \/ (dpc = "rows" /\ m = 0)
      /\ dpc' \in {"count", "unmark", "done"}
  <2>1. CASE CountStarts
    BY <2>1 DEF CountStarts, Walk
  <2>2. CASE Visit
    <3>1. dpc \in {"count", "unmark"} /\ dpc' = dpc
      BY <2>2 DEF Visit
    <3> QED
      BY <3>1
  <2>3. CASE WalkEnds
    <3>1. dpc \in {"count", "unmark"} /\ (dpc' = dpc \/ dpc' = "unmark" \/ dpc' = "done")
      BY <2>3 DEF WalkEnds, Walk
    <3> QED
      BY <3>1
  <2> QED
    BY <2>1, <2>2, <2>3 DEF BddCountNodesArray
<1>4. \A o \in 0 .. M - 1 : OutputMeans(nodes, pOutputs[o], o)
  BY <1>3 DEF MeansInv, ColumnsInv
<1>5. StackInv'
  <2>1. ASSUME NEW i \in 0 .. M - 1, stack' = <<pOutputs[i]>> PROVE StackInv'
    <3>1. pOutputs[i] \in Named(nodes)
      BY <1>4 DEF OutputMeans
    <3> QED
      BY <1>1, <1>2, <2>1, <3>1, OneOnStack
  <2>2. CASE Visit
    BY <1>1, <2>2, VisitStack
  <2>3. CASE CountStarts
    <3>1. stack' = <<pOutputs[0]>> /\ 0 \in 0 .. M - 1
      BY <1>2, <2>3 DEF CountStarts, Walk
    <3> QED
      BY <2>1, <3>1
  <2>4. CASE WalkEnds
    <3>1. CASE m + 1 < M
      <4>1. stack' = <<pOutputs[m + 1]>>
        BY <2>4, <3>1 DEF WalkEnds, Walk
      <4>2. m + 1 \in 0 .. M - 1
        BY <1>2, <3>1 DEF BddInv, TableInv
      <4> QED
        BY <2>1, <4>1, <4>2
    <3>2. CASE ~(m + 1 < M) /\ dpc = "count"
      <4>1. stack' = <<pOutputs[0]>> /\ 0 \in 0 .. M - 1
        BY <1>2, <2>4, <3>2 DEF WalkEnds, Walk
      <4> QED
        BY <2>1, <4>1
    <3>3. CASE ~(m + 1 < M) /\ dpc # "count"
      <4>1. stack' = stack
        BY <2>4, <3>3 DEF WalkEnds
      <4> QED
        BY <1>1, <4>1 DEF MeansInv, StackInv
    <3> QED
      BY <3>1, <3>2, <3>3
  <2> QED
    BY <2>2, <2>3, <2>4 DEF BddCountNodesArray
<1> QED
  BY <1>1, <1>3, <1>4, <1>5 DEF MeansInv

LEMMA MeansStep == BddInv /\ MeansInv /\ [Next]_vars => MeansInv'
<1> SUFFICES ASSUME BddInv, MeansInv, [Next]_vars PROVE MeansInv'
  OBVIOUS
<1>1. CASE UNCHANGED bddVars
  BY <1>1 DEF bddVars, MeansInv, ColumnsInv, StackInv
<1>2. ASSUME NEW pc \in {"off", "rows"}, BddMain(pc) PROVE MeansInv'
  BY <1>2, MeansStarts
<1>3. CASE BddRuns
  BY <1>3, RowStepMeans, OutputStepMeans DEF BddRuns, bdd_rows
<1>4. CASE ProgramRuns
  BY <1>1, <1>4, CountMeans DEF ProgramRuns, programVars
<1>5. CASE BiosActs
  BY <1>1, <1>2, <1>5 DEF BiosActs, Begins
<1>6. CASE ProgramEnds \/ Reset
  BY <1>1, <1>2, <1>6 DEF ProgramEnds, Reset, run_and_time, ProgramsOff, programVars
<1>7. CASE UNCHANGED vars
  BY <1>1, <1>7 DEF vars, programVars
<1> QED
  BY <1>3, <1>4, <1>5, <1>6, <1>7 DEF Next

-----------------------------------------------------------------------------
(* What is reached from an output.                                         *)

\* Every choice of the variables gives every node a value.
LEMMA ValuesExist ==
  ASSUME Table(nodes), Ordered(nodes), NEW a \in Inputs
  PROVE  \E F : Values(F, nodes, a)
<1> DEFINE L == Len(nodes)
           Upto(F, i) == /\ F \in [Nat -> {0, 1}] /\ F[0] = 0
                         /\ \A k \in 1 .. i :
                              F[k] = IF a[nodes[k][1]] = 1 THEN Value(F, nodes[k][2])
                                     ELSE Value(F, nodes[k][3])
           S == {i \in 0 .. L : \E F : Upto(F, i)}
<1>1. L \in Nat /\ DOMAIN nodes = 1 .. L
  BY DEF Table
<1> HIDE DEF L
<1>2. 0 \in S
  <2> DEFINE F == [k \in Nat |-> 0]
  <2>1. F \in [Nat -> {0, 1}] /\ F[0] = 0
    OBVIOUS
  <2> HIDE DEF F
  <2>2. Upto(F, 0)
    BY <2>1
  <2> QED
    BY <1>1, <2>2
<1>3. ASSUME NEW i \in 0 .. L - 1, i \in S PROVE i + 1 \in S
  <2>1. PICK F : Upto(F, i)
    BY <1>3
  <2> DEFINE n == i + 1
             x == IF a[nodes[n][1]] = 1 THEN Value(F, nodes[n][2]) ELSE Value(F, nodes[n][3])
             H == [F EXCEPT ![n] = x]
  <2>2. n \in 1 .. L /\ n \in Nat \ {0} /\ i \in Nat /\ F \in [Nat -> {0, 1}] /\ F[0] = 0
    BY <1>1, <2>1
  <2>3. ASSUME NEW k \in 1 .. n, NEW e \in {nodes[k][2], nodes[k][3]}
        PROVE  e \in Nat /\ e \div 2 \in Nat /\ e \div 2 < k
    <3>1. k \in DOMAIN nodes /\ k \in Nat
      BY <1>1, <2>2
    <3>2. e \in Nat /\ e < 2 * k
      BY <3>1 DEF Table, Ordered
    <3> QED
      BY <3>1, <3>2
  <2>4. x \in {0, 1}
    <3>1. n \in 1 .. n
      BY <2>2
    <3>2. nodes[n][2] \in Nat /\ nodes[n][3] \in Nat
      BY <2>3, <3>1
    <3> QED
      BY <2>2, <3>2, ValueFacts
  <2> HIDE DEF x, n
  <2>5. H \in [Nat -> {0, 1}] /\ H[n] = x /\ \A k \in Nat : k # n => H[k] = F[k]
    BY <2>2, <2>4
  <2> HIDE DEF H
  <2>6. \A e \in Nat : e \div 2 # n /\ e \div 2 \in Nat => Value(H, e) = Value(F, e)
    BY <2>5 DEF Value
  <2>7. ASSUME NEW k \in 1 .. n
        PROVE  H[k] = IF a[nodes[k][1]] = 1 THEN Value(H, nodes[k][2]) ELSE Value(H, nodes[k][3])
    <3>1. Value(H, nodes[k][2]) = Value(F, nodes[k][2]) /\ Value(H, nodes[k][3]) = Value(F, nodes[k][3])
      <4>1. ASSUME NEW e \in {nodes[k][2], nodes[k][3]} PROVE Value(H, e) = Value(F, e)
        <5>1. e \in Nat /\ e \div 2 \in Nat /\ e \div 2 < k
          BY <2>3
        <5>2. e \div 2 # n
          BY <2>2, <5>1
        <5> QED
          BY <2>6, <5>1, <5>2
      <4> QED
        BY <4>1
    <3>2. CASE k = n
      BY <2>5, <3>1, <3>2 DEF x
    <3>3. CASE k # n
      <4>1. k \in 1 .. i /\ k \in Nat
        BY <2>2, <3>3 DEF n
      <4>2. H[k] = F[k]
        BY <2>5, <3>3, <4>1
      <4>3. F[k] = IF a[nodes[k][1]] = 1 THEN Value(F, nodes[k][2]) ELSE Value(F, nodes[k][3])
        BY <2>1, <4>1
      <4> QED
        BY <3>1, <4>2, <4>3
    <3> QED
      BY <3>2, <3>3
  <2>8. Upto(H, n)
    <3>1. H[0] = 0
      BY <2>2, <2>5
    <3> QED
      BY <2>5, <2>7, <3>1
  <2>9. \E F_1 : Upto(F_1, n)
    <3> HIDE DEF Upto
    <3> QED
      BY <2>8
  <2>10. n \in 0 .. L
    BY <1>1, <2>2
  <2> HIDE DEF Upto
  <2> QED
    BY <2>9, <2>10 DEF n
<1>4. L \in S
  <2> HIDE DEF S
  <2>1. 0 .. L \subseteq S
    BY <1>1, <1>2, <1>3, UpTo
  <2> QED
    BY <1>1, <2>1
<1>5. PICK F : Upto(F, L)
  BY <1>4
<1>6. Values(F, nodes, a)
  BY <1>1, <1>5 DEF Values
<1> QED
  BY <1>6

LEMMA ReachedDef ==
  ASSUME NEW o
  PROVE  Reached(o) =
           [v \in 0 .. NUMVAR |->
              IF v = 0 THEN {<<pOutputs[o], 0>>}
              ELSE UNION {Followed(p, v - 1) : p \in Reached(o)[v - 1]}]
<1> DEFINE first == {<<pOutputs[o], 0>>}
           All(T, v) == UNION {Followed(p, v) : p \in T}
           Eq(g, n) == g = [v \in 0 .. n |-> IF v = 0 THEN first ELSE All(g[v - 1], v - 1)]
           S == {n \in Nat : \E g : Eq(g, n)}
<1> HIDE DEF first, All
<1>1. 0 \in S
  <2>1. Eq([v \in 0 .. 0 |-> first], 0)
    OBVIOUS
  <2>2. \E g : Eq(g, 0)
    <3> HIDE DEF Eq
    <3> QED
      BY <2>1
  <2> HIDE DEF Eq
  <2> QED
    BY <2>2
<1>2. ASSUME NEW n \in Nat, n \in S PROVE n + 1 \in S
  <2>1. PICK g : Eq(g, n)
    BY <1>2
  <2> DEFINE h == [v \in 0 .. n + 1 |-> IF v = 0 THEN first ELSE All(g[v - 1], v - 1)]
  <2>2. ASSUME NEW v \in 0 .. n PROVE h[v] = g[v]
    BY <2>1
  <2>3. ASSUME NEW v \in 0 .. n + 1
        PROVE  h[v] = IF v = 0 THEN first ELSE All(h[v - 1], v - 1)
    <3>1. CASE v = 0
      BY <3>1
    <3>2. CASE v # 0
      <4>1. v - 1 \in 0 .. n
        BY <3>2
      <4>2. h[v - 1] = g[v - 1]
        BY <2>2, <4>1
      <4> QED
        BY <3>2, <4>2
    <3> QED
      BY <3>1, <3>2
  <2>4. Eq(h, n + 1)
    <3>1. h = [v \in 0 .. n + 1 |-> h[v]]
      OBVIOUS
    <3> HIDE DEF h
    <3> QED
      BY <2>3, <3>1
  <2>5. \E g_1 : Eq(g_1, n + 1)
    <3> HIDE DEF h, Eq
    <3> QED
      BY <2>4
  <2> HIDE DEF Eq
  <2> QED
    BY <2>5
<1>3. NUMVAR \in S
  <2> HIDE DEF S
  <2>1. Nat \subseteq S
    BY <1>1, <1>2, SetInduction
  <2> QED
    BY <2>1, NumberOfVariables
<1>4. PICK g : Eq(g, NUMVAR)
  BY <1>3
<1> DEFINE z == CHOOSE g_1 : Eq(g_1, NUMVAR)
<1>5. Eq(z, NUMVAR)
  BY <1>4
<1>6. Reached(o) = z
  BY DEF Reached, first, All
<1> QED
  BY <1>5, <1>6 DEF first, All

\* A pair that some values b of the variables below v lead to: whatever the
\* others are, the literal is as the output, and the sum lacks only theirs.
Leads(p, v, o, b) ==
  \A a \in Inputs : (\A i \in 0 .. v - 1 : a[i] = b[i]) =>
    \A F : \A G : Values(F, nodes, a) /\ Sums(G, a) =>
      Value(F, p[1]) = Value(F, pOutputs[o]) /\ p[2] + G[v] = G[0]

IsReached(p, v, o) ==
  /\ p[1] \in Named(nodes) /\ p[2] \in Nat /\ VarOf(nodes, p[1]) >= v
  /\ \E b \in Inputs : Leads(p, v, o, b)

\* The child of a literal that the value of its variable chooses has its value.
LEMMA ChildValue ==
  ASSUME Table(nodes), Ordered(nodes), NEW l \in Named(nodes), l >= 2,
         NEW a \in Inputs, NEW F, Values(F, nodes, a)
  PROVE  Value(F, l) = IF a[nodes[l \div 2][1]] = 1 THEN Value(F, BddThen(l)) ELSE Value(F, BddElse(l))
<1> DEFINE k == l \div 2
           t == nodes[k][2]
           e == nodes[k][3]
           b == a[nodes[k][1]] = 1
<1>1. k \in DOMAIN nodes /\ l \in Nat
  BY ChildrenBelow DEF Named
<1>2. F \in [Nat -> {0, 1}] /\ F[k] = IF b THEN Value(F, t) ELSE Value(F, e)
  BY <1>1 DEF Values
<1>3. t \in Nat /\ e \in Nat
  BY <1>1 DEF Ordered
<1>4. l % 2 \in {0, 1}
  BY <1>1
<1>5. \A i \in Nat : Value(F, NotIf(l % 2, i)) = IF l % 2 = 0 THEN Value(F, i) ELSE 1 - Value(F, i)
  BY <1>2, <1>4, ValueFacts DEF NotIf
<1>6. BddThen(l) = NotIf(l % 2, t) /\ BddElse(l) = NotIf(l % 2, e)
  BY DEF BddThen, BddElse
<1>7. Value(F, l) = IF l % 2 = 0 THEN F[k] ELSE 1 - F[k]
  BY DEF Value
<1> HIDE DEF k, t, e, b
<1>8. /\ Value(F, BddThen(l)) = IF l % 2 = 0 THEN Value(F, t) ELSE 1 - Value(F, t)
      /\ Value(F, BddElse(l)) = IF l % 2 = 0 THEN Value(F, e) ELSE 1 - Value(F, e)
  BY <1>3, <1>5, <1>6
<1>9. Value(F, l) = IF b THEN Value(F, BddThen(l)) ELSE Value(F, BddElse(l))
  BY <1>2, <1>7, <1>8
<1> QED
  BY <1>9 DEF b, k

LEMMA FollowedIsReached ==
  ASSUME Table(nodes), Ordered(nodes), NEW o, NEW v \in 0 .. NUMVAR - 1,
         NEW p, IsReached(p, v, o), NEW w \in Followed(p, v)
  PROVE  IsReached(w, v + 1, o)
<1> DEFINE l == p[1]
           here == l >= 2 /\ nodes[l \div 2][1] = v
<1>1. /\ l \in Named(nodes) /\ p[2] \in Nat /\ VarOf(nodes, l) >= v
      /\ NUMVAR \in Nat /\ Weight(v) \in Nat /\ nodes \in Seq(Triples) /\ v \in Nat
  BY NumberOfVariables, WeightType DEF IsReached, Table
<1>2. PICK b \in Inputs : Leads(p, v, o, b)
  BY DEF IsReached
<1>3. PICK x \in {0, 1} :
        /\ w[1] = IF here THEN (IF x = 1 THEN BddThen(l) ELSE BddElse(l)) ELSE l
        /\ w[2] = p[2] + x * Weight(v)
  <2>1. p[2] + 1 * Weight(v) = p[2] + Weight(v) /\ p[2] + 0 * Weight(v) = p[2]
    BY <1>1
  <2>2. CASE here
    <3>1. w = <<BddThen(l), p[2] + Weight(v)>> \/ w = <<BddElse(l), p[2]>>
      BY <2>2 DEF Followed
    <3> QED
      BY <2>1, <2>2, <3>1
  <2>3. CASE ~here
    <3>1. w = <<l, p[2] + Weight(v)>> \/ w = <<l, p[2]>>
      BY <2>3 DEF Followed
    <3> QED
      BY <2>1, <2>3, <3>1
  <2> QED
    BY <2>2, <2>3
<1> DEFINE c == [b EXCEPT ![v] = x]
<1>4. c \in Inputs /\ c[v] = x /\ \A i \in 0 .. v - 1 : c[i] = b[i]
  <2>1. \A i \in 0 .. v - 1 : i \in 0 .. NUMVAR - 1 /\ i # v
    BY <1>1
  <2> QED
    BY <2>1 DEF Inputs
<1>5. w[1] \in Named(nodes) /\ VarOf(nodes, w[1]) >= v + 1
  <2>1. CASE here
    <3>1. VarOf(nodes, l) = v
      BY <1>1, <2>1, ChildrenBelow
    <3>2. ASSUME NEW e \in {BddThen(l), BddElse(l)}
          PROVE  e \in Named(nodes) /\ VarOf(nodes, e) >= v + 1
      <4>1. e \in Named(nodes) /\ VarOf(nodes, e) > v
        BY <1>1, <2>1, <3>1, ChildrenBelow
      <4>2. VarOf(nodes, e) \in Int
        BY <1>1, <4>1, VarOfType
      <4> QED
        BY <1>1, <4>1, <4>2
    <3> QED
      BY <1>3, <2>1, <3>2
  <2>2. CASE ~here
    <3>1. VarOf(nodes, l) # v /\ VarOf(nodes, l) \in Int
      BY <1>1, <2>2, VarOfType DEF VarOf, Named
    <3> QED
      BY <1>1, <1>3, <2>2, <3>1
  <2> QED
    BY <2>1, <2>2
<1>6. w[2] \in Nat
  BY <1>1, <1>3
<1> HIDE DEF c
<1>7. ASSUME NEW a \in Inputs, \A i \in 0 .. (v + 1) - 1 : a[i] = c[i],
             NEW F, NEW G, Values(F, nodes, a), Sums(G, a)
      PROVE  Value(F, w[1]) = Value(F, pOutputs[o]) /\ w[2] + G[v + 1] = G[0]
  <2>1. a[v] = x /\ \A i \in 0 .. v - 1 : a[i] = b[i]
    <3>1. v \in 0 .. (v + 1) - 1 /\ \A i \in 0 .. v - 1 : i \in 0 .. (v + 1) - 1
      BY <1>1
    <3> QED
      BY <1>4, <1>7, <3>1
  <2>2. Value(F, l) = Value(F, pOutputs[o]) /\ p[2] + G[v] = G[0]
    BY <1>2, <1>7, <2>1 DEF Leads
  <2>3. w[2] + G[v + 1] = G[0]
    <3>1. G[v] = G[v + 1] + x * Weight(v)
      BY <1>7, <2>1 DEF Sums
    <3>2. G[v + 1] \in Nat
      <4>1. v + 1 \in 0 .. NUMVAR
        BY <1>1
      <4> QED
        BY <1>7, <4>1 DEF Sums
    <3>3. x * Weight(v) \in Nat
      BY <1>1
    <3> QED
      BY <1>1, <1>3, <2>2, <3>1, <3>2, <3>3
  <2>4. Value(F, w[1]) = Value(F, l)
    <3>1. CASE here
      <4>1. Value(F, l) = IF a[v] = 1 THEN Value(F, BddThen(l)) ELSE Value(F, BddElse(l))
        BY <1>1, <1>7, <3>1, ChildValue
      <4> QED
        BY <1>3, <2>1, <3>1, <4>1
    <3>2. CASE ~here
      BY <1>3, <3>2
    <3> QED
      BY <3>1, <3>2
  <2> QED
    BY <2>2, <2>3, <2>4
<1>8. Leads(w, v + 1, o, c)
  BY <1>7 DEF Leads
<1> QED
  BY <1>4, <1>5, <1>6, <1>8 DEF IsReached

LEMMA ReachedMeans ==
  ASSUME Table(nodes), Ordered(nodes), NEW o, OutputMeans(nodes, pOutputs[o], o), o \in Nat,
         NEW p \in Reached(o)[NUMVAR]
  PROVE  p[1] = (p[2] \div TwoTo(o)) % 2
<1> DEFINE R == Reached(o)
           S == {v \in 0 .. NUMVAR : \A x \in R[v] : IsReached(x, v, o)}
<1>1. NUMVAR \in Nat /\ nodes \in Seq(Triples)
  BY NumberOfVariables DEF Table
<1>2. R = [v \in 0 .. NUMVAR |->
             IF v = 0 THEN {<<pOutputs[o], 0>>} ELSE UNION {Followed(x, v - 1) : x \in R[v - 1]}]
  BY ReachedDef
<1> HIDE DEF R
<1>3. 0 \in S
  <2> DEFINE x == <<pOutputs[o], 0>>
             b == [v \in 0 .. NUMVAR - 1 |-> 0]
  <2>1. R[0] = {x} /\ 0 \in 0 .. NUMVAR
    BY <1>1, <1>2
  <2>2. x[1] = pOutputs[o] /\ x[2] = 0 /\ x[1] \in Named(nodes) /\ VarOf(nodes, x[1]) \in 0 .. NUMVAR
    BY <1>1, VarOfRange DEF OutputMeans
  <2>3. b \in Inputs
    BY DEF Inputs
  <2> HIDE DEF b, x
  <2>4. Leads(x, 0, o, b)
    <3> SUFFICES ASSUME NEW a \in Inputs, NEW F, NEW G, Values(F, nodes, a), Sums(G, a)
                 PROVE  Value(F, x[1]) = Value(F, pOutputs[o]) /\ x[2] + G[0] = G[0]
      BY DEF Leads
    <3>1. G[0] \in Nat
      BY <2>1 DEF Sums
    <3> QED
      BY <2>2, <3>1
  <2>5. IsReached(x, 0, o)
    BY <1>1, <2>2, <2>3, <2>4 DEF IsReached
  <2> QED
    BY <2>1, <2>5
<1>4. ASSUME NEW v \in 0 .. NUMVAR - 1, v \in S PROVE v + 1 \in S
  <2>1. v + 1 \in 0 .. NUMVAR /\ v + 1 # 0 /\ (v + 1) - 1 = v
    BY <1>1
  <2> DEFINE All(T, i) == UNION {Followed(x, i) : x \in T}
  <2>5. R = [i \in 0 .. NUMVAR |-> IF i = 0 THEN {<<pOutputs[o], 0>>} ELSE All(R[i - 1], i - 1)]
    BY <1>2
  <2> HIDE DEF All
  <2>6. R[v + 1] = All(R[v], v)
    <3>1. R[v + 1] = All(R[(v + 1) - 1], (v + 1) - 1)
      BY <2>1, <2>5
    <3> QED
      BY <2>1, <3>1
  <2>2. R[v + 1] = UNION {Followed(x, v) : x \in R[v]}
    BY <2>6 DEF All
  <2>3. ASSUME NEW w \in R[v + 1] PROVE IsReached(w, v + 1, o)
    <3>1. PICK x \in R[v] : w \in Followed(x, v)
      BY <2>2
    <3>2. IsReached(x, v, o)
      BY <1>4
    <3> QED
      BY <3>1, <3>2, FollowedIsReached
  <2> QED
    BY <2>1, <2>3
<1>5. NUMVAR \in S
  <2> HIDE DEF S
  <2>1. 0 .. NUMVAR \subseteq S
    BY <1>1, <1>3, <1>4, UpTo
  <2> QED
    BY <1>1, <2>1
<1>6. IsReached(p, NUMVAR, o)
  BY <1>5 DEF R
<1>7. PICK b \in Inputs : Leads(p, NUMVAR, o, b)
  BY <1>6 DEF IsReached
<1>8. PICK F : Values(F, nodes, b)
  BY ValuesExist
<1>9. PICK G : Sums(G, b)
  BY SumsExist
<1>10. Value(F, p[1]) = Value(F, pOutputs[o]) /\ p[2] + G[NUMVAR] = G[0]
  <2>1. \A i \in 0 .. NUMVAR - 1 : b[i] = b[i]
    OBVIOUS
  <2> QED
    BY <1>7, <1>8, <1>9, <2>1 DEF Leads
<1>11. Value(F, pOutputs[o]) = BitOf(G[0], TwoTo(o))
  BY <1>8, <1>9 DEF OutputMeans
<1>12. p[2] = G[0]
  BY <1>6, <1>9, <1>10 DEF IsReached, Sums
<1>13. Value(F, p[1]) = p[1]
  <2>1. p[1] \in Named(nodes) /\ VarOf(nodes, p[1]) >= NUMVAR
    BY <1>6 DEF IsReached
  <2>2. p[1] < 2
    <3> SUFFICES ASSUME ~(p[1] < 2) PROVE FALSE
      OBVIOUS
    <3>1. p[1] >= 2
      BY <2>1 DEF Named
    <3>2. VarOf(nodes, p[1]) \in 0 .. NUMVAR - 1
      BY <2>1, <3>1, ChildrenBelow
    <3> QED
      BY <1>1, <2>1, <3>2
  <2>3. p[1] = 0 \/ p[1] = 1
    BY <2>1, <2>2 DEF Named
  <2>4. F \in [Nat -> {0, 1}] /\ F[0] = 0 /\ 0 \in Nat
    BY <1>8 DEF Values
  <2>5. Value(F, 0) = 0 /\ Value(F, 1) = 1
    BY <2>4, ValueFacts
  <2> QED
    BY <2>3, <2>5
<1> QED
  BY <1>10, <1>11, <1>12, <1>13 DEF BitOf

\* For every N, when bdd() has made its diagrams, the diagram of output o is bit
\* o of the sum of the partial products, whatever their values are, and no
\* function has two nodes.
THEOREM DiagramsAddProducts == Spec => []BddAddsPartialProducts
<1>1. BddInv /\ MeansInv => BddAddsPartialProducts
  <2> SUFFICES ASSUME BddInv, MeansInv PROVE BddAddsPartialProducts
    OBVIOUS
  <2>1. BddReduced /\ Table(nodes) /\ Ordered(nodes)
    BY DEF BddInv, TableInv, Table, BddReduced, MeansInv
  <2>2. ASSUME dpc = "count", NEW o \in 0 .. M - 1, NEW p \in Reached(o)[NUMVAR]
        PROVE  p[1] = (p[2] \div TwoTo(o)) % 2
    <3>1. OutputMeans(nodes, pOutputs[o], o)
      BY <2>2 DEF MeansInv
    <3> QED
      BY <2>1, <2>2, <3>1, ReachedMeans
  <2> QED
    BY <2>1, <2>2 DEF BddAddsPartialProducts
<1>2. Init => BddInv /\ MeansInv
  BY BddBegins, MeansBegins DEF Init
<1> QED
  BY <1>1, <1>2, BddStep, MeansStep, PTL DEF Spec

LEMMA PlacesOfTable == NUMVAR <= UTSIZE /\ UTSIZE \in Nat
<1>1. N \in Nat /\ N >= 2 /\ NUMVAR = N * N
  BY NAssumption DEF NUMVAR
<1>2. ALLOC \in Nat \ {0} /\ ALLOC >= 2 * (N * N) - 1
  <2> DEFINE k == N - 2
  <2>1. k \in Nat /\ N = k + 2
    BY <1>1
  <2>2. k * k \in Nat /\ k * k * k \in Nat
    BY <2>1
  <2>3. 2 * N * N * N - 3 * N * N - 2 * N + 7 = 2 * (N * N) - 1 + (2 * (k * k * k) + 7 * (k * k) + 2 * k)
    BY <2>1
  <2>4. N * N >= 4 /\ N * N \in Nat
    BY <1>1
  <2> QED
    BY <2>1, <2>2, <2>3, <2>4 DEF ALLOC
<1> DEFINE t == floorlog2(ALLOC)
<1>3. t \in Nat /\ ALLOC < TwoTo(t + 1)
  BY <1>2, Logarithm
<1> HIDE DEF t
<1>4. TwoTo(t) \in Nat /\ TwoTo(t + 1) = 2 * TwoTo(t)
  BY <1>3, TwoToFacts
<1>5. N * N \in Nat /\ ALLOC \in Nat
  BY <1>1, <1>2
<1>6. N * N <= TwoTo(t)
  BY <1>2, <1>3, <1>4, <1>5
<1> QED
  BY <1>1, <1>4, <1>6 DEF UTSIZE, t

\* bdd() never writes behind pBuf[] or the stack of the count, a row never reads
\* a place of pBuf[] that the row before has not written, and the marks that say
\* which places a row leaves out are used up when the column is complete.
THEOREM RowsFit == Spec => []RowsWithinBuffers
<1>1. BddInv /\ MeansInv => RowsWithinBuffers
  <2> SUFFICES ASSUME BddInv, MeansInv PROVE RowsWithinBuffers
    OBVIOUS
  <2>1. /\ Ordered(nodes) /\ pSkip = {} /\ nbuf \in 0 .. 2 * M /\ pBuf \in Seq(Nat)
        /\ Len(stack) <= NUMVAR /\ stack \in Seq(Literals(nodes)) /\ M \in Nat
    BY SizeOfOutput DEF BddInv, WalkInv, MeansInv, StackInv
  <2>2. Len(stack) <= UTSIZE
    <3>1. Len(stack) \in Nat
      BY <2>1
    <3> QED
      BY <2>1, <3>1, PlacesOfTable, NumberOfVariables
  <2>3. nbuf <= 2 * M
    BY <2>1
  <2>4. \A k \in DOMAIN pBuf : pBuf[k] >= 0
    BY <2>1
  <2>5. \A k \in DOMAIN nodes : nodes[k][2] >= 0 /\ nodes[k][3] >= 0
    BY <2>1 DEF Ordered
  <2> QED
    BY <2>1, <2>2, <2>3, <2>4, <2>5 DEF RowsWithinBuffers
<1>2. Init => BddInv /\ MeansInv
  BY BddBegins, MeansBegins DEF Init
<1> QED
  BY <1>1, <1>2, BddStep, MeansStep, PTL DEF Spec

-----------------------------------------------------------------------------
(* Diagrams that are reduced: equal functions are equal literals.          *)

\* Two literals with the same value, whatever the values of the variables.
Equal(l, k) ==
  \A a \in Inputs : \A F : Values(F, nodes, a) => Value(F, l) = Value(F, k)

\* What a literal becomes when variable v has the value x.
Cofactor(l, v, x) ==
  IF l >= 2 /\ nodes[l \div 2][1] = v THEN (IF x = 1 THEN BddThen(l) ELSE BddElse(l)) ELSE l

LEMMA LaterVariables ==
  ASSUME Table(nodes), Ordered(nodes), NEW a \in Inputs, NEW b \in Inputs, NEW v \in 0 .. NUMVAR,
         \A i \in v .. NUMVAR - 1 : a[i] = b[i],
         NEW F, NEW H, Values(F, nodes, a), Values(H, nodes, b),
         NEW l \in Named(nodes), VarOf(nodes, l) >= v
  PROVE  Value(F, l) = Value(H, l)
<1> DEFINE L == Len(nodes)
           Later(k) == k = 0 \/ nodes[k][1] >= v
           S == {n \in 0 .. L : \A k \in 0 .. n : Later(k) => F[k] = H[k]}
<1>1. L \in Nat /\ DOMAIN nodes = 1 .. L /\ NUMVAR \in Nat
  BY NumberOfVariables DEF Table
<1>2. F \in [Nat -> {0, 1}] /\ H \in [Nat -> {0, 1}] /\ F[0] = 0 /\ H[0] = 0
  BY DEF Values
<1>3. ASSUME NEW i \in Nat, VarOf(nodes, i) >= v PROVE Later(i \div 2)
  <2>1. i < 2 => i \div 2 = 0
    OBVIOUS
  <2> QED
    BY <1>3, <2>1 DEF VarOf
<1>4. 0 \in S
  BY <1>1, <1>2
<1>5. ASSUME NEW n \in 0 .. L - 1, n \in S PROVE n + 1 \in S
  <2> DEFINE h == n + 1
             t == nodes[h][2]
             e == nodes[h][3]
             x == nodes[h][1]
  <2>1. h \in DOMAIN nodes /\ h \in 0 .. L /\ h # 0
    BY <1>1
  <2>2. ASSUME x >= v PROVE F[h] = H[h]
    <3>1. /\ x \in 0 .. NUMVAR - 1 /\ t \in Nat /\ e \in Nat
          /\ VarOf(nodes, t) > x /\ VarOf(nodes, e) > x /\ t < 2 * h /\ e < 2 * h
      BY <2>1 DEF Ordered, Table
    <3>2. VarOf(nodes, t) \in 0 .. NUMVAR /\ VarOf(nodes, e) \in 0 .. NUMVAR
      <4>1. t \in Named(nodes) /\ e \in Named(nodes)
        <5>1. h <= L
          BY <2>1
        <5> HIDE DEF h, t, e
        <5> QED
          BY <1>1, <2>1, <3>1, <5>1 DEF Named
      <4>2. nodes \in Seq(Triples)
        BY DEF Table
      <4> QED
        BY <4>1, <4>2, VarOfRange
    <3>3. VarOf(nodes, t) >= v /\ VarOf(nodes, e) >= v
      <4> HIDE DEF t, e, x
      <4> QED
        BY <1>1, <2>2, <3>1, <3>2
    <3>4. Later(t \div 2) /\ Later(e \div 2)
      BY <1>3, <3>1, <3>3
    <3>5. t \div 2 \in 0 .. n /\ e \div 2 \in 0 .. n
      <4>1. t < 2 * (n + 1) /\ e < 2 * (n + 1) /\ n \in Nat
        BY <1>1, <3>1
      <4> HIDE DEF t, e
      <4> QED
        BY <3>1, <4>1
    <3> HIDE DEF t, e, x, h, Later
    <3>6. F[t \div 2] = H[t \div 2] /\ F[e \div 2] = H[e \div 2]
      BY <1>5, <3>4, <3>5
    <3>7. Value(F, t) = Value(H, t) /\ Value(F, e) = Value(H, e)
      BY <3>6 DEF Value
    <3>8. /\ F[h] = IF a[x] = 1 THEN Value(F, t) ELSE Value(F, e)
          /\ H[h] = IF b[x] = 1 THEN Value(H, t) ELSE Value(H, e)
      BY <2>1 DEF Values, t, e, x
    <3>9. a[x] = b[x]
      <4>1. x \in v .. NUMVAR - 1
        BY <1>1, <2>2, <3>1
      <4> QED
        BY <4>1
    <3> QED
      BY <3>7, <3>8, <3>9
  <2>3. ASSUME NEW k \in 0 .. h, Later(k) PROVE F[k] = H[k]
    <3>1. CASE k = h
      BY <2>1, <2>2, <2>3, <3>1
    <3>2. CASE k # h
      <4>1. k \in 0 .. n
        BY <1>1, <3>2
      <4> QED
        BY <1>5, <2>3, <4>1
    <3> QED
      BY <3>1, <3>2
  <2> QED
    BY <2>1, <2>3
<1>6. 0 .. L \subseteq S
  <2> HIDE DEF S, L
  <2> QED
    BY <1>1, <1>4, <1>5, UpTo
<1>7. l \in Nat /\ l \div 2 \in 0 .. L
  <2>1. l \in Nat /\ l < 2 * (L + 1)
    BY DEF Named
  <2> HIDE DEF L
  <2> QED
    BY <1>1, <2>1
<1>8. F[l \div 2] = H[l \div 2]
  <2>1. Later(l \div 2)
    BY <1>3, <1>7
  <2>2. l \div 2 \in S /\ l \div 2 \in 0 .. (l \div 2)
    BY <1>6, <1>7
  <2> HIDE DEF Later
  <2> QED
    BY <2>1, <2>2
<1> QED
  BY <1>8 DEF Value

LEMMA CofactorFacts ==
  ASSUME Table(nodes), Ordered(nodes), NEW l \in Named(nodes), NEW v \in 0 .. NUMVAR - 1,
         VarOf(nodes, l) >= v, NEW x \in {0, 1}
  PROVE  LET w == Cofactor(l, v, x)
         IN /\ w \in Named(nodes) /\ VarOf(nodes, w) >= v + 1
            /\ \A a \in Inputs : a[v] = x => \A F : Values(F, nodes, a) => Value(F, l) = Value(F, w)
<1> DEFINE w == Cofactor(l, v, x)
           here == l >= 2 /\ nodes[l \div 2][1] = v
<1>1. NUMVAR \in Nat /\ nodes \in Seq(Triples) /\ VarOf(nodes, l) \in 0 .. NUMVAR
  BY NumberOfVariables, VarOfRange DEF Table
<1>2. CASE here
  <2>1. w = IF x = 1 THEN BddThen(l) ELSE BddElse(l)
    BY <1>2 DEF Cofactor
  <2>2. /\ VarOf(nodes, l) = v
        /\ BddThen(l) \in Named(nodes) /\ VarOf(nodes, BddThen(l)) > VarOf(nodes, l)
        /\ BddElse(l) \in Named(nodes) /\ VarOf(nodes, BddElse(l)) > VarOf(nodes, l)
    BY <1>2, ChildrenBelow
  <2>3. w \in Named(nodes) /\ VarOf(nodes, w) > v
    BY <2>1, <2>2
  <2>4. VarOf(nodes, w) \in 0 .. NUMVAR
    BY <1>1, <2>3, VarOfRange
  <2>5. \A a \in Inputs : a[v] = x => \A F : Values(F, nodes, a) => Value(F, l) = Value(F, w)
    BY <1>2, <2>1, ChildValue
  <2> HIDE DEF w
  <2>6. VarOf(nodes, w) >= v + 1
    BY <1>1, <2>3, <2>4
  <2> QED
    BY <2>3, <2>5, <2>6 DEF w
<1>3. CASE ~here
  <2>1. w = l
    BY <1>3 DEF Cofactor
  <2>2. VarOf(nodes, l) # v
    <3>1. CASE l < 2
      BY <1>1, <3>1 DEF VarOf
    <3>2. CASE ~(l < 2)
      <4>1. l >= 2
        BY <3>2 DEF Named
      <4> QED
        BY <1>3, <3>2, <4>1 DEF VarOf
    <3> QED
      BY <3>1, <3>2
  <2>3. VarOf(nodes, l) >= v + 1
    BY <1>1, <2>2
  <2> QED
    BY <2>1, <2>3
<1> QED
  BY <1>2, <1>3

LEMMA EqualCofactors ==
  ASSUME Table(nodes), Ordered(nodes), NEW l \in Named(nodes), NEW k \in Named(nodes), Equal(l, k),
         NEW v \in 0 .. NUMVAR - 1, VarOf(nodes, l) >= v, VarOf(nodes, k) >= v, NEW x \in {0, 1}
  PROVE  Equal(Cofactor(l, v, x), Cofactor(k, v, x))
<1> DEFINE i == Cofactor(l, v, x)
           j == Cofactor(k, v, x)
<1>1. NUMVAR \in Nat /\ v \in Nat
  BY NumberOfVariables
<1>2. /\ i \in Named(nodes) /\ VarOf(nodes, i) >= v + 1
      /\ \A a \in Inputs : a[v] = x => \A F : Values(F, nodes, a) => Value(F, l) = Value(F, i)
  BY CofactorFacts
<1>3. /\ j \in Named(nodes) /\ VarOf(nodes, j) >= v + 1
      /\ \A a \in Inputs : a[v] = x => \A F : Values(F, nodes, a) => Value(F, k) = Value(F, j)
  BY CofactorFacts
<1> HIDE DEF i, j
<1>4. ASSUME NEW a \in Inputs, NEW F, Values(F, nodes, a) PROVE Value(F, i) = Value(F, j)
  <2> DEFINE b == [a EXCEPT ![v] = x]
  <2>1. b \in Inputs /\ b[v] = x /\ \A n \in v + 1 .. NUMVAR - 1 : a[n] = b[n]
    <3>1. \A n \in v + 1 .. NUMVAR - 1 : n \in 0 .. NUMVAR - 1 /\ n # v
      BY <1>1
    <3> QED
      BY <3>1 DEF Inputs
  <2> HIDE DEF b
  <2>2. PICK H : Values(H, nodes, b)
    BY <2>1, ValuesExist
  <2>3. v + 1 \in 0 .. NUMVAR
    BY <1>1
  <2>4. Value(F, i) = Value(H, i) /\ Value(F, j) = Value(H, j)
    BY <1>2, <1>3, <1>4, <2>1, <2>2, <2>3, LaterVariables
  <2>5. Value(H, l) = Value(H, i) /\ Value(H, k) = Value(H, j)
    BY <1>2, <1>3, <2>1, <2>2
  <2>6. Value(H, l) = Value(H, k)
    BY <2>1, <2>2 DEF Equal
  <2> QED
    BY <2>4, <2>5, <2>6
<1> QED
  BY <1>4 DEF Equal, i, j

\* The values of the variables differ for some literals, in every table.
LEMMA SomeInput ==
  ASSUME Table(nodes), Ordered(nodes)
  PROVE  \E a \in Inputs : \E F : Values(F, nodes, a) /\ Value(F, 0) = 0 /\ Value(F, 1) = 1
<1> DEFINE a == [i \in 0 .. NUMVAR - 1 |-> 0]
<1>1. a \in Inputs
  BY DEF Inputs
<1> HIDE DEF a
<1>2. PICK F : Values(F, nodes, a)
  BY <1>1, ValuesExist
<1>3. F \in [Nat -> {0, 1}] /\ F[0] = 0 /\ 0 \in Nat
  BY <1>2 DEF Values
<1>4. Value(F, 0) = 0 /\ Value(F, 1) = 1
  BY <1>3, ValueFacts
<1> QED
  BY <1>1, <1>2, <1>4

\* The children of a literal, and what they say of it.
LEMMA ChildrenDiffer ==
  ASSUME Table(nodes), Ordered(nodes), NEW l \in Named(nodes), l >= 2
  PROVE  /\ BddThen(l) # BddElse(l) /\ BddElse(l) % 2 = l % 2
         /\ BddThen(l) \div 2 < l \div 2 /\ BddElse(l) \div 2 < l \div 2
<1> DEFINE k == l \div 2
           t == nodes[k][2]
           e == nodes[k][3]
<1>1. k \in DOMAIN nodes /\ l \in Nat /\ k \in Nat
  <2>1. k \in DOMAIN nodes /\ l \in Nat
    BY ChildrenBelow DEF Named
  <2> QED
    BY <2>1
<1>2. t \in Nat /\ e \in Nat /\ t # e /\ e % 2 = 0 /\ t < 2 * k /\ e < 2 * k
  BY <1>1 DEF Table, Ordered
<1>3. BddThen(l) = NotIf(l % 2, t) /\ BddElse(l) = NotIf(l % 2, e) /\ l % 2 \in {0, 1}
  <2>1. l % 2 \in {0, 1}
    BY <1>1, NotFacts
  <2> QED
    BY <2>1 DEF BddThen, BddElse
<1> HIDE DEF k, t, e
<1>4. /\ Not(t) \div 2 = t \div 2 /\ Not(e) \div 2 = e \div 2 /\ Not(e) % 2 = 1 /\ Not(t) # Not(e)
  BY <1>2, HalfOfLiteral, NotFacts
<1>5. t \div 2 < k /\ e \div 2 < k
  BY <1>1, <1>2
<1>6. CASE l % 2 = 0
  BY <1>2, <1>3, <1>5, <1>6 DEF NotIf, k
<1>7. CASE l % 2 = 1
  BY <1>2, <1>3, <1>4, <1>5, <1>7 DEF NotIf, k
<1> QED
  BY <1>3, <1>6, <1>7

LEMMA SameLiteral ==
  ASSUME Table(nodes), Ordered(nodes), NEW l \in Named(nodes), NEW k \in Named(nodes),
         l >= 2, k >= 2, nodes[l \div 2][1] = nodes[k \div 2][1],
         BddThen(l) = BddThen(k), BddElse(l) = BddElse(k)
  PROVE  l = k
<1> DEFINE i == l \div 2
           j == k \div 2
<1>1. i \in DOMAIN nodes /\ j \in DOMAIN nodes /\ l \in Nat /\ k \in Nat /\ nodes \in Seq(Triples)
  BY ChildrenBelow DEF Named, Table
<1>2. l % 2 = k % 2 /\ l % 2 \in {0, 1}
  <2>1. BddElse(l) % 2 = l % 2 /\ BddElse(k) % 2 = k % 2
    BY ChildrenDiffer
  <2>2. l % 2 \in {0, 1}
    BY <1>1, NotFacts
  <2> QED
    BY <2>1, <2>2
<1>3. nodes[i][2] = nodes[j][2] /\ nodes[i][3] = nodes[j][3]
  <2>1. /\ NotIf(l % 2, nodes[i][2]) = NotIf(l % 2, nodes[j][2])
        /\ NotIf(l % 2, nodes[i][3]) = NotIf(l % 2, nodes[j][3])
    BY <1>2 DEF BddThen, BddElse
  <2>2. /\ nodes[i][2] \in Int /\ nodes[i][3] \in Int /\ nodes[j][2] \in Int /\ nodes[j][3] \in Int
    BY <1>1 DEF Ordered
  <2> HIDE DEF i, j
  <2>3. /\ Not(nodes[i][2]) = Not(nodes[j][2]) => nodes[i][2] = nodes[j][2]
        /\ Not(nodes[i][3]) = Not(nodes[j][3]) => nodes[i][3] = nodes[j][3]
    BY <2>2, NotFacts
  <2> QED
    BY <1>2, <2>1, <2>3 DEF NotIf
<1>4. nodes[i] = nodes[j]
  <2>1. nodes[i] \in Triples /\ nodes[j] \in Triples
    BY <1>1
  <2> HIDE DEF i, j
  <2> QED
    BY <1>3, <2>1 DEF Triples, i, j
<1>5. i = j
  BY <1>1, <1>4 DEF Table
<1> QED
  BY <1>1, <1>2, <1>5

LEMMA LessByOne ==
  ASSUME NEW x \in Int, NEW y \in Int, NEW n \in Int, x < y, y <= n + 1
  PROVE  x <= n
OBVIOUS

\* Equal functions are equal literals.
LEMMA Canonical ==
  ASSUME Table(nodes), Ordered(nodes), NEW l \in Named(nodes), NEW k \in Named(nodes), Equal(l, k)
  PROVE  l = k
<1> DEFINE L == Len(nodes)
           S == {n \in 0 .. L : \A i, j \in Named(nodes) :
                   i \div 2 <= n /\ j \div 2 <= n /\ Equal(i, j) => i = j}
<1>1. L \in Nat /\ NUMVAR \in Nat /\ nodes \in Seq(Triples)
  BY NumberOfVariables DEF Table
<1>2. \A i \in Named(nodes) : i \in Nat /\ i \div 2 \in 0 .. L
  <2> SUFFICES ASSUME NEW i \in Named(nodes) PROVE i \in Nat /\ i \div 2 \in 0 .. L
    OBVIOUS
  <2>1. i \in Nat /\ i < 2 * (L + 1)
    BY DEF Named
  <2> HIDE DEF L
  <2> QED
    BY <1>1, <2>1
<1>3. 0 \in S
  <2> SUFFICES ASSUME NEW i \in Named(nodes), NEW j \in Named(nodes),
                      i \div 2 <= 0, j \div 2 <= 0, Equal(i, j)
               PROVE  i = j
    BY <1>1
  <2>1. i \in {0, 1} /\ j \in {0, 1}
    BY <1>2
  <2>2. PICK a, F : a \in Inputs /\ Values(F, nodes, a) /\ Value(F, 0) = 0 /\ Value(F, 1) = 1
    BY SomeInput
  <2>3. Value(F, i) = Value(F, j)
    BY <2>2 DEF Equal
  <2> QED
    BY <2>1, <2>2, <2>3
<1>4. ASSUME NEW n \in 0 .. L - 1, n \in S PROVE n + 1 \in S
  <2>1. ASSUME NEW i \in Named(nodes), NEW j \in Named(nodes), Equal(i, j),
               i \div 2 <= n + 1, j \div 2 <= n + 1, i >= 2,
               VarOf(nodes, i) <= VarOf(nodes, j)
        PROVE  i = j
    <3> DEFINE v == VarOf(nodes, i)
               t == BddThen(i)
               e == BddElse(i)
    <3>1. /\ v \in 0 .. NUMVAR - 1 /\ nodes[i \div 2][1] = v /\ t \in Named(nodes) /\ e \in Named(nodes)
      BY <2>1, ChildrenBelow
    <3>2. VarOf(nodes, j) \in 0 .. NUMVAR /\ VarOf(nodes, j) >= v /\ v >= v
      BY <1>1, <2>1, <3>1, VarOfRange
    <3>3. t # e /\ t \div 2 < i \div 2 /\ e \div 2 < i \div 2
      BY <2>1, ChildrenDiffer
    <3>4. t \div 2 <= n /\ e \div 2 <= n
      <4>1. t \div 2 \in Int /\ e \div 2 \in Int /\ i \div 2 \in Int /\ n \in Int
        BY <1>1, <1>2, <3>1
      <4> QED
        BY <2>1, <3>3, <4>1, LessByOne
    <3>5. Cofactor(i, v, 1) = t /\ Cofactor(i, v, 0) = e
      BY <2>1, <3>1 DEF Cofactor
    <3>6. Equal(t, Cofactor(j, v, 1)) /\ Equal(e, Cofactor(j, v, 0))
      <4> HIDE DEF v, t, e
      <4> QED
        BY <2>1, <3>1, <3>2, <3>5, EqualCofactors DEF v
    <3>7. CASE j >= 2 /\ nodes[j \div 2][1] = v
      <4>1. Cofactor(j, v, 1) = BddThen(j) /\ Cofactor(j, v, 0) = BddElse(j)
        BY <3>7 DEF Cofactor
      <4>2. BddThen(j) \in Named(nodes) /\ BddElse(j) \in Named(nodes)
        BY <3>7, ChildrenBelow
      <4>3. BddThen(j) \div 2 <= n /\ BddElse(j) \div 2 <= n
        <5>1. BddThen(j) \div 2 < j \div 2 /\ BddElse(j) \div 2 < j \div 2
          BY <3>7, ChildrenDiffer
        <5> QED
          <6>1. /\ BddThen(j) \div 2 \in Int /\ BddElse(j) \div 2 \in Int
                /\ j \div 2 \in Int /\ n \in Int
            BY <1>1, <1>2, <4>2
          <6> QED
            BY <2>1, <5>1, <6>1, LessByOne
      <4>4. t = BddThen(j) /\ e = BddElse(j)
        BY <1>4, <3>1, <3>4, <3>6, <4>1, <4>2, <4>3
      <4> QED
        BY <2>1, <3>1, <3>7, <4>4, SameLiteral
    <3>8. CASE ~(j >= 2 /\ nodes[j \div 2][1] = v)
      <4>1. Cofactor(j, v, 1) = j /\ Cofactor(j, v, 0) = j
        BY <3>8 DEF Cofactor
      <4>2. Equal(t, j) /\ Equal(e, j)
        BY <3>6, <4>1
      <4>3. Equal(t, e)
        BY <4>2 DEF Equal
      <4>4. t = e
        BY <1>4, <3>1, <3>4, <4>3
      <4> QED
        BY <3>3, <4>4
    <3> QED
      BY <3>7, <3>8
  <2>2. ASSUME NEW i \in Named(nodes), NEW j \in Named(nodes), Equal(i, j),
               i \div 2 <= n + 1, j \div 2 <= n + 1
        PROVE  i = j
    <3>1. Equal(j, i)
      BY <2>2 DEF Equal
    <3>2. VarOf(nodes, i) \in 0 .. NUMVAR /\ VarOf(nodes, j) \in 0 .. NUMVAR
      BY <1>1, VarOfRange
    <3>3. CASE i >= 2 /\ VarOf(nodes, i) <= VarOf(nodes, j)
      BY <2>1, <2>2, <3>3
    <3>4. CASE j >= 2 /\ VarOf(nodes, j) <= VarOf(nodes, i)
      <4>1. j = i
        BY <2>1, <2>2, <3>1, <3>4
      <4> QED
        BY <4>1
    <3>5. CASE i < 2 /\ j < 2
      <4>1. i \div 2 <= 0 /\ j \div 2 <= 0 /\ 0 \in 0 .. L
        BY <1>1, <1>2, <3>5
      <4> QED
        BY <1>3, <2>2, <4>1
    <3>6. CASE i >= 2 /\ j < 2 /\ VarOf(nodes, j) < VarOf(nodes, i)
      <4>1. VarOf(nodes, j) = NUMVAR
        BY <3>6 DEF VarOf
      <4> QED
        BY <1>1, <3>2, <3>6, <4>1
    <3>7. CASE j >= 2 /\ i < 2 /\ VarOf(nodes, i) < VarOf(nodes, j)
      <4>1. VarOf(nodes, i) = NUMVAR
        BY <3>7 DEF VarOf
      <4> QED
        BY <1>1, <3>2, <3>7, <4>1
    <3>8. i \in Nat /\ j \in Nat
      BY <1>2
    <3> QED
      BY <1>1, <3>2, <3>3, <3>4, <3>5, <3>6, <3>7, <3>8
  <2>3. n + 1 \in 0 .. L
    BY <1>1
  <2> QED
    BY <2>2, <2>3
<1>5. 0 .. L \subseteq S
  <2> HIDE DEF S, L
  <2> QED
    BY <1>1, <1>3, <1>4, UpTo
<1>6. L \in S /\ l \div 2 <= L /\ k \div 2 <= L
  <2>1. L \in 0 .. L /\ l \div 2 \in 0 .. L /\ k \div 2 \in 0 .. L
    BY <1>1, <1>2
  <2> QED
    BY <1>5, <2>1
<1> QED
  BY <1>6

-----------------------------------------------------------------------------
(* How many functions of the sum there are in a row.                       *)

\* The largest sum that column c sees before its row j.
Carry(c) == IF c = 0 THEN 0 ELSE IF c <= N THEN c - 1 ELSE M - c
UsedRows(c, j) ==
  IF j < FirstRow(c) THEN 0 ELSE (IF j > N THEN N ELSE j) - FirstRow(c)
Largest(c, j) == Carry(c) + UsedRows(c, j)

LEMMA LargestStep ==
  ASSUME NEW c \in 0 .. M - 1, NEW j \in 0 .. c
  PROVE  /\ Carry(c) \in Nat /\ Largest(c, j) \in Nat
         /\ Largest(c, j + 1) = Largest(c, j) + (IF UsedRow(c, j) THEN 1 ELSE 0)
         /\ Largest(c, 0) = Carry(c)
<1>1. N \in Nat /\ 1 < N /\ M = 2 * N
  BY NAssumption DEF M
<1>2. CASE c < N
  BY <1>1, <1>2 DEF Carry, Largest, UsedRows, UsedRow, FirstRow
<1>3. CASE c >= N
  BY <1>1, <1>3 DEF Carry, Largest, UsedRows, UsedRow, FirstRow
<1> QED
  BY <1>1, <1>2, <1>3

LEMMA LargestHalves ==
  ASSUME NEW c \in 0 .. M - 2
  PROVE  /\ Largest(c, c + 1) \in Nat /\ Largest(c, c + 1) \div 2 = Carry(c + 1)
         /\ Largest(c, c + 1) = Carry(c) + Height(c)
<1>1. N \in Nat /\ 1 < N /\ M = 2 * N
  BY NAssumption DEF M
<1>2. CASE c = 0
  BY <1>1, <1>2 DEF Carry, Largest, UsedRows, FirstRow, Height
<1>3. CASE c > 0 /\ c < N
  <2>1. Largest(c, c + 1) = 2 * c /\ Carry(c + 1) = c /\ Carry(c) + Height(c) = 2 * c
    BY <1>1, <1>3 DEF Carry, Largest, UsedRows, FirstRow, Height
  <2> QED
    BY <1>1, <2>1
<1>4. CASE c = N
  <2>1. Largest(c, c + 1) = 2 * (N - 1) /\ Carry(c + 1) = N - 1 /\ Carry(c) + Height(c) = 2 * (N - 1)
    BY <1>1, <1>4 DEF Carry, Largest, UsedRows, FirstRow, Height
  <2> QED
    BY <1>1, <2>1
<1>5. CASE c > N
  <2>1. /\ Largest(c, c + 1) = 2 * (M - 1 - c) + 1 /\ Carry(c + 1) = M - 1 - c
        /\ Carry(c) + Height(c) = 2 * (M - 1 - c) + 1
    BY <1>1, <1>5 DEF Carry, Largest, UsedRows, FirstRow, Height
  <2>2. M - 1 - c \in Nat
    BY <1>1
  <2> QED
    BY <2>1, <2>2
<1> QED
  BY <1>1, <1>2, <1>3, <1>4, <1>5

\* No sum of partial products is larger.
LEMMA SubtotalLargest ==
  ASSUME NEW a \in Inputs, NEW G, Sums(G, a), NEW c \in 0 .. M - 1, NEW j \in 0 .. c + 1
  PROVE  Subtotal(G, c, j) \in 0 .. Largest(c, j)
<1>1. M \in Nat /\ 1 < M
  BY SizeOfOutput
<1>2. ASSUME NEW d \in 0 .. M - 1, Subtotal(G, d, 0) <= Carry(d)
      PROVE  \A i \in 0 .. d + 1 : Subtotal(G, d, i) <= Largest(d, i)
  <2> DEFINE S == {i \in 0 .. d + 1 : Subtotal(G, d, i) <= Largest(d, i)}
  <2>1. d + 1 \in Nat /\ 0 \in 0 .. d + 1 /\ 0 \in 0 .. d
    BY <1>1
  <2>2. 0 \in S
    BY <1>2, <2>1, LargestStep
  <2>3. ASSUME NEW i \in 0 .. (d + 1) - 1, i \in S PROVE i + 1 \in S
    <3>1. i \in 0 .. d /\ i \in 0 .. d + 1 /\ i + 1 \in 0 .. d + 1
      BY <1>1
    <3>2. /\ InputOf(a, d, i) \in {0, 1} /\ Subtotal(G, d, i) \in Nat
          /\ Subtotal(G, d, i + 1) = Subtotal(G, d, i) + InputOf(a, d, i)
          /\ Largest(d, i) \in Nat
          /\ Largest(d, i + 1) = Largest(d, i) + (IF UsedRow(d, i) THEN 1 ELSE 0)
      BY <3>1, SubtotalStep, SumsType, LargestStep
    <3>3. ~UsedRow(d, i) => InputOf(a, d, i) = 0
      BY DEF InputOf
    <3>4. Subtotal(G, d, i) <= Largest(d, i)
      BY <2>3
    <3>5. Subtotal(G, d, i + 1) <= Largest(d, i + 1)
      BY <3>2, <3>3, <3>4
    <3> QED
      BY <3>1, <3>5
  <2> HIDE DEF S
  <2>4. 0 .. d + 1 \subseteq S
    BY <2>1, <2>2, <2>3, UpTo
  <2> QED
    BY <2>4 DEF S
<1> DEFINE R == {d \in 0 .. M - 1 : Subtotal(G, d, 0) <= Carry(d)}
<1>3. 0 \in R
  <2>1. Subtotal(G, 0, 0) = 0
    BY SubtotalStarts
  <2> QED
    BY <1>1, <2>1 DEF Carry
<1>4. ASSUME NEW d \in 0 .. (M - 1) - 1, d \in R PROVE d + 1 \in R
  <2>1. d \in 0 .. M - 1 /\ d \in 0 .. M - 2 /\ d + 1 \in 0 .. M - 1 /\ d + 1 \in 0 .. d + 1
    BY <1>1
  <2>2. Subtotal(G, d, d + 1) <= Largest(d, d + 1)
    BY <1>2, <1>4, <2>1
  <2>3. Subtotal(G, d + 1, 0) = Subtotal(G, d, d + 1) \div 2 /\ Subtotal(G, d, d + 1) \in Nat
    BY <2>1, SubtotalHalves, SumsType
  <2>4. Largest(d, d + 1) \in Nat /\ Carry(d + 1) = Largest(d, d + 1) \div 2
    BY <2>1, LargestHalves
  <2>5. \A x, y \in Nat : x <= y => x \div 2 <= y \div 2
    OBVIOUS
  <2> QED
    BY <2>1, <2>2, <2>3, <2>4, <2>5
<1>5. 0 .. M - 1 \subseteq R
  <2>1. M - 1 \in Nat
    BY <1>1
  <2> HIDE DEF R
  <2> QED
    BY <1>3, <1>4, <2>1, UpTo
<1>6. Subtotal(G, c, j) <= Largest(c, j)
  BY <1>2, <1>5
<1>7. Subtotal(G, c, j) \in Nat
  BY SumsType
<1>8. Largest(c, j) \in Nat
  <2>1. CASE j = c + 1
    <3>1. c \in 0 .. c
      OBVIOUS
    <3>2. Largest(c, c + 1) = Largest(c, c) + (IF UsedRow(c, c) THEN 1 ELSE 0) /\ Largest(c, c) \in Nat
      BY <3>1, LargestStep
    <3> QED
      BY <2>1, <3>2
  <2>2. CASE j # c + 1
    <3>1. j \in 0 .. c
      BY <2>2
    <3> QED
      BY <3>1, LargestStep
  <2> QED
    BY <2>1, <2>2
<1> QED
  BY <1>6, <1>7, <1>8

-----------------------------------------------------------------------------
(* Room for the nodes of a column.                                         *)

\* A row whose sums are even cuts only; the sum is then halved.
HalvedRow(c, j) == c > 0 /\ (j = c \/ j = N - 1)

\* The nodes of column c, and twice those of the columns below it.
RoomOf(c) ==
  LET x == Carry(c) + Height(c)
  IN IF c = 0 THEN 1 ELSE (x - 1) * (x - 1) - Carry(c) * Carry(c) + 2 * (x \div 2)
TwiceRoom(c) ==
  LET u == M - 1 - c
  IN IF c = 0 THEN 0
     ELSE IF c <= N THEN 2 + (c - 1) * c * (2 * c - 1)
     ELSE 2 * (ALLOC - 1) - (u * (u + 1) * (2 * u + 1) - 2 * u)
Room(c) == TwiceRoom(c) \div 2

LEMMA LowColumns ==
  ASSUME NEW c \in Nat
  PROVE  /\ (2 * c - 1) * (2 * c - 1) - (c - 1) * (c - 1) + 2 * c = 3 * (c * c)
         /\ c * (c + 1) * (2 * c + 1) = (c - 1) * c * (2 * c - 1) + 6 * (c * c)
OBVIOUS

LEMMA HighColumns ==
  ASSUME NEW u \in Nat
  PROVE  /\ (2 * u) * (2 * u) - (u + 1) * (u + 1) + 2 * u = 3 * (u * u) - 1
         /\ u * (u + 1) * (2 * u + 1) = (u - 1) * u * (2 * u - 1) + 6 * (u * u)
OBVIOUS

LEMMA MiddleColumn ==
  ASSUME NEW n \in Nat
  PROVE  2 + (n - 1) * n * (2 * n - 1)
           + 2 * ((2 * n - 3) * (2 * n - 3) - (n - 1) * (n - 1) + 2 * (n - 1))
         = 2 * (2 * n * n * n - 3 * n * n - 2 * n + 6)
             - ((n - 2) * (n - 1) * (2 * n - 3) - 2 * (n - 2))
OBVIOUS

LEMMA RoomNext ==
  ASSUME NEW c \in 0 .. M - 2
  PROVE  TwiceRoom(c + 1) = TwiceRoom(c) + 2 * RoomOf(c) /\ RoomOf(c) \in Nat
<1>1. N \in Nat /\ 1 < N /\ M = 2 * N
  BY NAssumption DEF M
<1>2. CASE c = 0
  BY <1>1, <1>2 DEF TwiceRoom, RoomOf
<1>3. CASE c > 0 /\ c < N
  <2>1. Carry(c) = c - 1 /\ Carry(c) + Height(c) = 2 * c
    BY <1>1, <1>3 DEF Carry, Height
  <2>2. RoomOf(c) = (2 * c - 1) * (2 * c - 1) - (c - 1) * (c - 1) + 2 * c
    <3>1. (2 * c) \div 2 = c
      OBVIOUS
    <3> QED
      BY <1>3, <2>1, <3>1 DEF RoomOf
  <2>3. c * c \in Nat /\ RoomOf(c) = 3 * (c * c)
    BY <2>2, LowColumns
  <2>4. TwiceRoom(c) = 2 + (c - 1) * c * (2 * c - 1)
    BY <1>1, <1>3 DEF TwiceRoom
  <2>5. TwiceRoom(c + 1) = 2 + c * (c + 1) * (2 * c + 1)
    <3>1. (c + 1) - 1 = c /\ 2 * (c + 1) - 1 = 2 * c + 1 /\ c + 1 # 0 /\ c + 1 <= N
      BY <1>1, <1>3
    <3> QED
      BY <3>1 DEF TwiceRoom
  <2>6. c * (c + 1) * (2 * c + 1) = (c - 1) * c * (2 * c - 1) + 6 * (c * c)
        /\ (c - 1) * c * (2 * c - 1) \in Int
    BY LowColumns
  <2> QED
    BY <2>3, <2>4, <2>5, <2>6
<1>4. CASE c = N
  <2>1. Carry(c) = N - 1 /\ Carry(c) + Height(c) = 2 * (N - 1)
    BY <1>1, <1>4 DEF Carry, Height
  <2>2. RoomOf(c) = (2 * N - 3) * (2 * N - 3) - (N - 1) * (N - 1) + 2 * (N - 1)
    <3>1. (2 * (N - 1)) \div 2 = N - 1 /\ 2 * (N - 1) - 1 = 2 * N - 3 /\ c # 0
      BY <1>1, <1>4
    <3> QED
      BY <2>1, <3>1 DEF RoomOf
  <2>3. TwiceRoom(c) = 2 + (N - 1) * N * (2 * N - 1)
    BY <1>1, <1>4 DEF TwiceRoom
  <2>4. TwiceRoom(c + 1) = 2 * (2 * N * N * N - 3 * N * N - 2 * N + 6)
                           - ((N - 2) * (N - 1) * (2 * N - 3) - 2 * (N - 2))
    <3>1. M - 1 - (c + 1) = N - 2 /\ (N - 2) + 1 = N - 1 /\ 2 * (N - 2) + 1 = 2 * N - 3
          /\ c + 1 # 0 /\ ~(c + 1 <= N)
      BY <1>1, <1>4
    <3>2. ALLOC - 1 = 2 * N * N * N - 3 * N * N - 2 * N + 6
      BY <1>1 DEF ALLOC
    <3> QED
      BY <3>1, <3>2 DEF TwiceRoom
  <2>5. RoomOf(c) \in Nat
    <3> DEFINE k == N - 2
    <3>1. k \in Nat /\ N - 1 = k + 1 /\ 2 * N - 3 = 2 * k + 1
      BY <1>1
    <3> HIDE DEF k
    <3>2. (2 * k + 1) * (2 * k + 1) - (k + 1) * (k + 1) + 2 * (k + 1) = 3 * (k * k) + 4 * k + 2
          /\ k * k \in Nat
      BY <3>1
    <3> QED
      BY <2>2, <3>1, <3>2
  <2> QED
    BY <1>1, <2>2, <2>3, <2>4, <2>5, MiddleColumn
<1>5. CASE c > N
  <2> DEFINE u == M - 1 - c
  <2>1. Carry(c) = u + 1 /\ Carry(c) + Height(c) = 2 * u + 1 /\ u \in Nat \ {0}
    BY <1>1, <1>5 DEF Carry, Height
  <2>2. RoomOf(c) = (2 * u) * (2 * u) - (u + 1) * (u + 1) + 2 * u
    <3>1. c # 0
      BY <1>1, <1>5
    <3> HIDE DEF u
    <3>2. (2 * u + 1) \div 2 = u /\ (2 * u + 1) - 1 = 2 * u
      BY <2>1
    <3> QED
      BY <2>1, <3>1, <3>2 DEF RoomOf
  <2>3. TwiceRoom(c) = 2 * (ALLOC - 1) - (u * (u + 1) * (2 * u + 1) - 2 * u)
    BY <1>1, <1>5 DEF TwiceRoom
  <2>4. TwiceRoom(c + 1) = 2 * (ALLOC - 1) - ((u - 1) * u * (2 * u - 1) - 2 * (u - 1))
    <3>1. M - 1 - (c + 1) = u - 1 /\ (u - 1) + 1 = u /\ 2 * (u - 1) + 1 = 2 * u - 1
          /\ c + 1 # 0 /\ ~(c + 1 <= N)
      BY <1>1, <1>5
    <3> HIDE DEF u
    <3> QED
      BY <3>1 DEF TwiceRoom
  <2>5. ALLOC \in Int
    BY <1>1 DEF ALLOC
  <2> HIDE DEF u
  <2>6. /\ RoomOf(c) = 3 * (u * u) - 1 /\ u * u \in Nat /\ u * u >= 1
        /\ u * (u + 1) * (2 * u + 1) = (u - 1) * u * (2 * u - 1) + 6 * (u * u)
        /\ (u - 1) * u * (2 * u - 1) \in Int /\ u \in Int
    BY <2>1, <2>2, HighColumns
  <2> QED
    BY <2>3, <2>4, <2>5, <2>6
<1> QED
  BY <1>1, <1>2, <1>3, <1>4, <1>5

LEMMA RoomFacts ==
  /\ Room(0) = 0 /\ Room(M - 1) = ALLOC - 1
  /\ \A c \in 0 .. M - 1 : Room(c) \in Nat
  /\ \A c \in 0 .. M - 2 : Room(c + 1) = Room(c) + RoomOf(c) /\ RoomOf(c) \in Nat
<1>1. N \in Nat /\ 1 < N /\ M = 2 * N /\ ALLOC \in Int
  <2>1. N \in Nat /\ 1 < N /\ M = 2 * N
    BY NAssumption DEF M
  <2> QED
    BY <2>1 DEF ALLOC
<1> DEFINE S == {c \in 0 .. M - 1 : Room(c) \in Nat /\ TwiceRoom(c) = 2 * Room(c)}
<1>2. 0 \in S /\ Room(0) = 0
  BY <1>1 DEF TwiceRoom, Room
<1>3. ASSUME NEW c \in 0 .. (M - 1) - 1, c \in S
      PROVE  c + 1 \in S /\ Room(c + 1) = Room(c) + RoomOf(c)
  <2>1. c \in 0 .. M - 2 /\ c + 1 \in 0 .. M - 1
    BY <1>1
  <2>2. TwiceRoom(c + 1) = 2 * (Room(c) + RoomOf(c)) /\ RoomOf(c) \in Nat /\ Room(c) \in Nat
    BY <1>3, <2>1, RoomNext
  <2>3. Room(c + 1) = Room(c) + RoomOf(c)
    <3> DEFINE x == Room(c) + RoomOf(c)
    <3>1. x \in Nat
      BY <2>2
    <3> HIDE DEF x
    <3>2. (2 * x) \div 2 = x
      BY <3>1
    <3>3. Room(c + 1) = (2 * x) \div 2
      BY <2>2 DEF Room, x
    <3> QED
      BY <3>2, <3>3 DEF x
  <2> QED
    BY <2>1, <2>2, <2>3
<1>4. 0 .. M - 1 \subseteq S
  <2>1. M - 1 \in Nat
    BY <1>1
  <2> HIDE DEF S
  <2> QED
    BY <1>2, <1>3, <2>1, UpTo
<1>5. ASSUME NEW c \in 0 .. M - 2 PROVE Room(c + 1) = Room(c) + RoomOf(c) /\ RoomOf(c) \in Nat
  <2>1. c \in 0 .. (M - 1) - 1 /\ c \in 0 .. M - 1
    BY <1>1
  <2> QED
    BY <1>3, <1>4, <2>1, RoomNext
<1>6. Room(M - 1) = ALLOC - 1
  <2>1. TwiceRoom(M - 1) = 2 * (ALLOC - 1)
    <3>1. M - 1 - (M - 1) = 0 /\ M - 1 # 0 /\ ~(M - 1 <= N)
      BY <1>1
    <3>2. 0 * (0 + 1) * (2 * 0 + 1) - 2 * 0 = 0
      OBVIOUS
    <3>3. 2 * (ALLOC - 1) - 0 = 2 * (ALLOC - 1)
      BY <1>1
    <3> QED
      BY <3>1, <3>2, <3>3 DEF TwiceRoom
  <2>2. \A x \in Int : (2 * x) \div 2 = x
    OBVIOUS
  <2>3. ALLOC - 1 \in Int
    BY <1>1
  <2> QED
    BY <2>1, <2>2, <2>3 DEF Room
<1> QED
  BY <1>2, <1>4, <1>5, <1>6

LEMMA RoomGrows ==
  ASSUME NEW c \in 0 .. M - 1, NEW d \in 0 .. M - 1, c <= d
  PROVE  Room(c) <= Room(d)
<1> DEFINE S == {i \in 0 .. d - c : Room(c) <= Room(c + i)}
<1>1. M \in Nat /\ 1 < M /\ Room(c) \in Nat
  BY SizeOfOutput, RoomFacts
<1>2. 0 \in S
  BY <1>1
<1>3. ASSUME NEW i \in 0 .. (d - c) - 1, i \in S PROVE i + 1 \in S
  <2>1. c + i \in 0 .. M - 2 /\ c + i \in 0 .. M - 1 /\ c + (i + 1) = (c + i) + 1 /\ i + 1 \in 0 .. d - c
    BY <1>1
  <2>2. /\ Room((c + i) + 1) = Room(c + i) + RoomOf(c + i) /\ RoomOf(c + i) \in Nat
        /\ Room(c + i) \in Nat
    BY <2>1, RoomFacts
  <2>3. Room(c) <= Room(c + i)
    BY <1>3
  <2> QED
    BY <1>1, <2>1, <2>2, <2>3
<1>4. d - c \in Nat /\ c + (d - c) = d
  BY <1>1
<1>5. 0 .. d - c \subseteq S
  <2> HIDE DEF S
  <2> QED
    BY <1>2, <1>3, <1>4, UpTo
<1>6. d - c \in S
  BY <1>4, <1>5
<1> QED
  BY <1>4, <1>6

-----------------------------------------------------------------------------
(* The bits of a sum less a cut, as functions of the sum: what matters is  *)
(* the first place t at which they turn over, and the next, t + p.         *)

LEMMA BitShifted ==
  ASSUME NEW y \in Int, NEW p \in Nat \ {0}, NEW n \in Int
  PROVE  BitOf(y + p * n, p) = IF n % 2 = 0 THEN BitOf(y, p) ELSE 1 - BitOf(y, p)
<1> DEFINE q == y \div p
           r == y % p
<1>1. q \in Int /\ r \in 0 .. p - 1 /\ y = p * q + r
  BY QuotientExists
<1> HIDE DEF q, r
<1>2. p * (q + n) = p * q + p * n /\ p * q \in Int /\ p * n \in Int
  BY <1>1
<1>3. (y + p * n) \div p = q + n
  <2>1. y + p * n \in Int /\ q + n \in Int /\ y + p * n = p * (q + n) + r
    BY <1>1, <1>2
  <2> QED
    BY <1>1, <2>1, QuotientIs
<1>4. (q + n) % 2 = IF n % 2 = 0 THEN q % 2 ELSE 1 - (q % 2)
  <2>1. PICK h \in Int : n = 2 * h \/ n = 2 * h + 1
    BY TwiceOrOneMore
  <2>2. n % 2 = IF n = 2 * h THEN 0 ELSE 1
    BY <2>1
  <2>3. CASE n = 2 * h
    <3>1. q + n \in Int /\ q + n = q + 2 * h
      BY <1>1, <2>3
    <3> QED
      BY <1>1, <2>1, <2>2, <2>3, <3>1, SameParity
  <2>4. CASE n # 2 * h
    <3>1. q + n \in Int /\ q + 1 \in Int /\ q + n = (q + 1) + 2 * h
      BY <1>1, <2>1, <2>4
    <3>2. (q + n) % 2 = (q + 1) % 2 /\ (q + 1) % 2 = 1 - (q % 2)
      BY <1>1, <2>1, <3>1, SameParity, Parity
    <3> QED
      BY <2>2, <2>4, <3>2
  <2> QED
    BY <2>3, <2>4
<1> QED
  BY <1>3, <1>4 DEF BitOf, q

LEMMA NormalBit ==
  ASSUME NEW p \in Nat \ {0}, NEW cut \in Int
  PROVE  \E t \in 1 .. p :
           /\ p % 2 = 0 /\ cut % 2 = 0 => t % 2 = 0
           /\ \/ \A x \in Int : BitOf(x - cut, p) = BitOf(x + p - t, p)
              \/ \A x \in Int : BitOf(x - cut, p) = 1 - BitOf(x + p - t, p)
<1> DEFINE w == cut - 1
           n == w \div p
           r == w % p
           t == r + 1
           k == -(n + 1)
<1>1. w \in Int /\ cut = w + 1
  OBVIOUS
<1> HIDE DEF w
<1>2. n \in Int /\ r \in 0 .. p - 1 /\ w = p * n + r
  BY <1>1, QuotientExists
<1> HIDE DEF n, r
<1>3. n \in Int /\ t \in 1 .. p /\ cut = p * n + t
  BY <1>1, <1>2
<1> HIDE DEF t
<1>4. k \in Int /\ p * k = -(p * n) - p /\ p * n \in Int
  BY <1>3
<1> HIDE DEF k
<1>5. ASSUME NEW x \in Int
      PROVE  BitOf(x - cut, p) = IF k % 2 = 0 THEN BitOf(x + p - t, p) ELSE 1 - BitOf(x + p - t, p)
  <2> DEFINE y == x + p - t
  <2>1. y \in Int /\ x - cut = y + p * k
    BY <1>3, <1>4
  <2> HIDE DEF y
  <2>2. BitOf(y + p * k, p) = IF k % 2 = 0 THEN BitOf(y, p) ELSE 1 - BitOf(y, p)
    BY <1>4, <2>1, BitShifted
  <2> QED
    BY <2>1, <2>2 DEF y
<1>6. ASSUME p % 2 = 0, cut % 2 = 0 PROVE t % 2 = 0
  <2>1. PICK h \in Int : p = 2 * h
    BY <1>6, TwiceOrOneMore
  <2>2. p * n = 2 * (h * n) /\ h * n \in Int
    BY <1>3, <2>1
  <2>3. t \in Int /\ cut \in Int /\ t = cut - 2 * (h * n)
    BY <1>3, <1>4, <2>2
  <2>4. t % 2 = cut % 2
    BY <2>2, <2>3, SameParity
  <2> QED
    BY <1>6, <2>4
<1> QED
  BY <1>3, <1>5, <1>6

\* The bit before its first turn, and up to its second.
LEMMA BitTo ==
  ASSUME NEW p \in Nat \ {0}, NEW t \in 1 .. p, NEW y \in Nat
  PROVE  /\ y < t => BitOf(y + p - t, p) = 0
         /\ t <= y /\ y < t + p => BitOf(y + p - t, p) = 1
<1>1. y + p - t \in Int
  OBVIOUS
<1>2. y < t => y + p - t \in 0 .. p - 1
  OBVIOUS
<1>3. t <= y /\ y < t + p => y + p - t \in p .. 2 * p - 1
  OBVIOUS
<1> QED
  BY <1>1, <1>2, <1>3, BitOfSmall

\* A number for the bits that turn over in a sum of at most x; if the sum is
\* halved, they are the parity or turn over at even sums only.
Turn(halved, x, t, p) ==
  IF halved THEN (IF t + p <= x THEN x \div 2 + (t + p) \div 2 ELSE t \div 2)
  ELSE (IF t + p <= x THEN x + t + p - 1 ELSE t)
Turns(halved, x, t, p) ==
  /\ t \in 1 .. p /\ t <= x
  /\ halved => x >= 2 /\ (p = 1 \/ (p % 2 = 0 /\ t % 2 = 0))

LEMMA HalvedTurn ==
  ASSUME NEW x \in Nat, NEW p \in Nat \ {0}, NEW t, Turns(TRUE, x, t, p)
  PROVE  /\ t \in Nat /\ t + p = 2 * ((t + p) \div 2) /\ (t + p) \div 2 \in Nat \ {0}
         /\ t + p > x => t = 2 * (t \div 2) /\ t \div 2 \in Nat \ {0}
<1>1. t \in 1 .. p /\ t <= x /\ x >= 2 /\ (p = 1 \/ (p % 2 = 0 /\ t % 2 = 0))
  BY DEF Turns
<1>2. CASE p = 1
  BY <1>1, <1>2
<1>3. CASE p % 2 = 0 /\ t % 2 = 0
  <2>1. PICK h \in Int : p = 2 * h
    BY <1>3, TwiceOrOneMore
  <2>2. PICK k \in Int : t = 2 * k
    BY <1>1, <1>3, TwiceOrOneMore
  <2>3. t + p = 2 * (k + h) /\ k \in Nat \ {0} /\ k + h \in Nat \ {0}
    BY <1>1, <2>1, <2>2
  <2>4. (t + p) \div 2 = k + h /\ t \div 2 = k
    BY <2>2, <2>3
  <2> QED
    BY <2>2, <2>3, <2>4
<1> QED
  BY <1>1, <1>2, <1>3

LEMMA TurnRange ==
  ASSUME NEW halved \in BOOLEAN, NEW x \in Nat, NEW p \in Nat \ {0}, NEW t, Turns(halved, x, t, p)
  PROVE  /\ Turn(halved, x, t, p) \in 1 .. 2 * x - 1
         /\ halved => Turn(halved, x, t, p) <= 2 * (x \div 2)
<1>1. t \in 1 .. p /\ t <= x
  BY DEF Turns
<1>2. CASE ~halved
  BY <1>1, <1>2 DEF Turn
<1>3. CASE halved
  <2>1. x >= 2 /\ Turns(TRUE, x, t, p)
    BY <1>3 DEF Turns
  <2> DEFINE g == (t + p) \div 2
             h == x \div 2
             k == t \div 2
  <2>2. /\ t + p = 2 * g /\ g \in Nat \ {0} /\ (t + p > x => t = 2 * k /\ k \in Nat \ {0})
    BY <2>1, HalvedTurn
  <2>3. h \in Nat /\ (x = 2 * h \/ x = 2 * h + 1)
    OBVIOUS
  <2>4. Turn(halved, x, t, p) = IF t + p <= x THEN h + g ELSE k
    BY <1>3 DEF Turn
  <2>5. x \div 2 = h
    OBVIOUS
  <2> HIDE DEF g, h, k
  <2>6. t \in Nat \ {0} /\ p \in Nat \ {0} /\ t <= p /\ t <= x /\ x \in Nat /\ x >= 2
    BY <1>1, <2>1
  <2>7. CASE t + p <= x
    <3>1. g <= h
      BY <2>2, <2>3, <2>6, <2>7
    <3> QED
      BY <2>2, <2>3, <2>4, <2>5, <2>6, <2>7, <3>1
  <2>8. CASE t + p > x
    <3>1. k \in 1 .. h
      BY <2>2, <2>3, <2>6, <2>8
    <3>2. Turn(halved, x, t, p) = k /\ h <= 2 * h /\ 2 * h <= x
      BY <2>2, <2>3, <2>4, <2>6, <2>8
    <3> QED
      BY <2>3, <2>5, <2>6, <3>1, <3>2
  <2> QED
    BY <2>2, <2>6, <2>7, <2>8
<1> QED
  BY <1>2, <1>3

\* Only one power of two is below a number and not below its half.
LEMMA SamePower ==
  ASSUME NEW b \in Nat, NEW d \in Nat, NEW g \in Nat,
         TwoTo(b) < g, g <= 2 * TwoTo(b), TwoTo(d) < g, g <= 2 * TwoTo(d)
  PROVE  TwoTo(b) = TwoTo(d)
<1>1. ASSUME NEW i \in Nat, NEW k \in Nat, i < k PROVE 2 * TwoTo(i) <= TwoTo(k)
  <2>1. i + 1 \in Nat /\ i + 1 <= k
    BY <1>1
  <2>2. TwoTo(i + 1) <= TwoTo(k) /\ TwoTo(i + 1) = 2 * TwoTo(i)
    BY <1>1, <2>1, TwoToGrows, TwoToFacts
  <2> QED
    BY <2>2
<1>2. TwoTo(b) \in Nat /\ TwoTo(d) \in Nat
  BY TwoToFacts
<1>3. CASE b < d
  <2>1. 2 * TwoTo(b) <= TwoTo(d)
    BY <1>1, <1>3
  <2> QED
    BY <1>2, <2>1
<1>4. CASE d < b
  <2>1. 2 * TwoTo(d) <= TwoTo(b)
    BY <1>1, <1>4
  <2> QED
    BY <1>2, <2>1
<1>5. CASE b = d
  BY <1>5
<1> QED
  BY <1>3, <1>4, <1>5

LEMMA SameTurn ==
  ASSUME NEW halved \in BOOLEAN, NEW x \in Nat, NEW b \in Nat, NEW d \in Nat,
         NEW p, NEW q, p = TwoTo(b), q = TwoTo(d), NEW t, NEW u,
         Turns(halved, x, t, p), Turns(halved, x, u, q),
         Turn(halved, x, t, p) = Turn(halved, x, u, q),
         NEW y \in 0 .. x
  PROVE  BitOf(y + p - t, p) = BitOf(y + q - u, q)
<1>1. p \in Nat \ {0} /\ q \in Nat \ {0}
  BY TwoToFacts
<1>2. t \in 1 .. p /\ t <= x /\ u \in 1 .. q /\ u <= x
  BY DEF Turns
<1>3. \/ t + p <= x /\ u + q <= x /\ t + p = u + q
      \/ t + p > x /\ u + q > x /\ t = u
  <2>1. CASE ~halved
    BY <1>1, <1>2, <2>1 DEF Turn
  <2>2. CASE halved
    <3> DEFINE g == (t + p) \div 2
               k == t \div 2
               v == (u + q) \div 2
               l == u \div 2
               h == x \div 2
    <3>1. t + p = 2 * g /\ g \in Nat \ {0} /\ (t + p > x => t = 2 * k /\ k \in Nat \ {0})
      BY <1>1, <2>2, HalvedTurn
    <3>2. u + q = 2 * v /\ v \in Nat \ {0} /\ (u + q > x => u = 2 * l /\ l \in Nat \ {0})
      BY <1>1, <2>2, HalvedTurn
    <3>3. h \in Nat /\ (x = 2 * h \/ x = 2 * h + 1)
      OBVIOUS
    <3>4. (IF t + p <= x THEN h + g ELSE k) = (IF u + q <= x THEN h + v ELSE l)
      BY <2>2 DEF Turn
    <3> HIDE DEF g, k, v, l, h
    <3>5. CASE t + p <= x /\ u + q <= x
      BY <3>1, <3>2, <3>3, <3>4, <3>5
    <3>6. CASE t + p > x /\ u + q > x
      <4>1. k = l
        BY <1>1, <1>2, <3>4, <3>6
      <4> QED
        BY <3>1, <3>2, <3>6, <4>1
    <3>7. CASE t + p <= x /\ u + q > x
      <4>1. h + g = l
        BY <1>1, <1>2, <3>4, <3>7
      <4> QED
        BY <1>2, <3>1, <3>2, <3>3, <3>7, <4>1
    <3>8. CASE t + p > x /\ u + q <= x
      <4>1. k = h + v
        BY <1>1, <1>2, <3>4, <3>8
      <4> QED
        BY <1>2, <3>1, <3>2, <3>3, <3>8, <4>1
    <3> QED
      BY <1>1, <1>2, <3>5, <3>6, <3>7, <3>8
  <2> QED
    BY <2>1, <2>2
<1>4. CASE t + p = u + q
  <2>1. t + p \in Nat /\ p < t + p /\ t + p <= 2 * p /\ q < t + p /\ t + p <= 2 * q
    BY <1>1, <1>2, <1>4
  <2>2. p = q
    BY <2>1, SamePower
  <2>3. t = u
    BY <1>1, <1>2, <1>4, <2>2
  <2> QED
    BY <2>2, <2>3
<1>5. CASE t + p > x /\ u + q > x /\ t = u
  <2>1. y \in Nat /\ y < t + p /\ y < u + q
    BY <1>1, <1>2, <1>5
  <2>2. y < t \/ t <= y
    BY <1>2, <2>1
  <2> QED
    BY <1>1, <1>2, <1>5, <2>1, <2>2, BitTo
<1> QED
  BY <1>3, <1>4, <1>5

-----------------------------------------------------------------------------
(* A number for every node.                                                *)

\* Literal l is a bit of the sum of row j of column c, in the table t.
IsBit(t, l, c, j, b, cut) ==
  \A a \in Inputs : \A F : \A G : Values(F, t, a) /\ Sums(G, a) =>
    Value(F, l) = BitOf(Subtotal(G, c, j + 1) - cut, TwoTo(b))
NodeRow(t, i, c, j) ==
  c \in 0 .. M - 2 /\ j \in 0 .. c /\ UsedRow(c, j) /\ t[i][1] = TopVar(c) - j
NodeBit(t, i, c, j, b, cut) ==
  /\ NodeRow(t, i, c, j) /\ b \in Nat /\ cut \in Int
  /\ HalvedRow(c, j) /\ b > 0 => cut % 2 = 0
  /\ \E l \in {2 * i, 2 * i + 1} : IsBit(t, l, c, j, b, cut)
BitsInv(t) == \A i \in DOMAIN t : \E c, j, b, cut : NodeBit(t, i, c, j, b, cut)

\* The same in the form in which no two of the numbers are one bit.
Stands(i, l, c, j, b, u) ==
  /\ NodeRow(nodes, i, c, j) /\ b \in Nat /\ l \in {2 * i, 2 * i + 1}
  /\ Turns(HalvedRow(c, j), Largest(c, j + 1), u, TwoTo(b))
  /\ IsBit(nodes, l, c, j, b, u - TwoTo(b))

LEMMA RowRange ==
  ASSUME NEW c \in 0 .. M - 2, NEW j \in 0 .. c, UsedRow(c, j)
  PROVE  LET x == Largest(c, j + 1)
             top == Carry(c) + Height(c)
         IN /\ x \in Nat /\ Carry(c) \in Nat /\ top \in Nat /\ x >= Carry(c) + 1 /\ x <= top
            /\ x = Carry(c) + j - FirstRow(c) + 1 /\ FirstRow(c) \in Nat
            /\ HalvedRow(c, j) => x = top /\ x >= 2 /\ c > 0
            /\ ~HalvedRow(c, j) /\ c > 0 => x <= top - 1
            /\ c = 0 => x = 1 /\ Carry(c) = 0 /\ ~HalvedRow(c, j)
<1>1. N \in Nat /\ 1 < N /\ M = 2 * N /\ c \in Nat /\ j \in Nat /\ j <= c /\ c <= M - 2
  BY NAssumption DEF M
<1>2. CASE c = 0
  BY <1>1, <1>2 DEF Carry, Largest, UsedRows, UsedRow, FirstRow, Height, HalvedRow
<1>3. CASE c > 0 /\ c < N
  BY <1>1, <1>3 DEF Carry, Largest, UsedRows, UsedRow, FirstRow, Height, HalvedRow
<1>4. CASE c = N
  BY <1>1, <1>4 DEF Carry, Largest, UsedRows, UsedRow, FirstRow, Height, HalvedRow
<1>5. CASE c > N
  BY <1>1, <1>5 DEF Carry, Largest, UsedRows, UsedRow, FirstRow, Height, HalvedRow
<1> QED
  BY <1>1, <1>2, <1>3, <1>4, <1>5

LEMMA LiteralsOf ==
  ASSUME Table(nodes), NEW i \in DOMAIN nodes, NEW l \in {2 * i, 2 * i + 1}
  PROVE  /\ l \in Named(nodes) /\ l >= 2 /\ l \div 2 = i /\ l \in Nat
         /\ Not(l) \in {2 * i, 2 * i + 1}
<1> DEFINE n == Len(nodes)
<1>1. n \in Nat /\ i \in 1 .. n
  BY DEF Table
<1>2. l \in Nat /\ l >= 2 /\ l < 2 * (n + 1) /\ l \div 2 = i
  <2> HIDE DEF n
  <2> QED
    BY <1>1
<1>3. Not(l) \in {2 * i, 2 * i + 1}
  <2>1. i \in Nat
    BY <1>1
  <2> QED
    BY <2>1 DEF Not
<1> QED
  BY <1>2, <1>3 DEF Named

LEMMA NodeStands ==
  ASSUME Table(nodes), Ordered(nodes), NEW i \in DOMAIN nodes,
         NEW c, NEW j, NEW b, NEW cut, NodeBit(nodes, i, c, j, b, cut)
  PROVE  \E l, u : Stands(i, l, c, j, b, u)
<1> DEFINE p == TwoTo(b)
           x == Largest(c, j + 1)
<1>1. /\ NodeRow(nodes, i, c, j) /\ b \in Nat /\ cut \in Int
      /\ HalvedRow(c, j) /\ b > 0 => cut % 2 = 0
  BY DEF NodeBit
<1>2. /\ c \in 0 .. M - 2 /\ j \in 0 .. c /\ UsedRow(c, j) /\ M \in Nat
      /\ c \in 0 .. M - 1 /\ j + 1 \in 0 .. c + 1
  BY <1>1, SizeOfOutput DEF NodeRow
<1>3. p \in Nat \ {0} /\ (b > 0 => p % 2 = 0) /\ (b = 0 => p = 1)
  <2>1. p \in Nat \ {0} /\ (b = 0 => p = 1)
    BY <1>1, TwoToFacts
  <2>2. ASSUME b > 0 PROVE p % 2 = 0
    <3>1. b - 1 \in Nat /\ b = (b - 1) + 1
      BY <1>1, <2>2
    <3>2. p = 2 * TwoTo(b - 1) /\ TwoTo(b - 1) \in Nat
      BY <3>1, TwoToFacts
    <3> QED
      BY <3>2
  <2> QED
    BY <2>1, <2>2
<1>4. PICK k \in {2 * i, 2 * i + 1} : IsBit(nodes, k, c, j, b, cut)
  BY DEF NodeBit
<1>5. /\ k \in Named(nodes) /\ k >= 2 /\ k \in Nat
      /\ Not(k) \in {2 * i, 2 * i + 1} /\ Not(k) \in Named(nodes) /\ Not(k) >= 2
  BY LiteralsOf
<1> HIDE DEF p
<1>6. PICK u \in 1 .. p :
        /\ p % 2 = 0 /\ cut % 2 = 0 => u % 2 = 0
        /\ \/ \A y \in Int : BitOf(y - cut, p) = BitOf(y + p - u, p)
           \/ \A y \in Int : BitOf(y - cut, p) = 1 - BitOf(y + p - u, p)
  BY <1>1, <1>3, NormalBit
<1>7. u \in Int /\ p \in Int /\ \A y \in Int : y - (u - p) = y + p - u
  BY <1>3
<1>8. \A y \in Nat : BitOf(y + p - u, p) \in {0, 1}
  <2> SUFFICES ASSUME NEW y \in Nat PROVE BitOf(y + p - u, p) \in {0, 1}
    OBVIOUS
  <2>1. y + p - u \in Int
    BY <1>7
  <2> QED
    BY <1>3, <2>1, BitTurns
<1>9. PICK l \in {2 * i, 2 * i + 1} : IsBit(nodes, l, c, j, b, u - p)
  <2>1. ASSUME NEW a \in Inputs, NEW F, NEW G, Values(F, nodes, a), Sums(G, a),
               NEW y, y = Subtotal(G, c, j + 1)
        PROVE  /\ y \in Nat /\ y \in Int /\ y - (u - p) = y + p - u
               /\ Value(F, k) = BitOf(y - cut, p) /\ Value(F, Not(k)) = 1 - Value(F, k)
    <3>1. y \in Nat
      BY <1>2, <2>1, SumsType
    <3>2. Value(F, k) = BitOf(y - cut, p)
      BY <1>4, <2>1 DEF IsBit, p
    <3>3. F \in [Nat -> {0, 1}]
      BY <2>1 DEF Values
    <3> QED
      BY <1>5, <1>7, <3>1, <3>2, <3>3, ValueFacts
  <2>2. CASE \A y \in Int : BitOf(y - cut, p) = BitOf(y + p - u, p)
    <3>1. ASSUME NEW a \in Inputs, NEW F, NEW G, Values(F, nodes, a), Sums(G, a)
          PROVE  Value(F, k) = BitOf(Subtotal(G, c, j + 1) - (u - p), p)
      <4> DEFINE y == Subtotal(G, c, j + 1)
      <4>1. y \in Int /\ y - (u - p) = y + p - u /\ Value(F, k) = BitOf(y - cut, p)
        BY <2>1, <3>1
      <4> HIDE DEF y
      <4>2. Value(F, k) = BitOf(y - (u - p), p)
        BY <2>2, <4>1
      <4> QED
        BY <4>2 DEF y
    <3>2. IsBit(nodes, k, c, j, b, u - p)
      BY <3>1 DEF IsBit, p
    <3> QED
      BY <3>2
  <2>3. CASE \A y \in Int : BitOf(y - cut, p) = 1 - BitOf(y + p - u, p)
    <3>1. ASSUME NEW a \in Inputs, NEW F, NEW G, Values(F, nodes, a), Sums(G, a)
          PROVE  Value(F, Not(k)) = BitOf(Subtotal(G, c, j + 1) - (u - p), p)
      <4> DEFINE y == Subtotal(G, c, j + 1)
      <4>1. y \in Nat /\ y \in Int /\ y - (u - p) = y + p - u /\ Value(F, k) = BitOf(y - cut, p)
            /\ Value(F, Not(k)) = 1 - Value(F, k)
        BY <2>1, <3>1
      <4> HIDE DEF y
      <4> DEFINE w == BitOf(y + p - u, p)
      <4>2. Value(F, Not(k)) = 1 - (1 - w) /\ w \in {0, 1} /\ BitOf(y - (u - p), p) = w
        BY <1>8, <2>3, <4>1
      <4> HIDE DEF w
      <4>3. Value(F, Not(k)) = w
        BY <4>2
      <4> QED
        BY <4>2, <4>3 DEF y
    <3>2. IsBit(nodes, Not(k), c, j, b, u - p)
      BY <3>1 DEF IsBit, p
    <3> QED
      BY <1>5, <3>2
  <2> QED
    BY <1>6, <2>2, <2>3
<1>10. l \in Named(nodes) /\ l >= 2 /\ l \in Nat
  BY LiteralsOf
<1>11. x \in Nat /\ (HalvedRow(c, j) => x >= 2)
  BY <1>2, RowRange
<1>12. u <= x
  <2> SUFFICES ASSUME ~(u <= x) PROVE FALSE
    OBVIOUS
  <2>1. ASSUME NEW a \in Inputs, NEW F, Values(F, nodes, a) PROVE Value(F, l) = Value(F, 0)
    <3>1. PICK G : Sums(G, a)
      BY SumsExist
    <3> DEFINE y == Subtotal(G, c, j + 1)
    <3>2. y \in 0 .. x
      BY <1>2, <3>1, SubtotalLargest
    <3>3. Value(F, l) = BitOf(y - (u - p), p)
      BY <1>9, <2>1, <3>1 DEF IsBit, p
    <3> HIDE DEF y, x
    <3>4. y \in Nat /\ y < u /\ y - (u - p) = y + p - u
      BY <1>7, <1>11, <3>2
    <3>5. BitOf(y + p - u, p) = 0
      BY <1>3, <3>4, BitTo
    <3>6. F \in [Nat -> {0, 1}] /\ F[0] = 0 /\ 0 \in Nat
      BY <2>1 DEF Values
    <3> QED
      BY <3>3, <3>4, <3>5, <3>6, ValueFacts
  <2>2. Equal(l, 0)
    BY <2>1 DEF Equal
  <2>3. 0 \in Named(nodes)
    <3>1. Len(nodes) \in Nat
      BY DEF Table
    <3> QED
      BY <3>1 DEF Named
  <2>4. l = 0
    BY <1>10, <2>2, <2>3, Canonical
  <2> QED
    BY <1>10, <2>4
<1>13. Turns(HalvedRow(c, j), x, u, p)
  <2>1. HalvedRow(c, j) => p = 1 \/ (p % 2 = 0 /\ u % 2 = 0)
    BY <1>1, <1>3, <1>6
  <2> HIDE DEF x
  <2> QED
    BY <1>11, <1>12, <2>1 DEF Turns
<1>14. Stands(i, l, c, j, b, u)
  BY <1>1, <1>9, <1>13 DEF Stands, p
<1> QED
  BY <1>14

\* The column, then the largest sum, then the turn.
NumberOf(c, j, b, u) ==
  LET x == Largest(c, j + 1)
  IN Room(c) + ((x - 1) * (x - 1) - Carry(c) * Carry(c)) + Turn(HalvedRow(c, j), x, u, TwoTo(b))

LEMMA Larger ==
  ASSUME NEW x \in Nat, NEW y \in Nat, x <= y
  PROVE  x * x <= y * y
<1> DEFINE n == y - x
<1>1. n \in Nat /\ y = x + n
  OBVIOUS
<1> HIDE DEF n
<1>2. y * y = x * x + 2 * (x * n) + n * n /\ x * n \in Nat /\ n * n \in Nat
  BY <1>1
<1> QED
  BY <1>2

LEMMA SameSquare ==
  ASSUME NEW x \in Nat, NEW y \in Nat, NEW k \in 1 .. 2 * x - 1, NEW l \in 1 .. 2 * y - 1,
         (x - 1) * (x - 1) + k = (y - 1) * (y - 1) + l
  PROVE  x = y
<1>1. ASSUME NEW v \in Nat, NEW w \in Nat, NEW i \in 1 .. 2 * v - 1, NEW j \in 1 .. 2 * w - 1,
             (v - 1) * (v - 1) + i = (w - 1) * (w - 1) + j
      PROVE  ~(v < w)
  <2> SUFFICES ASSUME v < w PROVE FALSE
    OBVIOUS
  <2>1. v \in Nat /\ w - 1 \in Nat /\ v <= w - 1
    BY <1>1
  <2>2. v * v <= (w - 1) * (w - 1)
    BY <2>1, Larger
  <2>3. (v - 1) * (v - 1) = v * v - 2 * v + 1
    OBVIOUS
  <2>4. v * v \in Int /\ (w - 1) * (w - 1) \in Int /\ i <= 2 * v - 1 /\ j >= 1
        /\ i \in Int /\ j \in Int
    BY <1>1
  <2> QED
    BY <1>1, <2>2, <2>3, <2>4
<1>2. ~(x < y) /\ ~(y < x)
  BY <1>1
<1> QED
  BY <1>2

LEMMA NumberRange ==
  ASSUME NEW i, NEW l, NEW c, NEW j, NEW b, NEW u, Stands(i, l, c, j, b, u)
  PROVE  /\ c \in 0 .. M - 2 /\ NumberOf(c, j, b, u) \in Room(c) + 1 .. Room(c + 1)
         /\ Turn(HalvedRow(c, j), Largest(c, j + 1), u, TwoTo(b)) \in 1 .. 2 * Largest(c, j + 1) - 1
         /\ Largest(c, j + 1) \in Nat
<1> DEFINE p == TwoTo(b)
           x == Largest(c, j + 1)
           g == Carry(c)
           top == Carry(c) + Height(c)
           h == HalvedRow(c, j)
           k == Turn(h, x, u, p)
           n == NumberOf(c, j, b, u)
<1>1. /\ c \in 0 .. M - 2 /\ j \in 0 .. c /\ UsedRow(c, j) /\ M \in Nat
      /\ c \in 0 .. M - 1 /\ c + 1 \in 0 .. M - 1 /\ b \in Nat /\ Turns(h, x, u, p)
  BY SizeOfOutput DEF Stands, NodeRow
<1>2. p \in Nat \ {0}
  BY <1>1, TwoToFacts
<1>3. /\ x \in Nat /\ g \in Nat /\ top \in Nat /\ x >= g + 1 /\ x <= top
      /\ h => x = top /\ x >= 2 /\ c > 0
      /\ ~h /\ c > 0 => x <= top - 1
      /\ c = 0 => x = 1 /\ g = 0 /\ ~h
  BY <1>1, RowRange
<1>4. h \in BOOLEAN
  BY DEF HalvedRow
<1>5. Room(c) \in Nat /\ Room(c + 1) = Room(c) + RoomOf(c) /\ RoomOf(c) \in Nat
  BY <1>1, RoomFacts
<1>6. RoomOf(c) = IF c = 0 THEN 1 ELSE (top - 1) * (top - 1) - g * g + 2 * (top \div 2)
  BY DEF RoomOf
<1>7. n = Room(c) + ((x - 1) * (x - 1) - g * g) + k
  BY DEF NumberOf
<1> HIDE DEF p, x, g, top, h, k, n
<1>8. k \in 1 .. 2 * x - 1 /\ (h => k <= 2 * (x \div 2))
  BY <1>1, <1>2, <1>3, <1>4, TurnRange DEF k
<1> DEFINE ax == (x - 1) * (x - 1)
           ag == g * g
           st == (top - 1) * (top - 1)
<1>9. ax \in Int /\ ag \in Int /\ st \in Int /\ ag <= ax
  <2>1. x - 1 \in Nat /\ g <= x - 1
    BY <1>3
  <2> QED
    BY <1>3, <2>1, Larger
<1>10. n > Room(c)
  <2> HIDE DEF ax, ag
  <2>1. n = Room(c) + (ax - ag) + k
    BY <1>7 DEF ax, ag
  <2> QED
    BY <1>3, <1>5, <1>8, <1>9, <2>1
<1>11. n <= Room(c + 1)
  <2>1. CASE c = 0
    <3>1. x = 1 /\ g = 0 /\ k = 1 /\ RoomOf(c) = 1
      BY <1>3, <1>6, <1>8, <2>1
    <3> QED
      BY <1>5, <1>7, <3>1
  <2>2. CASE c # 0 /\ h
    <3>1. x = top /\ k <= 2 * (top \div 2) /\ RoomOf(c) = st - ag + 2 * (top \div 2) /\ ax = st
      BY <1>3, <1>6, <1>8, <2>2
    <3>2. top \div 2 \in Int /\ k \in Int
      BY <1>3, <1>8
    <3>3. n = Room(c) + (ax - ag) + k
      BY <1>7
    <3> HIDE DEF ax, ag, st
    <3> QED
      BY <1>5, <1>9, <3>1, <3>2, <3>3
  <2>3. CASE c # 0 /\ ~h
    <3>1. c > 0 /\ x <= top - 1 /\ top - 1 \in Nat
      BY <1>1, <1>3, <2>3
    <3>2. x * x <= st /\ x * x \in Int
      BY <1>3, <3>1, Larger
    <3>3. ax = x * x - 2 * x + 1
      BY <1>3
    <3>4. RoomOf(c) = st - ag + 2 * (top \div 2) /\ top \div 2 \in Nat
      BY <1>3, <1>6, <2>3
    <3>5. n = Room(c) + (ax - ag) + k /\ k \in Int /\ k <= 2 * x - 1
      BY <1>3, <1>7, <1>8
    <3> HIDE DEF ax, ag, st
    <3> QED
      BY <1>3, <1>5, <1>9, <3>2, <3>3, <3>4, <3>5
  <2> QED
    BY <2>1, <2>2, <2>3
<1>12. n \in Int
  <2> HIDE DEF ax, ag
  <2>1. n = Room(c) + (ax - ag) + k /\ k \in Int
    BY <1>7, <1>8 DEF ax, ag
  <2> QED
    BY <1>5, <1>9, <2>1
<1>13. n \in Room(c) + 1 .. Room(c + 1)
  BY <1>5, <1>10, <1>11, <1>12
<1> QED
  BY <1>1, <1>3, <1>8, <1>13 DEF n, k, h, x, p

LEMMA Cancelled ==
  ASSUME NEW r \in Int, NEW k \in Int, NEW l \in Int, NEW n \in Int, NEW i \in Int, NEW j \in Int
  PROVE  /\ r + (k - n) + i = r + (l - n) + j => k + i = l + j
         /\ r + i - n + 1 = r + j - n + 1 => i = j
OBVIOUS

LEMMA SameNumber ==
  ASSUME Table(nodes), Ordered(nodes), NEW i \in DOMAIN nodes, NEW k \in DOMAIN nodes,
         NEW l, NEW c, NEW j, NEW b, NEW u, Stands(i, l, c, j, b, u),
         NEW h, NEW d, NEW e, NEW g, NEW w, Stands(k, h, d, e, g, w),
         NumberOf(c, j, b, u) = NumberOf(d, e, g, w)
  PROVE  i = k
<1> DEFINE p == TwoTo(b)
           q == TwoTo(g)
           x == Largest(c, j + 1)
           y == Largest(d, e + 1)
<1>1. /\ c \in 0 .. M - 2 /\ j \in 0 .. c /\ UsedRow(c, j) /\ b \in Nat
      /\ Turns(HalvedRow(c, j), x, u, p) /\ l \in {2 * i, 2 * i + 1}
      /\ IsBit(nodes, l, c, j, b, u - p)
      /\ d \in 0 .. M - 2 /\ e \in 0 .. d /\ UsedRow(d, e) /\ g \in Nat
      /\ Turns(HalvedRow(d, e), y, w, q) /\ h \in {2 * k, 2 * k + 1}
      /\ IsBit(nodes, h, d, e, g, w - q) /\ M \in Nat
  BY SizeOfOutput DEF Stands, NodeRow
<1>2. /\ NumberOf(c, j, b, u) \in Room(c) + 1 .. Room(c + 1)
      /\ NumberOf(d, e, g, w) \in Room(d) + 1 .. Room(d + 1)
      /\ Turn(HalvedRow(c, j), x, u, p) \in 1 .. 2 * x - 1
      /\ Turn(HalvedRow(d, e), y, w, q) \in 1 .. 2 * y - 1
      /\ x \in Nat /\ y \in Nat
  BY NumberRange
<1>3. c = d
  <2>1. ASSUME NEW v \in 0 .. M - 2, NEW z \in 0 .. M - 2, v < z, NEW n,
               n \in Room(v) + 1 .. Room(v + 1), n \in Room(z) + 1 .. Room(z + 1)
        PROVE  FALSE
    <3>1. v + 1 \in 0 .. M - 1 /\ z \in 0 .. M - 1 /\ v + 1 <= z /\ z + 1 \in 0 .. M - 1
          /\ v \in 0 .. M - 1
      BY <1>1, <2>1
    <3>2. Room(v + 1) <= Room(z) /\ Room(v + 1) \in Nat /\ Room(z) \in Nat /\ Room(v) \in Nat
          /\ Room(z + 1) \in Nat
      BY <3>1, RoomGrows, RoomFacts
    <3> QED
      BY <2>1, <3>2
  <2>2. ~(c < d) /\ ~(d < c)
    BY <1>1, <1>2, <2>1
  <2> QED
    BY <1>1, <2>2
<1>4. x = y
  <2> DEFINE ax == (x - 1) * (x - 1)
             ay == (y - 1) * (y - 1)
             ag == Carry(c) * Carry(c)
             tx == Turn(HalvedRow(c, j), x, u, p)
             ty == Turn(HalvedRow(d, e), y, w, q)
  <2>1. Room(c) + (ax - ag) + tx = Room(c) + (ay - ag) + ty
    <3>1. NumberOf(c, j, b, u) = Room(c) + (ax - ag) + tx
      BY DEF NumberOf
    <3>2. NumberOf(d, e, g, w) = Room(d) + (ay - Carry(d) * Carry(d)) + ty
      BY DEF NumberOf
    <3> HIDE DEF ax, ay, tx, ty
    <3> QED
      BY <1>3, <3>1, <3>2
  <2>2. Room(c) \in Int /\ ax \in Int /\ ay \in Int /\ ag \in Int /\ tx \in Int /\ ty \in Int
    <3>1. Carry(c) \in Nat /\ Room(c) \in Nat
      <4>1. c \in 0 .. M - 1
        BY <1>1
      <4> QED
        BY <1>1, <4>1, RowRange, RoomFacts
    <3> HIDE DEF x, y
    <3> QED
      BY <1>2, <3>1
  <2>3. tx \in 1 .. 2 * x - 1 /\ ty \in 1 .. 2 * y - 1
    BY <1>2
  <2> HIDE DEF ax, ay, ag, tx, ty, x, y
  <2>4. ax + tx = ay + ty
    BY <2>1, <2>2, Cancelled
  <2> QED
    BY <1>2, <2>3, <2>4, SameSquare DEF ax, ay
<1>5. j = e
  <2>1. /\ x = Carry(c) + j - FirstRow(c) + 1 /\ FirstRow(c) \in Nat /\ Carry(c) \in Nat
        /\ y = Carry(c) + e - FirstRow(c) + 1
    <3>1. y = Carry(d) + e - FirstRow(d) + 1
      BY <1>1, RowRange
    <3> HIDE DEF y
    <3> QED
      BY <1>1, <1>3, <3>1, RowRange
  <2>2. j \in Int /\ e \in Int
    BY <1>1
  <2>3. Carry(c) + j - FirstRow(c) + 1 = Carry(c) + e - FirstRow(c) + 1
    BY <1>4, <2>1
  <2> QED
    BY <2>1, <2>2, <2>3, Cancelled
<1>6. Turn(HalvedRow(c, j), x, u, p) = Turn(HalvedRow(c, j), x, w, q)
  <2> DEFINE ax == (x - 1) * (x - 1)
             ag == Carry(c) * Carry(c)
             tx == Turn(HalvedRow(c, j), x, u, p)
             ty == Turn(HalvedRow(c, j), x, w, q)
  <2>1. Room(c) + (ax - ag) + tx = Room(c) + (ax - ag) + ty
    BY <1>3, <1>5 DEF NumberOf
  <2>2. Room(c) \in Int /\ ax \in Int /\ ag \in Int /\ tx \in Int /\ ty \in Int
    <3>1. Carry(c) \in Nat /\ Room(c) \in Nat
      <4>1. c \in 0 .. M - 1
        BY <1>1
      <4> QED
        BY <1>1, <4>1, RowRange, RoomFacts
    <3>2. tx \in 1 .. 2 * x - 1 /\ ty \in 1 .. 2 * x - 1
      BY <1>2, <1>3, <1>5
    <3> HIDE DEF x, tx, ty
    <3> QED
      BY <1>2, <3>1, <3>2
  <2> HIDE DEF ax, ag, tx, ty, x
  <2>3. tx = ty
    BY <2>1, <2>2
  <2> QED
    BY <2>3 DEF tx, ty
<1>7. l \in Named(nodes) /\ l \div 2 = i /\ h \in Named(nodes) /\ h \div 2 = k
  BY <1>1, LiteralsOf
<1>8. ASSUME NEW a \in Inputs, NEW F, Values(F, nodes, a) PROVE Value(F, l) = Value(F, h)
  <2>1. PICK G : Sums(G, a)
    BY SumsExist
  <2> DEFINE z == Subtotal(G, c, j + 1)
  <2>2. z \in 0 .. x
    <3>1. c \in 0 .. M - 1 /\ j + 1 \in 0 .. c + 1
      BY <1>1
    <3> QED
      BY <2>1, <3>1, SubtotalLargest
  <2>3. Value(F, l) = BitOf(z - (u - p), p) /\ Value(F, h) = BitOf(z - (w - q), q)
    BY <1>1, <1>3, <1>5, <1>8, <2>1 DEF IsBit
  <2>4. Turns(HalvedRow(c, j), x, u, p) /\ Turns(HalvedRow(c, j), x, w, q) /\ HalvedRow(c, j) \in BOOLEAN
    BY <1>1, <1>3, <1>5 DEF HalvedRow
  <2> HIDE DEF x, y, z
  <2>5. BitOf(z + p - u, p) = BitOf(z + q - w, q)
    BY <1>1, <1>2, <1>6, <2>2, <2>4, SameTurn
  <2>6. z - (u - p) = z + p - u /\ z - (w - q) = z + q - w
    <3>1. p \in Nat /\ q \in Nat
      BY <1>1, TwoToFacts
    <3>2. u \in Int /\ w \in Int
      BY <1>1, <3>1 DEF Turns
    <3>3. z \in Int
      BY <2>2
    <3> HIDE DEF p, q
    <3> QED
      BY <3>1, <3>2, <3>3
  <2> QED
    BY <2>3, <2>5, <2>6
<1>9. l = h
  BY <1>7, <1>8, Canonical DEF Equal
<1> QED
  BY <1>7, <1>9

\* There is room for all nodes.
LEMMA NodesFit ==
  ASSUME Table(nodes), Ordered(nodes), BitsInv(nodes)
  PROVE  Len(nodes) + 1 <= ALLOC
<1> DEFINE L == Len(nodes)
           T == 1 .. ALLOC - 1
           Is(i, n) == \E l, c, j, b, u : Stands(i, l, c, j, b, u) /\ n = NumberOf(c, j, b, u)
           f == [i \in 1 .. L |-> CHOOSE n \in T : Is(i, n)]
<1>1. L \in Nat /\ DOMAIN nodes = 1 .. L /\ M \in Nat /\ 1 < M
  BY SizeOfOutput DEF Table
<1>2. Room(0) = 0 /\ Room(M - 1) = ALLOC - 1 /\ \A c \in 0 .. M - 1 : Room(c) \in Nat
  BY RoomFacts
<1>3. ASSUME NEW i \in 1 .. L PROVE \E n \in T : Is(i, n)
  <2>1. PICK c, j, b, cut : NodeBit(nodes, i, c, j, b, cut)
    BY <1>1 DEF BitsInv
  <2>2. PICK l, u : Stands(i, l, c, j, b, u)
    BY <1>1, <2>1, NodeStands
  <2> DEFINE n == NumberOf(c, j, b, u)
  <2>3. c \in 0 .. M - 2 /\ n \in Room(c) + 1 .. Room(c + 1)
    BY <2>2, NumberRange
  <2>4. c \in 0 .. M - 1 /\ c + 1 \in 0 .. M - 1 /\ M - 1 \in 0 .. M - 1 /\ c + 1 <= M - 1
    BY <1>1, <2>3
  <2>5. Room(c + 1) <= Room(M - 1) /\ Room(c) \in Nat /\ Room(c + 1) \in Nat
    BY <1>2, <2>4, RoomGrows
  <2> HIDE DEF n
  <2>6. n \in T
    BY <1>2, <2>3, <2>4, <2>5
  <2> QED
    BY <2>2, <2>6 DEF n
<1>4. f \in [1 .. L -> T]
  BY <1>3
<1>5. \A i \in 1 .. L : Is(i, f[i])
  BY <1>3
<1> HIDE DEF f
<1>6. ASSUME NEW i \in 1 .. L, NEW k \in 1 .. L, f[i] = f[k] PROVE i = k
  BY <1>1, <1>5, <1>6, SameNumber
<1>7. f \in Injection(1 .. L, T)
  BY <1>4, <1>6 DEF Injection, IsInjective
<1>8. ALLOC - 1 \in Nat
  <2>1. M - 1 \in 0 .. M - 1
    BY <1>1
  <2> QED
    BY <1>2, <2>1
<1>9. Cardinality(1 .. L) = L
  <2> HIDE DEF L
  <2>1. Cardinality(1 .. L) = IF 1 > L THEN 0 ELSE L - 1 + 1
    BY <1>1, FS_Interval
  <2> QED
    BY <1>1, <2>1
<1>10. IsFiniteSet(T) /\ Cardinality(T) = ALLOC - 1
  <2> DEFINE z == ALLOC - 1
  <2>1. z \in Nat
    BY <1>8
  <2> HIDE DEF z
  <2>2. IsFiniteSet(1 .. z) /\ Cardinality(1 .. z) = IF 1 > z THEN 0 ELSE z - 1 + 1
    BY <2>1, FS_Interval
  <2>3. Cardinality(1 .. z) = z
    BY <2>1, <2>2
  <2> QED
    BY <2>2, <2>3 DEF z
<1> HIDE DEF T, L
<1>11. L <= ALLOC - 1
  BY <1>7, <1>9, <1>10, FS_Injection
<1>12. ALLOC \in Int
  BY NAssumption DEF ALLOC
<1> QED
  BY <1>1, <1>11, <1>12 DEF L

\* The nodes that a row makes.
LEMMA RowNodes ==
  ASSUME NEW p, NEW q, RowIs(p, q), pBuf \in Seq(Literals(nodes)),
         BufferMeans(nodes, pBuf, m, col, row), Row,
         NEW i \in DOMAIN nodes', i \notin DOMAIN nodes
  PROVE  \E b, cut : NodeBit(nodes', i, col, row, b, cut)
<1> DEFINE marks == IF fSkip THEN SkipMarks ELSE pSkip
           r == Places(marks)[levelsize]
           width == levelsize
           b == m - col - 1
<1>1. nodes' = r.nodes
  BY DEF Row
<1>2. fSkip => marks = OddCuts(p, col + row)
  BY MarksUsed
<1> HIDE DEF marks
<1>3. RowTo(r, width, marks)
  BY RowMeans
<1> HIDE DEF r
<1>4. /\ q \in Nat \ {0} /\ p = 2 * q /\ Shaped(p, col + row - 1) /\ p \in Nat
      /\ col \in Nat \ {0} /\ row \in 0 .. col /\ col \in 0 .. M - 2 /\ M \in Nat /\ N \in Nat
      /\ width \in Nat \ {0} /\ p = TwoTo(b) /\ b \in Nat /\ b > 0 /\ nodes \in Seq(Triples)
      /\ Var = TopVar(col)
  <2>1. /\ q \in Nat \ {0} /\ p = 2 * q /\ p \in Nat /\ width \in Nat \ {0}
        /\ M \in Nat /\ N \in Nat
    BY RowSizes, SizeOfOutput
  <2>2. /\ m \in Nat /\ m <= M /\ col \in Nat \ {0} /\ col <= m - 2 /\ row \in 0 .. col
        /\ Var = TopVar(col) /\ nodes \in Seq(Triples) /\ p = TwoTo(b)
        /\ Shaped(p, col + row - 1)
    BY DEF RowIs, Table
  <2>3. col \in 0 .. M - 2 /\ b \in Nat /\ b > 0
    BY <2>1, <2>2
  <2> QED
    BY <2>1, <2>2, <2>3
<1>5. PICK n, l : n \in 0 .. width - 1 /\ Behind(nodes', i, l, n, marks)
  BY <1>1, <1>3 DEF RowTo
<1>6. /\ fUse /\ ~Skips(n, marks) /\ nodes'[i][1] = Var - row /\ l \in {2 * i, 2 * i + 1}
      /\ \A a : \A F : Values(F, nodes', a) => Value(F, l) = Chosen(F, a, Var - row, fUse, Pair(n))
  BY <1>5 DEF Behind, Placed
<1>7. NodeRow(nodes', i, col, row)
  BY <1>4, <1>6 DEF NodeRow, fUse, UsedRow
<1>8. row < N
  BY <1>6 DEF fUse
<1>9. Extends(nodes, nodes') /\ nodes' \in Seq(Triples)
  BY <1>1, <1>3 DEF RowTo, RowInv
<1> DEFINE cut == IF row < col THEN Cut(p, col + row, n) ELSE 2 * Cut(q, col, n)
           even == col >= N /\ row >= N
<1>10. Cut(p, col + row, n) \in Int /\ Cut(q, col, n) \in Int
  <2>1. n \in Int /\ col + row \in Int /\ p \in Int /\ q \in Int /\ col \in Int
    BY <1>4, <1>5
  <2> QED
    BY <2>1, CutType
<1>11. HalvedRow(col, row) => cut % 2 = 0
  <2>1. CASE row < col
    <3> SUFFICES ASSUME HalvedRow(col, row) PROVE Cut(p, col + row, n) % 2 = 0
      BY <2>1
    <3>1. row = N - 1 /\ col >= N
      BY <1>4, <2>1 DEF HalvedRow
    <3>2. fSkip
      BY <2>1, <3>1 DEF fSkip
    <3>3. n \notin OddCuts(p, col + row)
      BY <1>2, <1>6, <3>2 DEF Skips
    <3>4. levelsize = Width(p, col + row)
      BY <2>1, RowSizes
    <3>5. Cut(p, col + row, n) % 2 \in {0, 1}
      BY <1>10, NotFacts
    <3> QED
      BY <1>5, <3>3, <3>4, <3>5 DEF OddCuts
  <2>2. CASE ~(row < col)
    <3> DEFINE w == Cut(q, col, n)
    <3>1. w \in Int
      BY <1>10
    <3> HIDE DEF w
    <3>2. (2 * w) % 2 = 0
      BY <3>1
    <3> QED
      BY <2>2, <3>2 DEF w
  <2> QED
    BY <2>1, <2>2
<1>12. ASSUME NEW a \in Inputs, NEW F, NEW G, Values(F, nodes', a), Sums(G, a)
       PROVE  Value(F, l) = BitOf(Subtotal(G, col, row + 1) - cut, p)
  <2> DEFINE x == Subtotal(G, col, row)
             u == Subtotal(G, col, row + 1)
             y == Chosen(F, a, Var - row, fUse, Pair(n))
  <2>1. F \in [Nat -> {0, 1}] /\ F[0] = 0 /\ Values(F, nodes, a)
    <3>1. Values(F, nodes, a)
      BY <1>4, <1>9, <1>12, ExtendsFacts
    <3> QED
      BY <3>1 DEF Values
  <2>2. x \in 0 .. col + row - 1 /\ Right(F, x, p, col + row - 1, even)
    BY <1>4, <1>12, <2>1 DEF BufferMeans, Right
  <2>3. even \in BOOLEAN /\ (even <=> col >= N /\ row >= N) /\ x = Subtotal(G, col, row)
        /\ n \in 0 .. levelsize - 1
    BY <1>5
  <2>4. Value(F, l) = y
    BY <1>6, <1>12
  <2> HIDE DEF even, x
  <2>5. /\ row < col /\ (even => Cut(p, col + row, n) % 2 = 0) => y = BitOf(u - Cut(p, col + row, n), p)
        /\ row = col => y = BitOf(u - 2 * Cut(q, col, n), p)
    BY <1>12, <2>1, <2>2, <2>3, PlaceValue
  <2>6. ~even /\ (row < col \/ row = col)
    BY <1>4, <1>8 DEF even
  <2> HIDE DEF y, u
  <2>7. y = BitOf(u - cut, p)
    BY <1>4, <2>5, <2>6
  <2> QED
    BY <2>4, <2>7 DEF u
<1>13. IsBit(nodes', l, col, row, b, cut)
  BY <1>4, <1>12 DEF IsBit
<1>14. cut \in Int
  <2>1. 2 * Cut(q, col, n) \in Int
    BY <1>10
  <2> QED
    BY <1>10, <2>1
<1> HIDE DEF cut, b
<1>15. NodeBit(nodes', i, col, row, b, cut)
  BY <1>4, <1>6, <1>7, <1>11, <1>13, <1>14 DEF NodeBit
<1> QED
  BY <1>15

\* The nodes that the last column makes.
LEMMA OutputNodes ==
  ASSUME LastColumnIs, NEW t, t = LastColumn.nodes, NEW i \in DOMAIN t, i \notin DOMAIN nodes
  PROVE  \E j, cut : NodeBit(t, i, m - 1, j, 0, cut)
<1>1. PICK j \in 0 .. m - 1 : OfRow(t, i, j)
  BY OutputIs
<1> DEFINE c == m - 1
           cut == - (j + 1) - Odd
<1>2. /\ m \in 1 .. M /\ M \in Nat /\ N \in Nat /\ c \in 0 .. M - 1 /\ j \in 0 .. c
      /\ j + 1 \in 0 .. c + 1
  BY SizeOfOutput DEF LastColumnIs
<1>3. /\ UsedRow(c, j) /\ t[i][1] = TopVar(c) - j
      /\ \E l \in {2 * i, 2 * i + 1} : \A a \in Inputs : \A F : \A G : Values(F, t, a) /\ Sums(G, a) =>
           Value(F, l) = (Subtotal(G, c, j + 1) + (j + 1) + Odd) % 2
  BY <1>1 DEF OfRow
<1>4. c \in 0 .. M - 2
  <2>1. c <= M - 2
    BY <1>2, <1>3, AddedFacts
  <2> QED
    BY <1>2, <2>1
<1>5. NodeRow(t, i, c, j)
  BY <1>2, <1>3, <1>4 DEF NodeRow
<1>6. Odd \in Int /\ cut \in Int
  BY <1>2 DEF Odd
<1>7. PICK l \in {2 * i, 2 * i + 1} : \A a \in Inputs : \A F : \A G : Values(F, t, a) /\ Sums(G, a) =>
           Value(F, l) = (Subtotal(G, c, j + 1) + (j + 1) + Odd) % 2
  BY <1>3
<1>8. ASSUME NEW a \in Inputs, NEW F, NEW G, Values(F, t, a), Sums(G, a)
      PROVE  Value(F, l) = BitOf(Subtotal(G, c, j + 1) - cut, TwoTo(0))
  <2> DEFINE x == Subtotal(G, c, j + 1)
  <2>1. x \in Int
    BY <1>2, <1>8, SumsType
  <2>2. Value(F, l) = (x + (j + 1) + Odd) % 2
    BY <1>7, <1>8
  <2> HIDE DEF x
  <2>3. x - cut = x + (j + 1) + Odd /\ x - cut \in Int
    BY <1>2, <1>6, <2>1
  <2>4. BitOf(x - cut, 1) = (x - cut) % 2
    BY <2>3, LastBit
  <2>5. TwoTo(0) = 1
    BY TwoToFacts
  <2> HIDE DEF cut
  <2> QED
    BY <2>2, <2>3, <2>4, <2>5 DEF x
<1>9. IsBit(t, l, c, j, 0, cut)
  BY <1>8 DEF IsBit
<1> HIDE DEF cut, c
<1>10. NodeBit(t, i, c, j, 0, cut)
  BY <1>5, <1>6, <1>9 DEF NodeBit
<1> QED
  BY <1>10 DEF c

LEMMA BitsMore ==
  ASSUME NEW t \in Seq(Triples), NEW u \in Seq(Triples), Extends(t, u), BitsInv(t),
         \A i \in DOMAIN u : i \notin DOMAIN t => \E c, j, b, cut : NodeBit(u, i, c, j, b, cut)
  PROVE  BitsInv(u)
<1>1. \A a : \A F : Values(F, u, a) => Values(F, t, a)
  BY ExtendsFacts
<1>2. ASSUME NEW i \in DOMAIN t PROVE \E c, j, b, cut : NodeBit(u, i, c, j, b, cut)
  <2>1. u[i] = t[i]
    BY DEF Extends
  <2>2. PICK c, j, b, cut : NodeBit(t, i, c, j, b, cut)
    BY DEF BitsInv
  <2>3. \A l : IsBit(t, l, c, j, b, cut) => IsBit(u, l, c, j, b, cut)
    BY <1>1 DEF IsBit
  <2>4. NodeBit(u, i, c, j, b, cut)
    BY <2>1, <2>2, <2>3 DEF NodeBit, NodeRow
  <2> QED
    BY <2>4
<1> QED
  BY <1>2 DEF BitsInv

-----------------------------------------------------------------------------
(* The arrays suffice.                                                     *)

\* Every node is a bit of the sum as one of the rows sees it.
RoomInv == BitsInv(nodes)

LEMMA RoomOfEmpty ==
  ASSUME NEW t, t = <<>>
  PROVE  BitsInv(t)
BY DEF BitsInv

LEMMA RowStepRoom == BddInv /\ MeansInv /\ RoomInv /\ RowStep => RoomInv'
<1> SUFFICES ASSUME BddInv, MeansInv, RoomInv, RowStep PROVE RoomInv'
  OBVIOUS
<1>1. /\ ColumnsInv /\ dpc = "rows" /\ Ordered(nodes) /\ pSkip = {} /\ pBuf \in Seq(Nat)
      /\ Table(nodes) /\ pBuf \in Seq(Literals(nodes)) /\ nodes \in Seq(Triples)
      /\ m \in 0 .. M /\ col \in Nat /\ row \in 0 .. col /\ col < m - 1
      /\ M \in Nat /\ 1 < M /\ Row
  BY SizeOfOutput DEF MeansInv, BddInv, TableInv, Table, RowStep
<1>2. /\ Var = TopVar(col) /\ col >= 1 /\ Var2 = TopVar(m - 1) /\ m >= 2
      /\ BufferInv(nodes, pBuf, nbuf, m, col, row)
  BY <1>1 DEF ColumnsInv
<1> DEFINE p == TwoTo(m - col - 1)
           q == TwoTo(m - col - 2)
<1>3. RowIs(p, q)
  BY <1>1, <1>2 DEF RowIs, BufferInv, Shaped
<1> HIDE DEF p, q
<1>4. /\ BufferMeans(nodes, pBuf, m, col, row)
      /\ \E c, j : <<c, j>> = IF row < col THEN <<col, row + 1>> ELSE <<col + 1, 0>>
  BY <1>2 DEF BufferInv
<1>5. Extends(nodes, nodes') /\ nodes' \in Seq(Triples)
  <2>1. PICK c, j : <<c, j>> = IF row < col THEN <<col, row + 1>> ELSE <<col + 1, 0>>
    BY <1>4
  <2> QED
    BY <1>1, <1>3, <1>4, <2>1, RowBuffer
<1>6. \A i \in DOMAIN nodes' : i \notin DOMAIN nodes =>
        \E c, j, b, cut : NodeBit(nodes', i, c, j, b, cut)
  BY <1>1, <1>3, <1>4, RowNodes
<1>7. BitsInv(nodes')
  BY <1>1, <1>5, <1>6, BitsMore DEF RoomInv
<1> QED
  BY <1>7 DEF RoomInv

LEMMA OutputStepRoom == BddInv /\ MeansInv /\ RoomInv /\ OutputStep => RoomInv'
<1> SUFFICES ASSUME BddInv, MeansInv, RoomInv, OutputStep PROVE RoomInv'
  OBVIOUS
<1>1. /\ ColumnsInv /\ dpc = "rows" /\ Ordered(nodes)
      /\ Table(nodes) /\ pBuf \in Seq(Literals(nodes)) /\ nodes \in Seq(Triples)
      /\ m \in 1 .. M /\ col >= m - 1 /\ col \in Nat /\ M \in Nat
      /\ nodes' = LastColumn.nodes
  BY SizeOfOutput DEF MeansInv, BddInv, TableInv, Table, OutputStep
<1>2. LastColumnIs
  <2>1. m # 1 => col = m - 1 /\ row = 0 /\ m >= 2
    BY <1>1 DEF ColumnsInv
  <2> QED
    BY <1>1, <2>1 DEF LastColumnIs, ColumnsInv
<1>3. nodes' \in Seq(Triples) /\ Extends(nodes, nodes')
  BY <1>1, <1>2, OutputIs
<1>4. \A i \in DOMAIN nodes' : i \notin DOMAIN nodes =>
        \E c, j, b, cut : NodeBit(nodes', i, c, j, b, cut)
  BY <1>1, <1>2, OutputNodes
<1>5. BitsInv(nodes')
  BY <1>1, <1>3, <1>4, BitsMore DEF RoomInv
<1> QED
  BY <1>5 DEF RoomInv

LEMMA RoomStep == BddInv /\ MeansInv /\ RoomInv /\ [Next]_vars => RoomInv'
<1> SUFFICES ASSUME BddInv, MeansInv, RoomInv, [Next]_vars PROVE RoomInv'
  OBVIOUS
<1>1. CASE UNCHANGED bddVars
  BY <1>1 DEF bddVars, RoomInv
<1>2. ASSUME NEW pc, BddMain(pc) PROVE RoomInv'
  BY <1>2, RoomOfEmpty DEF BddMain, RoomInv
<1>3. CASE BddRuns
  BY <1>3, RowStepRoom, OutputStepRoom DEF BddRuns, bdd_rows
<1>4. CASE ProgramRuns
  BY <1>1, <1>4 DEF ProgramRuns, programVars, BddCountNodesArray, RoomInv
<1>5. CASE BiosActs
  BY <1>1, <1>2, <1>5 DEF BiosActs, Begins
<1>6. CASE ProgramEnds \/ Reset
  BY <1>1, <1>2, <1>6 DEF ProgramEnds, Reset, run_and_time, ProgramsOff, programVars
<1>7. CASE UNCHANGED vars
  BY <1>1, <1>7 DEF vars, programVars
<1> QED
  BY <1>3, <1>4, <1>5, <1>6, <1>7 DEF Next

\* The arrays of bdd.c are large enough for every N: of all nodes that the rows of
\* all outputs make, no two are the same bit of the same sum, and the table has
\* a place for each such bit.
THEOREM ArraysSuffice == Spec => []BddWithinItsArrays
<1>1. BddInv /\ MeansInv /\ RoomInv => nObjs <= ALLOC
  BY NodesFit DEF BddInv, TableInv, MeansInv, RoomInv, nObjs
<1>2. nObjs <= ALLOC /\ NodesCountedOnce /\ RowsWithinBuffers => BddWithinItsArrays
  BY DEF BddWithinItsArrays
<1>3. Init => BddInv /\ MeansInv /\ RoomInv
  <2>1. Init => RoomInv
    BY RoomOfEmpty DEF Init, BddInit, RoomInv
  <2> QED
    BY <2>1, BddBegins, MeansBegins DEF Init
<1> QED
  BY <1>1, <1>2, <1>3, BddStep, MeansStep, RoomStep, CountIsOfNodes, RowsFit, PTL DEF Spec
=============================================================================

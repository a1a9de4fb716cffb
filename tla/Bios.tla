-------------------------------- MODULE Bios ---------------------------------
(***************************************************************************)
(* bios.c: the monitor in the boot memory.  One action per character that  *)
(* arrives: the code runs from one uread_int8() to the next, so the action *)
(* echoes the character, edits the token, and runs the command whose last  *)
(* token is complete, up to the prompt.  The host waits for the echo.      *)
(***************************************************************************)
EXTENDS Ascii

CONSTANTS
  BUFFER_LEN,
  MEM,         \* bytes of memory that the host uses
  Name,        \* the commands as they are typed: command -> string
  Programs,    \* the programs that can be loaded
  Image        \* program -> the contents of the memory that are this program

\* The characters that are no digits.
Letter == BASE
SP == BASE + 1
CR == BASE + 2
BS == BASE + 3
Chars == 0 .. BS
Delimiters == {SP, CR}

Cells == 0 .. MEM - 1
BYTE == Weights[DIGITS]     \* the number of values of a byte
Bytes == 0 .. BYTE - 1

Loads == {"lw", "lhu", "lbu"}
Stores == {"sw", "sh", "sb"}
Commands == {"file", "jal"} \union Loads \union Stores

ASSUME BiosAssumption ==
  /\ BUFFER_LEN \in Nat /\ BUFFER_LEN > DIGITS * WORD
  /\ MEM \in Nat \ {0} /\ MEM <= Weights[DIGITS * WORD]
  /\ Name \in [Commands -> Seq(0 .. Letter)]
  /\ \A c, d \in Commands : Name[c] = Name[d] => c = d
  /\ Image \in [Programs -> [Cells -> Bytes]]

VARIABLES
  running,  \* "bios", or the program that runs
  buf,      \* the characters of the token so far, b[0 .. i-1]
  cmd, args,\* the command that is waiting for tokens, "none" at the prompt
  load,     \* store(): where and how much, and how many words are there
  mem,
  term,     \* the terminal: the line it shows, on both sides of its cursor
  last,     \* history: the tokens of the last line, and what was printed
  due       \* history: characters of the file that the host has yet to send

biosVars == <<running, buf, cmd, args, load, mem, term, last, due>>

-----------------------------------------------------------------------------
(* The terminal, a backspace of which moves the cursor and erases nothing. *)
(* The line is shown from where the token starts; edge says that this is   *)
(* the first column.  Cells to the right are blank unless listed.  Blanks  *)
(* before the token are not counted.                                       *)

NewLine == [edge |-> TRUE, left |-> <<>>, right |-> <<>>]
Prompt == [edge |-> FALSE, left |-> <<>>, right |-> <<>>]
TokenStarts(t) == [t EXCEPT !.edge = t.edge /\ t.left = <<>>, !.left = <<>>]

Covering(ch, right) == IF ch = SP /\ right = <<>> THEN <<>> ELSE <<ch>> \o right

Put(t, ch) ==
  [t EXCEPT !.left = Append(t.left, ch),
            !.right = IF t.right = <<>> THEN <<>> ELSE Tail(t.right)]

Back(t) ==
  IF t.left # <<>>
  THEN [t EXCEPT !.left = Front(t.left),
                 !.right = Covering(Last(t.left), t.right)]
  ELSE IF t.edge THEN t ELSE [t EXCEPT !.right = <<Letter>> \o t.right]

\* uwrite_int8(ch), which shows the character.
uwrite_int8(t, ch) ==
  IF ch = CR THEN NewLine ELSE IF ch = BS THEN Back(t) ELSE Put(t, ch)

\* uread_int8() writes every character back, a return as "\r\n".
Echo(ch) == uwrite_int8(term, ch)

-----------------------------------------------------------------------------
(* Memory, least significant byte first.                                   *)

Size(c) == IF c \in {"lw", "sw"} THEN WORD ELSE IF c \in {"lhu", "sh"} THEN WORD \div 2 ELSE 1

\* The host uses the memory that is there, at aligned addresses.
Usable(a, size) == a % size = 0 /\ a + size <= MEM

Written(a, size, x) ==
  [k \in Cells |-> IF k \in a .. a + size - 1
                   THEN (x \div Powers(BYTE, WORD)[k - a]) % BYTE
                   ELSE mem[k]]
ReadAt(a, size) ==
  Number([k \in 1 .. size |-> mem[a + size - k]], BYTE)

-----------------------------------------------------------------------------
(* main.                                                                   *)

NoLoad == [address |-> 0, length |-> 0, i |-> 0]
Loading == cmd = "file" /\ Len(args) = 2
AtBios == running = "bios" /\ ~Loading
Typed(c, tokens, printed) == [cmd |-> c, tokens |-> tokens, printed |-> printed]
Nothing == Typed("none", <<>>, <<>>)

\* Back at the prompt after the command c.
Done(c, tokens, printed) ==
  /\ cmd' = "none" /\ args' = <<>> /\ buf' = <<>>
  /\ term' = Prompt
  /\ last' = Typed(c, tokens, printed)
  /\ UNCHANGED <<load, due>>

Address(token) == ascii_hex_to_uint(token, WORD)

lx(c, tokens) ==
  LET a == Address(tokens[1])
  IN /\ Usable(a, Size(c))
     /\ Done(c, tokens, << to_ascii_hex(a, WORD, BUFFER_LEN),
                           to_ascii_hex(ReadAt(a, Size(c)), Size(c), BUFFER_LEN) >>)
     /\ UNCHANGED <<running, mem>>

sx(c, tokens) ==
  LET a == Address(tokens[2])
  IN /\ Usable(a, Size(c))
     /\ mem' = Written(a, Size(c), ascii_hex_to_uint(tokens[1], Size(c)))
     /\ Done(c, tokens, <<>>)
     /\ UNCHANGED running

\* The host gives the length of the file, in bytes, as a decimal number.
\* "due" is what the host will send for it: the digits of as many words.
file(tokens) ==
  LET a == Address(tokens[1])
      length == ascii_dec_to_uint(tokens[2])
      words == (length + WORD - 1) \div WORD
  IN /\ tokens[2] \in Seq(0 .. DEC - 1) /\ Len(tokens[2]) <= DECDIGITS
     /\ a % WORD = 0 /\ a + words * WORD <= MEM
     /\ IF length = 0 THEN Done("file", tokens, <<>>)
        ELSE /\ load' = [address |-> a, length |-> length, i |-> 0]
             /\ cmd' = "file" /\ args' = tokens /\ buf' = <<>>
             /\ last' = Typed("file", tokens, <<>>)
             /\ due' = words * DIGITS * WORD
             /\ term' = Prompt
     /\ UNCHANGED <<running, mem>>

\* The host starts a program that it has loaded.
jal(tokens) ==
  /\ Address(tokens[1]) = 0
  /\ \E p \in Programs : mem = Image[p] /\ running' = p
  /\ Done("jal", tokens, <<>>)
  /\ UNCHANGED mem

Expected(c) == IF c \in Stores \union {"file"} THEN 2 ELSE 1

\* read_token() returns the token, and main goes on until it reads again.
TokenRead(token, shown) ==
  LET tokens == Append(args, token)
      Matches == {c \in Commands : strcmp(token, Name[c]) = 0}
      Next(c, a) == /\ cmd' = c /\ args' = a /\ buf' = <<>>
                    /\ term' = TokenStarts(shown)
                    /\ UNCHANGED <<running, load, mem, due>>
                    /\ last' = Nothing
  IN IF cmd = "none"
     THEN \/ \E c \in Matches : Next(c, <<>>)
          \/ /\ Matches = {}                           \* "Unrecognized token: "
             /\ Done("none", <<>>, token) /\ UNCHANGED <<running, mem>>
     ELSE IF Len(tokens) < Expected(cmd) THEN Next(cmd, tokens)
     ELSE CASE cmd = "file" -> file(tokens)
            [] cmd = "jal" -> jal(tokens)
            [] cmd \in Loads -> lx(cmd, tokens)
            [] cmd \in Stores -> sx(cmd, tokens)

Editing(b, shown) ==
  /\ buf' = b /\ term' = shown
  /\ last' = Nothing
  /\ UNCHANGED <<running, cmd, args, load, mem, due>>

\* One round of read_token().  A backspace at the start of the token writes a
\* blank, any other takes the last character away again.
\* Mutant: the character is not overwritten.
BackspaceUnerased ==
  /\ AtBios
  /\ IF buf = <<>> THEN Editing(buf, TokenStarts(uwrite_int8(Echo(BS), SP)))
     ELSE Editing(Front(buf), Echo(BS))
Backspace ==
  /\ AtBios
  /\ IF buf = <<>> THEN Editing(buf, TokenStarts(uwrite_int8(Echo(BS), SP)))
     ELSE Editing(Front(buf),
                  uwrite_int8(uwrite_int8(Echo(BS), SP), BS))

Delimiter ==
  /\ AtBios
  /\ \E ch \in Delimiters : TokenRead(buf, Echo(ch))

\* A character more.  The one that fills the buffer ends the token, and the
\* terminating zero is written over it.
Character ==
  /\ AtBios
  /\ \E ch \in 0 .. Letter :
       IF Len(buf) + 1 < BUFFER_LEN THEN Editing(Append(buf, ch), Echo(ch))
       ELSE TokenRead(buf, Echo(ch))

\* A digit of the file arrives: read_n() of store().  With its last digit the
\* word is written, and the loop looks whether there is another.
\* Mutant: the test of the loop is off by one.
MoreWordsLast(i) == i * WORD <= load.length
MoreWords(i) == i * WORD < load.length

FileDigit ==
  /\ running = "bios" /\ Loading
  /\ \E ch \in 0 .. BASE - 1 :
       LET word == Append(buf, ch)
           a == load.address + load.i * WORD
       IN IF Len(word) < DIGITS * WORD
          THEN /\ buf' = word /\ last' = Nothing
               /\ UNCHANGED <<cmd, args, load, mem>>
          ELSE /\ mem' = Written(a, WORD, ascii_hex_to_uint(word, WORD))
               /\ last' = Typed("word", <<word>>, <<>>)
               /\ buf' = <<>>
               /\ IF MoreWords(load.i + 1)
                  THEN load' = [load EXCEPT !.i = load.i + 1] /\ UNCHANGED <<cmd, args>>
                  ELSE load' = NoLoad /\ cmd' = "none" /\ args' = <<>>
  /\ due' = IF due = 0 THEN 0 ELSE due - 1
  /\ term' = Prompt
  /\ UNCHANGED running

\* main() from the beginning: after a reset, or when a program jumps back.
MainStarts(l) ==
  /\ running' = "bios" /\ buf' = <<>> /\ cmd' = "none" /\ args' = <<>>
  /\ load' = NoLoad /\ term' = Prompt /\ due' = 0 /\ last' = l
  /\ UNCHANGED mem

Idle(r) ==
  /\ running = r /\ buf = <<>> /\ cmd = "none" /\ args = <<>>
  /\ load = NoLoad /\ term = Prompt /\ due = 0 /\ last = Nothing

BiosInit == Idle("bios") /\ mem \in [Cells -> Bytes]

BiosStep == Backspace \/ Delimiter \/ Character \/ FileDigit

-----------------------------------------------------------------------------
\* What stands left of the cursor is the token as the code has it, and nothing
\* stands to its right, however the line has been edited.
ScreenShowsToken == AtBios => term.left = buf /\ term.right = <<>>

\* The loader takes exactly the digits that the host sends for the length it
\* gave: it neither waits for more nor runs the rest of the file as commands.
HostAndLoaderAgree == Loading <=> due > 0

\* Digit n of a number, counted from the end: as typed, and in the memory.
Digit(token, n) == IF n < Len(token) THEN token[Len(token) - n] ELSE 0
Holds(m, a, size, token) ==
  \A n \in 0 .. DIGITS * size - 1 :
     (m[a + n \div DIGITS] \div Weights[n % DIGITS]) % BASE = Digit(token, n)

IsNumber(token, size) ==
  Len(token) <= DIGITS * size /\ \A i \in 1 .. Len(token) : token[i] < BASE
Names(token, a) ==
  \A n \in 0 .. DIGITS * WORD - 1 : (a \div Weights[n]) % BASE = Digit(token, n)

OnlyChanges(a, size) == \A k \in Cells \ (a .. a + size - 1) : mem'[k] = mem[k]

StoresAsTyped ==
  last'.cmd \in Stores /\ IsNumber(last'.tokens[2], WORD) =>
    \A a \in Cells : Names(last'.tokens[2], a) =>
      /\ OnlyChanges(a, Size(last'.cmd))
      /\ IsNumber(last'.tokens[1], Size(last'.cmd)) =>
           Holds(mem', a, Size(last'.cmd), last'.tokens[1])

LoadsAsTyped ==
  last'.cmd \in Loads /\ IsNumber(last'.tokens[1], WORD) =>
    \A a \in Cells : Names(last'.tokens[1], a) =>
      /\ Names(last'.printed[1], a)
      /\ Holds(mem, a, Size(last'.cmd), last'.printed[2])

FileAsSent ==
  last'.cmd = "word" =>
    LET a == load.address + load.i * WORD
    IN OnlyChanges(a, WORD) /\ Holds(mem', a, WORD, last'.tokens[1])

\* What was typed or sent is what memory holds, digit by digit, what memory
\* holds is what is printed, and no other byte changes in any step.
MemoryIsAsTyped ==
  [][ /\ StoresAsTyped /\ LoadsAsTyped /\ FileAsSent
      /\ last'.cmd \notin Stores \union {"word"} => mem' = mem ]_biosVars
=============================================================================

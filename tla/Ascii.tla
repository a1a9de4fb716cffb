-------------------------------- MODULE Ascii --------------------------------
(***************************************************************************)
(* The conversions of 151_library: ascii.c and string.c.  A character is a *)
(* number, and the digits 0 .. BASE - 1 are themselves ('a' is 10); every  *)
(* other character lies above them.  A string is the sequence of its       *)
(* characters without the terminating zero.                                *)
(***************************************************************************)
EXTENDS Powers, SequencesExt

CONSTANTS
  BASE, DEC,   \* hexadecimal and decimal (16 and 10)
  DIGITS,      \* hexadecimal digits to a byte (2)
  DECDIGITS,   \* characters looked at of a decimal number (9)
  WORD         \* bytes to a uint32_t (4)

\* The weights of hexadecimal digits, up to those of a word.
Weights == Powers(BASE, DIGITS * WORD)

ASSUME AsciiAssumption ==
  /\ {BASE, DEC, DIGITS, DECDIGITS, WORD} \subseteq Nat \ {0}
  /\ 1 < DEC /\ DEC < BASE
  \* No decimal number overflows a word, nor does the next word behind it.
  /\ Powers(DEC, DECDIGITS)[DECDIGITS] + WORD <= Weights[DIGITS * WORD]

\* The first n characters of s, or all of them.
FirstOf(s, n) == IF Len(s) < n THEN s ELSE SubSeq(s, 1, n)

\* The numbers that the digits below base among the first 0, 1, ... characters
\* make, and among all of them.
Numbers(s, base) ==
  LET t[i \in 0 .. Len(s)] ==
        IF i = 0 THEN 0 ELSE IF s[i] < base THEN t[i - 1] * base + s[i] ELSE t[i - 1]
  IN t
Number(s, base) == Numbers(s, base)[Len(s)]

\* Other characters are passed over, but count for the number of characters
\* looked at; what follows those is not read.
ascii_hex_to_uint(s, size) == Number(FirstOf(s, DIGITS * size), BASE)
ascii_dec_to_uint(s) == Number(FirstOf(s, DECDIGITS), DEC)

\* The digits of x, the most significant first, into a buffer of n characters.
\* Mutant: the least significant first.
to_ascii_hex_reversed(x, size, n) ==
  [i \in 1 .. DIGITS * size |-> (x \div Weights[i - 1]) % BASE]
to_ascii_hex(x, size, n) ==
  LET m == DIGITS * size
  IN [i \in 1 .. (IF m < n THEN m ELSE n - 1) |-> (x \div Weights[m - i]) % BASE]

strcmp(s0, s1) == IF s0 = s1 THEN 0 ELSE 1
=============================================================================

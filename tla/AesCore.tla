-------------------------------- MODULE AesCore ------------------------------
(***************************************************************************)
(* rtl/se/aes_enc_core.sv: one AES round per clock edge.  The cipher is a  *)
(* function KS of the loaded key and the counter of the block; what the    *)
(* model keeps is when a run starts, how long it lasts and which block it  *)
(* is about.  A payload is the low 64 bits of a block, as a set of bits,   *)
(* so that xor is the symmetric difference.                                *)
(***************************************************************************)
EXTENDS Integers

CONSTANTS
  NR,      \* rounds of a run
  Keys,    \* key and seed, together
  NoKey,   \* no key loaded since reset
  Ctrs,    \* counters of blocks
  Bits,    \* bits of a payload
  KS       \* keystream: KS[key][ctr]

Payload == SUBSET Bits

ASSUME AesAssumption ==
  /\ NR \in Nat \ {0}
  /\ KS \in [Keys -> [Ctrs -> Payload]]
  /\ NoKey \notin Keys

VARIABLES
  aes_key,  \* key_ready_r and rk_flat
  aes       \* est and round_idx (0: E_IDLE), what it can produce, done_r, out_reg

AesTypeOK ==
  /\ aes_key \in Keys \union {NoKey}
  /\ aes \in [round : 0 .. NR, ks : SUBSET Payload,
              done : BOOLEAN, out : Payload]

AesInit ==
  /\ aes_key = NoKey
  /\ aes = [round |-> 0, ks |-> {}, done |-> FALSE, out |-> {}]

xor(a, b) == (a \ b) \union (b \ a)

aes_busy == aes.round # 0

\* key_load: the rounds from the next edge on use the new key, and a block of
\* mixed rounds is any block.
Rekeyed(load) == load # NoKey /\ load # aes_key

AesStart(ctr, load) ==
  /\ aes.round = 0 /\ aes_key # NoKey
  /\ aes' = [aes EXCEPT !.round = 1, !.done = FALSE,
               !.ks = IF Rekeyed(load) THEN Payload ELSE {KS[aes_key][ctr]}]

\* A middle round.
AesRound(load) ==
  /\ aes.round \in 1 .. (NR - 1)
  /\ aes' = [aes EXCEPT !.round = @ + 1, !.done = FALSE,
               !.ks = IF Rekeyed(load) THEN Payload ELSE @]

AesFinish ==
  /\ aes.round = NR
  /\ \E y \in aes.ks :
       aes' = [round |-> 0, ks |-> {}, done |-> TRUE, out |-> y]

AesIdle ==
  /\ aes.round = 0
  /\ aes' = [aes EXCEPT !.done = FALSE]

\* One clock edge: start with the counter of block_in, and key_load with its
\* key (NoKey: no load).
AesEdge(start, ctr, load) ==
  /\ \/ start /\ AesStart(ctr, load)
     \/ AesRound(load)
     \/ AesFinish
     \/ (~start \/ aes_key = NoKey) /\ AesIdle
  /\ aes_key' = IF load # NoKey THEN load ELSE aes_key
=============================================================================

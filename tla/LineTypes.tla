------------------------------ MODULE LineTypes ------------------------------
(***************************************************************************)
(* The data that travels on the line interfaces of the memory system:      *)
(* 16-byte lines with byte strobes, line addresses, requests and           *)
(* responses of simple_mem_if and of the caches' CPU ports.                *)
(*                                                                         *)
(* A line is a function from byte lanes to byte values.  An address is a   *)
(* line number (the byte address without its four low bits, which every    *)
(* requester clears); the bits above them are the index and the tag.       *)
(***************************************************************************)
EXTENDS Integers

CONSTANTS
  LINES,     \* lines of a direct-mapped cache
  TAGS,      \* 2^TAG_BITS, the number of tags a cache tells apart
  ADDRS,     \* line addresses 0 .. ADDRS-1 can be requested
  MEM,       \* lines backed by RAM: MEM_BYTES / 16
  Lanes,     \* byte lanes of a line
  Byte,      \* byte values
  Zero,      \* the byte value 8'h00
  NoReq,     \* no request on the wires, or an empty request latch
  NoResp     \* no response on the wires, or an empty response register

Addr  == 0 .. (ADDRS - 1)
Index == 0 .. (LINES - 1)
Tag   == 0 .. (TAGS - 1)
Line  == [Lanes -> Byte]

Request  == [addr : Addr, write : BOOLEAN, wdata : Line, wstrb : SUBSET Lanes]
Response == [rdata : Line, err : BOOLEAN]

ASSUME SizeAssumption ==
  /\ LINES \in Nat \ {0}
  /\ TAGS \in Nat \ {0}
  /\ ADDRS \in Nat \ {0}
  /\ MEM \in Nat \ {0}

\* RAM is no larger than the caches can tag, and the program can reach it all.
ASSUME MemAssumption == MEM <= LINES * TAGS /\ MEM <= ADDRS

ASSUME DataAssumption ==
  /\ Zero \in Byte
  /\ NoReq \notin Request
  /\ NoResp \notin Response

ZeroLine  == [l \in Lanes |-> Zero]
Mapped(a) == a < MEM

\* req_addr[4 +: IDX_BITS] and req_addr[4+IDX_BITS +: TAG_BITS]: the address
\* bits above the tag are dropped.
Idx(a)   == a % LINES
TagOf(a) == (a \div LINES) % TAGS

\* The address a victim is written back to: { 0.., tag_mem[idx], idx, 4'b0 }.
LineAddr(t, i) == t * LINES + i

\* The lanes whose strobe is set come from the new line.
apply_wstrb(oldl, newl, strb) ==
  [l \in Lanes |-> IF l \in strb THEN newl[l] ELSE oldl[l]]

ReadReq(a)     == [addr |-> a, write |-> FALSE, wdata |-> ZeroLine, wstrb |-> {}]
WriteReq(a, d) == [addr |-> a, write |-> TRUE, wdata |-> d, wstrb |-> Lanes]
=============================================================================

----------------------------- MODULE FenceHistory ----------------------------
(***************************************************************************)
(* What fence.i achieves.  A history variable remembers which lines have   *)
(* changed in the RAM since the last fence.i; it influences nothing.       *)
(***************************************************************************)
EXTENDS CoreMemory

VARIABLE ramSince    \* addresses whose RAM line changed since the last fence.i

hvars == <<vars, ramSince>>

HInit == Init /\ ramSince = {}

HClock(fencei) ==
  /\ Clock(fencei)
  /\ ramSince' = IF fencei THEN {}
                 ELSE ramSince \union {a \in MappedAddr : ram'[a] # ram[a]}

HNext == \E fencei \in BOOLEAN : HClock(fencei)

HSpec == HInit /\ [][HNext]_hvars

-----------------------------------------------------------------------------
\* The address of a valid I-cache line.
IcAddr(i) == LineAddr(ilines[i].tag, i)

\* Against the RAM, fence.i works whenever it comes, also in the middle of a
\* miss: a line the I-cache has is the RAM's, unless a write-back changed it
\* since the last fence.i.
CachedCodeMatchesRam ==
  \A i \in Index : ilines[i].valid =>
    ilines[i].data = ram[IcAddr(i)] \/ IcAddr(i) \in ramSince
=============================================================================

------------------------------- MODULE MCFence -------------------------------
EXTENDS FenceHistory

\* Loads, stores and fetches stay in set 0, where addresses 0 and 2 conflict:
\* enough for a property of single I-cache lines.
OneSet == (mem1.rq # NoReq => Idx(mem1.rq.addr) = 0) /\ Idx(pc) = 0
=============================================================================

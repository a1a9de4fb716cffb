------------------------------ MODULE MCQuadBus ------------------------------
EXTENDS QuadBus

\* A core reads a shared line, overwrites it, or reads past the end of RAM.
MCRequests ==
  {ReadReq(0), ReadReq(MEM)} \union {WriteReq(0, [l \in Lanes |-> b]) : b \in Byte \ {Zero}}
=============================================================================

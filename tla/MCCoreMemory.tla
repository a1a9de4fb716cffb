----------------------------- MODULE MCCoreMemory ----------------------------
(* Addresses 0 and 2 conflict in set 0 and 2 is beyond the RAM, so that      *)
(* write-backs, fills and faults all happen.  One byte value is enough: these*)
(* properties are about who is served and when, not about the data.          *)
EXTENDS CoreMemory
=============================================================================

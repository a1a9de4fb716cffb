CONSTANTS
  LINES = 2
  TAGS = 2
  ADDRS = 5
  MEM = 3
  Lanes = {lo, hi}
  Byte = {0, 1}
  Zero = 0
  NoReq = NoReq
  NoResp = NoResp
SPECIFICATION Spec
INVARIANTS VictimIsMapped CleanLineMatchesRam DataPathInv
PROPERTIES FillReplacesSavedLine ImplementsLineMemory
CHECK_DEADLOCK TRUE
SYMMETRY LaneSymmetry

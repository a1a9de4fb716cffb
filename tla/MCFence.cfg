CONSTANTS
  LINES = 2
  TAGS = 2
  ADDRS = 3
  MEM = 3
  Lanes = {lane}
  Byte = {0, 1}
  Zero = 0
  NoReq = NoReq
  NoResp = NoResp
SPECIFICATION HSpec
INVARIANTS CachedCodeMatchesRam
CHECK_DEADLOCK TRUE
CONSTRAINT OneSet

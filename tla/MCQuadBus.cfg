CONSTANTS
  N = 4
  LINES = 1
  TAGS = 2
  ADDRS = 2
  MEM = 1
  Lanes = {l}
  Byte = {0, 1}
  Zero = 0
  NoReq = NoReq
  NoResp = NoResp
  PortRequests <- MCRequests
SPECIFICATION FairSpec
INVARIANTS
  ResponseIsForItsPort
  BypassBound
  WriteDoneWhenAnswered
  BusInv
PROPERTIES
  EveryPortServed

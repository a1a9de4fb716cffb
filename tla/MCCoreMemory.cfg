CONSTANTS
  LINES = 2
  TAGS = 2
  ADDRS = 3
  MEM = 2
  Lanes = {lane}
  Byte = {0}
  Zero = 0
  NoReq = NoReq
  NoResp = NoResp
SPECIFICATION FairSpec
INVARIANTS TransactionHasItsOwner FetchAnswersItsRequest
PROPERTIES ArbiterOnlyDelays FetchCompletes AccessCompletes
CHECK_DEADLOCK TRUE

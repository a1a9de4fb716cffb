CONSTANTS
  Images = {a, b}
  MAXLEN = 3
  BURST_CHUNK_BYTES = 2
  TMO_INITN_MS = 1
  TMO_BUSY_MS = 2
  TMO_DONE_MS = 1
  MILLIS = 4
SPECIFICATION FairSpec
INVARIANTS ChipSelectReleased CommandsAreTaken OkMeansConfigured ErrorsHaveACause
PROPERTIES CallReturns
CHECK_DEADLOCK TRUE

CONSTANTS
  BASE = 3
  DEC = 2
  DIGITS = 1
  DECDIGITS = 2
  WORD = 2
  BUFFER_LEN = 3
  MEM = 4
  Programs = {"bsort", "ssort", "mmult", "bdd"}
  Name <- MCName
  Image <- MCImage
  SIZE = 6
  DIM = 8
  N = 4
  FIBELTS = 40
SPECIFICATION FairSpec
INVARIANTS
  ScreenShowsToken
  HostAndLoaderAgree
  BddWithinItsArrays
  BddAddsPartialProducts
  ProgramsReport
PROPERTIES
  MemoryIsAsTyped
  ProgramsEnd
CHECK_DEADLOCK TRUE

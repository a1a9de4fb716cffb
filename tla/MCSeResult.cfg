CONSTANTS
  NR = 2
  Keys = {k1}
  NoKey = NoKey
  Ctrs = {0, 1, 2}
  Bits = {b0}
  MAXCTR = 2
  LAT = 2
  NoSe = NoSe
  W = 2
  KS <- MCKS
  FpCalc <- MCFpCalc
  SeReqs <- MCSeReqs
SPECIFICATION Spec
INVARIANT ResultDecrypts

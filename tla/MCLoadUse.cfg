CONSTANTS
  PCS = 1
  REGS = 2
  Instrs <- LoadUseInstrs
  BusFaults = FALSE
  StaleTargets = FALSE
SPECIFICATION HSpec
INVARIANTS LoadUseDetected
CHECK_DEADLOCK TRUE

CONSTANTS
  PCS = 2
  REGS = 1
  Instrs <- ControlInstrs
  BusFaults = FALSE
  StaleTargets = FALSE
SPECIFICATION HSpec
INVARIANTS CommitsFollowProgram
CHECK_DEADLOCK TRUE

CONSTANTS
  PCS = 1
  REGS = 2
  Instrs <- DataInstrs
  BusFaults = TRUE
  StaleTargets = FALSE
SPECIFICATION HSpec
INVARIANTS ForwardedIsCurrent LatchedIsCurrent RegistersCatchUp RetiredOnce
CHECK_DEADLOCK TRUE
CONSTRAINT OneKind

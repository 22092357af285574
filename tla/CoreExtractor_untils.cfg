CONSTANTS
  Lits <- MCLits
  MaxCores <- MCMaxCores
  NULL = NULL
SPECIFICATION Spec
INVARIANT CoreStillUnsat
CHECK_DEADLOCK FALSE

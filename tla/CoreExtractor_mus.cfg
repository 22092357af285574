CONSTANTS
  Lits <- MCLits
  MaxCores <- MCMaxCores
  NULL = NULL
SPECIFICATION Spec
INVARIANT TypeOK
INVARIANT CoreIsMUS
PROPERTY Terminates
CHECK_DEADLOCK FALSE

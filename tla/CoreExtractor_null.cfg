CONSTANTS
  Lits <- MCLits
  MaxCores <- MCMaxCores
  NULL = NULL
SPECIFICATION Spec
INVARIANT NullMeansSideUnsat
CHECK_DEADLOCK FALSE

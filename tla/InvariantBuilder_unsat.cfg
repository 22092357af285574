CONSTANTS
  Atoms <- MCAtoms
  Conj <- MCConj
  Opts <- MCOpts
  UntilConj <- MCUntils
  Globals <- MCGlobalsUnsat
  XOf <- MCXOf
  Input <- MCInputUnsat
  MaxCalls = 2
SPECIFICATION Spec
CONSTRAINT SeqBound
INVARIANT NoAbnormalExit
PROPERTY EmptyPairCutsRoot
CHECK_DEADLOCK FALSE

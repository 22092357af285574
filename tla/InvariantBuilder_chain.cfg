CONSTANTS
  Atoms <- MCAtoms
  Conj <- MCConj
  Opts <- MCOpts
  UntilConj <- MCUntils
  Globals <- MCGlobalsChain
  XOf <- MCXOf
  Input <- MCInputChain
  MaxCalls = 2
SPECIFICATION Spec
CONSTRAINT SeqBound
INVARIANT SatPreserved
CHECK_DEADLOCK FALSE

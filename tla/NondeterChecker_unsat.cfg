CONSTANTS
  Atoms <- MCAtoms
  Conj <- MCConjN
  Opts <- MCOptsN
  UntilConj <- MCUntils
  XOf <- MCXOf
  Input <- MCInputUnsat
  Globals <- MCGlobalsUnsat
  MaxCalls = 2
  LitConj <- MCLitConj
  GConj <- MCGConj
  MaxWanted = 10
SPECIFICATION CheckerFairSpec
\* check () returns its verdict and the process ends
CHECK_DEADLOCK FALSE
INVARIANT NoAbnormalExit SeparateNextSound
PROPERTY EmptyPairCutsRoot
PROPERTY Terminates ImplementsLassoSearch

CONSTANTS
  Atoms <- MCAtoms
  Conj <- MCConjN
  Opts <- MCOptsN
  UntilConj <- MCUntils
  XOf <- MCXOf
  Input <- MCInputMixed
  Globals <- MCGlobalsMixed
  MaxCalls = 2
  LitConj <- MCLitConj
  GConj <- MCGConj
  MaxWanted = 2
SPECIFICATION CheckerFairSpec
\* check () returns its verdict and the process ends
CHECK_DEADLOCK FALSE
INVARIANT CheckerTypeOK VerdictSound WitnessReplayedInPlace FintsOnPath WantedFromPath WantedOnlyWhenFulfilled
PROPERTY Terminates ImplementsLassoSearch

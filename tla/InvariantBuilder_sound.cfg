CONSTANTS
  Atoms <- MCAtoms
  Conj <- MCConj
  Opts <- MCOpts
  UntilConj <- MCUntils
  Globals <- MCGlobalsSat
  XOf <- MCXOf
  Input <- MCInputSat
  MaxCalls = 2
SPECIFICATION Spec
CONSTRAINT SeqBound
INVARIANT TypeOK NoAbnormalExit SatPreserved WitnessIsPath
PROPERTY EmptyPairCutsRoot
CHECK_DEADLOCK FALSE

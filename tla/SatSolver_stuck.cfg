\* sat_solver::tarjan on p /\ G (!p \/ X !p) /\ G (p \/ X p) /\ G F e:
\* an edge closing the component onto another formula on the stack.
CONSTANTS
  Atoms <- MCAtoms
  Conj <- MCConjN
  Opts <- MCOptsN
  UntilConj <- MCUntils
  Globals <- MCGlobalsMixed
  XOf <- MCXOf
  Input <- MCInputAltE
  Syn <- MCSyn
SPECIFICATION Spec
\* tarjan returning (a verdict, or the stuck loop) ends the behaviour.
CHECK_DEADLOCK FALSE
INVARIANT NeverStuck

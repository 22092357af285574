CONSTANTS
  p = p
  q = q
  Atoms <- MCAtoms
  Depths <- MCDepths
  GlobalRs <- MCGlobalRs
SPECIFICATION Spec
\* common_deep returns; nothing follows it here
CHECK_DEADLOCK FALSE
INVARIANT TypeOK
INVARIANT NextNIsPrefix
INVARIANT CnfSound
INVARIANT Smv1Sound
INVARIANT Smv2Sound
INVARIANT Smv3Sound
INVARIANT Smv4Sound

CONSTANTS
  p = p
  q = q
  Atoms <- MCAtoms
  Depths <- MCDepths
  GlobalRs <- MCGlobalRs
SPECIFICATION Spec
\* common_deep returns; nothing follows it here
CHECK_DEADLOCK FALSE
INVARIANT CommonDeepAgreed

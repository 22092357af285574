CONSTANTS
  r = r
  a = a
  b = b
  T = T
  m1 = m1
  m2 = m2
  TrueF = T
  FalseF = FalseF
  Inputs <- MCInputs
  States <- MCStates
  Markers <- MCMarkers
  Untils <- MCUntils
  Succ <- MCSucc
  MaxWanted = 10
SPECIFICATION Spec
CONSTRAINT DepthBound
\* check () returns a verdict and the search stops there
CHECK_DEADLOCK FALSE
INVARIANT PathOnRecord

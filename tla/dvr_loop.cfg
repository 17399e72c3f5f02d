SPECIFICATION Spec
CONSTANTS
  Networks <- Untouched
  INF = 999999
  Undefined = Undefined
INVARIANT Delivers

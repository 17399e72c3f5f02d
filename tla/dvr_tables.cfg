SPECIFICATION Spec
CONSTANTS
  Networks <- Tables
  INF = 999999
  Undefined = Undefined
INVARIANTS Converged NoLoop SilenceNoticed
PROPERTY FailureMeansDropped

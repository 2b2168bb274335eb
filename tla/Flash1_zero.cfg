SPECIFICATION Spec
CONSTANTS
  Jobs <- LiveJobs
  Full = 2
CHECK_DEADLOCK FALSE
INVARIANTS ZeroMeansWritten

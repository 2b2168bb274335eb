SPECIFICATION Spec
CONSTANTS
  N = 2
  Jobs <- OneUpdate
  Codes = {0, 8, 10}
  MaxErrors <- MCMaxErrors
  PipeSize = 1
CHECK_DEADLOCK FALSE
INVARIANTS ZeroMeansAll

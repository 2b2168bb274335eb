SPECIFICATION Spec
CONSTANTS
  N = 2
  Devices = {1, 2}
  Jobs <- OneFile
  NFiles = 2
  MaxFds = 14
CHECK_DEADLOCK FALSE
INVARIANTS FileUsed

SPECIFICATION Spec
CONSTANTS
  N = 2
  Devices = {1, 2}
  Jobs <- MCJobs
  NFiles = 2
  MaxFds = 14
CHECK_DEADLOCK FALSE
INVARIANTS TypeOK ChosenIsRight NoneLeftOut NeverTwice

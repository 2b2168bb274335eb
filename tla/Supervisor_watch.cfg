SPECIFICATION FairSpec
CONSTANTS
  N = 2
  Jobs <- MCJobs
  Codes = {0, 8, 10}
  MaxErrors <- MCMaxErrors
  PipeSize = 1
CHECK_DEADLOCK FALSE
INVARIANTS TypeOK NothingLeft ExitExplained DoneReports OutcomeTold AdviceMatches
PROPERTIES Termination

SPECIFICATION FairSpec
CONSTANTS
  Jobs <- SafetyJobs
  Full = 2
CHECK_DEADLOCK FALSE
INVARIANTS TypeOK SuccessIsHonest OnlyVerified Custody
PROPERTIES OpsUndisturbed ChildSpec Termination

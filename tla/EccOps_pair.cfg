SPECIFICATION FairSpec
CONSTANTS
  a1 = a1
  a2 = a2
  c1 = c1
  c2 = c2
  Areas <- TwoAreas
  Cards <- TwoCards
  CardOf <- SameCard
  Modes <- Either
CHECK_DEADLOCK FALSE
INVARIANTS TypeOK CountExact NoLostWakeup ExitHonest
PROPERTIES NoResetUnderEcc Termination

SPECIFICATION Spec
CONSTANTS
  a1 = a1
  a2 = a2
  c1 = c1
  c2 = c2
  Areas <- TwoAreas
  Cards <- TwoCards
  CardOf <- OneEach
  Modes <- Quiet
CHECK_DEADLOCK FALSE
INVARIANTS WellBehaved

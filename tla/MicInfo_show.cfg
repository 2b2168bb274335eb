SPECIFICATION Spec
CONSTANTS
  Cards <- TwoCards
  N_DEVICES = 1
  MaxWords = 4
INVARIANTS
  TypeOK
  PointersKept
  ShownAnswered
  ProcessorOwn
  ExitHonest

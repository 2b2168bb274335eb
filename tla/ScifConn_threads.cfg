SPECIFICATION FairSpec
CONSTANTS
  t1 = t1
  t2 = t2
  Threads <- Two
  MaxEps = 3
INVARIANTS TypeOK MutualExclusion CleanUnlessLate
PROPERTIES Returns

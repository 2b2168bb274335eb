SPECIFICATION Spec
CONSTANTS
  t1 = t1
  t2 = t2
  Threads <- Two
  MaxEps = 2
INVARIANTS OwnReply

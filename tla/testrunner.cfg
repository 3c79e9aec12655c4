SPECIFICATION Spec
CONSTANTS
  Tests = {t1, t2, t3}
  NumThreads = 2
  Junk = {0, 5}
INVARIANT EachTestOnce
PROPERTIES
  Implements
  Ends
CHECK_DEADLOCK FALSE

SPECIFICATION FairSpec
CONSTANTS
  t1 = t1
  t2 = t2
  t3 = t3
  t4 = t4
  h1 = h1
  h2 = h2
  h3 = h3
  Thread = {t1, t2, t3, t4}
  Uses <- LockAndTry
  Handle = {h1, h2, h3}
  HandleOf <- Shared
  NodeFanout = 2
INVARIANTS
  MutualExclusion
  NodeStable
PROPERTY LockerServed
\* A try that fails leaves the lock of its handle taken for ever.
CHECK_DEADLOCK FALSE

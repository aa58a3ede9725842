SPECIFICATION Spec
CONSTANTS
  All = All
  w1 = w1
  w2 = w2
  w3 = w3
  t1 = t1
  t2 = t2
  SpinListSz = 1
  ProcMax = 2
  Uses <- Safety
INVARIANTS
  WaitersCounted
  SlotsOwned
  NoMoreThanAsked
  LockReturned
  WaitsForTrigger
  ReleaseCalled
PROPERTIES
  SyncDelivers
SYMMETRY Symmetry
\* A trigger that finds too few waiters keeps the lock.
CHECK_DEADLOCK FALSE

SPECIFICATION FairSpec
CONSTANTS
  All = All
  w1 = w1
  w2 = w2
  w3 = w3
  t1 = t1
  t2 = t2
  SpinListSz = 1
  ProcMax = 2
  Uses <- Liveness
PROPERTIES
  TriggerReturns
  
  DestroyFinishes
\* After a death no process gets past the gate any more.
CHECK_DEADLOCK FALSE

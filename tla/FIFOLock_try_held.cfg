SPECIFICATION Spec
CONSTANTS
  t1 = t1
  t2 = t2
  t3 = t3
  t4 = t4
  h1 = h1
  h2 = h2
  h3 = h3
  Thread = {t1, t2, t3}
  Uses <- OneTries
  Handle = {h1, h2, h3}
  HandleOf <- Own
  NodeFanout = 3
PROPERTY TryReportsHeld
CHECK_DEADLOCK FALSE

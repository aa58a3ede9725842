SPECIFICATION FairSpec
CONSTANTS
  p1 = p1
  p2 = p2
  p3 = p3
  Proc = {p1, p2, p3}
  MaxTicket = 4
INVARIANTS
  MutualExclusion
  TicketDiscipline
  TicketOwned
  
PROPERTIES
  ImplementsQueue
  WaiterServed

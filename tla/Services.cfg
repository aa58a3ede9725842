SPECIFICATION Spec
CONSTANTS
  MaxPuid = 6
  MaxCuid = 2
  MaxMuid = 1
  MaxGuid = 3
  MaxReq = 4
  MaxPmiPid = 4
  MaxLocalCuid = 6
  MaxFail = 1
  Clients = {1, 2}
  Workloads = {"process", "lists", "stdio", "channel", "pool", "heads", "group", "grow", "pmi", "remove", "destroy", "local"}
  Menu <- MCMenu
  Mortal <- MCMortal
  Quota <- MCQuota
INVARIANTS
  
  
  AnsweredOnce
  ProcessTree
  TablesAgree
  
  GroupSettled
  PmiDisjoint
  LocalOwners
PROPERTY DeadStaysDead
\* The clients have asked what they ask.
CHECK_DEADLOCK FALSE

SPECIFICATION Spec
CONSTANTS
  MaxPuid = 6
  MaxCuid = 2
  MaxMuid = 1
  MaxGuid = 3
  MaxReq = 4
  MaxPmiPid = 4
  MaxLocalCuid = 6
  MaxFail = 0
  Clients = {1, 2}
  Workloads = {"destroy"}
  Menu <- MCMenu
  Mortal <- MCMortal
  Quota <- MCQuota
INVARIANT KillTargetMapped
CHECK_DEADLOCK FALSE

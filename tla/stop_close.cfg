SPECIFICATION FairSpec
CONSTANTS
  Addr = {a1, a2}
  NoAddr = zero
  Refused = {}
  MaxHits = 1
  Users = {}
  MayCall <- MCMayCall
  Budget <- MCBudget
  Careful = {"main"}
  Patient = TRUE
  MainCalls = {"run", "stop", "add", "step", "close"}
  CbCalls = {"stop", "close"}
  UserCalls = {}
  MainBudget = 4
  CbBudget = 1
  UserBudget = 0
INVARIANTS
  StatusAccurate
PROPERTIES
  StopStops
  Closes
CHECK_DEADLOCK FALSE

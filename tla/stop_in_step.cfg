SPECIFICATION Spec
CONSTANTS
  Addr = {a1, a2}
  NoAddr = zero
  Refused = {}
  MaxHits = 1
  Users = {}
  MayCall <- MCMayCall
  Budget <- MCBudget
  Careful = {"main"}
  Patient = TRUE
  MainCalls = {"add", "run"}
  CbCalls = {"stop"}
  UserCalls = {}
  MainBudget = 4
  CbBudget = 1
  UserBudget = 0
PROPERTIES
  StopSticks
CHECK_DEADLOCK FALSE

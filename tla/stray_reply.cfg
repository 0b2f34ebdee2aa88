SPECIFICATION Spec
CONSTANTS
  Addr = {a1, a2}
  NoAddr = zero
  Refused = {}
  MaxHits = 1
  Users = {}
  MayCall <- MCMayCall
  Budget <- MCBudget
  Careful = {"main"}
  Patient = TRUE
  MainCalls = {"add", "run", "stop", "read"}
  CbCalls = {}
  UserCalls = {}
  MainBudget = 4
  CbBudget = 0
  UserBudget = 0
INVARIANTS
  RepliesMatch
CHECK_DEADLOCK FALSE

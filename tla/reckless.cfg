SPECIFICATION Spec
CONSTANTS
  Addr = {a1, a2}
  NoAddr = zero
  Refused = {a2}
  MaxHits = 1
  Users = {u1}
  MayCall <- MCMayCall
  Budget <- MCBudget
  Careful = {}
  Patient = FALSE
  MainCalls = {"close", "run", "step", "stop", "read", "add", "remove"}
  CbCalls = {"run", "step", "stop", "read", "add", "remove", "close"}
  UserCalls = {"stop", "add", "remove"}
  MainBudget = 2
  CbBudget = 1
  UserBudget = 1
INVARIANTS
  TypeOK
  LockInv
  OneCallback
  OneRequest
PROPERTIES
  NoExecInCallback
CHECK_DEADLOCK FALSE

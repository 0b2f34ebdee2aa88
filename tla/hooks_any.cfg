SPECIFICATION Spec
CONSTANTS
  Addr = {a1, a2}
  Refused = {a2}
  Objects = {o1}
  Users = {"main", "u1"}
  NoAddr = none
  NoObject = nobody
  Quiet = FALSE
  MayCall <- MCMayCall
  Budget <- MCBudget
  UserCalls = {"add", "remove", "uninstall"}
  CbCalls = {"add", "remove"}
  UserBudget = 2
  CbBudget = 1
INVARIANTS
  TypeOK
  HooksRegistered
CHECK_DEADLOCK FALSE

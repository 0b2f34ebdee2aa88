SPECIFICATION FairSpec
CONSTANTS
  Addr = {a1, a2}
  NoAddr = zero
  Refused = {}
  MaxHits = 2
  Users = {}
  MayCall <- MCMayCall
  Budget <- MCBudget
  Careful = {"main"}
  Patient = TRUE
  MainCalls = {"run", "step", "read", "add", "remove"}
  CbCalls = {"run", "stop", "read", "add", "remove"}
  UserCalls = {}
  MainBudget = 3
  CbBudget = 2
  UserBudget = 0
INVARIANTS
  RepliesMatch
  NothingLeftOver
  StatusAccurate
  HooksArmed
  HandledWhileHalted
  EventThreadLives
PROPERTIES
  GuestSpec
  EveryStopCalledBack
  Resumes

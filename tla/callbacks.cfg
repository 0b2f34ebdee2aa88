SPECIFICATION PSpec
CONSTANTS
  sw = sw
  fn = fn
  u1 = u1
  u2 = u2
  u3 = u3
  ex = ex
  sched = sched
  proc = proc
  sh = sh
  init = init
  Addr = {sw, fn, u1, u2, u3}
  Refused = {}
  Objects = {ex, sched, proc}
  Users = {"main"}
  NoAddr = none
  NoObject = nobody
  NoProcess = noProcess
  Quiet = TRUE
  Class <- MCClass
  ProcName <- MCProcName
  Symbols = {sw, fn}
  SwitchTo = sw
  Processes = {sh, init}
  Pcs <- MCPcs
  Prompt = TRUE
  Considerate = TRUE
  Shared = FALSE
  Wanted = sh
  KernelProcesses = {init}
  MayCall <- MCMayCall
  Budget <- MCBudget
  UserCalls = {"add", "remove", "uninstall"}
  CbCalls = {"add", "remove"}
  UserBudget = 3
  CbBudget = 1
INVARIANTS
  HooksTracked
  Armed
  EveryCallbackRuns
  EachSwitchRuns
  RunsForItsProcess
  HookIsLatest
CHECK_DEADLOCK FALSE

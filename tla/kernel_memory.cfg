SPECIFICATION FairSpec
CONSTANTS
  HexBase = 8
  Mapped <- MCMapped
  Endian = "big"
  LongSize = 1
  TypeSize <- MCTypeSize
  Json <- MCJson
  Threads = {"main", "cb"}
  Backends = {"rsp", "gdb"}
  Memories <- MCMemories
  Sp = 44
  StackSize = 32
  Tasks = {8, 16, 24}
  Given = {16}
  MayGet = {"state", "comm", "tasks", "fn"}
  MayAssign <- MCMayAssign
  MayCall = {"find", "list", "walk", "setByName", "get_root_task", "set_task_name"}
  Sought <- MCSought
  Careful = TRUE
  Budget = 1
  CurrentTasks = {24, 40}
  OffRing = FALSE
  Fields = {"pid", "state", "comm", "tasks", "high"}
INVARIANTS
  MatchesC
  ReadsLikeC
  FindsTask
  
PROPERTIES
  CallsEnd
CHECK_DEADLOCK FALSE

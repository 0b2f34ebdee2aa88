------------------------- MODULE MCProcessCallbacks -------------------------
(* A small instance of ProcessCallbacks: one object of each class, two     *)
(* processes; the callback of an OnExecute installs others.                *)
EXTENDS ProcessCallbacks

CONSTANTS sw, fn, u1, u2, u3, ex, sched, proc, sh, init, UserCalls, CbCalls, UserBudget, CbBudget,
          Shared, Wanted

MCMayCall == [t \in Threads |-> IF t = CbThread THEN CbCalls ELSE UserCalls]
MCBudget == [t \in Threads |-> IF t = CbThread THEN CbBudget ELSE UserBudget]
MCClass == [o \in Objects |-> CASE o = ex -> "execute" [] o = sched -> "scheduled"
                                [] OTHER -> "process"]
MCProcName == [o \in Objects |-> IF o = ex THEN NoProcess ELSE Wanted]
MCPcs == [p \in Processes |-> IF p = sh THEN {u1, u2} ELSE IF Shared THEN {u1} ELSE {u3}]
=============================================================================

------------------------------ MODULE MCMonk -------------------------------
(* Small instances of Monk: who makes which calls, and how many. *)
EXTENDS Monk

CONSTANTS
    MainCalls, CbCalls, UserCalls,      \* what main, callbacks, users call
    MainBudget, CbBudget, UserBudget    \* and how many times each

ByKind(m, c, u) ==
    [t \in Callers |-> CASE t = Main -> m [] t \in Cbs -> c [] OTHER -> u]

MCMayCall == ByKind(MainCalls, CbCalls, UserCalls)
MCBudget == ByKind(MainBudget, CbBudget, UserBudget)
=============================================================================

----------------------------- MODULE MCCallback -----------------------------
(* Small instances of Callback: which calls the program's threads and the  *)
(* callbacks make, and how many.                                           *)
EXTENDS Callback

CONSTANTS UserCalls, CbCalls, UserBudget, CbBudget

MCMayCall == [t \in Threads |-> IF t = CbThread THEN CbCalls ELSE UserCalls]
MCBudget == [t \in Threads |-> IF t = CbThread THEN CbBudget ELSE UserBudget]
=============================================================================

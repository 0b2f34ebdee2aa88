--------------------------- MODULE GuestExecution --------------------------
(***************************************************************************)
(* What Monk promises the author of a callback (README.md, "Writing        *)
(* callbacks"): the guest runs or is halted, callbacks run only while it   *)
(* is halted, one dispatcher's at a time, and the guest resumes only when  *)
(* no callback runs.                                                       *)
(***************************************************************************)
CONSTANT Visitors           \* what can have a callback running
VARIABLES running, visiting

Init == running = FALSE /\ visiting = {}

Resume == ~running /\ visiting = {} /\ running' = TRUE /\ UNCHANGED visiting
Halt == running /\ running' = FALSE /\ UNCHANGED visiting
Enter(v) == ~running /\ visiting = {} /\ visiting' = {v} /\ UNCHANGED running
Leave(v) == visiting = {v} /\ visiting' = {} /\ UNCHANGED running

Next ==
    \/ Resume \/ Halt
    \/ \E v \in Visitors : Enter(v) \/ Leave(v)

Spec == Init /\ [][Next]_<<running, visiting>>
=============================================================================

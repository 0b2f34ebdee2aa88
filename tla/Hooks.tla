------------------------------- MODULE Hooks -------------------------------
(***************************************************************************)
(* The execution hooks of CallbackManager (src/monk/callback_manager.py)   *)
(* on the RSP backend: the dispatcher that RspTarget calls as on_execute,  *)
(* and the calls that add and remove hooks.  Bound: an address has at most *)
(* one callback (the module CallbackManager has the lists).                *)
(***************************************************************************)
EXTENDS RspTarget

VARIABLES
    hooks,      \* addresses whose list of callbacks is not empty
    keys,       \* keys of the registry: a defaultdict keeps an address it was asked for
    due,        \* dispatcher -> the callback at its address has not been started
    todo,       \* dispatcher -> keys its re-setting loop has not visited
    seen        \* dispatcher -> keys when that loop began

loopVars == <<due, todo, seen>>
hookVars == <<hooks, keys, loopVars>>

HooksInit ==
    /\ hooks = {}
    /\ keys = {}
    /\ due = [t \in Dispatchers |-> FALSE]
    /\ todo = [t \in Dispatchers |-> {}]
    /\ seen = [t \in Dispatchers |-> {}]

Unmoved == UNCHANGED <<toStub, fromStub, queueVars, flagVars, lockVars, backVars>>

(* _on_execute_dispatcher: looking the address up makes it a key *)
Dispatch(t) ==
    /\ at[t] = "disp"
    /\ keys' = keys \cup {arg[t]}
    /\ due' = [due EXCEPT ![t] = TRUE]
    /\ Go(t, "callbacks")
    /\ UNCHANGED <<hooks, todo, seen, localVars, calls>>
    /\ Unmoved

(* Defect: the dispatcher does not join the thread it started. *)
StartCallbackUnjoined(t) ==
    /\ at[t] = "callbacks"
    /\ due[t]
    /\ arg[t] \in hooks
    /\ due' = [due EXCEPT ![t] = FALSE]
    /\ at' = [at EXCEPT ![Cb(t)] = "cb"]
    /\ UNCHANGED <<hooks, keys, todo, seen, localVars, calls>>
    /\ Unmoved

(* callback_manager.py:199-206: a thread of its own for each callback *)
StartCallback(t) ==
    /\ at[t] = "callbacks"
    /\ due[t]
    /\ arg[t] \in hooks
    /\ due' = [due EXCEPT ![t] = FALSE]
    /\ at' = [at EXCEPT ![t] = "join", ![Cb(t)] = "cb"]
    /\ UNCHANGED <<hooks, keys, todo, seen, localVars, calls>>
    /\ Unmoved

(* The callback returns. *)
EndCallback(c) ==
    /\ at[c] = "cb"
    /\ Go(c, "end")
    /\ UNCHANGED <<hookVars, localVars, calls>>
    /\ Unmoved

JoinCallback(t) ==
    /\ at[t] = "join"
    /\ at[Cb(t)] = "end"
    /\ at' = [at EXCEPT ![t] = "callbacks", ![Cb(t)] = "off"]
    /\ UNCHANGED <<hookVars, localVars, calls>>
    /\ Unmoved

(* Defect: no breakpoint is set again. *)
CallbacksDoneUnarmed(t) ==
    /\ at[t] = "callbacks"
    /\ ~(due[t] /\ arg[t] \in hooks)
    /\ due' = [due EXCEPT ![t] = FALSE]
    /\ seen' = [seen EXCEPT ![t] = keys]
    /\ Go(t, "rearm")
    /\ UNCHANGED <<hooks, keys, todo, localVars, calls>>
    /\ Unmoved

(* Defect: the loop deletes the keys whose lists it finds empty. *)
CallbacksDonePruning(t) ==
    /\ at[t] = "callbacks"
    /\ ~(due[t] /\ arg[t] \in hooks)
    /\ due' = [due EXCEPT ![t] = FALSE]
    /\ todo' = [todo EXCEPT ![t] = keys]
    /\ seen' = [seen EXCEPT ![t] = keys]
    /\ keys' = keys \cap hooks
    /\ Go(t, "rearm")
    /\ UNCHANGED <<hooks, localVars, calls>>
    /\ Unmoved

CallbacksDone(t) ==
    /\ at[t] = "callbacks"
    /\ ~(due[t] /\ arg[t] \in hooks)
    /\ due' = [due EXCEPT ![t] = FALSE]
    /\ todo' = [todo EXCEPT ![t] = keys]
    /\ seen' = [seen EXCEPT ![t] = keys]
    /\ Go(t, "rearm")
    /\ UNCHANGED <<hooks, keys, localVars, calls>>
    /\ Unmoved

(* callback_manager.py:215-217: set the breakpoint of every hooked address *)
(* again.                                                                  *)
Rearm(t) ==
    /\ at[t] = "rearm"
    /\ keys = seen[t]
    /\ \E a \in todo[t] \cap hooks :
          /\ todo' = [todo EXCEPT ![t] = @ \ {a}]
          /\ Ask(t, "set", a, "rearm")
    /\ UNCHANGED <<hooks, keys, due, seen, val, arg, calls>>
    /\ Unmoved

(* An address without a callback is passed over. *)
RearmSkip(t) ==
    /\ at[t] = "rearm"
    /\ keys = seen[t]
    /\ \E a \in todo[t] \ hooks : todo' = [todo EXCEPT ![t] = @ \ {a}]
    /\ Go(t, "rearm")
    /\ UNCHANGED <<hooks, keys, due, seen, localVars, calls>>
    /\ Unmoved

RearmDone(t) ==
    /\ at[t] = "rearm"
    /\ keys = seen[t]
    /\ todo[t] = {}
    /\ seen' = [seen EXCEPT ![t] = {}]
    /\ Go(t, DispReturn(t))
    /\ UNCHANGED <<hooks, keys, due, todo, localVars, calls>>
    /\ Unmoved

(* "dictionary changed size during iteration": a thread has added a key    *)
(* since the loop began.                                                   *)
RearmRaises(t) ==
    /\ at[t] = "rearm"
    /\ keys # seen[t]
    /\ todo' = [todo EXCEPT ![t] = {}]
    /\ seen' = [seen EXCEPT ![t] = {}]
    /\ Go(t, Raised(t))
    /\ UNCHANGED <<hooks, keys, due, localVars, calls>>
    /\ Unmoved

(* _break_on_event for an address that has no callback yet: the callback   *)
(* is registered first, and the breakpoint set after.                      *)
CallAdd(t) ==
    /\ CanCall(t, "add")
    /\ \E a \in Addr \ hooks :
          /\ hooks' = hooks \cup {a}
          /\ keys' = keys \cup {a}
          /\ Ask(t, "set", a, Home(t))
    /\ UNCHANGED <<loopVars, val, arg>>
    /\ Unmoved

(* remove_callback *)
CallRemove(t) ==
    /\ CanCall(t, "remove")
    /\ \E a \in hooks :
          /\ hooks' = hooks \ {a}
          /\ IF IsMain(t)
                THEN Ask(t, "clear", a, Home(t)) /\ UNCHANGED arg
                ELSE Ask(t, "clear", a, "unsetPc") /\ arg' = [arg EXCEPT ![t] = a]
    /\ UNCHANGED <<keys, loopVars, val>>
    /\ Unmoved

(* remove_callback of a hook that is gone: MonkControlError *)
CallRemoveGone(t) ==
    /\ CanCall(t, "remove")
    /\ \E a \in Addr \ hooks : keys' = keys \cup {a}
    /\ Go(t, Raised(t))
    /\ UNCHANGED <<hooks, loopVars, localVars>>
    /\ Unmoved
=============================================================================

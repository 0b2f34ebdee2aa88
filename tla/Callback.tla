------------------------------ MODULE Callback ------------------------------
(***************************************************************************)
(* Callback (src/monk/callback.py): an object that installs hooks through  *)
(* the CallbackManager and remembers them.  Each object has a lock of its  *)
(* own, _hook_lock, for its list of hooks.  A hook is known by its         *)
(* address: its kind is execution and its function the object's run().     *)
(***************************************************************************)
EXTENDS CallbackManager

CONSTANTS
    MayCall,    \* what each thread calls: add (add_hook), remove, uninstall
    Budget,     \* bound: how many calls each thread makes
    Quiet       \* TRUE: threads and handler wait for each other to finish

ASSUME CallsAssumption ==
    /\ MayCall \in [Threads -> SUBSET {"add", "remove", "uninstall"}]
    /\ Budget \in [Threads -> Nat]
    /\ Quiet \in BOOLEAN

NoThread == "none"
ASSUME NoThreadAssumption == NoThread \notin Threads

VARIABLES
    hooks,      \* _hooks of each object
    hookLock,   \* the thread that holds _hook_lock of each object
    index,      \* hooks that the loop of a thread's uninstall() has passed
    replaced,   \* lists that such loops go on with after another has replaced _hooks
    calls       \* calls made so far (only to bound the model)

objectVars == <<hooks, hookLock>>
vars == <<registry, bps, dispatchVars, callVars, objectVars, index, replaced, calls>>

Init ==
    /\ ManagerInit
    /\ hooks = [o \in Objects |-> <<>>]
    /\ hookLock = [o \in Objects |-> NoThread]
    /\ index = [t \in Threads |-> 0]
    /\ replaced = <<>>
    /\ calls = [t \in Threads |-> 0]

AllIdle == \A t \in Threads : at[t] = "idle"

CanCall(t, name) ==
    /\ at[t] = "idle"
    /\ t = CbThread => handler = "join"
    /\ Quiet /\ t # CbThread => handler = "idle"
    /\ name \in MayCall[t]
    /\ calls[t] < Budget[t]
    /\ calls' = [calls EXCEPT ![t] = @ + 1]

Acquire(t, o) == hookLock[o] = NoThread /\ hookLock' = [hookLock EXCEPT ![o] = t]
Release(t) == hookLock' = [hookLock EXCEPT ![obj[t]] = NoThread]
Works(t, o, k) == obj' = [obj EXCEPT ![t] = o] /\ addr' = [addr EXCEPT ![t] = k]
Rests(t) == Works(t, NoObject, NoAddr)

(* add_hook, and _break_on_event up to the append.  What is no symbol and  *)
(* no number raises before anything is done.                               *)
BeginAdd(t, o, k) ==
    /\ Acquire(t, o)
    /\ Register(o, k)
    /\ Works(t, o, k)
    /\ Goto(t, "addCheck")

AddHook(t, o, k) ==
    /\ CanCall(t, "add")
    /\ BeginAdd(t, o, k)
    /\ UNCHANGED <<bps, dispatchVars, hooks, index, replaced>>

AddDone(t) ==
    /\ at[t] = "addDone"
    /\ hooks' = [hooks EXCEPT ![obj[t]] = Append(@, addr[t])]
    /\ Release(t)
    /\ Rests(t)
    /\ Goto(t, "idle")
    /\ UNCHANGED <<registry, bps, dispatchVars, index, replaced, calls>>

(* `with' releases the lock when the call raises. *)
Raised(t) ==
    /\ at[t] = "raised"
    /\ Release(t)
    /\ index' = [index EXCEPT ![t] = 0]
    /\ Rests(t)
    /\ Goto(t, "idle")
    /\ UNCHANGED <<registry, bps, dispatchVars, hooks, replaced, calls>>

(* Defect: the hooks are removed without the lock. *)
BeginRemoveUnlocked(t, o, k) ==
    /\ hookLock' = [hookLock EXCEPT ![o] = t]
    /\ Works(t, o, k)
    /\ Unregister(o, k)
    /\ Goto(t, IF Contains(List(k), o) THEN "removeCheck" ELSE "raised")

(* remove_hook, and remove_callback up to the removal, which raises if     *)
(* there is none.                                                          *)
BeginRemove(t, o, k) ==
    /\ Acquire(t, o)
    /\ Works(t, o, k)
    /\ Unregister(o, k)
    /\ Goto(t, IF Contains(List(k), o) THEN "removeCheck" ELSE "raised")

RemoveHook(t, o, k) ==
    /\ CanCall(t, "remove")
    /\ BeginRemove(t, o, k)
    /\ UNCHANGED <<bps, dispatchVars, hooks, index, replaced>>

(* Defect: the object does not forget the hook. *)
RemoveDoneKept(t) ==
    /\ at[t] = "removeDone"
    /\ Release(t)
    /\ IF index[t] = 0
          THEN Rests(t) /\ Goto(t, "idle")
          ELSE Works(t, obj[t], NoAddr) /\ Goto(t, "uninstall")
    /\ UNCHANGED <<registry, bps, dispatchVars, hooks, index, replaced, calls>>

RemoveDone(t) ==
    /\ at[t] = "removeDone"
    /\ hooks' = [hooks EXCEPT ![obj[t]] = RemoveFirst(@, addr[t])]
    /\ Release(t)
    /\ IF index[t] = 0
          THEN Rests(t) /\ Goto(t, "idle")
          ELSE Works(t, obj[t], NoAddr) /\ Goto(t, "uninstall")
    /\ UNCHANGED <<registry, bps, dispatchVars, index, replaced, calls>>

----------------------------------------------------------------------------
(* uninstall: the loop's index advances in the list that remove_hook       *)
(* shortens, or that another thread's uninstall has replaced meanwhile.    *)

Looping(t, o) ==
    obj[t] = o /\ (at[t] \in {"uninstall", "uninstallHook"} \/ index[t] # 0)
Looped(t) == IF t \in DOMAIN replaced THEN replaced[t] ELSE hooks[obj[t]]

Uninstall(t, o) ==
    /\ CanCall(t, "uninstall")
    /\ Works(t, o, NoAddr)
    /\ Goto(t, "uninstall")
    /\ replaced' = Restrict(replaced, DOMAIN replaced \ {t})   \* it takes _hooks as it is
    /\ UNCHANGED <<registry, bps, dispatchVars, objectVars, index>>

UninstallNext(t) ==
    /\ at[t] = "uninstall"
    /\ index[t] < Len(Looped(t))
    /\ addr' = [addr EXCEPT ![t] = Looped(t)[index[t] + 1]]
    /\ index' = [index EXCEPT ![t] = @ + 1]
    /\ Goto(t, "uninstallHook")
    /\ UNCHANGED <<registry, bps, dispatchVars, obj, objectVars, replaced, calls>>

UninstallHook(t) ==
    /\ at[t] = "uninstallHook"
    /\ BeginRemove(t, obj[t], addr[t])
    /\ UNCHANGED <<bps, dispatchVars, hooks, index, replaced, calls>>

(* The other loops over the list go on with it. *)
UninstallDone(t) ==
    /\ at[t] = "uninstall"
    /\ index[t] >= Len(Looped(t))
    /\ hookLock[obj[t]] = NoThread
    /\ hooks' = [hooks EXCEPT ![obj[t]] = <<>>]
    /\ index' = [index EXCEPT ![t] = 0]
    /\ replaced' = [u \in (DOMAIN replaced \cup {v \in Threads : Looping(v, obj[t])}) \ {t}
                       |-> Looped(u)]
    /\ Rests(t)
    /\ Goto(t, "idle")
    /\ UNCHANGED <<registry, bps, dispatchVars, hookLock, calls>>

----------------------------------------------------------------------------

OfObject(A) == A /\ UNCHANGED <<objectVars, index, replaced, calls>>

Stop(k) == OfObject(Fire(k)) /\ (Quiet => AllIdle)

ThreadStep(t) ==
    \/ OfObject(AddCheck(t)) \/ OfObject(AddSet(t))
    \/ OfObject(RemoveCheck(t)) \/ OfObject(RemoveDel(t))
    \/ AddDone(t) \/ Raised(t) \/ RemoveDone(t)
    \/ UninstallNext(t) \/ UninstallHook(t) \/ UninstallDone(t)

Call(t) ==
    \E o \in Objects :
       \/ Uninstall(t, o)
       \/ \E k \in Addr : AddHook(t, o, k) \/ RemoveHook(t, o, k)

Next ==
    \/ \E k \in Addr : Stop(k)
    \/ OfObject(HandlerStep)
    \/ \E t \in Threads : Call(t) \/ ThreadStep(t)

Spec == Init /\ [][Next]_vars

----------------------------------------------------------------------------
(* Properties *)

Labels ==
    {"idle", "addCheck", "addSet", "addDone", "raised", "removeCheck", "removeDel",
     "removeDone", "uninstall", "uninstallHook"}

(* Every variable has the values its Python attribute can take. *)
TypeOK ==
    /\ DOMAIN registry \subseteq Addr /\ \A k \in DOMAIN registry : registry[k] \in Seq(Objects)
    /\ bps \subseteq Addr \ Refused
    /\ at \in [Threads -> Labels]
    /\ obj \in [Threads -> Objects \cup {NoObject}]
    /\ addr \in [Threads -> Addr \cup {NoAddr}]
    /\ handler \in {"idle", "next", "join", "rearm", "rearmSet", "dead"}
    /\ hit \in Addr \cup {NoAddr}
    /\ hooks \in [Objects -> Seq(Addr)]
    /\ hookLock \in [Objects -> Threads \cup {NoThread}]
    /\ index \in [Threads -> Nat]
    /\ DOMAIN replaced \subseteq Threads
    /\ \A t \in DOMAIN replaced : replaced[t] \in Seq(Addr)

Count(x, list) == Cardinality({i \in DOMAIN list : list[i] = x})
AtRest(o) == \A t \in Threads : obj[t] # o

(* A hook that the object remembers is registered once for each time it    *)
(* was added, whichever threads add and remove hooks (callback.py:39-43).  *)
HooksRegistered ==
    \A o \in Objects, k \in Addr : AtRest(o) => Count(k, hooks[o]) <= Count(o, List(k))

(* ... and no other hook of the object is: "hooks can be tracked and later *)
(* removed", and uninstall() "removes all of the hooks added by add_hook"  *)
(* (callback.py:64, 111).                                                  *)
HooksTracked ==
    \A o \in Objects, k \in Addr : AtRest(o) => Count(k, hooks[o]) = Count(o, List(k))

(* When no call and no stop is under way, the addresses with breakpoints   *)
(* are those with callbacks: the first callback added sets it, the last    *)
(* one removed deletes it (callback_manager.py:111-114, 147-151).          *)
Armed == AllIdle /\ handler = "idle" => bps = {k \in Addr : List(k) # <<>>} \ Refused

(* A stop runs every callback that is registered for its address when it   *)
(* happens and still is at the end (callback_manager.py:20-22).            *)
EveryCallbackRuns ==
    handler = "next" /\ pos >= Len(List(hit)) =>
        ToSet(listed) \cap ToSet(List(hit)) \subseteq ToSet(ran)
=============================================================================

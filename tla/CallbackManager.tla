--------------------------- MODULE CallbackManager --------------------------
(***************************************************************************)
(* CallbackManager (src/monk/callback_manager.py): the registry of         *)
(* execution callbacks, with a list of callbacks for each address, and the *)
(* handler that runs the list of the address the guest stopped at.  The    *)
(* registries of the other kinds are alike, but no backend sets their      *)
(* breakpoints.  The registry has no lock: an action is the code from one  *)
(* access to the registry or the backend to the next.                      *)
(***************************************************************************)
EXTENDS Naturals, FiniteSets, SequencesExt

CONSTANTS
    Addr,       \* addresses
    Refused,    \* addresses at which the backend raises instead of setting a breakpoint
    Objects,    \* Callback objects; o stands for the function o.run as well
    Users,      \* threads of the program
    NoAddr, NoObject

CbThread == "cb"    \* the thread of the callback that the handler runs
Threads == Users \cup {CbThread}

ASSUME ManagerAssumption ==
    /\ Refused \subseteq Addr
    /\ NoAddr \notin Addr /\ NoObject \notin Objects
    /\ CbThread \notin Users

VARIABLES
    registry,   \* _on_execute_callbacks, a defaultdict: address -> list of callbacks
    bps,        \* breakpoints set in the backend
    at,         \* control label of each thread
    obj,        \* the Callback object a thread works for
    addr,       \* the address a thread works on
    handler,    \* control label of _callback_handler
    hit,        \* address the handler was called for
    pos,        \* callbacks of the list it has run
    ran,        \* which ones, and
    listed,     \*   the list when the handler began
    todo,       \* addresses its loop has not visited
    size        \* addresses in the registry when that loop began

dispatchVars == <<handler, hit, pos, ran, listed, todo, size>>
callVars == <<at, obj, addr>>

List(k) == IF k \in DOMAIN registry THEN registry[k] ELSE <<>>

(* cb_registry[k] = l, which makes k a key if it was none *)
WithList(k, l) ==
    [a \in DOMAIN registry \cup {k} |-> IF a = k THEN l ELSE registry[a]]

ManagerInit ==
    /\ registry = <<>>
    /\ bps = {}
    /\ at = [t \in Threads |-> "idle"]
    /\ obj = [t \in Threads |-> NoObject]
    /\ addr = [t \in Threads |-> NoAddr]
    /\ handler = "idle" /\ hit = NoAddr
    /\ pos = 0 /\ ran = <<>> /\ listed = <<>> /\ todo = {} /\ size = 0

Goto(t, label) == at' = [at EXCEPT ![t] = label]

----------------------------------------------------------------------------
(* _break_on_event: the callback is appended first. *)

Register(o, k) == registry' = WithList(k, Append(List(k), o))

AddCheck(t) ==
    /\ at[t] = "addCheck"
    /\ Goto(t, IF Len(List(addr[t])) < 2 THEN "addSet" ELSE "addDone")
    /\ UNCHANGED <<registry, bps, obj, addr, dispatchVars>>

(* Defect: a refusal is taken for an OK. *)
AddSetUnchecked(t) ==
    /\ at[t] = "addSet"
    /\ bps' = bps \cup {addr[t]}
    /\ Goto(t, "addDone")
    /\ UNCHANGED <<registry, obj, addr, dispatchVars>>

AddSet(t) ==
    /\ at[t] = "addSet"
    /\ bps' = bps \cup ({addr[t]} \ Refused)
    /\ Goto(t, IF addr[t] \in Refused THEN "raised" ELSE "addDone")
    /\ UNCHANGED <<registry, obj, addr, dispatchVars>>

(* remove_callback *)
Unregister(o, k) == registry' = WithList(k, RemoveFirst(List(k), o))

RemoveCheck(t) ==
    /\ at[t] = "removeCheck"
    /\ Goto(t, IF Len(List(addr[t])) < 1 THEN "removeDel" ELSE "removeDone")
    /\ UNCHANGED <<registry, bps, obj, addr, dispatchVars>>

RemoveDel(t) ==
    /\ at[t] = "removeDel"
    /\ bps' = bps \ {addr[t]}
    /\ Goto(t, "removeDone")
    /\ UNCHANGED <<registry, obj, addr, dispatchVars>>

----------------------------------------------------------------------------
(* _callback_handler *)

(* The guest stops at k, which drops every breakpoint (:210-214); the      *)
(* handler is called for the list of k.                                    *)
Fire(k) ==
    /\ handler = "idle"
    /\ k \in bps
    /\ handler' = "next"
    /\ bps' = {}
    /\ hit' = k
    /\ registry' = WithList(k, List(k))
    /\ pos' = 0 /\ ran' = <<>> /\ listed' = List(k)
    /\ UNCHANGED <<callVars, todo, size>>

(* Defect: the loop passes over every other callback. *)
RunNextSkips ==
    /\ handler = "next"
    /\ pos < Len(List(hit))
    /\ pos' = pos + 2
    /\ ran' = Append(ran, List(hit)[pos + 1])
    /\ handler' = "join"
    /\ UNCHANGED <<registry, bps, callVars, hit, listed, todo, size>>

(* The iterator of a list is an index into the list as it is now. *)
RunNext ==
    /\ handler = "next"
    /\ pos < Len(List(hit))
    /\ pos' = pos + 1
    /\ ran' = Append(ran, List(hit)[pos + 1])
    /\ handler' = "join"
    /\ UNCHANGED <<registry, bps, callVars, hit, listed, todo, size>>

(* The callback has returned. *)
Join ==
    /\ handler = "join"
    /\ at[CbThread] = "idle"
    /\ handler' = "next"
    /\ UNCHANGED <<registry, bps, callVars, hit, pos, ran, listed, todo, size>>

RearmBegin ==
    /\ handler = "next"
    /\ pos >= Len(List(hit))
    /\ handler' = "rearm"
    /\ todo' = DOMAIN registry
    /\ size' = Cardinality(DOMAIN registry)
    /\ UNCHANGED <<registry, bps, callVars, hit, pos, ran, listed>>

SameSize == Cardinality(DOMAIN registry) = size

(* Defect: an address with one callback is passed over. *)
RearmCheckMany(k) ==
    /\ handler = "rearm"
    /\ SameSize
    /\ k \in todo
    /\ todo' = todo \ {k}
    /\ IF Len(List(k)) > 1
          THEN handler' = "rearmSet" /\ hit' = k
          ELSE UNCHANGED <<handler, hit>>
    /\ UNCHANGED <<registry, bps, callVars, pos, ran, listed, size>>

RearmCheck(k) ==
    /\ handler = "rearm"
    /\ SameSize
    /\ k \in todo
    /\ todo' = todo \ {k}
    /\ IF Len(List(k)) > 0
          THEN handler' = "rearmSet" /\ hit' = k
          ELSE UNCHANGED <<handler, hit>>
    /\ UNCHANGED <<registry, bps, callVars, pos, ran, listed, size>>

(* What the backend raises ends the handler and its thread. *)
RearmSet ==
    /\ handler = "rearmSet"
    /\ bps' = bps \cup ({hit} \ Refused)
    /\ handler' = IF hit \in Refused THEN "dead" ELSE "rearm"
    /\ UNCHANGED <<registry, callVars, hit, pos, ran, listed, todo, size>>

RearmDone ==
    /\ handler = "rearm"
    /\ SameSize
    /\ todo = {}
    /\ handler' = "idle"
    /\ hit' = NoAddr
    /\ pos' = 0 /\ ran' = <<>> /\ listed' = <<>> /\ size' = 0
    /\ UNCHANGED <<registry, bps, callVars, todo>>

(* RuntimeError: dictionary changed size during iteration *)
RearmRaises ==
    /\ handler = "rearm"
    /\ ~SameSize
    /\ handler' = "dead"
    /\ UNCHANGED <<registry, bps, callVars, hit, pos, ran, listed, todo, size>>

HandlerStep ==
    \/ RunNext \/ Join \/ RearmBegin \/ RearmSet \/ RearmDone \/ RearmRaises
    \/ \E k \in todo : RearmCheck(k)
=============================================================================

---------------------------- MODULE ProcessProofs ---------------------------
(***************************************************************************)
(* Proofs about ProcessCallbacks for every set of objects, of threads and  *)
(* of processes.  BaseInv holds whatever the program does: which callbacks *)
(* are in which lists, and how far the callback that runs has come.        *)
(* GuestInv adds which process is where, and OrderInv how often a process  *)
(* was switched to and which hook stands for that.  The theorems name the  *)
(* rules that they need as their assumptions.                              *)
(***************************************************************************)
EXTENDS ProcessCallbacks, CallbackProofs, Integers

UserPcs == Addr \ Symbols   \* where processes go on
Dispatching == handler \in {"next", "join"}

----------------------------------------------------------------------------
(* Lists of callbacks *)

(* An element occurs if and only if its number of occurrences is not 0. *)
LEMMA ContainsCount ==
    ASSUME NEW S, NEW s \in Seq(S), NEW x
    PROVE  Contains(s, x) <=> Count(x, s) > 0
  <1>1. /\ IsFiniteSet(Places(x, s)) /\ Count(x, s) = Cardinality(Places(x, s))
        /\ Count(x, s) \in Nat
    BY CountType
  <1>2. Contains(s, x) <=> Places(x, s) # {}
    BY DEF Contains, Places
  <1>3. Count(x, s) = 0 <=> Places(x, s) = {}
    BY <1>1, FS_EmptySet
  <1> QED BY <1>1, <1>2, <1>3

(* What is registered afterwards: all that was, and the new callback *)
LEMMA WaitsAdd ==
    ASSUME TypeOK, NEW o \in Objects, NEW k \in Addr, Register(o, k),
           NEW p \in Objects, NEW a \in Addr
    PROVE  Waits(p, a)' <=> Waits(p, a) \/ (p = o /\ a = k)
  <1>1. List(a)' = IF a = k THEN Append(List(k), o) ELSE List(a)
    BY ListAfter DEF Register
  <1>2. List(k) \in Seq(Objects)
    BY ListType
  <1>3. /\ Append(List(k), o) \in Seq(Objects)
        /\ Count(p, Append(List(k), o)) = Count(p, List(k)) + (IF o = p THEN 1 ELSE 0)
    BY <1>2, CountAppend
  <1>4. Count(p, List(k)) \in Nat
    BY <1>2, CountType
  <1>5. Contains(Append(List(k), o), p) <=> Contains(List(k), p) \/ p = o
    <2>1. /\ Contains(Append(List(k), o), p) <=> Count(p, Append(List(k), o)) > 0
          /\ Contains(List(k), p) <=> Count(p, List(k)) > 0
      BY <1>2, <1>3, ContainsCount
    <2> QED BY <1>3, <1>4, <2>1
  <1> QED BY <1>1, <1>5 DEF Waits

(* ... or all that was but perhaps the callback that was removed. *)
LEMMA WaitsRemove ==
    ASSUME TypeOK, NEW o \in Objects, NEW k \in Addr, Unregister(o, k),
           NEW p \in Objects, NEW a \in Addr
    PROVE  /\ Waits(p, a)' => Waits(p, a)
           /\ p # o \/ a # k => (Waits(p, a)' <=> Waits(p, a))
  <1>1. List(a)' = IF a = k THEN RemoveFirst(List(k), o) ELSE List(a)
    BY ListAfter DEF Unregister
  <1>2. List(k) \in Seq(Objects)
    BY ListType
  <1>3. /\ RemoveFirst(List(k), o) \in Seq(Objects)
        /\ Count(p, RemoveFirst(List(k), o))
              = Count(p, List(k)) - (IF p = o /\ Contains(List(k), o) THEN 1 ELSE 0)
    BY <1>2, CountRemove
  <1>4. Count(p, List(k)) \in Nat /\ Count(p, RemoveFirst(List(k), o)) \in Nat
    BY <1>2, <1>3, CountType
  <1>5. /\ Contains(RemoveFirst(List(k), o), p) => Contains(List(k), p)
        /\ p # o => (Contains(RemoveFirst(List(k), o), p) <=> Contains(List(k), p))
    <2>1. /\ Contains(RemoveFirst(List(k), o), p) <=> Count(p, RemoveFirst(List(k), o)) > 0
          /\ Contains(List(k), p) <=> Count(p, List(k)) > 0
      BY <1>2, <1>3, ContainsCount
    <2> QED BY <1>3, <1>4, <2>1
  <1> QED BY <1>1, <1>5 DEF Waits

----------------------------------------------------------------------------
(* The invariant *)

Scripts == {"none", "run", "onSwitchTo", "hooking", "onProcExec", "removing"}

PTypes ==
    /\ script \in Scripts
    /\ cbProcExec \in [Objects -> Addr \cup {NoAddr}]
    /\ owed \in [Objects -> Int]
    /\ running \in Processes
    /\ savedPc \in Addr \cup {NoAddr}
    /\ pos \in Nat /\ ran \in Seq(Objects)

(* Only a process's callback is registered where a process goes on, and    *)
(* only an OnExecute at a kernel function that is not __switch_to.         *)
Place(o, k) ==
    IF k \in Symbols THEN Class[o] = "execute" \/ k = SwitchTo ELSE IsProcess(o)
Placed == \A o \in Objects, k \in Addr : Waits(o, k) => Place(o, k)

(* The hook that add_hook returns to _on_switch_to is remembered at once;  *)
(* if the breakpoint is refused it is not, but then nothing stops there.   *)
Known ==
    \A o \in Objects, k \in UserPcs \ Refused :
        Waits(o, k) => \/ cbProcExec[o] \in Addr
                       \/ script = "hooking" /\ Self = o /\ savedPc = k

(* The handler runs callbacks of an address at which the guest stopped. *)
StopInv ==
    Dispatching => hit \in Addr \ Refused /\ (hit = SwitchTo => savedPc \in UserPcs)

(* How far the callback has come *)
ScriptInv ==
    script # "none" =>
        /\ handler = "join" /\ Self \in Objects
        /\ script \in {"onSwitchTo", "hooking"} => hit = SwitchTo
        /\ script = "hooking" => IsProcess(Self) /\ IsWanted(Self)
        /\ script \in {"onProcExec", "removing"} => hit \in UserPcs /\ IsProcess(Self)
        /\ script = "onProcExec" => cbProcExec[Self] \in Addr

(* What the callback's thread is in the middle of *)
CbInv ==
    at[CbThread] # "idle" =>
        /\ script \in {"run", "hooking", "removing"}
        /\ script = "hooking" =>
              /\ at[CbThread] \in AddLabels \cup {"raised"}
              /\ obj[CbThread] = Self /\ addr[CbThread] = savedPc
              /\ at[CbThread] = "raised" => savedPc \in Refused

BaseInv == Inv /\ PTypes /\ Placed /\ Known /\ StopInv /\ ScriptInv /\ CbInv

----------------------------------------------------------------------------
(* What a step may do *)

(* The guest stops while every thread is idle, if Quiet, and nothing but   *)
(* the handler's variables changes.                                        *)
LEMMA StopEffect ==
    ASSUME NEW k \in Addr, Stop(k)
    PROVE  /\ handler = "idle" /\ k \in bps /\ bps' = {}
           /\ handler' = "next" /\ hit' = k /\ pos' = 0 /\ ran' = <<>>
           /\ UNCHANGED <<at, obj, addr, todo, objectVars, index, calls>>
           /\ \A a : List(a)' = List(a)
           /\ Quiet => AllIdle
  <1>1. \A a : List(a)' = List(a)
    BY ListAfter DEF Stop, OfObject, Fire
  <1> QED BY <1>1 DEF Stop, OfObject, Fire, callVars

(* A call or a thread's step outside of the callback classes: it adds      *)
(* hooks of kernel functions only, and the callback's thread begins calls  *)
(* in run() only.                                                          *)
ThreadActs(t) ==
    \/ PCall(t)
    \/ /\ ThreadStep(t)
       /\ ~(at[t] = "raised" /\ t = CbThread)
       /\ UNCHANGED processVars

LEMMA ThreadEffect ==
    ASSUME TypeInv, NEW t \in Threads, ThreadActs(t)
    PROVE  /\ UNCHANGED <<dispatchVars, script, cbProcExec, guestVars>>
           /\ \A u \in Threads \ {t} : /\ at'[u] = at[u] /\ obj'[u] = obj[u]
                                       /\ addr'[u] = addr[u] /\ index'[u] = index[u]
           /\ at[t] = "idle" /\ t = CbThread => script = "run"
  <1> USE DEF ThreadActs, TypeInv, TypeOK, objectVars, dispatchVars
  <1>1. CASE PCall(t)
    <2>1. CASE Install(t)
      BY <1>1, <2>1 DEF Install, PCall, AddHook, CanCall, BeginAdd, Works, Goto
    <2>2. CASE Removes(t)
      BY <1>1, <2>2 DEF Removes, PCall, RemoveHook, CanCall, BeginRemove, Works, Goto
    <2>3. CASE Uninstalls(t)
      BY <1>1, <2>3 DEF Uninstalls, PCall, Uninstall, CanCall, Works, Goto
    <2> QED BY <1>1, <2>1, <2>2, <2>3 DEF PCall
  <1>2. CASE ThreadStep(t) /\ UNCHANGED processVars
    <2> USE <1>2 DEF processVars
    <2>1. at[t] # "idle"
      BY DEF ThreadStep, OfObject, AddCheck, AddSet, RemoveCheck, RemoveDel, AddDone, Raised,
             RemoveDone, UninstallNext, UninstallHook, UninstallDone
    <2>2. CASE \/ OfObject(AddCheck(t)) \/ OfObject(AddSet(t))
               \/ OfObject(RemoveCheck(t)) \/ OfObject(RemoveDel(t))
      BY <2>1, <2>2 DEF OfObject, AddCheck, AddSet, RemoveCheck, RemoveDel, Goto
    <2>3. CASE AddDone(t) \/ Raised(t)
      BY <2>1, <2>3 DEF AddDone, Raised, Rests, Works, Goto
    <2>4. CASE RemoveDone(t)
      BY <2>1, <2>4 DEF RemoveDone, Rests, Works, Goto
    <2>5. CASE UninstallNext(t)
      BY <2>1, <2>5 DEF UninstallNext, Goto
    <2>6. CASE UninstallHook(t)
      BY <2>1, <2>6 DEF UninstallHook, BeginRemove, Works, Goto
    <2>7. CASE UninstallDone(t)
      BY <2>1, <2>7 DEF UninstallDone, Rests, Works, Goto
    <2> QED BY <2>2, <2>3, <2>4, <2>5, <2>6, <2>7 DEF ThreadStep
  <1> QED BY <1>1, <1>2

(* What such a step does to the lists: an address of a process gets no     *)
(* callback.                                                               *)
LEMMA ThreadLists ==
    ASSUME TypeInv, NEW t \in Threads, ThreadActs(t), NEW p \in Objects, NEW a \in Addr
    PROVE  /\ a \in UserPcs /\ Waits(p, a)' => Waits(p, a)
           /\ Waits(p, a)' => Waits(p, a) \/ Place(p, a)
  <1> USE DEF ThreadActs, TypeInv
  <1>1. CASE Install(t)
    <2>1. PICK o \in Objects, k \in Symbols :
              /\ Class[o] # "execute" => k = SwitchTo
              /\ AddHook(t, o, k)
      BY <1>1, ProcessAssumption DEF Install
    <2>2. k \in Addr
      BY ProcessAssumption
    <2>3. Waits(p, a)' <=> Waits(p, a) \/ (p = o /\ a = k)
      BY <2>1, <2>2, WaitsAdd DEF AddHook, BeginAdd
    <2> QED BY <2>1, <2>2, <2>3 DEF UserPcs, Place
  <1>2. CASE Removes(t)
    <2>1. PICK o \in Objects, k \in Symbols : RemoveHook(t, o, k)
      BY <1>2 DEF Removes
    <2>2. k \in Addr
      BY ProcessAssumption
    <2> QED BY <2>1, <2>2, WaitsRemove DEF RemoveHook, BeginRemove
  <1>3. CASE UninstallHook(t)
    <2>1. obj[t] \in Objects /\ addr[t] \in Addr
      BY <1>3 DEF UninstallHook, LockInv
    <2> QED BY <1>3, <2>1, WaitsRemove DEF UninstallHook, BeginRemove
  <1>4. CASE UNCHANGED registry
    BY <1>4 DEF Waits, List
  <1>5. Install(t) \/ Removes(t) \/ UninstallHook(t) \/ UNCHANGED registry
    BY DEF PCall, Uninstalls, Uninstall, ThreadStep, OfObject, AddCheck, AddSet, RemoveCheck,
           RemoveDel, AddDone, Raised, RemoveDone, UninstallNext, UninstallDone
  <1> QED BY <1>1, <1>2, <1>3, <1>4, <1>5

----------------------------------------------------------------------------
(* Each step keeps the invariant of Callback: the callback classes call    *)
(* add_hook and remove_hook as the program does.                           *)

(* A label at which a thread holds no lock *)
LEMMA IdleHoldsNone ==
    ASSUME NEW t \in Threads, at[t] \in {"idle", "uninstall", "uninstallHook"}
    PROVE  at[t] \notin Holding
  BY DEF Holding, AddLabels, RemoveLabels

(* The classes call add_hook and remove_hook in the middle of a stop; all  *)
(* else is what Callback does already.                                     *)
LEMMA StepsOfCallback ==
    ASSUME BaseInv, [PNext]_pvars
    PROVE  \/ [Next]_vars
           \/ ProcessSwitch /\ BeginAdd(CbThread, Self, savedPc)
           \/ ProcExec
  <1>1. CASE SwitchStop \/ ProcessStop \/ KernelStop
    <2>1. \E k \in Addr : Stop(k)
      BY <1>1, ProcessAssumption DEF SwitchStop, ProcessStop, KernelStop
    <2> QED BY <2>1 DEF Next
  <1>2. CASE PHandlerStep
    <2>1. OfObject(HandlerStep)
      BY <1>2 DEF PHandlerStep, Begin, End, OfObject, HandlerStep
    <2> QED BY <2>1 DEF Next
  <1>3. CASE ScheduledSwitch \/ Hooked \/ Unhooked
    BY <1>3 DEF ScheduledSwitch, Hooked, Unhooked
  <1>4. CASE ProcessSwitch
    BY <1>4 DEF ProcessSwitch, vars, objectVars
  <1>5. ASSUME NEW t \in Threads, PCall(t)
        PROVE  Next
    <2>1. Call(t)
      BY <1>5, ProcessAssumption DEF PCall, Install, Removes, Uninstalls, Call
    <2> QED BY <2>1 DEF Next
  <1>6. ASSUME NEW t \in Threads, PThreadStep(t)
        PROVE  Next
    <2>1. ThreadStep(t)
      BY <1>6 DEF PThreadStep, CbRaised, ThreadStep
    <2> QED BY <2>1 DEF Next
  <1>7. CASE UNCHANGED pvars
    BY <1>7 DEF pvars
  <1> QED BY <1>1, <1>2, <1>3, <1>4, <1>5, <1>6, <1>7 DEF PNext

(* ... and such a call begins while no other thread is in one. *)
LEMMA ClassCalls ==
    ASSUME BaseInv, (ProcessSwitch /\ BeginAdd(CbThread, Self, savedPc)) \/ ProcExec
    PROVE  /\ CbThread \in Threads /\ at[CbThread] = "idle" /\ at[CbThread] \notin Holding
           /\ handler = "join" /\ Self \in Objects
           /\ UNCHANGED <<bps, dispatchVars, hooks, index, replaced>>
           /\ ProcessSwitch => savedPc \in Addr
           /\ ProcExec => cbProcExec[Self] \in Addr
           /\ at'[CbThread] \in {"addCheck", "removeCheck", "raised"}
           /\ \A u \in Threads \ {CbThread} : at'[u] = at[u] /\ obj'[u] = obj[u]
  <1> USE DEF BaseInv, Inv, TypeInv, TypeOK
  <1>1. CbThread \in Threads /\ at[CbThread] = "idle" /\ at[CbThread] \notin Holding
    BY IdleHoldsNone DEF ProcessSwitch, ProcExec, CbRests, Threads
  <1>2. CASE ProcessSwitch /\ BeginAdd(CbThread, Self, savedPc)
    <2>1. handler = "join" /\ Self \in Objects /\ savedPc \in Addr
      BY <1>2 DEF ProcessSwitch, CbRests, ScriptInv, StopInv, Dispatching, UserPcs
    <2>2. UNCHANGED <<bps, dispatchVars, hooks, index, replaced>> /\ ~ProcExec
      BY <1>2 DEF ProcessSwitch, ProcExec, CbRests
    <2>3. /\ at'[CbThread] = "addCheck"
          /\ \A u \in Threads \ {CbThread} : at'[u] = at[u] /\ obj'[u] = obj[u]
      BY <1>1, <1>2 DEF BeginAdd, Goto, Works
    <2> QED BY <1>1, <2>1, <2>2, <2>3
  <1>3. CASE ProcExec
    <2>1. handler = "join" /\ Self \in Objects /\ cbProcExec[Self] \in Addr
      BY <1>3 DEF ProcExec, CbRests, ScriptInv
    <2>2. UNCHANGED <<bps, dispatchVars, hooks, index, replaced>> /\ ~ProcessSwitch
      BY <1>3 DEF ProcessSwitch, ProcExec, CbRests
    <2>3. /\ at'[CbThread] \in {"removeCheck", "raised"}
          /\ \A u \in Threads \ {CbThread} : at'[u] = at[u] /\ obj'[u] = obj[u]
      BY <1>1, <1>3 DEF ProcExec, BeginRemove, Goto, Works
    <2> QED BY <1>1, <2>1, <2>2, <2>3
  <1> QED BY <1>2, <1>3

LEMMA InvPNext == BaseInv /\ [PNext]_pvars => Inv'
  <1> SUFFICES ASSUME BaseInv, [PNext]_pvars
               PROVE  Inv'
    OBVIOUS
  <1>1. CASE [Next]_vars
    BY <1>1, InvNext DEF BaseInv
  <1>2. CASE ProcessSwitch /\ BeginAdd(CbThread, Self, savedPc)
    BY <1>2, ClassCalls, BeginAddKeeps DEF BaseInv, ProcessSwitch
  <1>3. CASE ProcExec
    BY <1>3, ClassCalls, BeginRemoveKeeps DEF BaseInv, ProcExec
  <1> QED BY <1>1, <1>2, <1>3, StepsOfCallback

----------------------------------------------------------------------------
(* Each step keeps the rest of BaseInv *)

BaseRest == PTypes /\ Placed /\ Known /\ StopInv /\ ScriptInv /\ CbInv

(* The handler dispatches after a stop, before it sets the breakpoints. *)
LEMMA BaseStop ==
    ASSUME BaseInv, SwitchStop \/ ProcessStop \/ KernelStop
    PROVE  BaseRest'
  <1> USE DEF BaseInv, Inv, TypeInv, PTypes
  <1>1. PICK k \in Addr : /\ Stop(k) /\ UNCHANGED <<script, cbProcExec, owed>>
                          /\ running' \in Processes /\ savedPc' \in Addr \cup {NoAddr}
                          /\ k = SwitchTo => savedPc' \in UserPcs
    <2>1. CASE SwitchStop
      <3>1. SwitchTo \in Addr
        BY ProcessAssumption
      <3>2. PICK p \in Processes :
                running' = p /\ savedPc' \in Pcs[IF p \in KernelProcesses THEN running ELSE p]
        BY <2>1 DEF SwitchStop
      <3>3. savedPc' \in UserPcs
        BY <3>2, ProcessAssumption DEF UserPcs
      <3> QED BY <2>1, <3>1, <3>2, <3>3 DEF SwitchStop, UserPcs
    <2>2. CASE ProcessStop
      BY <2>2, ProcessAssumption DEF ProcessStop
    <2>3. CASE KernelStop
      BY <2>3, ProcessAssumption DEF KernelStop, processVars, guestVars
    <2> QED BY <2>1, <2>2, <2>3
  <1>2. /\ handler = "idle" /\ k \in bps /\ handler' = "next" /\ hit' = k /\ pos' = 0 /\ ran' = <<>>
        /\ at' = at /\ \A a : List(a)' = List(a)
    BY <1>1, StopEffect
  <1>3. script = "none" /\ script' = "none"
    BY <1>1, <1>2 DEF ScriptInv
  <1>4. PTypes' /\ ScriptInv'
    BY <1>1, <1>2, <1>3 DEF ScriptInv
  <1>5. Placed'
    BY <1>2 DEF Placed, Waits
  <1>6. Known'
    BY <1>1, <1>2, <1>3 DEF Known, Waits
  <1>7. StopInv'
    BY <1>1, <1>2 DEF StopInv, TypeOK
  <1>8. CbInv'
    BY <1>2, <1>3 DEF CbInv
  <1> QED BY <1>4, <1>5, <1>6, <1>7, <1>8 DEF BaseRest

(* The callback that begins is one of the list. *)
LEMMA BeginEffect ==
    ASSUME TypeOK, PTypes, ScriptInv, Begin
    PROVE  /\ handler = "next" /\ handler' = "join" /\ script = "none"
           /\ pos < Len(List(hit)) /\ pos' = pos + 1 /\ pos + 1 \in 1..Len(List(hit))
           /\ ran' \in Seq(Objects)
           /\ Self' = List(hit)[pos + 1] /\ Self' \in Objects /\ Waits(Self', hit)
           /\ UNCHANGED <<registry, bps, at, obj, addr, hit, objectVars, index, calls, cbProcExec,
                          owed, running, savedPc>>
           /\ \A a : List(a)' = List(a)
           /\ script' = IF Class[Self'] = "execute" THEN "run"
                        ELSE IF hit = SwitchTo THEN "onSwitchTo" ELSE "onProcExec"
  <1> USE DEF Begin, OfObject, RunNext
  <1> DEFINE o == List(hit)[pos + 1]
  <1>1. List(hit) \in Seq(Objects)
    BY ListType
  <1>2. pos + 1 \in 1..Len(List(hit)) /\ o \in Objects
    BY <1>1 DEF PTypes
  <1>3. ran' = Append(ran, o) /\ ran \in Seq(Objects)
    BY DEF PTypes
  <1> HIDE DEF o
  <1>4. ran' \in Seq(Objects) /\ Len(ran') = Len(ran) + 1 /\ ran'[Len(ran) + 1] = o
    BY <1>2, <1>3, AppendProperties
  <1>5. Self' = o
    BY <1>4 DEF Self, Last
  <1>6. Waits(o, hit)
    BY <1>2 DEF Waits, Contains, o
  <1>7. script = "none"
    BY DEF ScriptInv
  <1>8. \A a : List(a)' = List(a)
    BY DEF List
  <1>9. script' = IF Class[Self'] = "execute" THEN "run"
                  ELSE IF hit = SwitchTo THEN "onSwitchTo" ELSE "onProcExec"
    BY DEF Self
  <1> QED BY <1>2, <1>4, <1>5, <1>6, <1>7, <1>8, <1>9 DEF o, callVars, guestVars

LEMMA BaseBegin ==
    ASSUME BaseInv, Begin
    PROVE  BaseRest'
  <1> USE DEF BaseInv, Inv, TypeInv
  <1>1. /\ handler = "next" /\ handler' = "join" /\ script = "none"
        /\ pos' = pos + 1 /\ ran' \in Seq(Objects)
        /\ Self' \in Objects /\ Waits(Self', hit)
        /\ UNCHANGED <<at, obj, addr, hit, cbProcExec, owed, running, savedPc>>
        /\ \A a : List(a)' = List(a)
        /\ script' = IF Class[Self'] = "execute" THEN "run"
                     ELSE IF hit = SwitchTo THEN "onSwitchTo" ELSE "onProcExec"
    BY BeginEffect
  <1>2. PTypes'
    BY <1>1 DEF PTypes, Scripts
  <1>3. Placed'
    BY <1>1 DEF Placed, Waits
  <1>4. Known'
    BY <1>1 DEF Known, Waits
  <1>5. StopInv'
    BY <1>1 DEF StopInv, Dispatching
  <1>6. hit \in Addr \ Refused
    BY <1>1 DEF StopInv, Dispatching
  <1>7. Place(Self', hit)
    BY <1>1, <1>6 DEF Placed
  <1>8. script' = "onProcExec" => hit \in UserPcs /\ IsProcess(Self') /\ cbProcExec[Self'] \in Addr
    BY <1>1, <1>6, <1>7 DEF Place, UserPcs, Known
  <1>9. ScriptInv'
    BY <1>1, <1>8 DEF ScriptInv, IsProcess
  <1>10. CbInv'
    BY <1>1 DEF CbInv
  <1> QED BY <1>2, <1>3, <1>4, <1>5, <1>9, <1>10 DEF BaseRest

(* A callback returns, or the handler sets breakpoints. *)
LEMMA BaseHandler ==
    ASSUME BaseInv, PHandlerStep, ~Begin
    PROVE  BaseRest'
  <1> USE DEF BaseInv, Inv, TypeInv, OfObject
  <1>1. /\ \A a : List(a)' = List(a)
        /\ at' = at
        /\ handler' = "next" \/ handler' \notin {"next", "join"}
        /\ handler' = "next" => hit' = hit
        /\ pos' \in Nat /\ ran' \in Seq(Objects)
    <2>1. CASE End
      BY <2>1 DEF End, Join, List, callVars, PTypes
    <2>2. CASE \/ RearmBegin \/ RearmSet \/ RearmRaises
               \/ \E k \in todo : RearmCheck(k)
      BY <2>2 DEF RearmBegin, RearmSet, RearmRaises, RearmCheck, List, callVars, PTypes
    <2>3. CASE RearmDone
      BY <2>3 DEF RearmDone, List, callVars
    <2> QED BY <2>1, <2>2, <2>3 DEF PHandlerStep
  <1>2. handler \in {"next", "join"} \/ handler' # "next"
    BY DEF PHandlerStep, End, Join, RearmBegin, RearmSet, RearmDone, RearmRaises, RearmCheck
  <1>3. UNCHANGED <<cbProcExec, owed, running, savedPc>>
    BY DEF PHandlerStep, End, processVars, guestVars
  <1>4. script' = "none" /\ script \in {"none", "run"}
    <2>1. CASE End
      BY <2>1 DEF End
    <2>2. CASE ~End
      BY <2>2 DEF PHandlerStep, RearmBegin, RearmSet, RearmDone, RearmRaises, RearmCheck,
                  ScriptInv, processVars
    <2> QED BY <2>1, <2>2
  <1>5. at[CbThread] = "idle"
    <2>1. CASE End
      BY <2>1 DEF End, Join
    <2>2. CASE ~End
      BY <2>2 DEF PHandlerStep, RearmBegin, RearmSet, RearmDone, RearmRaises, RearmCheck,
                  ScriptInv, CbInv
    <2> QED BY <2>1, <2>2
  <1>6. PTypes' /\ ScriptInv' /\ CbInv'
    BY <1>1, <1>3, <1>4, <1>5 DEF PTypes, Scripts, ScriptInv, CbInv
  <1>7. Placed'
    BY <1>1 DEF Placed, Waits
  <1>8. Known'
    BY <1>1, <1>3, <1>4 DEF Known, Waits
  <1>9. StopInv'
    BY <1>1, <1>2, <1>3 DEF StopInv, Dispatching
  <1> QED BY <1>6, <1>7, <1>8, <1>9 DEF BaseRest

(* The callback goes on without a call of add_hook or remove_hook. *)
LEMMA BaseScript ==
    ASSUME BaseInv,
           \/ ScheduledSwitch \/ Hooked \/ Unhooked
           \/ ProcessSwitch /\ ~IsWanted(Self)
    PROVE  BaseRest'
  <1> USE DEF BaseInv, Inv, TypeInv
  <1>1. /\ UNCHANGED <<registry, at, obj, addr, handler, hit, pos, ran, running, savedPc>>
        /\ at[CbThread] = "idle" /\ script # "none" /\ script' \in {"none", "run"}
    BY DEF ScheduledSwitch, Hooked, Unhooked, ProcessSwitch, CbRests, vars, dispatchVars, callVars,
           guestVars
  <1>2. /\ \A a : List(a)' = List(a)
        /\ Self' = Self /\ Self \in Objects
        /\ handler = "join" /\ hit \in Addr
    BY <1>1 DEF List, Self, ScriptInv, StopInv, Dispatching
  <1>3. PTypes'
    BY <1>1, <1>2 DEF PTypes, Scripts, ScheduledSwitch, Hooked, Unhooked, ProcessSwitch
  <1>4. Placed'
    BY <1>2 DEF Placed, Waits
  <1>5. Known'
    <2>1. CASE Hooked
      <3>1. script = "hooking" /\ hit = SwitchTo /\ savedPc \in Addr
        BY <1>2, <2>1 DEF Hooked, CbRests, ScriptInv, StopInv, Dispatching, UserPcs
      <3>2. \A o \in Objects : cbProcExec'[o] = IF o = Self THEN savedPc ELSE cbProcExec[o]
        BY <2>1 DEF Hooked, PTypes
      <3> QED BY <1>1, <1>2, <3>1, <3>2 DEF Known, Waits
    <2>2. CASE ~Hooked
      <3>1. cbProcExec' = cbProcExec /\ script # "hooking"
        BY <2>2 DEF ScheduledSwitch, Unhooked, ProcessSwitch, CbRests
      <3> QED BY <1>1, <1>2, <3>1 DEF Known, Waits
    <2> QED BY <2>1, <2>2
  <1>6. StopInv' /\ ScriptInv' /\ CbInv'
    BY <1>1, <1>2 DEF StopInv, Dispatching, ScriptInv, CbInv
  <1> QED BY <1>3, <1>4, <1>5, <1>6 DEF BaseRest

(* _on_switch_to calls add_hook for its process. *)
LEMMA BaseHooking ==
    ASSUME BaseInv, ProcessSwitch, IsWanted(Self)
    PROVE  BaseRest'
  <1> USE DEF BaseInv, Inv, TypeInv, ProcessSwitch
  <1>1. /\ script = "onSwitchTo" /\ IsProcess(Self) /\ script' = "hooking"
        /\ handler = "join" /\ hit = SwitchTo /\ Self \in Objects
        /\ savedPc \in UserPcs /\ savedPc \in Addr
    BY DEF CbRests, IsProcess, ScriptInv, StopInv, Dispatching, UserPcs
  <1>2. /\ UNCHANGED <<handler, hit, pos, ran, cbProcExec, running, savedPc>>
        /\ Self' = Self /\ owed' \in [Objects -> Int]
    BY <1>1 DEF dispatchVars, guestVars, Self, PTypes
  <1>3. /\ at'[CbThread] = "addCheck" /\ obj'[CbThread] = Self /\ addr'[CbThread] = savedPc
    BY DEF BeginAdd, Works, Goto, TypeOK, Threads
  <1>4. ASSUME NEW p \in Objects, NEW a \in Addr
        PROVE  Waits(p, a)' <=> Waits(p, a) \/ (p = Self /\ a = savedPc)
    BY <1>1, WaitsAdd DEF BeginAdd
  <1>5. PTypes'
    BY <1>1, <1>2 DEF PTypes, Scripts
  <1>6. Placed'
    BY <1>1, <1>4 DEF Placed, Place, UserPcs
  <1>7. Known'
    BY <1>1, <1>2, <1>4 DEF Known, UserPcs
  <1>8. StopInv'
    BY <1>2 DEF StopInv, Dispatching
  <1>9. ScriptInv'
    BY <1>1, <1>2 DEF ScriptInv, IsWanted
  <1>10. CbInv'
    BY <1>1, <1>2, <1>3 DEF CbInv, AddLabels
  <1> QED BY <1>5, <1>6, <1>7, <1>8, <1>9, <1>10 DEF BaseRest

(* _on_proc_exec calls remove_hook. *)
LEMMA BaseRemoving ==
    ASSUME BaseInv, ProcExec
    PROVE  BaseRest'
  <1> USE DEF BaseInv, Inv, TypeInv, ProcExec
  <1>1. /\ script = "onProcExec" /\ script' = "removing" /\ Self \in Objects
        /\ cbProcExec[Self] \in Addr
    BY DEF CbRests, ScriptInv
  <1>2. /\ UNCHANGED <<handler, hit, pos, ran, cbProcExec, owed, running, savedPc>>
        /\ Self' = Self
    BY DEF dispatchVars, guestVars, Self
  <1>3. ASSUME NEW p \in Objects, NEW a \in Addr
        PROVE  Waits(p, a)' => Waits(p, a)
    BY <1>1, WaitsRemove DEF BeginRemove
  <1>4. PTypes'
    BY <1>1, <1>2 DEF PTypes, Scripts
  <1>5. Placed'
    BY <1>3 DEF Placed
  <1>6. Known'
    BY <1>1, <1>2, <1>3 DEF Known, UserPcs
  <1>7. StopInv' /\ ScriptInv' /\ CbInv'
    BY <1>1, <1>2 DEF StopInv, Dispatching, ScriptInv, CbInv
  <1> QED BY <1>4, <1>5, <1>6, <1>7 DEF BaseRest

(* Threads make calls, and the callback's thread goes on in them. *)
LEMMA BaseThread ==
    ASSUME BaseInv, NEW t \in Threads, ThreadActs(t)
    PROVE  BaseRest'
  <1> USE DEF BaseInv, Inv, TypeInv
  <1>1. /\ UNCHANGED <<dispatchVars, script, cbProcExec, guestVars>>
        /\ \A u \in Threads \ {t} : /\ at'[u] = at[u] /\ obj'[u] = obj[u]
                                    /\ addr'[u] = addr[u] /\ index'[u] = index[u]
        /\ at[t] = "idle" /\ t = CbThread => script = "run"
    BY ThreadEffect
  <1>2. UNCHANGED <<handler, hit, pos, ran, running, savedPc>> /\ Self' = Self
    BY <1>1 DEF dispatchVars, guestVars, Self
  <1>3. \A p \in Objects, a \in Addr : /\ a \in UserPcs /\ Waits(p, a)' => Waits(p, a)
                                       /\ Waits(p, a)' => Waits(p, a) \/ Place(p, a)
    BY ThreadLists
  <1>4. owed' \in [Objects -> Int]
    BY DEF ThreadActs, PCall, Uninstalls, processVars, PTypes
  <1>5. PTypes'
    BY <1>1, <1>2, <1>4 DEF PTypes
  <1>6. Placed'
    BY <1>3 DEF Placed, Place
  <1>7. Known'
    BY <1>1, <1>2, <1>3 DEF Known, UserPcs
  <1>8. StopInv' /\ ScriptInv'
    BY <1>1, <1>2 DEF StopInv, Dispatching, ScriptInv, IsWanted
  <1>9. CbInv'
    <2>1. CASE t # CbThread
      <3>1. CbThread \in Threads \ {t}
        BY <2>1 DEF Threads
      <3>2. at'[CbThread] = at[CbThread] /\ obj'[CbThread] = obj[CbThread]
            /\ addr'[CbThread] = addr[CbThread]
        BY <1>1, <3>1
      <3> QED BY <1>1, <1>2, <3>2 DEF CbInv
    <2>2. CASE t = CbThread /\ at[CbThread] = "idle"
      BY <1>1, <2>2 DEF CbInv
    <2>3. CASE t = CbThread /\ at[CbThread] # "idle" /\ script # "hooking"
      BY <1>1, <2>3 DEF CbInv
    <2>4. CASE t = CbThread /\ at[CbThread] # "idle" /\ script = "hooking"
      <3>1. at[t] \in AddLabels /\ obj[t] = Self /\ addr[t] = savedPc
        BY <2>4 DEF CbInv, ThreadActs, PCall, ThreadStep, Install, Removes, Uninstalls, OfObject,
                    AddCheck, AddSet, AddDone, RemoveCheck, RemoveDel, RemoveDone, UninstallNext,
                    UninstallHook, UninstallDone, AddLabels
      <3>2. OfObject(AddCheck(t)) \/ OfObject(AddSet(t)) \/ AddDone(t)
        BY <2>4, <3>1 DEF ThreadActs, PCall, ThreadStep, Install, Removes, Uninstalls, OfObject,
                    RemoveCheck, RemoveDel, Raised, RemoveDone, UninstallNext,
                    UninstallHook, UninstallDone, AddLabels
      <3>3. CASE OfObject(AddCheck(t)) \/ OfObject(AddSet(t))
        <4>1. UNCHANGED <<obj, addr>>
          BY <3>3 DEF OfObject, AddCheck, AddSet
        <4>2. at'[t] \in AddLabels \/ (at'[t] = "raised" /\ addr[t] \in Refused)
          BY <3>3 DEF OfObject, AddCheck, AddSet, Goto, TypeOK, AddLabels
        <4> QED BY <1>1, <1>2, <2>4, <3>1, <4>1, <4>2 DEF CbInv, AddLabels
      <3>4. CASE AddDone(t)
        <4>1. at'[t] = "idle"
          BY <3>4 DEF AddDone, Goto, TypeOK
        <4> QED BY <2>4, <4>1 DEF CbInv
      <3> QED BY <3>2, <3>3, <3>4
    <2> QED BY <2>1, <2>2, <2>3, <2>4
  <1> QED BY <1>5, <1>6, <1>7, <1>8, <1>9 DEF BaseRest

(* What a callback's call raises ends the callback; what it registered at  *)
(* an address that is refused does not matter.                             *)
LEMMA BaseRaised ==
    ASSUME BaseInv, CbRaised
    PROVE  BaseRest'
  <1> USE DEF BaseInv, Inv, TypeInv, CbRaised, Raised
  <1>1. /\ UNCHANGED <<registry, handler, hit, pos, ran, cbProcExec, owed, running, savedPc>>
        /\ Self' = Self /\ \A a : List(a)' = List(a)
        /\ script' = IF script = "run" THEN "run" ELSE "none"
    BY DEF dispatchVars, guestVars, Self, List
  <1>2. at'[CbThread] = "idle"
    BY DEF Goto, TypeOK, Threads
  <1>3. script = "hooking" => savedPc \in Refused
    BY DEF CbInv
  <1>4. PTypes'
    BY <1>1 DEF PTypes, Scripts
  <1>5. Placed'
    BY <1>1 DEF Placed, Waits
  <1>6. Known'
    BY <1>1, <1>3 DEF Known, Waits
  <1>7. StopInv' /\ ScriptInv' /\ CbInv'
    BY <1>1, <1>2 DEF StopInv, Dispatching, ScriptInv, CbInv
  <1> QED BY <1>4, <1>5, <1>6, <1>7 DEF BaseRest

LEMMA BaseInit == PInit => BaseInv
  <1> SUFFICES ASSUME PInit
               PROVE  BaseInv
    OBVIOUS
  <1>1. Inv
    BY InvInit DEF PInit
  <1>2. \A k : List(k) = <<>>
    BY DEF PInit, Init, ManagerInit, List
  <1>3. \A o, k : ~Waits(o, k)
    BY <1>2 DEF Waits, Contains
  <1>4. PTypes
    BY DEF PInit, Init, ManagerInit, PTypes, Scripts
  <1>5. StopInv /\ ScriptInv /\ CbInv
    BY DEF PInit, Init, ManagerInit, StopInv, Dispatching, ScriptInv, CbInv, Threads
  <1> QED BY <1>1, <1>3, <1>4, <1>5 DEF BaseInv, Placed, Known

LEMMA BaseNext == BaseInv /\ [PNext]_pvars => BaseInv'
  <1> SUFFICES ASSUME BaseInv, [PNext]_pvars
               PROVE  BaseInv'
    OBVIOUS
  <1>1. Inv'
    BY InvPNext
  <1>2. CASE SwitchStop \/ ProcessStop \/ KernelStop
    BY <1>1, <1>2, BaseStop DEF BaseInv, BaseRest
  <1>3. CASE PHandlerStep
    BY <1>1, <1>3, BaseBegin, BaseHandler DEF BaseInv, BaseRest
  <1>4. CASE ScheduledSwitch \/ ProcessSwitch \/ Hooked \/ Unhooked
    BY <1>1, <1>4, BaseScript, BaseHooking DEF BaseInv, BaseRest
  <1>5. CASE ProcExec
    BY <1>1, <1>5, BaseRemoving DEF BaseInv, BaseRest
  <1>6. ASSUME NEW t \in Threads, PCall(t) \/ PThreadStep(t)
        PROVE  BaseInv'
    BY <1>1, <1>6, BaseThread, BaseRaised DEF BaseInv, BaseRest, ThreadActs, PThreadStep
  <1>7. CASE UNCHANGED pvars
    BY <1>1, <1>7 DEF pvars, vars, processVars, guestVars, dispatchVars, callVars, BaseInv, PTypes,
           Placed, Known, StopInv, Dispatching, ScriptInv, CbInv, Waits, List, Self, IsWanted
  <1> QED BY <1>2, <1>3, <1>4, <1>5, <1>6, <1>7 DEF PNext

(* The program may do anything with the callback classes, and threads and  *)
(* handler may overlap in any way: the registry, the lists of hooks and    *)
(* the locks keep their types (callback.py, linux/callbacks.py).           *)
THEOREM ProcessTypeCorrect == PSpec => []TypeOK
  <1>1. BaseInv => TypeOK
    BY DEF BaseInv, Inv, TypeInv
  <1> QED BY BaseInit, BaseNext, <1>1, PTL DEF PSpec

(* ... and every hook that an object of these classes remembers is         *)
(* registered, those that it adds and removes in the middle of a stop as   *)
(* well (callback.py:64, linux/callbacks.py:54, 57).                       *)
THEOREM ProcessHooksRegistered == PSpec => []HooksRegistered
  <1>1. BaseInv => HooksRegistered
    BY InvRegistered DEF BaseInv
  <1> QED BY BaseInit, BaseNext, <1>1, PTL DEF PSpec

----------------------------------------------------------------------------
(* run() is called for the process that runs *)

(* Rules: no two processes go on at the same address, and no callback is   *)
(* for a process of the kernel, whose registers the code takes from the    *)
(* thread that is left.                                                    *)
KeptApart == \A p, q \in Processes : p # q => Pcs[p] \cap Pcs[q] = {}
UserProcesses == \A o \in Objects : ProcName[o] \notin KernelProcesses

(* A callback that waits does so where its own process goes on. *)
Theirs ==
    \A o \in Objects, k \in UserPcs :
        Waits(o, k) => ProcName[o] \in Processes /\ k \in Pcs[ProcName[o]]

(* A stop is one of the process that runs. *)
Arrived ==
    Dispatching =>
        /\ hit \in UserPcs => hit \in Pcs[running]
        /\ hit = SwitchTo /\ running \notin KernelProcesses => savedPc \in Pcs[running]

(* Whose turn it is *)
Turn ==
    /\ script \in {"onProcExec", "removing"} =>
          ProcName[Self] \in Processes /\ hit \in Pcs[ProcName[Self]]
    /\ script = "run" => Class[Self] = "execute" \/ ProcName[Self] \in {NoProcess, running}

GuestInv == Theirs /\ Arrived /\ Turn

LEMMA GuestNext ==
    ASSUME BaseInv, GuestInv, [PNext]_pvars, KeptApart, UserProcesses
    PROVE  GuestInv'
  <1> USE DEF BaseInv, Inv, TypeInv
  <1>1. CASE SwitchStop \/ ProcessStop \/ KernelStop
    <2>1. PICK k \in Addr :
              /\ Stop(k) /\ script' = script
              /\ k \in UserPcs => k \in Pcs[running']
              /\ k = SwitchTo /\ running' \notin KernelProcesses => savedPc' \in Pcs[running']
      <3>1. CASE SwitchStop
        BY <3>1, ProcessAssumption DEF SwitchStop, UserPcs
      <3>2. CASE ProcessStop
        BY <3>2, ProcessAssumption DEF ProcessStop
      <3>3. CASE KernelStop
        BY <3>3, ProcessAssumption DEF KernelStop, processVars, UserPcs
      <3> QED BY <1>1, <3>1, <3>2, <3>3
    <2>2. handler = "idle" /\ hit' = k /\ \A a : List(a)' = List(a)
      BY <2>1, StopEffect
    <2>3. script' = "none"
      BY <2>1, <2>2 DEF ScriptInv
    <2> QED BY <2>1, <2>2, <2>3 DEF GuestInv, Theirs, Arrived, Turn, Waits
  <1>2. CASE Begin
    <2>1. /\ handler = "next" /\ Self' \in Objects /\ Waits(Self', hit)
          /\ UNCHANGED <<hit, running, savedPc>>
          /\ \A a : List(a)' = List(a)
          /\ script' = IF Class[Self'] = "execute" THEN "run"
                       ELSE IF hit = SwitchTo THEN "onSwitchTo" ELSE "onProcExec"
      BY <1>2, BeginEffect
    <2>2. hit \in Addr
      BY <2>1 DEF StopInv, Dispatching
    <2>3. script' = "onProcExec" => hit \in UserPcs
      BY <2>1, <2>2 DEF Placed, Place, UserPcs
    <2>4. Turn'
      BY <2>1, <2>3 DEF GuestInv, Theirs, Turn
    <2> QED BY <2>1, <2>4 DEF GuestInv, Theirs, Arrived, Dispatching, Waits
  <1>3. CASE PHandlerStep /\ ~Begin
    <2>1. /\ \A a : List(a)' = List(a)
          /\ Dispatching' => Dispatching /\ UNCHANGED <<hit, running, savedPc>>
          /\ script' = "none" \/ (script' = script /\ handler # "join")
      BY <1>3 DEF PHandlerStep, End, OfObject, Join, RearmBegin, RearmSet, RearmDone, RearmRaises,
                  RearmCheck, List, Dispatching, processVars, guestVars
    <2>2. script' = "none"
      BY <2>1 DEF ScriptInv
    <2> QED BY <2>1, <2>2 DEF GuestInv, Theirs, Arrived, Turn, Waits
  <1>4. CASE ScheduledSwitch \/ Hooked \/ Unhooked \/ (ProcessSwitch /\ ~IsWanted(Self))
    <2>1. /\ UNCHANGED <<registry, handler, hit, ran, running, savedPc>>
          /\ script # "none" /\ script' \in {"none", "run"}
      BY <1>4 DEF ScheduledSwitch, Hooked, Unhooked, ProcessSwitch, CbRests, vars, dispatchVars,
                  guestVars
    <2>2. (\A a : List(a)' = List(a)) /\ Self' = Self /\ handler = "join"
      BY <2>1 DEF List, Self, ScriptInv
    <2>3. script' = "run" => ProcName[Self] \in {NoProcess, running}
      <3>1. CASE ScheduledSwitch
        BY <3>1 DEF ScheduledSwitch, IsWanted
      <3>2. CASE Unhooked
        <4>1. /\ script = "removing" /\ hit \in UserPcs /\ ProcName[Self] \in Processes
              /\ hit \in Pcs[ProcName[Self]]
          BY <3>2 DEF Unhooked, CbRests, ScriptInv, GuestInv, Turn
        <4>2. hit \in Pcs[running] /\ running \in Processes
          BY <2>2, <4>1 DEF GuestInv, Arrived, Dispatching, PTypes
        <4> QED BY <4>1, <4>2 DEF KeptApart
      <3>3. CASE Hooked \/ ProcessSwitch
        BY <1>4, <3>3 DEF Hooked, ProcessSwitch, Unhooked, ScheduledSwitch, CbRests
      <3> QED BY <1>4, <3>1, <3>2, <3>3
    <2> QED BY <2>1, <2>2, <2>3 DEF GuestInv, Theirs, Arrived, Dispatching, Turn, Waits
  <1>5. CASE ProcessSwitch /\ IsWanted(Self)
    <2>1. /\ script = "onSwitchTo" /\ script' = "hooking" /\ BeginAdd(CbThread, Self, savedPc)
          /\ UNCHANGED <<handler, hit, running, savedPc>>
          /\ handler = "join" /\ hit = SwitchTo /\ Self \in Objects /\ savedPc \in Addr
          /\ running \in Processes
      BY <1>5 DEF ProcessSwitch, CbRests, dispatchVars, guestVars, ScriptInv, StopInv, Dispatching,
                  UserPcs, PTypes
    <2>2. ASSUME NEW p \in Objects, NEW a \in Addr
          PROVE  Waits(p, a)' <=> Waits(p, a) \/ (p = Self /\ a = savedPc)
      BY <2>1, WaitsAdd DEF BeginAdd
    <2>3. ProcName[Self] = running /\ running \notin KernelProcesses
      BY <1>5, <2>1 DEF IsWanted, UserProcesses
    <2>4. savedPc \in Pcs[running]
      BY <2>1, <2>3 DEF GuestInv, Arrived, Dispatching
    <2> QED BY <2>1, <2>2, <2>3, <2>4 DEF GuestInv, Theirs, Arrived, Dispatching, Turn, UserPcs
  <1>6. CASE ProcExec
    <2>1. /\ script = "onProcExec" /\ script' = "removing" /\ Self' = Self
          /\ BeginRemove(CbThread, Self, cbProcExec[Self])
          /\ UNCHANGED <<handler, hit, running, savedPc>>
          /\ Self \in Objects /\ cbProcExec[Self] \in Addr
      BY <1>6 DEF ProcExec, CbRests, dispatchVars, guestVars, Self, ScriptInv
    <2>2. ASSUME NEW p \in Objects, NEW a \in Addr
          PROVE  Waits(p, a)' => Waits(p, a)
      BY <2>1, WaitsRemove DEF BeginRemove
    <2> QED BY <2>1, <2>2 DEF GuestInv, Theirs, Arrived, Dispatching, Turn, UserPcs
  <1>7. ASSUME NEW t \in Threads, ThreadActs(t)
        PROVE  GuestInv'
    <2>1. UNCHANGED <<handler, hit, script, running, savedPc>> /\ Self' = Self
      BY <1>7, ThreadEffect DEF dispatchVars, guestVars, Self
    <2>2. \A p \in Objects, a \in UserPcs : Waits(p, a)' => Waits(p, a)
      BY <1>7, ThreadLists DEF UserPcs
    <2> QED BY <2>1, <2>2 DEF GuestInv, Theirs, Arrived, Dispatching, Turn
  <1>8. CASE CbRaised
    <2>1. /\ UNCHANGED <<registry, handler, hit, ran, running, savedPc>>
          /\ script' \in {"none", script} /\ script' \in {"none", "run"}
      BY <1>8 DEF CbRaised, Raised, dispatchVars, guestVars
    <2> QED BY <2>1 DEF GuestInv, Theirs, Arrived, Dispatching, Turn, Waits, List, Self
  <1>9. CASE UNCHANGED pvars
    BY <1>9 DEF pvars, vars, dispatchVars, processVars, guestVars, GuestInv, Theirs, Arrived,
           Dispatching, Turn, Waits, List, Self
  <1> QED BY <1>1, <1>2, <1>3, <1>4, <1>5, <1>6, <1>7, <1>8, <1>9
          DEF PNext, PThreadStep, ThreadActs

(* The callback of an OnProcessScheduled or OnProcessExecute runs when the *)
(* process it was made for is switched to or runs, whatever other objects  *)
(* and threads do meanwhile: the address that the object hooks and the     *)
(* process that stops there belong together (linux/callbacks.py:24-58).    *)
THEOREM RunsForTheProcess ==
    ASSUME KeptApart, UserProcesses
    PROVE  PSpec => []RunsForItsProcess
  <1>1. PInit => GuestInv
    <2> SUFFICES ASSUME PInit
                 PROVE  GuestInv
      OBVIOUS
    <2>1. \A o, k : ~Waits(o, k)
      BY DEF PInit, Init, ManagerInit, List, Waits, Contains
    <2> QED BY <2>1 DEF PInit, Init, ManagerInit, GuestInv, Theirs, Arrived, Dispatching, Turn
  <1>2. BaseInv /\ GuestInv /\ [PNext]_pvars => GuestInv'
    BY GuestNext
  <1>3. GuestInv => RunsForItsProcess
    BY DEF GuestInv, Turn, RunsForItsProcess
  <1> QED BY BaseInit, BaseNext, <1>1, <1>2, <1>3, PTL DEF PSpec

----------------------------------------------------------------------------
(* One hook at a time *)

(* Rules: threads and handler take turns, a process goes on before the     *)
(* next switch, programs are considerate, callbacks uninstall nothing, no  *)
(* breakpoint at a process's address is refused, and there is one          *)
(* OnProcessExecute for a process.                                         *)
Sequential ==
    /\ Quiet /\ Prompt /\ Considerate
    /\ "uninstall" \notin MayCall[CbThread]
    /\ Refused \subseteq Symbols
OneEach ==
    \A o, p \in Objects :
        IsProcess(o) /\ IsProcess(p) /\ ProcName[o] = ProcName[p] /\ ProcName[o] \in Processes
            => o = p

(* At most one callback waits, for the stop that comes next or, while that *)
(* is handled, until it has removed itself.                                *)
OneWaits ==
    /\ \A k \in UserPcs : Len(List(k)) <= 1
    /\ \A o \in Objects, k \in UserPcs : Waits(o, k) =>
          IF Dispatching /\ hit \in UserPcs
             THEN k = hit /\ ((handler = "next" /\ pos = 0) \/ script = "onProcExec")
             ELSE k = savedPc
    /\ script = "onProcExec" => Waits(Self, hit)
    /\ script = "hooking" => Waits(Self, savedPc)

(* An OnProcessExecute is once in the list of __switch_to.  At a stop      *)
(* there, whoever waits has had its turn already: the list only grows.     *)
SwitchInv ==
    /\ \A o \in Objects : IsProcess(o) => Count(o, List(SwitchTo)) <= 1
    /\ Dispatching /\ hit = SwitchTo =>
          /\ pos <= Len(List(SwitchTo))
          /\ script # "none" => pos > 0 /\ Self = List(SwitchTo)[pos]
          /\ \A o \in Objects, k \in UserPcs : Waits(o, k) =>
                /\ ProcName[o] = running
                /\ \E i \in 1..pos : List(SwitchTo)[i] = o
          /\ script = "onSwitchTo" => \A k \in UserPcs : ~Waits(Self, k)

(* The object knows the address where it waits. *)
Latest ==
    \A o \in Objects, k \in UserPcs : Waits(o, k) =>
        IF script = "hooking" /\ Self = o THEN k = savedPc ELSE cbProcExec[o] = k

(* What threads are in the middle of: only _on_switch_to adds at a         *)
(* process's address, and who removes there leaves the list empty.         *)
CallInv ==
    /\ at[CbThread] \notin {"uninstall", "uninstallHook"} /\ index[CbThread] = 0
    /\ at[CbThread] # "idle" /\ script = "removing" => at[CbThread] \in RemoveLabels
    /\ \A t \in Threads :
          /\ at[t] \in AddLabels /\ addr[t] \in UserPcs => t = CbThread /\ script = "hooking"
          /\ at[t] \in RemoveLabels /\ addr[t] \in UserPcs => List(addr[t]) = <<>>
          /\ index[t] # 0 =>
                at[t] \in {"uninstall", "uninstallHook", "raised"} \cup RemoveLabels
          /\ at[t] = "uninstallHook" => index[t] # 0

(* Where a callback waits there is a breakpoint, and nowhere else. *)
WaitArmed ==
    /\ \A k \in UserPcs : List(k) # <<>> =>
          /\ handler = "idle" => k \in bps
          /\ handler = "rearm" => k \in bps \cup todo
          /\ handler = "rearmSet" => k \in bps \cup todo \cup {hit}
    /\ \A k \in UserPcs \cap bps :
          \/ List(k) # <<>>
          \/ \E t \in Threads : at[t] \in {"removeCheck", "removeDel"} /\ addr[t] = k
    /\ handler = "rearmSet" => List(hit) # <<>>

(* The object remembers the hook, at the latest when add_hook returns. *)
Remembered ==
    \A o \in Objects, k \in UserPcs : Waits(o, k) =>
        \/ Contains(hooks[o], k)
        \/ at[CbThread] # "idle" /\ script = "hooking" /\ Self = o

(* An uninstall() has not come to the hook of a callback that waits. *)
UninstallInv ==
    \A t \in Threads, o \in Objects, k \in UserPcs : Waits(o, k) /\ Looping(t, o) =>
        \/ at[t] = "uninstall" /\ index[t] = 0 /\ hooks[o] # <<>> /\ hooks[o][1] = k
        \/ at[t] = "uninstallHook" /\ addr[t] = k

(* What is owed is waiting, or removed and about to run. *)
Due(o) ==
    OneIf(\E k \in UserPcs : Waits(o, k)) + OneIf(script = "removing" /\ Self = o)
OwedInv ==
    \A o \in Objects : IsProcess(o) =>
        owed[o] = IF \E t \in Threads : Looping(t, o) THEN 0 ELSE Due(o)

OrderRest ==
    /\ Turns /\ OneWaits /\ SwitchInv /\ Latest
    /\ CallInv /\ WaitArmed /\ Remembered /\ UninstallInv /\ OwedInv

(* Where the list of an uninstall() was replaced the object does not wait. *)
ReplacedInv ==
    \A t \in DOMAIN replaced, o \in Objects, k \in UserPcs : Looping(t, o) => ~Waits(o, k)

OrderInv == OrderRest /\ ReplacedInv

----------------------------------------------------------------------------
(* Lists of hooks *)

(* Who waits at an address is in its list. *)
LEMMA WaitsEmpty ==
    ASSUME TypeOK, NEW k
    PROVE  /\ List(k) \in Seq(Objects) /\ Len(List(k)) \in Nat
           /\ List(k) = <<>> <=> Len(List(k)) = 0
           /\ List(k) = <<>> <=> \A o \in Objects : ~Waits(o, k)
           /\ List(k) # <<>> => List(k)[1] \in Objects /\ Waits(List(k)[1], k)
  <1>1. List(k) \in Seq(Objects)
    BY ListType
  <1>2. List(k) = <<>> <=> Len(List(k)) = 0
    BY <1>1, EmptySeq
  <1>3. CASE List(k) = <<>>
    BY <1>1, <1>2, <1>3 DEF Waits, Contains
  <1>4. CASE List(k) # <<>>
    <2>1. 1 \in 1..Len(List(k)) /\ List(k)[1] \in Objects
      BY <1>1, <1>2, <1>4
    <2> QED BY <1>1, <1>2, <1>4, <2>1 DEF Waits, Contains
  <1> QED BY <1>3, <1>4

(* What occurs once has one place. *)
LEMMA CountOnce ==
    ASSUME NEW S, NEW s \in Seq(S), NEW x, Count(x, s) <= 1,
           NEW i \in 1..Len(s), NEW j \in 1..Len(s), s[i] = x, s[j] = x
    PROVE  i = j
  <1>1. SUFFICES ASSUME i # j
                 PROVE  FALSE
    OBVIOUS
  <1>2. /\ IsFiniteSet(Places(x, s)) /\ Count(x, s) = Cardinality(Places(x, s))
        /\ Count(x, s) \in Nat
    BY CountType
  <1>3. {i, j} \subseteq Places(x, s)
    BY DEF Places
  <1>4. Cardinality({i, j}) = 2
    <2>1. IsFiniteSet({i}) /\ Cardinality({i}) = 1
      BY FS_Singleton
    <2>2. {i, j} = {i} \cup {j} /\ j \notin {i}
      BY <1>1
    <2>3. Cardinality({i} \cup {j}) = Cardinality({i}) + 1
      BY <2>1, <2>2, FS_AddElement
    <2>4. Cardinality({i}) + 1 = 2
      BY <2>1
    <2> QED BY <2>2, <2>3, <2>4, Zenon
  <1>5. 2 <= Cardinality(Places(x, s))
    BY <1>2, <1>3, <1>4, FS_Subset
  <1> QED BY <1>2, <1>5

(* Append and RemoveFirst keep what they are not about, and the first one  *)
(* in its place.                                                           *)
LEMMA AppendKeeps ==
    ASSUME NEW S, NEW s \in Seq(S), NEW e \in S, NEW x
    PROVE  /\ Append(s, e) \in Seq(S) /\ Len(Append(s, e)) = Len(s) + 1
           /\ Contains(Append(s, e), x) <=> Contains(s, x) \/ x = e
           /\ \A i \in 1..Len(s) : Append(s, e)[i] = s[i]
           /\ s # <<>> => Append(s, e) # <<>> /\ Append(s, e)[1] = s[1]
  <1> DEFINE r == Append(s, e)
  <1>1. /\ r \in Seq(S) /\ Len(r) = Len(s) + 1 /\ DOMAIN r = 1..(Len(s) + 1)
        /\ \A i \in 1..Len(s) : r[i] = s[i]
        /\ r[Len(s) + 1] = e
    BY AppendProperties
  <1>2. Len(s) \in Nat
    OBVIOUS
  <1> HIDE DEF r
  <1>3. Contains(r, x) <=> Contains(s, x) \/ x = e
    <2>1. \A i \in 1..Len(r) : i \in 1..Len(s) \/ i = Len(s) + 1
      BY <1>1, <1>2
    <2>2. \A i \in 1..Len(s) : i \in 1..Len(r)
      BY <1>1, <1>2
    <2>3. Len(s) + 1 \in 1..Len(r)
      BY <1>1, <1>2
    <2> QED BY <1>1, <2>1, <2>2, <2>3 DEF Contains
  <1>4. s # <<>> => 1 \in 1..Len(s)
    BY <1>2, EmptySeq
  <1>5. s # <<>> => r # <<>> /\ r[1] = s[1]
    BY <1>1, <1>2, <1>4
  <1> QED BY <1>1, <1>3, <1>5 DEF r

LEMMA RemoveKeeps ==
    ASSUME NEW S, NEW s \in Seq(S), NEW e, NEW x, x # e
    PROVE  /\ RemoveFirst(s, e) \in Seq(S)
           /\ Contains(RemoveFirst(s, e), x) <=> Contains(s, x)
           /\ s # <<>> /\ s[1] = x => RemoveFirst(s, e) # <<>> /\ RemoveFirst(s, e)[1] = x
  <1>1. /\ RemoveFirst(s, e) \in Seq(S)
        /\ Count(x, RemoveFirst(s, e)) = Count(x, s)
    <2>1. /\ RemoveFirst(s, e) \in Seq(S)
          /\ Count(x, RemoveFirst(s, e)) = Count(x, s) - (IF x = e /\ Contains(s, e) THEN 1 ELSE 0)
      BY CountRemove
    <2>2. Count(x, s) \in Nat
      BY CountType
    <2> QED BY <2>1, <2>2
  <1>2. Contains(RemoveFirst(s, e), x) <=> Contains(s, x)
    BY <1>1, ContainsCount
  <1>3. ASSUME s # <<>>, s[1] = x, Contains(s, e)
        PROVE  RemoveFirst(s, e) # <<>> /\ RemoveFirst(s, e)[1] = x
    <2> DEFINE I == {i \in 1..Len(s) : s[i] = e}
               m == Min(I)
    <2>1. I # {} /\ I \in SUBSET Nat
      BY <1>3 DEF Contains
    <2>2. SelectInSeq(s, LAMBDA v : v = e) = Min(I)
      BY <2>1 DEF SelectInSeq
    <2>3. Min(I) \in I
      BY <2>1, MinIn
    <2>4. RemoveFirst(s, e) = RemoveAt(s, m)
      BY <1>3, <2>2 DEF RemoveFirst, Contains
    <2>5. m \in 1..Len(s) /\ s[m] = e
      BY <2>3
    <2>6. m # 1
      BY <1>3, <2>5
    <2> HIDE DEF m
    <2>7. Len(s) \in Nat /\ 1 < m /\ 1 \in 1..(Len(s) - 1)
      BY <2>5, <2>6
    <2>8. /\ RemoveAt(s, m) \in Seq(S) /\ Len(RemoveAt(s, m)) = Len(s) - 1
          /\ \A i \in 1..(Len(s) - 1) : RemoveAt(s, m)[i] = s[IF i < m THEN i ELSE i + 1]
      BY <2>5, RemoveAtProperties
    <2>9. RemoveAt(s, m)[1] = s[1] /\ Len(RemoveAt(s, m)) # 0
      BY <2>7, <2>8
    <2>10. RemoveAt(s, m) # <<>>
      BY <2>9
    <2> QED BY <1>3, <2>4, <2>9, <2>10
  <1>4. ~Contains(s, e) => RemoveFirst(s, e) = s
    BY CountRemove
  <1> QED BY <1>1, <1>2, <1>3, <1>4

(* A list of one hook is empty when that is removed. *)
LEMMA RemoveLast ==
    ASSUME NEW S, NEW s \in Seq(S), NEW e, Len(s) <= 1
    PROVE  /\ Len(RemoveFirst(s, e)) <= 1
           /\ Contains(s, e) => RemoveFirst(s, e) = <<>>
  <1>1. /\ RemoveFirst(s, e) \in Seq(S)
        /\ ~Contains(s, e) => RemoveFirst(s, e) = s
        /\ Contains(s, e) => Len(RemoveFirst(s, e)) = Len(s) - 1
    BY CountRemove
  <1>2. Len(s) \in Nat /\ Len(RemoveFirst(s, e)) \in Nat
    BY <1>1
  <1>3. Contains(s, e) => Len(RemoveFirst(s, e)) = 0
    BY <1>1, <1>2
  <1> QED BY <1>1, <1>2, <1>3, EmptySeq

----------------------------------------------------------------------------
(* Each step of the guest, the handler and the callback keeps OrderInv *)

(* What a step in which no thread works leaves alone *)
LEMMA RestKept ==
    ASSUME CallInv, Remembered, UninstallInv, OwedInv,
           UNCHANGED <<at, obj, addr, index, hooks, owed>>, \A a : List(a)' = List(a),
           script \notin {"hooking", "removing"}, script' \notin {"hooking", "removing"}
    PROVE  CallInv' /\ Remembered' /\ UninstallInv' /\ OwedInv'
  <1>1. \A o, k : Waits(o, k)' <=> Waits(o, k)
    BY DEF Waits
  <1>2. \A t, o : Looping(t, o)' <=> Looping(t, o)
    BY DEF Looping
  <1>3. CallInv'
    BY DEF CallInv
  <1>4. Remembered'
    BY <1>1 DEF Remembered
  <1>5. UninstallInv'
    BY <1>1, <1>2 DEF UninstallInv
  <1>6. ASSUME NEW o \in Objects, IsProcess(o)
        PROVE  owed'[o] = IF \E t \in Threads : Looping(t, o)' THEN 0 ELSE Due(o)'
    <2>1. /\ OneIf(\E k \in UserPcs : Waits(o, k)') = OneIf(\E k \in UserPcs : Waits(o, k))
          /\ OneIf(script' = "removing" /\ Self' = o) = OneIf(script = "removing" /\ Self = o)
      BY <1>1 DEF OneIf
    <2>2. Due(o)' = Due(o)
      BY <2>1 DEF Due, OneIf
    <2>3. (\E t \in Threads : Looping(t, o)') <=> (\E t \in Threads : Looping(t, o))
      BY <1>2
    <2> QED BY <1>6, <2>2, <2>3 DEF OwedInv
  <1> QED BY <1>3, <1>4, <1>5, <1>6 DEF OwedInv

(* The guest stops at a breakpoint: at __switch_to if nothing waits, at a  *)
(* process's address if something waits there.                             *)
LEMMA OrderStop ==
    ASSUME BaseInv, OrderInv, SwitchStop \/ ProcessStop \/ KernelStop, Sequential
    PROVE  OrderRest'
  <1> USE DEF BaseInv, Inv, TypeInv, OrderInv, OrderRest, Sequential
  <1>1. PICK k \in Addr : /\ Stop(k) /\ UNCHANGED <<script, cbProcExec, owed>>
                          /\ k = SwitchTo => savedPc \notin bps
                          /\ k \in Symbols \ {SwitchTo} => savedPc' = savedPc
    <2>1. CASE SwitchStop
      BY <2>1, ProcessAssumption DEF SwitchStop
    <2>2. CASE ProcessStop
      BY <2>2, ProcessAssumption DEF ProcessStop
    <2>3. CASE KernelStop
      BY <2>3, ProcessAssumption DEF KernelStop, processVars, guestVars
    <2> QED BY <2>1, <2>2, <2>3
  <1>2. /\ handler = "idle" /\ k \in bps /\ bps' = {}
        /\ handler' = "next" /\ hit' = k /\ pos' = 0 /\ ran' = <<>>
        /\ UNCHANGED <<at, obj, addr, hooks, index>> /\ AllIdle
        /\ \A a : List(a)' = List(a)
    BY <1>1, StopEffect DEF objectVars
  <1>3. script = "none" /\ script' = "none"
    BY <1>1, <1>2 DEF ScriptInv
  <1>4. \A o, a : Waits(o, a)' <=> Waits(o, a)
    BY <1>2 DEF Waits
  <1>5. \A o \in Objects, a \in UserPcs : Waits(o, a) => a = savedPc /\ a \in bps
    <2> SUFFICES ASSUME NEW o \in Objects, NEW a \in UserPcs, Waits(o, a)
                 PROVE  a = savedPc /\ a \in bps
      OBVIOUS
    <2>1. List(a) # <<>>
      BY WaitsEmpty
    <2> QED BY <1>2, <2>1 DEF OneWaits, Dispatching, WaitArmed
  <1>6. k \in UserPcs => \A o \in Objects, a \in UserPcs : Waits(o, a) => a = k
    <2> SUFFICES ASSUME k \in UserPcs
                 PROVE  k = savedPc
      BY <1>5
    <2>1. List(k) # <<>>
      BY <1>2 DEF WaitArmed, AllIdle
    <2>2. List(k)[1] \in Objects /\ Waits(List(k)[1], k)
      BY <2>1, WaitsEmpty
    <2> QED BY <1>5, <2>2
  <1>7. k = SwitchTo => \A o \in Objects, a \in UserPcs : ~Waits(o, a)
    BY <1>1, <1>5
  <1>8. Turns'
    BY <1>2 DEF Turns, AllIdle, Threads
  <1>9. OneWaits'
    <2>1. k \in UserPcs \/ k = SwitchTo \/ k \in Symbols \ {SwitchTo}
      BY DEF UserPcs
    <2>2. \A a \in UserPcs : Len(List(a)') <= 1
      BY <1>2 DEF OneWaits
    <2>3. k \in Symbols => k \notin UserPcs
      BY DEF UserPcs
    <2>4. ASSUME NEW o \in Objects, NEW a \in UserPcs, Waits(o, a)'
          PROVE  IF Dispatching' /\ hit' \in UserPcs
                    THEN a = hit' /\ ((handler' = "next" /\ pos' = 0) \/ script' = "onProcExec")
                    ELSE a = savedPc'
      <3>1. Waits(o, a)
        BY <1>4, <2>4
      <3>2. CASE k \in UserPcs
        <4>1. a = k
          BY <1>6, <3>1, <3>2
        <4> QED BY <1>2, <3>2, <4>1 DEF Dispatching
      <3>3. CASE k = SwitchTo
        BY <1>7, <3>1, <3>3
      <3>4. CASE k \in Symbols \ {SwitchTo}
        <4>1. a = savedPc'
          BY <1>1, <1>5, <3>1, <3>4
        <4> QED BY <1>2, <2>3, <3>4, <4>1
      <3> QED BY <2>1, <3>2, <3>3, <3>4
    <2> QED BY <1>3, <2>2, <2>4 DEF OneWaits
  <1>10. SwitchInv'
    <2>1. \A o \in Objects : IsProcess(o) => Count(o, List(SwitchTo)') <= 1
      BY <1>2 DEF SwitchInv
    <2>2. hit' = SwitchTo => \A o \in Objects, a \in UserPcs : ~Waits(o, a)'
      BY <1>2, <1>4, <1>7
    <2>3. pos' <= Len(List(SwitchTo)')
      BY <1>2, WaitsEmpty
    <2> QED BY <1>3, <2>1, <2>2, <2>3 DEF SwitchInv, Count
  <1>11. Latest'
    BY <1>1, <1>3, <1>4 DEF Latest
  <1>12. WaitArmed'
    BY <1>2 DEF WaitArmed
  <1>13. CallInv' /\ Remembered' /\ UninstallInv' /\ OwedInv'
    BY <1>1, <1>2, <1>3, RestKept
  <1> QED BY <1>8, <1>9, <1>10, <1>11, <1>12, <1>13

(* The next callback of the list begins. *)
LEMMA OrderBegin ==
    ASSUME BaseInv, OrderInv, Begin
    PROVE  OrderRest'
  <1> USE DEF BaseInv, Inv, TypeInv, OrderInv, OrderRest
  <1>1. /\ handler = "next" /\ handler' = "join" /\ script = "none"
        /\ pos < Len(List(hit)) /\ pos' = pos + 1 /\ pos + 1 \in 1..Len(List(hit))
        /\ Self' = List(hit)[pos + 1] /\ Self' \in Objects /\ Waits(Self', hit)
        /\ UNCHANGED <<bps, at, obj, addr, hit, hooks, index, cbProcExec, owed, running, savedPc>>
        /\ \A a : List(a)' = List(a)
        /\ script' = IF Class[Self'] = "execute" THEN "run"
                     ELSE IF hit = SwitchTo THEN "onSwitchTo" ELSE "onProcExec"
    BY BeginEffect DEF objectVars
  <1>2. \A o, a : Waits(o, a)' <=> Waits(o, a)
    BY <1>1 DEF Waits
  <1>3. hit \in Addr /\ Place(Self', hit)
    BY <1>1 DEF StopInv, Dispatching, Placed
  <1>4. Turns'
    BY <1>1 DEF Turns
  <1>5. OneWaits'
    <2>1. hit \in UserPcs => script' = "onProcExec"
      BY <1>1, <1>3, ProcessAssumption DEF Place, UserPcs, IsProcess
    <2>2. Contains(List(hit)', Self')
      BY <1>1 DEF Waits
    <2>3. /\ \A k \in UserPcs : Len(List(k)') <= 1
          /\ script' # "hooking"
      BY <1>1 DEF OneWaits
    <2>4. ASSUME NEW o \in Objects, NEW k \in UserPcs, Waits(o, k)'
          PROVE  IF Dispatching' /\ hit' \in UserPcs
                    THEN k = hit' /\ ((handler' = "next" /\ pos' = 0) \/ script' = "onProcExec")
                    ELSE k = savedPc'
      BY <1>1, <1>2, <2>1, <2>4 DEF OneWaits, Dispatching
    <2>5. script' = "onProcExec" => Waits(Self, hit)'
      BY <2>2 DEF Waits
    <2> QED BY <2>3, <2>4, <2>5 DEF OneWaits
  <1>6. SwitchInv'
    <2>1. \A o \in Objects : IsProcess(o) => Count(o, List(SwitchTo)') <= 1
      BY <1>1 DEF SwitchInv
    <2>2. ASSUME hit = SwitchTo
          PROVE  /\ pos' <= Len(List(SwitchTo)')
                 /\ pos' > 0 /\ Self' = List(SwitchTo)'[pos']
      BY <1>1, <2>2 DEF PTypes
    <2>3. ASSUME hit = SwitchTo, NEW o \in Objects, NEW a \in UserPcs, Waits(o, a)
          PROVE  /\ ProcName[o] = running'
                 /\ \E i \in 1..pos' : List(SwitchTo)'[i] = o
      <3>1. ProcName[o] = running /\ \E i \in 1..pos : List(SwitchTo)[i] = o
        BY <1>1, <2>3 DEF SwitchInv, Dispatching
      <3>2. \A i \in 1..pos : i \in 1..pos'
        BY <1>1 DEF PTypes
      <3> QED BY <1>1, <3>1, <3>2
    <2>4. ASSUME hit = SwitchTo, script' = "onSwitchTo", NEW a \in UserPcs, Waits(Self', a)
          PROVE  FALSE
      <3>1. PICK i \in 1..pos : List(SwitchTo)[i] = Self'
        BY <1>1, <2>4 DEF SwitchInv, Dispatching
      <3>2. List(SwitchTo) \in Seq(Objects)
        BY ListType
      <3>3. i \in 1..Len(List(SwitchTo)) /\ pos + 1 \in 1..Len(List(SwitchTo)) /\ i # pos + 1
        BY <1>1, <2>4, <3>2 DEF PTypes
      <3>4. IsProcess(Self')
        BY <1>1, <2>4 DEF Placed, Place, UserPcs
      <3>5. Count(Self', List(SwitchTo)) <= 1
        BY <1>1, <3>4 DEF SwitchInv
      <3>6. List(SwitchTo)[pos + 1] = Self'
        BY <1>1, <2>4
      <3> QED BY ONLY <3>1, <3>2, <3>3, <3>5, <3>6, CountOnce
    <2> QED BY <1>1, <1>2, <2>1, <2>2, <2>3, <2>4 DEF SwitchInv, Count
  <1>7. Latest'
    BY <1>1, <1>2 DEF Latest
  <1>8. WaitArmed'
    BY <1>1 DEF WaitArmed
  <1>9. CallInv' /\ Remembered' /\ UninstallInv' /\ OwedInv'
    BY <1>1, RestKept
  <1> QED BY <1>4, <1>5, <1>6, <1>7, <1>8, <1>9

(* A callback returns, or the handler sets the breakpoints again.          *)
LEMMA OrderHandler ==
    ASSUME BaseInv, OrderInv, PHandlerStep, ~Begin, Sequential
    PROVE  OrderRest'
  <1> USE DEF BaseInv, Inv, TypeInv, OrderInv, OrderRest, OfObject
  <1>1. /\ UNCHANGED <<registry, at, obj, addr, hooks, index, owed, cbProcExec, running, savedPc>>
        /\ handler # "idle" /\ script \in {"none", "run"} /\ script' = "none"
    <2>1. CASE End
      BY <2>1 DEF End, Join, callVars, objectVars, guestVars
    <2>2. CASE ~End
      BY <2>2 DEF PHandlerStep, RearmBegin, RearmCheck, RearmSet, RearmDone, RearmRaises, callVars,
                  objectVars, processVars, guestVars, ScriptInv
    <2> QED BY <2>1, <2>2
  <1>2. /\ \A a : List(a)' = List(a)
        /\ \A o, a : Waits(o, a)' <=> Waits(o, a)
    BY <1>1 DEF List, Waits
  <1>3. \/ End /\ handler' = "next" /\ handler = "join" /\ UNCHANGED <<bps, hit, pos>>
        \/ RearmBegin /\ handler = "next" /\ handler' = "rearm" /\ UNCHANGED bps
        \/ handler \notin {"next", "join"} /\ handler' \notin {"next", "join"}
    BY DEF PHandlerStep, End, Join, RearmBegin, RearmCheck, RearmSet, RearmDone, RearmRaises
  <1>4. Turns'
    BY <1>1 DEF Turns, PHandlerStep, End, Join, RearmBegin, RearmCheck, RearmSet, RearmDone,
                RearmRaises, CbInv, ScriptInv
  <1>5. ASSUME NEW o \in Objects, NEW a \in UserPcs, Waits(o, a)
        PROVE  /\ a = savedPc
               /\ Dispatching' => hit \notin UserPcs /\ hit' = hit
    <2>1. CASE handler = "join" /\ handler' = "next" /\ hit' = hit
      BY <1>1, <1>5, <2>1 DEF OneWaits, Dispatching
    <2>2. CASE RearmBegin
      <3>1. pos >= Len(List(hit)) /\ handler = "next" /\ script = "none" /\ ~Dispatching'
        BY <2>2 DEF RearmBegin, ScriptInv, Dispatching
      <3>2. Len(List(hit)) = 0 => ~Waits(o, hit)
        BY WaitsEmpty
      <3>3. hit \notin UserPcs
        BY <1>5, <3>1, <3>2, WaitsEmpty DEF OneWaits, Dispatching
      <3> QED BY <1>5, <3>1, <3>3 DEF OneWaits, Dispatching
    <2>3. CASE handler \notin {"next", "join"} /\ handler' \notin {"next", "join"}
      BY <1>5, <2>3 DEF OneWaits, Dispatching
    <2> QED BY <1>3, <2>1, <2>2, <2>3
  <1>6. OneWaits'
    <2>1. \A k \in UserPcs : Len(List(k)') <= 1
      BY <1>2 DEF OneWaits
    <2> QED BY <1>1, <1>2, <1>5, <2>1 DEF OneWaits
  <1>7. SwitchInv'
    <2>1. \A o \in Objects : IsProcess(o) => Count(o, List(SwitchTo)') <= 1
      BY <1>2 DEF SwitchInv
    <2>2. CASE End /\ handler' = "next" /\ handler = "join" /\ UNCHANGED <<bps, hit, pos>>
      BY <1>1, <1>2, <2>1, <2>2 DEF SwitchInv, Dispatching, Count
    <2>3. CASE handler' \notin {"next", "join"}
      BY <2>1, <2>3 DEF SwitchInv, Dispatching, Count
    <2> QED BY <1>3, <2>2, <2>3
  <1>8. Latest'
    BY <1>1, <1>2 DEF Latest
  <1>9. WaitArmed'
    <2> USE <1>1, <1>2 DEF WaitArmed
    <2>1. CASE End
      BY <2>1 DEF End, Join
    <2>2. CASE RearmBegin
      <3>1. \A k \in UserPcs : List(k) # <<>> => k \in todo'
        BY <2>2 DEF RearmBegin, List
      <3> QED BY <2>2, <3>1 DEF RearmBegin
    <2>3. ASSUME NEW k \in todo, RearmCheck(k)
          PROVE  WaitArmed'
      <3>1. List(k) # <<>> <=> Len(List(k)) > 0
        BY WaitsEmpty
      <3> QED BY <2>3, <3>1 DEF RearmCheck
    <2>4. CASE RearmSet
      <3>1. handler = "rearmSet" /\ handler' = (IF hit \in Refused THEN "dead" ELSE "rearm")
            /\ bps' = bps \cup ({hit} \ Refused) /\ todo' = todo
        BY <2>4 DEF RearmSet
      <3>2. ASSUME NEW a \in UserPcs, List(a) # <<>>, handler' = "rearm"
            PROVE  a \in bps' \cup todo'
        BY <3>1, <3>2
      <3> QED BY <3>1, <3>2
    <2>5. CASE RearmDone
      BY <2>5 DEF RearmDone
    <2>6. CASE RearmRaises
      BY <2>6 DEF RearmRaises
    <2> QED BY <2>1, <2>2, <2>3, <2>4, <2>5, <2>6 DEF PHandlerStep
  <1>10. CallInv' /\ Remembered' /\ UninstallInv' /\ OwedInv'
    BY <1>1, <1>2, RestKept
  <1> QED BY <1>4, <1>6, <1>7, <1>8, <1>9, <1>10

(* While the callback's thread works no other does, and none uninstalls. *)
LEMMA NoneUninstalls ==
    ASSUME BaseInv, OrderInv, handler # "idle"
    PROVE  /\ \A u \in Users : at[u] = "idle" /\ index[u] = 0
           /\ \A t \in Threads, o \in Objects : ~Looping(t, o)
  <1> USE DEF BaseInv, OrderInv, OrderRest
  <1>1. \A u \in Users : at[u] = "idle" /\ index[u] = 0
    <2>1. \A u \in Users : at[u] = "idle" /\ u \in Threads
      BY DEF Turns, Threads
    <2> QED BY <2>1 DEF CallInv, RemoveLabels
  <1>2. at[CbThread] \notin {"uninstall", "uninstallHook"} /\ index[CbThread] = 0
    BY DEF CallInv
  <1> QED BY <1>1, <1>2 DEF Threads, Looping

(* The callback goes on without a call of add_hook or remove_hook.         *)
LEMMA OrderScript ==
    ASSUME BaseInv, OrderInv,
           \/ ScheduledSwitch \/ Hooked \/ Unhooked
           \/ ProcessSwitch /\ ~IsWanted(Self)
    PROVE  OrderRest'
  <1> USE DEF BaseInv, Inv, TypeInv, OrderInv, OrderRest
  <1>1. /\ UNCHANGED <<registry, bps, at, obj, addr, hooks, index, handler, hit, pos, ran, todo,
                       running, savedPc>>
        /\ at[CbThread] = "idle"
        /\ script \in {"onSwitchTo", "hooking", "removing"} /\ script' \in {"none", "run"}
    BY DEF ScheduledSwitch, Hooked, Unhooked, ProcessSwitch, CbRests, vars, dispatchVars, callVars,
           objectVars, guestVars
  <1>2. /\ \A a : List(a)' = List(a)
        /\ \A o, a : Waits(o, a)' <=> Waits(o, a)
        /\ Self' = Self /\ Self \in Objects
        /\ handler = "join" /\ Dispatching
        /\ \A t, o : Looping(t, o)' <=> Looping(t, o)
    BY <1>1 DEF List, Waits, Self, ScriptInv, Dispatching, Looping
  <1>3. \A t \in Threads, o \in Objects : ~Looping(t, o)
    BY <1>2, NoneUninstalls
  <1>4. ASSUME hit \in UserPcs, NEW o \in Objects, NEW a \in UserPcs
        PROVE  ~Waits(o, a)
    BY <1>1, <1>2, <1>4 DEF OneWaits
  <1>5. Turns' /\ WaitArmed'
    BY <1>1, <1>2 DEF Turns, WaitArmed
  <1>6. OneWaits'
    <2>1. \A k \in UserPcs : Len(List(k)') <= 1
      BY <1>2 DEF OneWaits
    <2>2. ASSUME NEW o \in Objects, NEW a \in UserPcs, Waits(o, a), hit \notin UserPcs
          PROVE  a = savedPc
      BY <2>2 DEF OneWaits
    <2> QED BY <1>1, <1>2, <1>4, <2>1, <2>2 DEF OneWaits
  <1>7. SwitchInv'
    <2>1. \A o \in Objects : IsProcess(o) => Count(o, List(SwitchTo)') <= 1
      BY <1>2 DEF SwitchInv
    <2> QED BY <1>1, <1>2, <2>1 DEF SwitchInv, Dispatching, Count
  <1>8. Latest'
    <2>1. CASE Hooked
      <3>1. script = "hooking" /\ \A o \in Objects :
                cbProcExec'[o] = IF o = Self THEN savedPc ELSE cbProcExec[o]
        BY <2>1 DEF Hooked, CbRests, PTypes
      <3> QED BY <1>1, <1>2, <3>1 DEF Latest
    <2>2. CASE ~Hooked
      <3>1. cbProcExec' = cbProcExec /\ script # "hooking"
        BY <2>2 DEF ScheduledSwitch, Unhooked, ProcessSwitch, CbRests
      <3> QED BY <1>1, <1>2, <3>1 DEF Latest
    <2> QED BY <2>1, <2>2
  <1>9. CallInv'
    <2>1. at[CbThread] \notin AddLabels
      BY <1>1 DEF AddLabels
    <2> QED BY <1>1, <1>2, <2>1 DEF CallInv
  <1>10. Remembered' /\ UninstallInv'
    BY <1>1, <1>2 DEF Remembered, UninstallInv
  <1>11. ASSUME NEW o \in Objects, IsProcess(o)
         PROVE  owed'[o] = Due(o)'
    <2>1. owed[o] = Due(o) /\ owed[o] \in Int
      BY <1>3, <1>11 DEF OwedInv, PTypes
    <2>2. OneIf(\E k \in UserPcs : Waits(o, k)') = OneIf(\E k \in UserPcs : Waits(o, k))
      BY <1>2 DEF OneIf
    <2>3. Due(o)' = OneIf(\E k \in UserPcs : Waits(o, k))
      BY <1>1, <2>2 DEF Due, OneIf
    <2>4. CASE Unhooked
      <3>1. owed'[o] = owed[o] - OneIf(o = Self) /\ script = "removing"
        BY <2>4 DEF Unhooked, CbRests, PTypes, OneIf
      <3> QED BY <1>2, <2>1, <2>3, <3>1 DEF Due, OneIf
    <2>5. CASE ~Unhooked
      <3>1. owed' = owed /\ script # "removing"
        BY <2>5 DEF ScheduledSwitch, Hooked, ProcessSwitch, CbRests
      <3> QED BY <2>1, <2>3, <3>1 DEF Due, OneIf
    <2> QED BY <2>4, <2>5
  <1>12. OwedInv'
    BY <1>2, <1>3, <1>11 DEF OwedInv
  <1> QED BY <1>5, <1>6, <1>7, <1>8, <1>9, <1>10, <1>12

(* _on_switch_to begins to add the hook, where nothing waits.              *)
LEMMA OrderHooking ==
    ASSUME BaseInv, OrderInv, ProcessSwitch, IsWanted(Self), OneEach
    PROVE  OrderRest'
  <1> USE DEF BaseInv, Inv, TypeInv, OrderInv, OrderRest
  <1>1. /\ script = "onSwitchTo" /\ script' = "hooking" /\ BeginAdd(CbThread, Self, savedPc)
        /\ IsProcess(Self) /\ Self \in Objects /\ Self' = Self
        /\ handler = "join" /\ hit = SwitchTo /\ Dispatching /\ Dispatching'
        /\ savedPc \in UserPcs /\ savedPc \in Addr /\ SwitchTo \notin UserPcs /\ SwitchTo \in Addr
        /\ ProcName[Self] = running /\ running \in Processes
        /\ UNCHANGED <<bps, hooks, index, handler, hit, pos, ran, todo, cbProcExec, running,
                       savedPc>>
        /\ owed' = [owed EXCEPT ![Self] = @ + 1] /\ at[CbThread] = "idle"
    BY ProcessAssumption
       DEF ProcessSwitch, CbRests, IsProcess, IsWanted, ScriptInv, StopInv, Dispatching, UserPcs,
           PTypes, dispatchVars, guestVars, Self
  <1>2. ASSUME NEW o \in Objects, NEW a \in UserPcs
        PROVE  ~Waits(o, a)
    <2>1. SUFFICES ASSUME Waits(o, a)
                   PROVE  FALSE
      OBVIOUS
    <2>2. ProcName[o] = running /\ ~Waits(Self, a)
      BY <1>1, <2>1 DEF SwitchInv
    <2>3. IsProcess(o)
      BY <2>1 DEF Placed, Place, UserPcs
    <2>4. o = Self
      BY <1>1, <2>2, <2>3 DEF OneEach
    <2> QED BY <2>1, <2>2, <2>4
  <1>3. ASSUME NEW o \in Objects, NEW a \in UserPcs
        PROVE  Waits(o, a)' <=> o = Self /\ a = savedPc
    <2>1. a \in Addr
      BY DEF UserPcs
    <2> QED BY <1>1, <1>2, <2>1, WaitsAdd DEF BeginAdd
  <1>4. ASSUME NEW a, a # savedPc
        PROVE  List(a)' = List(a)
    BY <1>1, <1>4, ListAfter DEF BeginAdd, Register
  <1>5. /\ at' = [at EXCEPT ![CbThread] = "addCheck"]
        /\ obj' = [obj EXCEPT ![CbThread] = Self]
        /\ addr' = [addr EXCEPT ![CbThread] = savedPc]
        /\ \A u \in Users : u # CbThread
        /\ CbThread \in Threads
    BY <1>1, ManagerAssumption DEF BeginAdd, Goto, Works, Threads
  <1>6. \A u \in Users : at[u] = "idle" /\ index[u] = 0
    BY <1>1, NoneUninstalls
  <1>7. /\ at'[CbThread] = "addCheck" /\ addr'[CbThread] = savedPc
        /\ \A u \in Users : at'[u] = "idle"
    BY <1>5, <1>6 DEF TypeOK, Threads
  <1>8. Turns'
    BY <1>1, <1>7 DEF Turns
  <1>9. OneWaits'
    <2>1. ASSUME NEW k \in UserPcs
          PROVE  Len(List(k)') <= 1
      <3>1. List(savedPc) = <<>> /\ Len(List(savedPc)) = 0 /\ List(savedPc) \in Seq(Objects)
        BY <1>1, <1>2, WaitsEmpty
      <3>2. Len(Append(List(savedPc), Self)) = 1
        BY <1>1, <3>1, AppendKeeps
      <3>3. List(k)' = Append(List(savedPc), Self) \/ List(k)' = List(k)
        BY <1>1, ListAfter DEF BeginAdd, Register
      <3>4. Len(List(k)) <= 1
        BY DEF OneWaits
      <3> QED BY ONLY <3>2, <3>3, <3>4
    <2>2. (Waits(Self, savedPc))'
      <3>1. Waits(Self, savedPc)'
        BY <1>1, <1>3
      <3> QED BY <1>1, <3>1 DEF Waits
    <2> QED BY <1>1, <1>3, <2>1, <2>2 DEF OneWaits
  <1>10. SwitchInv'
    <2>1. List(SwitchTo)' = List(SwitchTo)
      BY <1>1, <1>4
    <2>2. \A o \in Objects : IsProcess(o) => Count(o, List(SwitchTo)') <= 1
      BY <2>1 DEF SwitchInv
    <2>3. pos <= Len(List(SwitchTo)) /\ pos > 0 /\ Self = List(SwitchTo)[pos]
      BY <1>1 DEF SwitchInv
    <2>4. pos \in 1..pos
      BY <2>3 DEF PTypes
    <2> QED BY <1>1, <1>3, <2>1, <2>2, <2>3, <2>4 DEF SwitchInv, Count
  <1>11. Latest' /\ Remembered'
    BY <1>1, <1>3, <1>7 DEF Latest, Remembered
  <1>12. CallInv'
    <2>1. ASSUME NEW t \in Threads
          PROVE  /\ (t = CbThread \/ at'[t] = "idle") /\ index'[t] = 0
      BY <1>1, <1>6, <1>7 DEF Threads, CallInv
    <2> QED BY <1>1, <1>7, <2>1 DEF CallInv, AddLabels, RemoveLabels
  <1>13. WaitArmed'
    <2>1. \A k \in UserPcs \cap bps : List(k)' # <<>>
      <3> SUFFICES ASSUME NEW k \in UserPcs \cap bps
                   PROVE  List(k)' # <<>>
        OBVIOUS
      <3>1. List(k) # <<>>
        BY <1>1, <1>6 DEF WaitArmed, Threads
      <3> QED BY <1>2, <3>1, WaitsEmpty
    <2> QED BY <1>1, <2>1 DEF WaitArmed
  <1>14. \A t \in Threads, o \in Objects : ~Looping(t, o)'
    <2>1. \A t \in Threads : at'[t] \notin {"uninstall", "uninstallHook"} /\ index'[t] = 0
      BY <1>1, <1>6, <1>7 DEF Threads, CallInv
    <2> QED BY <2>1 DEF Looping
  <1>15. UninstallInv'
    BY <1>14 DEF UninstallInv
  <1>16. ASSUME NEW o \in Objects, IsProcess(o)
         PROVE  owed'[o] = Due(o)'
    <2>1. owed[o] = 0 /\ owed[o] \in Int
      <3>1. \A t \in Threads : ~Looping(t, o)
        BY <1>1, NoneUninstalls
      <3>2. Due(o) = 0
        BY <1>1, <1>2 DEF Due, OneIf
      <3> QED BY <1>16, <3>1, <3>2 DEF OwedInv, PTypes
    <2>2. owed'[o] = OneIf(o = Self)
      BY <1>1, <2>1 DEF PTypes, OneIf
    <2>3. OneIf(\E k \in UserPcs : Waits(o, k)') = OneIf(o = Self)
      BY <1>1, <1>3 DEF OneIf
    <2> QED BY <1>1, <2>2, <2>3 DEF Due, OneIf
  <1>17. OwedInv'
    BY <1>14, <1>16 DEF OwedInv
  <1> QED BY <1>8, <1>9, <1>10, <1>11, <1>12, <1>13, <1>15, <1>17

(* _on_proc_exec begins to remove the hook that brought it here.           *)
LEMMA OrderRemoving ==
    ASSUME BaseInv, OrderInv, ProcExec
    PROVE  OrderRest'
  <1> USE DEF BaseInv, Inv, TypeInv, OrderInv, OrderRest
  <1>1. /\ script = "onProcExec" /\ script' = "removing"
        /\ BeginRemove(CbThread, Self, cbProcExec[Self])
        /\ Self \in Objects /\ Self' = Self /\ IsProcess(Self)
        /\ handler = "join" /\ hit \in UserPcs /\ hit \in Addr /\ Dispatching /\ Dispatching'
        /\ hit # SwitchTo
        /\ UNCHANGED <<bps, hooks, index, handler, hit, pos, ran, todo, cbProcExec, running,
                       savedPc, owed>>
        /\ at[CbThread] = "idle"
    BY ProcessAssumption
       DEF ProcExec, CbRests, ScriptInv, StopInv, Dispatching, UserPcs, dispatchVars, guestVars,
           Self
  <1>2. Waits(Self, hit) /\ cbProcExec[Self] = hit
    BY <1>1 DEF OneWaits, Latest
  <1>3. ASSUME NEW o \in Objects, NEW a \in UserPcs, Waits(o, a)
        PROVE  o = Self /\ a = hit
    <2>1. a = hit
      BY <1>1, <1>3 DEF OneWaits
    <2>2. List(hit) \in Seq(Objects) /\ Len(List(hit)) <= 1
      BY <1>1, ListType DEF OneWaits
    <2> QED BY <1>2, <1>3, <2>1, <2>2 DEF Waits, Contains
  <1>4. ASSUME NEW a
        PROVE  List(a)' = IF a = hit THEN <<>> ELSE List(a)
    <2>1. List(a)' = IF a = hit THEN RemoveFirst(List(hit), Self) ELSE List(a)
      BY <1>1, <1>2, ListAfter DEF BeginRemove, Unregister
    <2>2. List(hit) \in Seq(Objects) /\ Len(List(hit)) <= 1
      BY <1>1, ListType DEF OneWaits
    <2>3. RemoveFirst(List(hit), Self) = <<>>
      BY <1>2, <2>2, RemoveLast DEF Waits
    <2> QED BY <2>1, <2>3
  <1>5. ASSUME NEW o \in Objects, NEW a \in UserPcs
        PROVE  ~Waits(o, a)'
    <2>1. CASE a = hit
      BY <1>4, <2>1 DEF Waits, Contains
    <2>2. CASE a # hit
      BY <1>3, <1>4, <2>2 DEF Waits
    <2> QED BY <2>1, <2>2
  <1>6. /\ at' = [at EXCEPT ![CbThread] = "removeCheck"]
        /\ obj' = [obj EXCEPT ![CbThread] = Self]
        /\ addr' = [addr EXCEPT ![CbThread] = hit]
        /\ CbThread \in Threads
    BY <1>1, <1>2 DEF BeginRemove, Goto, Works, Threads, Waits
  <1>7. \A u \in Users : at[u] = "idle" /\ index[u] = 0
    BY <1>1, NoneUninstalls
  <1>8. /\ at'[CbThread] = "removeCheck" /\ addr'[CbThread] = hit
        /\ \A u \in Users : at'[u] = "idle"
    BY <1>6, <1>7, ManagerAssumption DEF TypeOK, Threads
  <1>9. Turns'
    BY <1>1, <1>8 DEF Turns
  <1>10. OneWaits'
    <2>1. ASSUME NEW k \in UserPcs
          PROVE  Len(List(k)') <= 1
      <3>1. List(k)' = <<>> \/ List(k)' = List(k)
        BY <1>4
      <3>2. Len(<<>>) = 0 /\ Len(List(k)) <= 1
        BY DEF OneWaits
      <3> QED BY <3>1, <3>2
    <2> QED BY <1>1, <1>5, <2>1 DEF OneWaits
  <1>11. SwitchInv'
    <2>1. List(SwitchTo)' = List(SwitchTo)
      BY <1>1, <1>4
    <2> QED BY <1>1, <2>1 DEF SwitchInv, Count
  <1>12. Latest' /\ Remembered' /\ UninstallInv'
    BY <1>5 DEF Latest, Remembered, UninstallInv
  <1>13. CallInv'
    <2>1. ASSUME NEW t \in Threads
          PROVE  /\ (t = CbThread \/ at'[t] = "idle") /\ index'[t] = 0
      BY <1>1, <1>7, <1>8 DEF Threads, CallInv
    <2>2. List(hit)' = <<>>
      BY <1>1, <1>4
    <2> QED BY <1>1, <1>8, <2>1, <2>2 DEF CallInv, AddLabels, RemoveLabels
  <1>14. WaitArmed'
    <2>1. ASSUME NEW k \in UserPcs \cap bps
          PROVE  k = hit \/ List(k)' # <<>>
      <3>1. List(k) # <<>>
        BY <1>1, <1>7 DEF WaitArmed, Threads
      <3> QED BY <1>4, <3>1
    <2> QED BY <1>1, <1>6, <1>8, <2>1 DEF WaitArmed
  <1>15. \A t \in Threads, o \in Objects : ~Looping(t, o)'
    <2>1. \A t \in Threads : at'[t] \notin {"uninstall", "uninstallHook"} /\ index'[t] = 0
      BY <1>1, <1>7, <1>8 DEF Threads, CallInv
    <2> QED BY <2>1 DEF Looping
  <1>16. ASSUME NEW o \in Objects, IsProcess(o)
         PROVE  owed'[o] = Due(o)'
    <2>1. owed[o] = Due(o)
      <3>1. \A t \in Threads : ~Looping(t, o)
        BY <1>1, NoneUninstalls
      <3> QED BY <1>16, <3>1 DEF OwedInv
    <2>2. Due(o) = OneIf(o = Self)
      <3>1. OneIf(\E k \in UserPcs : Waits(o, k)) = OneIf(o = Self)
        BY <1>1, <1>2, <1>3 DEF OneIf
      <3> QED BY <1>1, <3>1 DEF Due, OneIf
    <2>3. OneIf(\E k \in UserPcs : Waits(o, k)') = 0
      BY <1>5 DEF OneIf
    <2>4. Due(o)' = OneIf(o = Self)
      BY <1>1, <2>3 DEF Due, OneIf
    <2> QED BY <1>1, <2>1, <2>2, <2>4
  <1>17. OwedInv'
    BY <1>15, <1>16 DEF OwedInv
  <1> QED BY <1>9, <1>10, <1>11, <1>12, <1>13, <1>14, <1>17

----------------------------------------------------------------------------
(* Each step of a thread keeps OrderInv.  A program's thread works while   *)
(* the handler is idle, the callback's thread while all others are.        *)

ItsTurn(t) ==
    \/ t # CbThread /\ handler = "idle" /\ at[CbThread] = "idle" /\ script = "none"
    \/ /\ t = CbThread /\ handler = "join" /\ script \in {"run", "hooking", "removing"}
       /\ \A u \in Users : u # t /\ at[u] = "idle" /\ index[u] = 0

OthersRest(t) ==
    \A u \in Threads \ {t} :
        at'[u] = at[u] /\ obj'[u] = obj[u] /\ addr'[u] = addr[u] /\ index'[u] = index[u]

LEMMA ThreadTurn ==
    ASSUME BaseInv, OrderInv, Quiet, NEW t \in Threads, ThreadActs(t)
    PROVE  /\ ItsTurn(t) /\ OthersRest(t)
           /\ UNCHANGED <<handler, hit, pos, ran, todo, script, cbProcExec, running, savedPc>>
           /\ Self' = Self
  <1> USE DEF BaseInv, Inv, TypeInv, OrderInv, OrderRest
  <1>1. /\ UNCHANGED <<dispatchVars, script, cbProcExec, guestVars>>
        /\ OthersRest(t)
        /\ at[t] = "idle" /\ t = CbThread => script = "run"
    BY ThreadEffect DEF OthersRest
  <1>2. ItsTurn(t)
    <2>1. CASE t # CbThread
      <3>1. t \in Users
        BY <2>1 DEF Threads
      <3>2. at[t] = "idle" => handler = "idle"
        BY <2>1 DEF ThreadActs, PCall, Install, Removes, Uninstalls, AddHook, RemoveHook, Uninstall,
                    CanCall, ThreadStep, OfObject, AddCheck, AddSet, RemoveCheck, RemoveDel,
                    AddDone, Raised, RemoveDone, UninstallNext, UninstallHook, UninstallDone
      <3>3. handler = "idle"
        BY <3>1, <3>2 DEF Turns
      <3>4. at[CbThread] = "idle" /\ script = "none"
        BY <3>3 DEF Turns, ScriptInv
      <3> QED BY <2>1, <3>3, <3>4 DEF ItsTurn
    <2>2. CASE t = CbThread
      <3>1. script \in {"run", "hooking", "removing"}
        BY <1>1, <2>2 DEF CbInv
      <3>2. handler = "join"
        BY <3>1 DEF ScriptInv
      <3>3. \A u \in Users : at[u] = "idle" /\ index[u] = 0
        BY <3>2, NoneUninstalls
      <3> QED BY <2>2, <3>1, <3>2, <3>3, ManagerAssumption DEF ItsTurn
    <2> QED BY <2>1, <2>2
  <1> QED BY <1>1, <1>2 DEF dispatchVars, guestVars, Self

(* Only uninstall() changes who waits for a process. *)
LEMMA UserListsKept ==
    ASSUME BaseInv, NEW t \in Threads, ThreadActs(t), ~UninstallHook(t)
    PROVE  /\ \A a \in UserPcs : List(a)' = List(a)
           /\ \A o, a : a \in UserPcs => (Waits(o, a)' <=> Waits(o, a))
  <1> USE DEF BaseInv, Inv, TypeInv
  <1>1. \A a \in UserPcs : List(a)' = List(a)
    <2>1. CASE Install(t)
      <3>1. PICK o \in Objects, k \in Symbols : Register(o, k)
        BY <2>1, ProcessAssumption DEF Install, AddHook, BeginAdd
      <3> QED BY <3>1, ListAfter DEF Register, UserPcs
    <2>2. CASE Removes(t)
      <3>1. PICK o \in Objects, k \in Symbols : Unregister(o, k)
        BY <2>2 DEF Removes, RemoveHook, BeginRemove
      <3> QED BY <3>1, ListAfter DEF Unregister, UserPcs
    <2>3. Install(t) \/ Removes(t) \/ UNCHANGED registry
      BY DEF ThreadActs, PCall, Uninstalls, Uninstall, ThreadStep, OfObject, AddCheck, AddSet,
             RemoveCheck, RemoveDel, AddDone, Raised, RemoveDone, UninstallNext, UninstallDone
    <2> QED BY <2>1, <2>2, <2>3 DEF List
  <1> QED BY <1>1 DEF Waits

(* What an uninstall() does to the lists: if its hook waits, that was all  *)
(* that waited at the address.                                             *)
LEMMA UninstallLists ==
    ASSUME BaseInv, OrderInv, NEW t \in Threads, UninstallHook(t)
    PROVE  /\ t # CbThread /\ obj[t] \in Objects /\ addr[t] \in Addr
           /\ \A a : a # addr[t] => List(a)' = List(a)
           /\ addr[t] \in UserPcs /\ Waits(obj[t], addr[t]) => List(addr[t])' = <<>>
           /\ ~Waits(obj[t], addr[t]) => \A a : List(a)' = List(a)
           /\ at' = [at EXCEPT ![t] = IF Waits(obj[t], addr[t]) THEN "removeCheck" ELSE "raised"]
           /\ UNCHANGED <<obj, addr>>
  <1> USE DEF BaseInv, Inv, TypeInv, OrderInv, OrderRest, UninstallHook
  <1>1. t # CbThread /\ obj[t] \in Objects /\ addr[t] \in Addr
    BY DEF CallInv, LockInv
  <1>2. \A a : List(a)' = IF a = addr[t] THEN RemoveFirst(List(addr[t]), obj[t]) ELSE List(a)
    BY ListAfter DEF BeginRemove, Unregister
  <1>3. List(addr[t]) \in Seq(Objects)
    BY ListType
  <1>4. ~Waits(obj[t], addr[t]) => RemoveFirst(List(addr[t]), obj[t]) = List(addr[t])
    BY <1>3, CountRemove DEF Waits
  <1>5. addr[t] \in UserPcs /\ Waits(obj[t], addr[t]) =>
            RemoveFirst(List(addr[t]), obj[t]) = <<>>
    BY <1>3, RemoveLast DEF Waits, OneWaits
  <1>6. UNCHANGED <<obj, addr>>
    BY DEF BeginRemove, Works, TypeOK
  <1>7. List(addr[t])' = RemoveFirst(List(addr[t]), obj[t])
    BY <1>2, <1>6
  <1> QED BY <1>1, <1>2, <1>4, <1>5, <1>6, <1>7 DEF BeginRemove, Goto, Waits

(* The list of __switch_to: a considerate program adds no OnProcessExecute *)
(* twice, and nothing is removed from it while the handler goes over it.   *)
LEMMA SwitchKept ==
    ASSUME BaseInv, OrderInv, Sequential, NEW t \in Threads, ThreadActs(t)
    PROVE  SwitchInv'
  <1> USE DEF BaseInv, Inv, TypeInv, OrderInv, OrderRest, Sequential
  <1>1. /\ UNCHANGED <<handler, hit, pos, script, running>> /\ Self' = Self /\ ItsTurn(t)
    BY ThreadTurn
  <1>2. SwitchTo \in Symbols /\ SwitchTo \notin UserPcs
    BY ProcessAssumption DEF UserPcs
  <1>3. \A o \in Objects, a \in UserPcs : Waits(o, a)' => Waits(o, a)
    BY ThreadLists DEF UserPcs
  <1>4. script # "onSwitchTo"
    BY <1>1 DEF ItsTurn
  <1> DEFINE s == List(SwitchTo)
  <1>5. s \in Seq(Objects)
    BY ListType
  <1>6. CASE s' = s
    <2>1. \A o \in Objects : IsProcess(o) => Count(o, s') <= 1
      BY <1>6 DEF SwitchInv
    <2> QED BY <1>1, <1>3, <1>4, <1>6, <2>1 DEF SwitchInv, Dispatching, Count
  <1>7. ASSUME NEW o \in Objects, s' = Append(s, o), ~(IsProcess(o) /\ Waits(o, SwitchTo))
        PROVE  SwitchInv'
    <2>1. /\ s' \in Seq(Objects) /\ Len(s') = Len(s) + 1
          /\ \A i \in 1..Len(s) : s'[i] = s[i]
      BY <1>5, <1>7, AppendKeeps
    <2>2. ASSUME NEW p \in Objects, IsProcess(p)
          PROVE  Count(p, s') <= 1
      <3>1. Count(p, s') = Count(p, s) + (IF o = p THEN 1 ELSE 0)
        BY <1>5, <1>7, CountAppend
      <3>2. Count(p, s) \in Nat /\ Count(p, s) <= 1
        BY <1>5, <2>2, CountType DEF SwitchInv
      <3>3. o = p => Count(p, s) = 0
        BY <1>5, <1>7, <2>2, <3>2, ContainsCount DEF Waits
      <3> QED BY <3>1, <3>2, <3>3
    <2>3. Len(s) \in Nat /\ pos \in Nat
      BY <1>5 DEF PTypes
    <2> HIDE DEF s
    <2>4. ASSUME Dispatching, hit = SwitchTo
          PROVE  /\ pos <= Len(s')
                 /\ script # "none" => pos > 0 /\ Self = s'[pos]
                 /\ \A i \in 1..pos : s'[i] = s[i]
      <3>1. pos <= Len(s) /\ (script # "none" => pos > 0 /\ Self = s[pos])
        BY <2>4 DEF SwitchInv, s
      <3>2. \A i \in 1..pos : i \in 1..Len(s)
        BY <2>3, <3>1
      <3>3. pos > 0 => pos \in 1..pos
        BY <2>3
      <3> QED BY <2>1, <2>3, <3>1, <3>2, <3>3
    <2>5. ASSUME Dispatching, hit = SwitchTo, NEW p \in Objects, NEW a \in UserPcs, Waits(p, a)
          PROVE  ProcName[p] = running /\ \E i \in 1..pos : s'[i] = p
      <3>1. ProcName[p] = running /\ \E i \in 1..pos : s[i] = p
        BY <2>5 DEF SwitchInv, s
      <3> QED BY <2>4, <2>5, <3>1
    <2>6. s' = List(SwitchTo)'
      BY DEF s
    <2> QED BY <1>1, <1>3, <1>4, <2>2, <2>4, <2>5, <2>6 DEF SwitchInv, Dispatching
  <1>8. ASSUME NEW o \in Objects, s' = RemoveFirst(s, o), Dispatching => hit # SwitchTo
        PROVE  SwitchInv'
    <2>1. ASSUME NEW p \in Objects, IsProcess(p)
          PROVE  Count(p, s') <= 1
      <3>1. Count(p, s') = Count(p, s) - (IF p = o /\ Contains(s, o) THEN 1 ELSE 0)
        BY <1>5, <1>8, CountRemove
      <3>2. Count(p, s) \in Nat /\ Count(p, s) <= 1
        BY <1>5, <2>1, CountType DEF SwitchInv
      <3> QED BY <3>1, <3>2
    <2> QED BY <1>1, <1>8, <2>1 DEF SwitchInv, Dispatching
  <1>9. CASE Install(t)
    <2>1. PICK o \in Objects, k \in Symbols :
              Register(o, k) /\ ~(IsProcess(o) /\ Waits(o, k))
      BY <1>9, ProcessAssumption DEF Install, AddHook, BeginAdd, IsProcess, Waits
    <2>2. s' = IF SwitchTo = k THEN Append(List(k), o) ELSE s
      BY <2>1, ListAfter DEF Register
    <2> QED BY <1>6, <1>7, <2>1, <2>2
  <1>10. CASE Removes(t)
    <2>1. PICK o \in Objects, k \in Symbols : Unregister(o, k) /\ (t = CbThread => k # hit)
      BY <1>10 DEF Removes, RemoveHook, BeginRemove
    <2>2. s' = IF SwitchTo = k THEN RemoveFirst(List(k), o) ELSE s
      BY <2>1, ListAfter DEF Unregister
    <2>3. k = SwitchTo => (Dispatching => hit # SwitchTo)
      BY <1>1, <2>1 DEF ItsTurn, Dispatching
    <2> QED BY <1>6, <1>8, <2>1, <2>2, <2>3
  <1>11. CASE UninstallHook(t)
    <2>1. obj[t] \in Objects /\ t # CbThread
      BY <1>11, UninstallLists
    <2>2. s' = IF SwitchTo = addr[t] THEN RemoveFirst(List(addr[t]), obj[t]) ELSE s
      BY <1>11, ListAfter DEF UninstallHook, BeginRemove, Unregister
    <2>3. ~Dispatching
      BY <1>1, <2>1 DEF ItsTurn, Dispatching
    <2> QED BY <1>6, <1>8, <2>1, <2>2, <2>3
  <1>12. Install(t) \/ Removes(t) \/ UninstallHook(t) \/ UNCHANGED registry
    BY DEF ThreadActs, PCall, Uninstalls, Uninstall, ThreadStep, OfObject, AddCheck, AddSet,
           RemoveCheck, RemoveDel, AddDone, Raised, RemoveDone, UninstallNext, UninstallDone
  <1>13. CASE UNCHANGED registry
    BY <1>6, <1>13 DEF List
  <1> QED BY <1>9, <1>10, <1>11, <1>12, <1>13

(* Who waits, and where *)
LEMMA OrderLists ==
    ASSUME BaseInv, OrderInv, Sequential, NEW t \in Threads, ThreadActs(t)
    PROVE  Turns' /\ OneWaits' /\ SwitchInv' /\ Latest'
  <1> USE DEF BaseInv, Inv, TypeInv, OrderInv, OrderRest, Sequential
  <1>1. /\ UNCHANGED <<handler, hit, pos, script, cbProcExec, running, savedPc>> /\ Self' = Self
        /\ ItsTurn(t) /\ OthersRest(t)
    BY ThreadTurn
  <1>2. \A o \in Objects, a \in UserPcs : Waits(o, a)' => Waits(o, a)
    BY ThreadLists DEF UserPcs
  <1>3. Turns'
    <2>1. CbThread \in Threads /\ \A u \in Users : u \in Threads
      BY DEF Threads
    <2>2. \A u \in Threads : u # t => at'[u] = at[u]
      BY <1>1 DEF OthersRest
    <2> QED BY <1>1, <2>1, <2>2 DEF Turns, ItsTurn
  <1>4. OneWaits'
    <2>1. ASSUME NEW a \in UserPcs
          PROVE  Len(List(a)') <= 1
      <3>1. CASE ~UninstallHook(t)
        BY <3>1, UserListsKept DEF OneWaits
      <3>2. CASE UninstallHook(t)
        <4>1. List(a)' = RemoveFirst(List(a), obj[t]) \/ List(a)' = List(a)
          BY <3>2, ListAfter DEF UninstallHook, BeginRemove, Unregister
        <4>2. List(a) \in Seq(Objects) /\ Len(List(a)) <= 1
          BY ListType DEF OneWaits
        <4>3. Len(RemoveFirst(List(a), obj[t])) <= 1
          BY <4>2, RemoveLast
        <4> QED BY <4>1, <4>2, <4>3
      <3> QED BY <3>1, <3>2
    <2>2. script = "hooking" => Waits(Self, savedPc)'
      <3>1. ASSUME script = "hooking"
            PROVE  ~UninstallHook(t) /\ savedPc \in UserPcs
        <4>1. t = CbThread
          BY <1>1, <3>1 DEF ItsTurn
        <4>2. ~UninstallHook(t)
          BY <4>1, UninstallLists
        <4> QED BY <3>1, <4>2 DEF ScriptInv, StopInv, Dispatching
      <3> QED BY <1>1, <3>1, UserListsKept DEF OneWaits
    <2>3. script = "hooking" => (Waits(Self, savedPc))'
      BY <1>1, <2>2 DEF Waits
    <2>4. script # "onProcExec"
      BY <1>1 DEF ItsTurn
    <2> QED BY <1>1, <1>2, <2>1, <2>3, <2>4 DEF OneWaits, Dispatching
  <1>5. Latest'
    BY <1>1, <1>2 DEF Latest
  <1> QED BY <1>3, <1>4, <1>5, SwitchKept

(* What is left to show when the lists of the processes do not change *)
LEMMA OwedKept ==
    ASSUME OwedInv, UNCHANGED <<script, owed>>, Self' = Self,
           \A o, a : a \in UserPcs => (Waits(o, a)' <=> Waits(o, a)),
           \A t \in Threads, o \in Objects : Looping(t, o)' <=> Looping(t, o)
    PROVE  OwedInv'
  <1>1. ASSUME NEW o \in Objects, IsProcess(o)
        PROVE  owed'[o] = IF \E t \in Threads : Looping(t, o)' THEN 0 ELSE Due(o)'
    <2>1. OneIf(\E k \in UserPcs : Waits(o, k)') = OneIf(\E k \in UserPcs : Waits(o, k))
      BY DEF OneIf
    <2>2. Due(o)' = Due(o)
      BY <2>1 DEF Due, OneIf
    <2> QED BY <1>1, <2>2 DEF OwedInv
  <1> QED BY <1>1 DEF OwedInv

LEMMA CallKept ==
    ASSUME CallInv, NEW t \in Threads, OthersRest(t), script' = script,
           \A a \in UserPcs : List(a) = <<>> => List(a)' = <<>>,
           t = CbThread =>
              /\ at'[t] \notin {"uninstall", "uninstallHook"} /\ index'[t] = 0
              /\ at'[t] # "idle" /\ script = "removing" => at'[t] \in RemoveLabels,
           at'[t] \in AddLabels /\ addr'[t] \in UserPcs => t = CbThread /\ script = "hooking",
           at'[t] \in RemoveLabels /\ addr'[t] \in UserPcs => List(addr[t])' = <<>>,
           index'[t] # 0 =>
              at'[t] \in {"uninstall", "uninstallHook", "raised"} \cup RemoveLabels,
           at'[t] = "uninstallHook" => index'[t] # 0
    PROVE  CallInv'
  <1>1. \A u \in Threads :
            u # t => at'[u] = at[u] /\ addr'[u] = addr[u] /\ index'[u] = index[u]
    BY DEF OthersRest
  <1>2. ASSUME NEW u \in Threads
        PROVE  /\ at'[u] \in AddLabels /\ addr'[u] \in UserPcs =>
                      u = CbThread /\ script = "hooking"
               /\ at'[u] \in RemoveLabels /\ addr'[u] \in UserPcs => List(addr[u])' = <<>>
               /\ index'[u] # 0 =>
                      at'[u] \in {"uninstall", "uninstallHook", "raised"} \cup RemoveLabels
               /\ at'[u] = "uninstallHook" => index'[u] # 0
    <2>1. CASE u = t
      BY <2>1
    <2>2. CASE u # t
      <3>1. at[u] \in RemoveLabels /\ addr[u] \in UserPcs => List(addr[u])' = <<>>
        BY <1>1, <2>2 DEF CallInv
      <3> QED BY <1>1, <2>2, <3>1 DEF CallInv
    <2> QED BY <2>1, <2>2
  <1>3. CbThread \in Threads
    BY DEF Threads
  <1>4. /\ at'[CbThread] \notin {"uninstall", "uninstallHook"} /\ index'[CbThread] = 0
        /\ at'[CbThread] # "idle" /\ script = "removing" => at'[CbThread] \in RemoveLabels
    BY <1>1, <1>3 DEF CallInv
  <1> QED BY <1>2, <1>4 DEF CallInv

LEMMA ArmedKept ==
    ASSUME WaitArmed, NEW t \in Threads, ItsTurn(t), OthersRest(t), UNCHANGED handler,
           \A k \in UserPcs : List(k)' = List(k),
           \A k \in UserPcs : List(k) # <<>> /\ k \in bps => k \in bps',
           \A k \in UserPcs \cap bps' : List(k) # <<>> \/ k \in bps,
           \A k \in UserPcs \cap bps' :
              at[t] \in {"removeCheck", "removeDel"} /\ addr[t] = k =>
                  at'[t] \in {"removeCheck", "removeDel"} /\ addr'[t] = k
    PROVE  WaitArmed'
  <1>1. handler \in {"idle", "join"}
    BY DEF ItsTurn
  <1>2. ASSUME NEW k \in UserPcs, List(k) # <<>>, handler = "idle"
        PROVE  k \in bps'
    BY <1>2 DEF WaitArmed
  <1>3. ASSUME NEW k \in UserPcs \cap bps', List(k) = <<>>
        PROVE  \E u \in Threads : at'[u] \in {"removeCheck", "removeDel"} /\ addr'[u] = k
    <2>1. PICK u \in Threads : at[u] \in {"removeCheck", "removeDel"} /\ addr[u] = k
      BY <1>3 DEF WaitArmed
    <2> QED BY <1>3, <2>1 DEF OthersRest
  <1> QED BY <1>1, <1>2, <1>3 DEF WaitArmed

(* A thread adds a hook: while the callback's thread does so for a process *)
(* the object does not know the hook, afterwards it does.                  *)
LEMMA OrderAdding ==
    ASSUME BaseInv, OrderInv, Sequential, NEW t \in Threads, ThreadActs(t), UNCHANGED processVars,
           OfObject(AddCheck(t)) \/ OfObject(AddSet(t)) \/ AddDone(t)
    PROVE  CallInv' /\ WaitArmed' /\ Remembered' /\ UninstallInv' /\ OwedInv'
  <1> USE DEF BaseInv, Inv, TypeInv, OrderInv, OrderRest, Sequential
  <1>1. /\ UNCHANGED <<handler, hit, script, owed>> /\ Self' = Self
        /\ ItsTurn(t) /\ OthersRest(t)
    BY ThreadTurn DEF processVars
  <1>2. /\ \A a \in UserPcs : List(a)' = List(a)
        /\ \A o, a : a \in UserPcs => (Waits(o, a)' <=> Waits(o, a))
    <2>1. ~UninstallHook(t)
      BY DEF UninstallHook, OfObject, AddCheck, AddSet, AddDone
    <2> QED BY <2>1, UserListsKept
  <1>3. at[t] \in AddLabels /\ obj[t] \in Objects /\ addr[t] \in Addr
    BY DEF OfObject, AddCheck, AddSet, AddDone, AddLabels, LockInv, Holding
  <1>4. /\ index' = index /\ index[t] = 0
        /\ at'[t] \in {"addSet", "addDone", "raised", "idle"}
        /\ at'[t] \in AddLabels \cup {"raised"} => obj'[t] = obj[t] /\ addr'[t] = addr[t]
        /\ t = CbThread => script # "removing"
    <2>1. index[t] = 0 /\ (t = CbThread => script # "removing")
      BY <1>3 DEF CallInv, AddLabels, RemoveLabels
    <2>2. CASE OfObject(AddCheck(t)) \/ OfObject(AddSet(t))
      BY <2>1, <2>2 DEF OfObject, AddCheck, AddSet, Goto, TypeOK
    <2>3. CASE AddDone(t)
      BY <2>1, <2>3 DEF AddDone, Goto, TypeOK, AddLabels
    <2> QED BY <2>2, <2>3
  <1>5. addr[t] \in UserPcs =>
            /\ t = CbThread /\ script = "hooking" /\ obj[t] = Self /\ addr[t] = savedPc
            /\ Waits(Self, savedPc) /\ List(savedPc) # <<>>
    <2> SUFFICES ASSUME addr[t] \in UserPcs
                 PROVE  /\ t = CbThread /\ script = "hooking" /\ obj[t] = Self
                        /\ addr[t] = savedPc /\ Waits(Self, savedPc) /\ List(savedPc) # <<>>
      OBVIOUS
    <2>1. t = CbThread /\ script = "hooking"
      BY <1>3 DEF CallInv
    <2>2. obj[t] = Self /\ addr[t] = savedPc
      BY <1>3, <2>1 DEF CbInv, AddLabels
    <2>3. Waits(Self, savedPc) /\ Self \in Objects
      BY <2>1 DEF OneWaits, ScriptInv
    <2> QED BY <2>1, <2>2, <2>3, WaitsEmpty
  <1>6. CallInv'
    <2>1. at'[t] \in AddLabels /\ addr'[t] \in UserPcs => t = CbThread /\ script = "hooking"
      BY <1>4, <1>5
    <2> QED BY <1>1, <1>2, <1>4, <2>1, CallKept DEF RemoveLabels
  <1>7. WaitArmed'
    <2>1. bps' = bps \/ bps' = bps \cup ({addr[t]} \ Refused)
      BY DEF OfObject, AddCheck, AddSet, AddDone
    <2>2. at[t] \notin {"removeCheck", "removeDel"}
      BY <1>3 DEF AddLabels
    <2> QED BY <1>1, <1>2, <1>5, <2>1, <2>2, ArmedKept
  <1>8. /\ \A u \in Threads, o \in Objects : Looping(u, o)' <=> Looping(u, o)
        /\ \A u \in Threads \ {t} : at'[u] = at[u] /\ addr'[u] = addr[u] /\ index'[u] = index[u]
        /\ \A o \in Objects : ~Looping(t, o)
    BY <1>1, <1>3, <1>4 DEF Looping, OthersRest, AddLabels
  <1>9. OwedInv'
    BY <1>1, <1>2, <1>8, OwedKept
  <1>10. ASSUME NEW o \in Objects, NEW k, Contains(hooks[o], k)
         PROVE  Contains(hooks'[o], k)
    <2>1. CASE AddDone(t)
      <3>1. hooks'[o] = IF o = obj[t] THEN Append(hooks[o], addr[t]) ELSE hooks[o]
        BY <2>1 DEF AddDone, TypeOK
      <3>2. hooks[o] \in Seq(Addr)
        BY DEF TypeOK
      <3> QED BY <1>3, <1>10, <3>1, <3>2, AppendKeeps
    <2>2. CASE UNCHANGED hooks
      BY <1>10, <2>2
    <2> QED BY <2>1, <2>2 DEF OfObject, objectVars
  <1>11. Remembered'
    <2>1. ASSUME NEW o \in Objects, NEW k \in UserPcs, Waits(o, k), ~Contains(hooks'[o], k)
          PROVE  at'[CbThread] # "idle" /\ script = "hooking" /\ Self = o
      <3>1. at[CbThread] # "idle" /\ script = "hooking" /\ Self = o
        BY <1>10, <2>1 DEF Remembered
      <3>2. t = CbThread
        BY <1>1, <3>1 DEF ItsTurn
      <3>3. k = savedPc
        BY <2>1, <3>1 DEF Latest
      <3>4. obj[t] = Self /\ addr[t] = savedPc
        BY <3>1, <3>2 DEF CbInv
      <3>5. at'[CbThread] = "idle" => FALSE
        <4> SUFFICES ASSUME at'[CbThread] = "idle"
                     PROVE  Contains(hooks'[o], k)
          BY <2>1
        <4>1. AddDone(t)
          BY <3>2 DEF OfObject, AddCheck, AddSet, Goto, TypeOK
        <4>2. hooks'[o] = Append(hooks[o], k) /\ hooks[o] \in Seq(Addr) /\ k \in Addr
          BY <3>1, <3>3, <3>4, <4>1 DEF AddDone, TypeOK, UserPcs
        <4> QED BY <4>2, AppendKeeps
      <3> QED BY <3>1, <3>5
    <2> QED BY <1>1, <1>2, <2>1 DEF Remembered
  <1>12. UninstallInv'
    <2>1. ASSUME NEW u \in Threads \ {t}, NEW o \in Objects, NEW k \in UserPcs,
                 Waits(o, k), Looping(u, o)
          PROVE  \/ at[u] = "uninstall" /\ index[u] = 0 /\ hooks'[o] # <<>> /\ hooks'[o][1] = k
                 \/ at[u] = "uninstallHook" /\ addr[u] = k
      <3>1. \/ at[u] = "uninstall" /\ index[u] = 0 /\ hooks[o] # <<>> /\ hooks[o][1] = k
            \/ at[u] = "uninstallHook" /\ addr[u] = k
        BY <2>1 DEF UninstallInv
      <3>2. CASE AddDone(t)
        <4>1. hooks'[o] = IF o = obj[t] THEN Append(hooks[o], addr[t]) ELSE hooks[o]
          BY <3>2 DEF AddDone, TypeOK
        <4>2. hooks[o] \in Seq(Addr)
          BY DEF TypeOK
        <4> QED BY <1>3, <3>1, <4>1, <4>2, AppendKeeps
      <3>3. CASE UNCHANGED hooks
        BY <3>1, <3>3
      <3> QED BY <3>2, <3>3 DEF OfObject, objectVars
    <2> QED BY <1>2, <1>8, <2>1 DEF UninstallInv
  <1> QED BY <1>6, <1>7, <1>9, <1>11, <1>12

(* A thread removes a hook, and the object forgets it.                     *)
LEMMA OrderDeleting ==
    ASSUME BaseInv, OrderInv, Sequential, NEW t \in Threads, ThreadActs(t), UNCHANGED processVars,
           OfObject(RemoveCheck(t)) \/ OfObject(RemoveDel(t)) \/ RemoveDone(t)
    PROVE  CallInv' /\ WaitArmed' /\ Remembered' /\ UninstallInv' /\ OwedInv'
  <1> USE DEF BaseInv, Inv, TypeInv, OrderInv, OrderRest, Sequential
  <1>1. /\ UNCHANGED <<handler, hit, script, owed>> /\ Self' = Self
        /\ ItsTurn(t) /\ OthersRest(t)
    BY ThreadTurn DEF processVars
  <1>2. /\ \A a \in UserPcs : List(a)' = List(a)
        /\ \A o, a : a \in UserPcs => (Waits(o, a)' <=> Waits(o, a))
    <2>1. ~UninstallHook(t)
      BY DEF UninstallHook, OfObject, RemoveCheck, RemoveDel, RemoveDone
    <2> QED BY <2>1, UserListsKept
  <1>3. at[t] \in RemoveLabels /\ obj[t] \in Objects /\ addr[t] \in Addr
    BY DEF OfObject, RemoveCheck, RemoveDel, RemoveDone, RemoveLabels, LockInv, Holding
  <1>4. /\ index' = index /\ (t = CbThread => index[t] = 0 /\ script # "hooking")
        /\ \/ at'[t] \in {"removeDel", "removeDone"} /\ obj'[t] = obj[t] /\ addr'[t] = addr[t]
           \/ at'[t] = "idle" /\ index[t] = 0
           \/ at'[t] = "uninstall" /\ index[t] # 0 /\ obj'[t] = obj[t]
    <2>1. t = CbThread => index[t] = 0 /\ script # "hooking"
      BY <1>3 DEF CallInv, CbInv, RemoveLabels, AddLabels
    <2>2. CASE OfObject(RemoveCheck(t)) \/ OfObject(RemoveDel(t))
      BY <2>1, <2>2 DEF OfObject, RemoveCheck, RemoveDel, Goto, TypeOK
    <2>3. CASE RemoveDone(t)
      BY <2>1, <2>3 DEF RemoveDone, Goto, Works, TypeOK
    <2> QED BY <2>2, <2>3
  <1>5. addr[t] \in UserPcs => List(addr[t]) = <<>> /\ \A o \in Objects : ~Waits(o, addr[t])
    <2>1. addr[t] \in UserPcs => List(addr[t]) = <<>>
      BY <1>3 DEF CallInv
    <2> QED BY <2>1, WaitsEmpty
  <1>6. CallInv'
    <2>1. at'[t] \in RemoveLabels /\ addr'[t] \in UserPcs => List(addr[t])' = <<>>
      BY <1>2, <1>4, <1>5 DEF RemoveLabels
    <2> QED BY <1>1, <1>2, <1>4, <2>1, CallKept DEF RemoveLabels, AddLabels
  <1>7. WaitArmed'
    <2>1. bps' = bps \/ (bps' = bps \ {addr[t]} /\ at[t] = "removeDel")
      BY DEF OfObject, RemoveCheck, RemoveDel, RemoveDone
    <2>2. ASSUME NEW k \in UserPcs \cap bps', at[t] \in {"removeCheck", "removeDel"}, addr[t] = k
          PROVE  at'[t] \in {"removeCheck", "removeDel"} /\ addr'[t] = k
      <3>1. CASE OfObject(RemoveCheck(t))
        <4>1. Len(List(addr[t])) < 1
          BY <1>5, <2>2, WaitsEmpty
        <4> QED BY <2>2, <3>1, <4>1 DEF OfObject, RemoveCheck, Goto, TypeOK
      <3>2. CASE OfObject(RemoveDel(t))
        BY <2>2, <3>2 DEF OfObject, RemoveDel
      <3>3. CASE RemoveDone(t)
        BY <2>2, <3>3 DEF RemoveDone
      <3> QED BY <3>1, <3>2, <3>3
    <2> QED BY <1>1, <1>2, <1>5, <2>1, <2>2, ArmedKept
  <1>8. /\ \A u \in Threads, o \in Objects : Looping(u, o)' <=> Looping(u, o)
        /\ \A u \in Threads \ {t} : at'[u] = at[u] /\ addr'[u] = addr[u] /\ index'[u] = index[u]
    <2>1. \A o \in Objects : Looping(t, o)' <=> Looping(t, o)
      BY <1>3, <1>4 DEF Looping, RemoveLabels
    <2> QED BY <1>1, <2>1 DEF Looping, OthersRest
  <1>9. OwedInv'
    BY <1>1, <1>2, <1>8, OwedKept
  <1>10. ASSUME NEW o \in Objects, NEW k \in UserPcs, Waits(o, k)
         PROVE  /\ Contains(hooks[o], k) => Contains(hooks'[o], k)
                /\ hooks[o] # <<>> /\ hooks[o][1] = k => hooks'[o] # <<>> /\ hooks'[o][1] = k
    <2>1. CASE RemoveDone(t)
      <3>1. hooks'[o] = IF o = obj[t] THEN RemoveFirst(hooks[o], addr[t]) ELSE hooks[o]
        BY <2>1 DEF RemoveDone, TypeOK
      <3>2. hooks[o] \in Seq(Addr)
        BY DEF TypeOK
      <3>3. k # addr[t]
        BY <1>5, <1>10
      <3> QED BY <3>1, <3>2, <3>3, RemoveKeeps
    <2>2. CASE UNCHANGED hooks
      BY <2>2
    <2> QED BY <2>1, <2>2 DEF OfObject, objectVars
  <1>11. Remembered'
    <2>1. script = "hooking" => at[CbThread] = "idle"
      BY <1>1, <1>4 DEF ItsTurn
    <2> QED BY <1>1, <1>2, <1>10, <2>1 DEF Remembered
  <1>12. UninstallInv'
    <2>1. ASSUME NEW u \in Threads, NEW o \in Objects, NEW k \in UserPcs,
                 Waits(o, k), Looping(u, o)
          PROVE  \/ at'[u] = "uninstall" /\ index'[u] = 0 /\ hooks'[o] # <<>> /\ hooks'[o][1] = k
                 \/ at'[u] = "uninstallHook" /\ addr'[u] = k
      <3>1. \/ at[u] = "uninstall" /\ index[u] = 0 /\ hooks[o] # <<>> /\ hooks[o][1] = k
            \/ at[u] = "uninstallHook" /\ addr[u] = k
        BY <2>1 DEF UninstallInv
      <3>2. u # t
        BY <1>3, <3>1 DEF RemoveLabels
      <3> QED BY <1>8, <1>10, <2>1, <3>1, <3>2
    <2> QED BY <1>2, <1>8, <2>1 DEF UninstallInv
  <1> QED BY <1>6, <1>7, <1>9, <1>11, <1>12

(* What is owed after a step of an uninstall(): nothing changes for an     *)
(* object that nobody uninstalls, and none waits that was uninstalled.     *)
LEMMA OwedUninstalling ==
    ASSUME BaseInv, OrderInv, NEW t \in Threads, t # CbThread, ItsTurn(t), OthersRest(t),
           UNCHANGED <<script, owed>>,
           \A o \in Objects : ~Looping(t, o) =>
              /\ ~Looping(t, o)'
              /\ \A k \in UserPcs : Waits(o, k)' <=> Waits(o, k),
           \A o \in Objects : Looping(t, o) /\ ~Looping(t, o)' =>
              \A k \in UserPcs : ~Waits(o, k)'
    PROVE  OwedInv'
  <1> USE DEF BaseInv, OrderInv, OrderRest
  <1>1. script = "none"
    BY DEF ItsTurn
  <1>2. \A u \in Threads, o \in Objects : u # t => (Looping(u, o)' <=> Looping(u, o))
    BY DEF Looping, OthersRest
  <1>3. ASSUME NEW o \in Objects, IsProcess(o)
        PROVE  owed'[o] = IF \E u \in Threads : Looping(u, o)' THEN 0 ELSE Due(o)'
    <2>1. owed[o] = IF \E u \in Threads : Looping(u, o) THEN 0 ELSE Due(o)
      BY <1>3 DEF OwedInv
    <2>2. Due(o) = OneIf(\E k \in UserPcs : Waits(o, k)) + 0
      BY <1>1 DEF Due, OneIf
    <2>3. Due(o)' = OneIf(\E k \in UserPcs : Waits(o, k)') + 0
      BY <1>1 DEF Due, OneIf
    <2>4. CASE Looping(t, o)
      <3>1. owed[o] = 0
        BY <2>1, <2>4
      <3>2. ~Looping(t, o)' => Due(o)' = 0
        BY <2>3, <2>4 DEF OneIf
      <3> QED BY <3>1, <3>2
    <2>5. CASE ~Looping(t, o)
      <3>1. (\E u \in Threads : Looping(u, o)') <=> (\E u \in Threads : Looping(u, o))
        BY <1>2, <2>5
      <3>2. OneIf(\E k \in UserPcs : Waits(o, k)') = OneIf(\E k \in UserPcs : Waits(o, k))
        BY <2>5 DEF OneIf
      <3> QED BY <2>1, <2>2, <2>3, <3>1, <3>2
    <2> QED BY <2>4, <2>5
  <1> QED BY <1>3 DEF OwedInv

(* uninstall() goes on with the hook, and what waited has been removed.    *)
LEMMA OrderUninstallHook ==
    ASSUME BaseInv, OrderInv, Sequential, NEW t \in Threads, ThreadActs(t), UNCHANGED processVars,
           UninstallHook(t)
    PROVE  CallInv' /\ WaitArmed' /\ Remembered' /\ UninstallInv' /\ OwedInv'
  <1> USE DEF BaseInv, Inv, TypeInv, OrderInv, OrderRest, Sequential
  <1>1. /\ UNCHANGED <<handler, hit, script, owed>> /\ Self' = Self
        /\ ItsTurn(t) /\ OthersRest(t)
    BY ThreadTurn DEF processVars
  <1> DEFINE p == obj[t]
             a == addr[t]
  <1>2. /\ t # CbThread /\ p \in Objects /\ a \in Addr
        /\ \A k : k # a => List(k)' = List(k)
        /\ a \in UserPcs /\ Waits(p, a) => List(a)' = <<>>
        /\ ~Waits(p, a) => \A k : List(k)' = List(k)
        /\ at' = [at EXCEPT ![t] = IF Waits(p, a) THEN "removeCheck" ELSE "raised"]
        /\ UNCHANGED <<obj, addr>>
    BY UninstallLists
  <1>3. at[t] = "uninstallHook" /\ index[t] # 0 /\ UNCHANGED <<bps, hooks, index>>
    BY DEF UninstallHook, CallInv
  <1>4. /\ at'[t] = IF Waits(p, a) THEN "removeCheck" ELSE "raised"
        /\ \A u \in Threads \ {t} : at'[u] = at[u]
    BY <1>2 DEF TypeOK
  <1>5. ASSUME NEW k, NEW o \in Objects
        PROVE  /\ k \in UserPcs /\ Waits(o, k)' => Waits(o, k)
               /\ o # p => (Waits(o, k)' <=> Waits(o, k))
    <2>1. CASE k \in Addr
      <3>1. Unregister(p, a)
        BY DEF UninstallHook, BeginRemove
      <3> QED BY <1>2, <2>1, <3>1, WaitsRemove
    <2>2. CASE k \notin Addr
      <3>1. List(k)' = List(k)
        BY <1>2, <2>2
      <3> QED BY <3>1 DEF Waits
    <2> QED BY <2>1, <2>2
  <1>6. ASSUME NEW k \in UserPcs
        PROVE  ~Waits(p, k)'
    <2>1. SUFFICES ASSUME Waits(p, k)'
                   PROVE  FALSE
      OBVIOUS
    <2>2. Waits(p, k) /\ Looping(t, p)
      BY <1>2, <1>3, <1>5, <2>1 DEF Looping
    <2>3. k = a
      BY <1>2, <1>3, <2>2 DEF UninstallInv
    <2>4. List(k)' = <<>>
      BY <1>2, <2>2, <2>3
    <2> QED BY <2>1, <2>4 DEF Waits, Contains
  <1>7. CallInv'
    <2>1. \A k \in UserPcs : List(k) = <<>> => List(k)' = <<>>
      BY <1>2
    <2>2. at'[t] \in RemoveLabels /\ addr'[t] \in UserPcs => List(addr[t])' = <<>>
      BY <1>2, <1>4 DEF RemoveLabels
    <2> QED BY <1>1, <1>2, <1>3, <1>4, <2>1, <2>2, CallKept DEF RemoveLabels, AddLabels
  <1>8. WaitArmed'
    <2>1. handler = "idle"
      BY <1>1, <1>2 DEF ItsTurn
    <2>2. ASSUME NEW k \in UserPcs, List(k)' # <<>>
          PROVE  k \in bps
      <3>1. List(k) # <<>>
        BY <1>2, <2>2
      <3> QED BY <2>1, <3>1 DEF WaitArmed
    <2>3. ASSUME NEW k \in UserPcs \cap bps, List(k)' = <<>>
          PROVE  \E u \in Threads : at'[u] \in {"removeCheck", "removeDel"} /\ addr'[u] = k
      <3>1. CASE List(k) = <<>>
        <4>1. PICK u \in Threads : at[u] \in {"removeCheck", "removeDel"} /\ addr[u] = k
          BY <3>1 DEF WaitArmed
        <4> QED BY <1>2, <1>3, <1>4, <4>1
      <3>2. CASE List(k) # <<>>
        <4>1. k = a /\ Waits(p, a)
          BY <1>2, <2>3, <3>2
        <4> QED BY <1>2, <1>4, <4>1
      <3> QED BY <3>1, <3>2
    <2> QED BY <1>1, <1>3, <2>1, <2>2, <2>3 DEF WaitArmed
  <1>9. Remembered'
    <2>1. at'[CbThread] = at[CbThread]
      BY <1>2, <1>4 DEF Threads
    <2> QED BY <1>1, <1>3, <1>5, <2>1 DEF Remembered
  <1>10. \A u \in Threads, o \in Objects : Looping(u, o)' <=> Looping(u, o)
    <2>1. \A o \in Objects : Looping(t, o)' <=> Looping(t, o)
      BY <1>2, <1>3 DEF Looping
    <2> QED BY <1>1, <2>1 DEF Looping, OthersRest
  <1>11. UninstallInv'
    <2>1. ASSUME NEW u \in Threads, NEW o \in Objects, NEW k \in UserPcs,
                 Waits(o, k)', Looping(u, o)
          PROVE  \/ at'[u] = "uninstall" /\ index'[u] = 0 /\ hooks'[o] # <<>> /\ hooks'[o][1] = k
                 \/ at'[u] = "uninstallHook" /\ addr'[u] = k
      <3>1. Waits(o, k) /\ o # p
        BY <1>2, <1>5, <1>6, <2>1
      <3>2. u # t
        BY <2>1, <3>1 DEF Looping
      <3> QED BY <1>2, <1>3, <1>4, <2>1, <3>1, <3>2 DEF UninstallInv
    <2> QED BY <1>10, <2>1 DEF UninstallInv
  <1>12. OwedInv'
    <2>1. \A o \in Objects : ~Looping(t, o) =>
              /\ ~Looping(t, o)'
              /\ \A k \in UserPcs : Waits(o, k)' <=> Waits(o, k)
      BY <1>3, <1>5, <1>10 DEF Looping
    <2> QED BY <1>1, <1>2, <1>10, <2>1, OwedUninstalling
  <1> QED BY <1>7, <1>8, <1>9, <1>11, <1>12

(* Its other steps: the loop goes on, or ends when no hook is left, or a   *)
(* call has raised.                                                        *)
LEMMA OrderUninstalling ==
    ASSUME BaseInv, OrderInv, Sequential, NEW t \in Threads, ThreadActs(t), UNCHANGED processVars,
           \/ UninstallNext(t) \/ UninstallDone(t)
           \/ Raised(t) /\ t # CbThread
    PROVE  CallInv' /\ WaitArmed' /\ Remembered' /\ UninstallInv' /\ OwedInv'
  <1> USE DEF BaseInv, Inv, TypeInv, OrderInv, OrderRest, Sequential
  <1>1. /\ UNCHANGED <<handler, hit, script, owed>> /\ Self' = Self
        /\ ItsTurn(t) /\ OthersRest(t)
    BY ThreadTurn DEF processVars
  <1>2. /\ \A a \in UserPcs : List(a)' = List(a)
        /\ \A o, a : a \in UserPcs => (Waits(o, a)' <=> Waits(o, a))
    <2>1. ~UninstallHook(t)
      BY DEF UninstallHook, UninstallNext, UninstallDone, Raised
    <2> QED BY <2>1, UserListsKept
  <1>3. /\ t # CbThread /\ bps' = bps /\ obj[t] \in Objects
        /\ at[t] \in {"uninstall", "raised"}
    BY DEF UninstallNext, UninstallDone, Raised, CallInv, LockInv, Holding
  <1>4. \/ /\ UninstallNext(t) /\ at[t] = "uninstall" /\ at'[t] = "uninstallHook"
           /\ index'[t] = index[t] + 1 /\ addr'[t] = Looped(t)[index[t] + 1]
           /\ UNCHANGED <<obj, hooks>>
        \/ /\ ~UninstallNext(t) /\ at'[t] = "idle" /\ index'[t] = 0
           /\ at[t] = "uninstall" => index[t] >= Len(Looped(t))
           /\ \A o \in Objects : hooks'[o] = hooks[o] \/ (o = obj[t] /\ at[t] = "uninstall")
    <2>1. at[t] \in {"uninstall", "raised"} /\ UninstallNext(t) => at'[t] = "uninstallHook"
      BY DEF UninstallNext, Goto, TypeOK
    <2>2. CASE UninstallNext(t)
      BY <2>1, <2>2 DEF UninstallNext, objectVars, TypeOK
    <2>3. CASE UninstallDone(t)
      <3>1. /\ at'[t] = "idle" /\ index'[t] = 0 /\ index[t] >= Len(Looped(t))
            /\ at[t] = "uninstall"
            /\ \A o \in Objects : hooks'[o] = IF o = obj[t] THEN <<>> ELSE hooks[o]
        BY <2>3 DEF UninstallDone, Goto, TypeOK
      <3> QED BY <1>3, <2>1, <3>1
    <2>4. CASE Raised(t)
      <3>1. at'[t] = "idle" /\ index'[t] = 0 /\ at[t] = "raised" /\ hooks' = hooks
        BY <2>4 DEF Raised, Goto, TypeOK
      <3> QED BY <1>3, <2>1, <3>1
    <2> QED BY <2>2, <2>3, <2>4
  <1>5. index[t] \in Nat /\ index'[t] \in Nat /\ (UninstallNext(t) => index'[t] # 0)
    BY <1>4 DEF TypeOK
  <1>6. ASSUME ~UninstallNext(t), NEW o \in Objects, Looping(t, o), NEW k \in UserPcs
        PROVE  ~Waits(o, k)
    <2>1. SUFFICES ASSUME Waits(o, k)
                   PROVE  FALSE
      OBVIOUS
    <2>2. at[t] = "uninstall" /\ index[t] = 0 /\ hooks[o] # <<>>
      BY <1>3, <1>6, <2>1 DEF UninstallInv
    <2>3. o = obj[t] /\ hooks[o] \in Seq(Addr)
      BY <1>6 DEF Looping, TypeOK
    <2>4. Len(hooks[o]) # 0 /\ Len(hooks[o]) \in Nat
      BY <2>2, <2>3, EmptySeq
    <2>5. Looped(t) = hooks[o]
      BY <1>6, <2>1, <2>3 DEF Looped, ReplacedInv
    <2> QED BY <1>4, <1>6, <2>2, <2>3, <2>4, <2>5
  <1>7. CallInv'
    BY <1>1, <1>2, <1>3, <1>4, <1>5, CallKept DEF RemoveLabels, AddLabels
  <1>8. WaitArmed'
    BY <1>1, <1>2, <1>3, ArmedKept
  <1>9. \A u \in Threads : u # t =>
            /\ at'[u] = at[u] /\ addr'[u] = addr[u] /\ index'[u] = index[u]
            /\ \A o \in Objects : Looping(u, o)' <=> Looping(u, o)
    BY <1>1 DEF OthersRest, Looping
  <1>10. \A o \in Objects : Looping(t, o)' <=> UninstallNext(t) /\ Looping(t, o)
    BY <1>3, <1>4, <1>5 DEF Looping
  <1>11. ASSUME NEW o \in Objects, NEW k \in UserPcs, Waits(o, k)
         PROVE  hooks'[o] = hooks[o]
    <2>1. ~(~UninstallNext(t) /\ o = obj[t] /\ at[t] = "uninstall")
      BY <1>6, <1>11 DEF Looping
    <2> QED BY <1>4, <2>1
  <1>12. Remembered'
    <2>1. at'[CbThread] = at[CbThread]
      BY <1>3, <1>9 DEF Threads
    <2> QED BY <1>1, <1>2, <1>11, <2>1 DEF Remembered
  <1>13. UninstallInv'
    <2>1. ASSUME NEW u \in Threads, NEW o \in Objects, NEW k \in UserPcs,
                 Waits(o, k), Looping(u, o)'
          PROVE  \/ at'[u] = "uninstall" /\ index'[u] = 0 /\ hooks'[o] # <<>> /\ hooks'[o][1] = k
                 \/ at'[u] = "uninstallHook" /\ addr'[u] = k
      <3>1. Looping(u, o)
        BY <1>9, <1>10, <2>1
      <3>2. \/ at[u] = "uninstall" /\ index[u] = 0 /\ hooks[o] # <<>> /\ hooks[o][1] = k
            \/ at[u] = "uninstallHook" /\ addr[u] = k
        BY <2>1, <3>1 DEF UninstallInv
      <3>3. CASE u # t
        BY <1>9, <1>11, <2>1, <3>2, <3>3
      <3>4. CASE u = t
        <4>1. UninstallNext(t) /\ o = obj[t]
          BY <1>10, <2>1, <3>4 DEF Looping
        <4>2. Looped(t) = hooks[o]
          BY <2>1, <3>1, <3>4, <4>1 DEF Looped, ReplacedInv
        <4>3. addr'[t] = k /\ at'[t] = "uninstallHook"
          BY <1>3, <1>4, <3>2, <3>4, <4>1, <4>2
        <4> QED BY <3>4, <4>3
      <3> QED BY <3>3, <3>4
    <2> QED BY <1>2, <2>1 DEF UninstallInv
  <1>14. OwedInv'
    <2>1. \A o \in Objects : ~Looping(t, o) =>
              /\ ~Looping(t, o)'
              /\ \A k \in UserPcs : Waits(o, k)' <=> Waits(o, k)
      BY <1>2, <1>10
    <2>2. \A o \in Objects : Looping(t, o) /\ ~Looping(t, o)' =>
              \A k \in UserPcs : ~Waits(o, k)'
      BY <1>2, <1>6, <1>10
    <2> QED BY <1>1, <1>3, <2>1, <2>2, OwedUninstalling
  <1> QED BY <1>7, <1>8, <1>12, <1>13, <1>14

(* A call begins.  Who uninstalls an object that waits has found its only  *)
(* hook.                                                                   *)
LEMMA OrderCall ==
    ASSUME BaseInv, OrderInv, Sequential, NEW t \in Threads, PCall(t)
    PROVE  CallInv' /\ WaitArmed' /\ Remembered' /\ UninstallInv' /\ OwedInv'
  <1> USE DEF BaseInv, Inv, TypeInv, OrderInv, OrderRest, Sequential
  <1>0. ThreadActs(t)
    BY DEF ThreadActs
  <1>1. /\ UNCHANGED <<handler, hit, script>> /\ Self' = Self
        /\ ItsTurn(t) /\ OthersRest(t)
    BY <1>0, ThreadTurn
  <1>2. at[t] = "idle"
    BY DEF PCall, Install, Removes, Uninstalls, AddHook, RemoveHook, Uninstall, CanCall
  <1>3. /\ \A a \in UserPcs : List(a)' = List(a)
        /\ \A o, a : a \in UserPcs => (Waits(o, a)' <=> Waits(o, a))
    <2>1. ~UninstallHook(t)
      BY <1>2 DEF UninstallHook
    <2> QED BY <1>0, <2>1, UserListsKept
  <1>4. /\ UNCHANGED <<bps, hooks, index>> /\ index[t] = 0
        /\ t = CbThread => script = "run"
        /\ \/ at'[t] \in {"addCheck", "removeCheck", "raised"} /\ addr'[t] \notin UserPcs
              /\ owed' = owed
           \/ at'[t] = "uninstall" /\ t # CbThread /\ Uninstalls(t)
    <2>1. index[t] = 0 /\ (t = CbThread => script = "run")
      BY <1>2 DEF CallInv, RemoveLabels, PCall
    <2>2. CASE Install(t) /\ UNCHANGED owed
      <3>1. PICK o \in Objects, k \in Symbols : AddHook(t, o, k)
        BY <2>2, ProcessAssumption DEF Install
      <3> QED BY <2>1, <2>2, <3>1 DEF AddHook, BeginAdd, Works, Goto, TypeOK, UserPcs
    <2>3. CASE Removes(t) /\ UNCHANGED owed
      <3>1. PICK o \in Objects, k \in Symbols : RemoveHook(t, o, k)
        BY <2>3 DEF Removes
      <3> QED BY <2>1, <2>3, <3>1 DEF RemoveHook, BeginRemove, Works, Goto, TypeOK, UserPcs
    <2>4. CASE Uninstalls(t)
      <3>1. at' = [at EXCEPT ![t] = "uninstall"] /\ "uninstall" \in MayCall[t]
            /\ UNCHANGED <<bps, hooks, index>>
        BY <2>4 DEF Uninstalls, Uninstall, CanCall, Goto, objectVars
      <3> QED BY <2>1, <2>4, <3>1 DEF TypeOK
    <2> QED BY <2>2, <2>3, <2>4 DEF PCall
  <1>5. CallInv'
    BY <1>1, <1>3, <1>4, CallKept DEF RemoveLabels, AddLabels
  <1>6. WaitArmed'
    BY <1>1, <1>2, <1>3, <1>4, ArmedKept
  <1>7. Remembered'
    <2>1. t # CbThread => at'[CbThread] = at[CbThread]
      BY <1>1 DEF OthersRest, Threads
    <2> QED BY <1>1, <1>3, <1>4, <2>1 DEF Remembered
  <1>8. /\ \A u \in Threads : u # t =>
              /\ at'[u] = at[u] /\ addr'[u] = addr[u] /\ index'[u] = index[u]
              /\ \A o \in Objects : Looping(u, o)' <=> Looping(u, o)
        /\ \A o \in Objects : /\ ~Looping(t, o)
                              /\ Looping(t, o)' <=> at'[t] = "uninstall" /\ obj'[t] = o
    BY <1>1, <1>2, <1>4 DEF OthersRest, Looping
  <1>9. CASE at'[t] # "uninstall"
    <2>1. UninstallInv'
      BY <1>3, <1>4, <1>8, <1>9 DEF UninstallInv
    <2>2. OwedInv'
      BY <1>1, <1>3, <1>4, <1>8, <1>9, OwedKept
    <2> QED BY <1>5, <1>6, <1>7, <2>1, <2>2
  <1>10. CASE at'[t] = "uninstall"
    <2>1. PICK o \in Objects : /\ Len(hooks[o]) < 2 /\ Uninstall(t, o)
                               /\ owed' = [owed EXCEPT ![o] = 0]
      BY <1>4, <1>10 DEF Uninstalls
    <2>2. obj'[t] = o
      BY <2>1 DEF Uninstall, Works, TypeOK
    <2>3. script = "none"
      BY <1>1, <1>4, <1>10 DEF ItsTurn
    <2>4. ASSUME NEW k \in UserPcs, Waits(o, k)
          PROVE  hooks[o] # <<>> /\ hooks[o][1] = k
      <3>1. Contains(hooks[o], k) /\ hooks[o] \in Seq(Addr)
        BY <2>3, <2>4 DEF Remembered, TypeOK
      <3>2. PICK i \in 1..Len(hooks[o]) : hooks[o][i] = k
        BY <3>1 DEF Contains
      <3>3. i = 1 /\ Len(hooks[o]) # 0
        BY <2>1, <3>1, <3>2
      <3> QED BY <3>2, <3>3
    <2>5. UninstallInv'
      <3>1. ASSUME NEW u \in Threads, NEW p \in Objects, NEW k \in UserPcs,
                   Waits(p, k), Looping(u, p)'
            PROVE  \/ at'[u] = "uninstall" /\ index'[u] = 0 /\ hooks'[p] # <<>> /\ hooks'[p][1] = k
                   \/ at'[u] = "uninstallHook" /\ addr'[u] = k
        <4>1. CASE u = t
          <5>1. p = o
            BY <1>8, <2>2, <3>1, <4>1
          <5> QED BY <1>4, <1>10, <2>4, <3>1, <4>1, <5>1
        <4>2. CASE u # t
          BY <1>4, <1>8, <3>1, <4>2 DEF UninstallInv
        <4> QED BY <4>1, <4>2
      <3> QED BY <1>3, <3>1 DEF UninstallInv
    <2>6. OwedInv'
      <3>1. ASSUME NEW p \in Objects, IsProcess(p)
            PROVE  owed'[p] = IF \E u \in Threads : Looping(u, p)' THEN 0 ELSE Due(p)'
        <4>1. CASE p = o
          <5>1. Looping(t, p)'
            BY <1>8, <1>10, <2>2, <4>1
          <5> QED BY <2>1, <4>1, <5>1 DEF PTypes
        <4>2. CASE p # o
          <5>1. owed'[p] = owed[p]
            BY <2>1, <4>2 DEF PTypes
          <5>2. (\E u \in Threads : Looping(u, p)') <=> (\E u \in Threads : Looping(u, p))
            BY <1>8, <2>2, <4>2
          <5>3. OneIf(\E k \in UserPcs : Waits(p, k)') = OneIf(\E k \in UserPcs : Waits(p, k))
            BY <1>3 DEF OneIf
          <5>4. Due(p)' = Due(p)
            BY <1>1, <5>3 DEF Due, OneIf
          <5> QED BY <3>1, <5>1, <5>2, <5>4 DEF OwedInv
        <4> QED BY <4>1, <4>2
      <3> QED BY <3>1 DEF OwedInv
    <2> QED BY <1>5, <1>6, <1>7, <2>5, <2>6
  <1> QED BY <1>9, <1>10

LEMMA OrderThread ==
    ASSUME BaseInv, OrderInv, Sequential, NEW t \in Threads, ThreadActs(t)
    PROVE  OrderRest'
  <1>1. Turns' /\ OneWaits' /\ SwitchInv' /\ Latest'
    BY OrderLists
  <1>2. CallInv' /\ WaitArmed' /\ Remembered' /\ UninstallInv' /\ OwedInv'
    BY OrderCall, OrderAdding, OrderDeleting, OrderUninstallHook, OrderUninstalling
       DEF ThreadActs, ThreadStep, Raised
  <1> QED BY <1>1, <1>2 DEF OrderInv, OrderRest

(* A call that the program makes in run() raises; those that the callback  *)
(* classes make do not.                                                    *)
LEMMA OrderRaised ==
    ASSUME BaseInv, OrderInv, Sequential, CbRaised
    PROVE  OrderRest'
  <1> USE DEF BaseInv, Inv, TypeInv, OrderInv, OrderRest, Sequential, CbRaised, Raised
  <1>1. at[CbThread] = "raised" /\ CbThread \in Threads
    BY DEF Threads
  <1>2. script = "run"
    <2>1. script \in {"run", "hooking", "removing"}
      BY <1>1 DEF CbInv
    <2>2. script # "hooking"
      BY <1>1 DEF CbInv, ScriptInv, StopInv, Dispatching, UserPcs
    <2>3. script # "removing"
      BY <1>1 DEF CallInv, RemoveLabels
    <2> QED BY <2>1, <2>2, <2>3
  <1>3. /\ UNCHANGED <<registry, bps, hooks, handler, hit, pos, ran, todo, cbProcExec, owed,
                       running, savedPc, script>>
        /\ Self' = Self
    BY <1>2 DEF dispatchVars, guestVars, Self
  <1>4. /\ \A a : List(a)' = List(a)
        /\ \A o, a : Waits(o, a)' <=> Waits(o, a)
    BY <1>3 DEF List, Waits
  <1>5. /\ at'[CbThread] = "idle" /\ index'[CbThread] = 0 /\ index[CbThread] = 0
        /\ OthersRest(CbThread)
    BY <1>1 DEF Goto, Rests, Works, TypeOK, CallInv, OthersRest
  <1>6. ItsTurn(CbThread)
    <2>1. handler = "join"
      BY <1>2 DEF ScriptInv
    <2>2. \A u \in Users : at[u] = "idle" /\ index[u] = 0
      BY <2>1, NoneUninstalls
    <2> QED BY <1>2, <2>1, <2>2, ManagerAssumption DEF ItsTurn
  <1>7. Turns'
    BY <1>3, <1>5, <1>6 DEF Turns, ItsTurn, OthersRest, Threads
  <1>8. OneWaits' /\ Latest'
    BY <1>2, <1>3, <1>4 DEF OneWaits, Latest, Dispatching
  <1>9. SwitchInv'
    BY <1>3, <1>4 DEF SwitchInv, Dispatching, Count
  <1>10. CallInv'
    BY <1>1, <1>3, <1>4, <1>5, CallKept DEF AddLabels, RemoveLabels
  <1>11. WaitArmed'
    BY <1>1, <1>3, <1>4, <1>5, <1>6, ArmedKept
  <1>12. Remembered'
    BY <1>2, <1>3, <1>4 DEF Remembered
  <1>13. \A u \in Threads, o \in Objects : Looping(u, o)' <=> Looping(u, o)
    BY <1>1, <1>5 DEF Looping, OthersRest
  <1>14. UninstallInv'
    <2>1. \A u \in Threads, o \in Objects : ~Looping(u, o)
      BY <1>6, NoneUninstalls DEF ItsTurn
    <2> QED BY <1>13, <2>1 DEF UninstallInv
  <1>15. OwedInv'
    BY <1>3, <1>4, <1>13, OwedKept
  <1> QED BY <1>7, <1>8, <1>9, <1>10, <1>11, <1>12, <1>14, <1>15

LEMMA OrderInit == PInit => OrderInv
  <1> SUFFICES ASSUME PInit
               PROVE  OrderInv
    OBVIOUS
  <1> USE DEF PInit, Init, ManagerInit
  <1>1. /\ handler = "idle" /\ script = "none" /\ \A t \in Threads : at[t] = "idle" /\ index[t] = 0
        /\ CbThread \in Threads /\ \A o \in Objects : owed[o] = 0
    BY DEF Threads
  <1>2. \A k : List(k) = <<>>
    BY DEF List
  <1>3. \A o, k : ~Waits(o, k)
    BY <1>2 DEF Waits, Contains
  <1>4. \A o : Count(o, <<>>) = 0
    <2>1. \A o : Places(o, <<>>) = {}
      BY DEF Places
    <2>2. <<>> \in Seq(Objects)
      OBVIOUS
    <2> QED BY <2>1, <2>2, CountType, FS_EmptySet
  <1>5. Turns /\ CallInv
    BY <1>1, <1>2 DEF Turns, CallInv, Threads, AddLabels, RemoveLabels
  <1>6. OneWaits /\ SwitchInv /\ Latest
    <2>1. Len(<<>>) = 0
      OBVIOUS
    <2> QED BY <1>1, <1>2, <1>3, <1>4, <2>1 DEF OneWaits, SwitchInv, Latest, Dispatching
  <1>7. WaitArmed /\ Remembered /\ UninstallInv
    BY <1>1, <1>2, <1>3 DEF WaitArmed, Remembered, UninstallInv
  <1>8. OwedInv
    <2>1. \A t \in Threads, o \in Objects : ~Looping(t, o)
      BY <1>1 DEF Looping
    <2>2. \A o \in Objects : Due(o) = 0
      BY <1>1, <1>3 DEF Due, OneIf
    <2> QED BY <1>1, <2>1, <2>2 DEF OwedInv
  <1>9. ReplacedInv
    BY DEF ReplacedInv
  <1> QED BY <1>5, <1>6, <1>7, <1>8, <1>9 DEF OrderInv, OrderRest

(* Who uninstalls waits no longer when its list is replaced: a loop that   *)
(* ends has found the hook of a callback that waited, or there was none.   *)
LEMMA ReplacedThread ==
    ASSUME BaseInv, OrderInv, Sequential, NEW t \in Threads, ThreadActs(t)
    PROVE  ReplacedInv'
  <1> USE DEF BaseInv, Inv, TypeInv, OrderInv, OrderRest, ReplacedInv, Sequential
  <1>1. DOMAIN replaced' \subseteq Threads
    <2>1. PNext
      BY DEF PNext, ThreadActs, PThreadStep
    <2> QED BY <2>1, InvPNext DEF TypeOK
  <1>2. OthersRest(t)
    BY ThreadTurn
  <1>3. ASSUME NEW o \in Objects, NEW k \in UserPcs, Waits(o, k)'
        PROVE  Waits(o, k)
    BY <1>3, ThreadLists, ProcessAssumption DEF UserPcs
  <1>4. \A u \in Threads \ {t}, o \in Objects : Looping(u, o)' <=> Looping(u, o)
    BY <1>2 DEF OthersRest, Looping
  <1>5. CASE \E p \in Objects : Uninstall(t, p)
    <2>1. DOMAIN replaced' = DOMAIN replaced \ {t}
      BY <1>5 DEF Uninstall, Restrict
    <2> QED BY <1>1, <1>3, <1>4, <2>1
  <1>6. CASE UninstallDone(t)
    <2>1. at[t] = "uninstall" /\ obj[t] \in Objects
      BY <1>6 DEF UninstallDone, LockInv
    <2>2. \A u \in DOMAIN replaced' : u # t /\ (u \in DOMAIN replaced \/ Looping(u, obj[t]))
      BY <1>6 DEF UninstallDone
    <2>3. ASSUME NEW k \in UserPcs
          PROVE  ~Waits(obj[t], k)
      <3>1. SUFFICES ASSUME Waits(obj[t], k)
                     PROVE  FALSE
        OBVIOUS
      <3>2. Looping(t, obj[t])
        BY <2>1 DEF Looping
      <3>3. index[t] = 0 /\ hooks[obj[t]] # <<>> /\ t \notin DOMAIN replaced
        BY <2>1, <3>1, <3>2 DEF UninstallInv
      <3>4. hooks[obj[t]] \in Seq(Addr) /\ 0 >= Len(hooks[obj[t]])
        BY <1>6, <2>1, <3>3 DEF UninstallDone, Looped, TypeOK
      <3> QED BY <3>3, <3>4, EmptySeq
    <2>4. \A u \in Threads, o \in Objects : Looping(u, obj[t]) /\ Looping(u, o) => o = obj[t]
      BY DEF Looping
    <2> QED BY <1>1, <1>3, <1>4, <2>2, <2>3, <2>4
  <1>7. CASE replaced' = replaced /\ \A o \in Objects : Looping(t, o)' => Looping(t, o)
    BY <1>1, <1>3, <1>4, <1>7
  <1>8. CASE ~UninstallDone(t) /\ ~\E p \in Objects : Uninstall(t, p)
    <2>1. replaced' = replaced
      BY <1>8 DEF ThreadActs, PCall, Install, Removes, Uninstalls, AddHook, RemoveHook, ThreadStep,
                  OfObject, AddCheck, AddSet, RemoveCheck, RemoveDel, AddDone, Raised, RemoveDone,
                  UninstallNext, UninstallHook
    <2>2. ASSUME NEW o \in Objects
          PROVE  Looping(t, o)' => Looping(t, o)
      <3>1. CASE Install(t) \/ Removes(t)
        <4>1. /\ at[t] = "idle" /\ index' = index
              /\ at'[t] \in {"addCheck", "removeCheck", "raised"}
          BY <3>1 DEF Install, Removes, AddHook, RemoveHook, CanCall, BeginAdd, BeginRemove, Goto,
                      TypeOK
        <4> QED BY <4>1 DEF Looping, CallInv, RemoveLabels
      <3>2. CASE \/ OfObject(AddCheck(t)) \/ OfObject(AddSet(t))
                 \/ OfObject(RemoveCheck(t)) \/ OfObject(RemoveDel(t))
        <4>1. /\ UNCHANGED <<obj, index>>
              /\ at'[t] \notin {"uninstall", "uninstallHook"}
          BY <3>2 DEF OfObject, AddCheck, AddSet, RemoveCheck, RemoveDel, Goto, TypeOK
        <4> QED BY <4>1 DEF Looping
      <3>3. CASE AddDone(t) \/ Raised(t)
        <4>1. at'[t] = "idle" /\ index'[t] = 0
          <5>1. CASE AddDone(t)
            BY <5>1 DEF AddDone, Goto, TypeOK, CallInv, RemoveLabels
          <5>2. CASE Raised(t)
            BY <5>2 DEF Raised, Goto, TypeOK
          <5> QED BY <3>3, <5>1, <5>2
        <4> QED BY <4>1 DEF Looping
      <3>4. CASE RemoveDone(t)
        <4>1. /\ index' = index
              /\ index[t] = 0 => at'[t] = "idle"
              /\ index[t] # 0 => obj'[t] = obj[t]
          BY <3>4 DEF RemoveDone, Rests, Works, Goto, TypeOK
        <4> QED BY <4>1 DEF Looping
      <3>5. CASE UninstallNext(t) \/ UninstallHook(t)
        <4>1. /\ at[t] \in {"uninstall", "uninstallHook"}
              /\ obj'[t] = obj[t]
          BY <3>5 DEF UninstallNext, UninstallHook, BeginRemove, Works, TypeOK
        <4> QED BY <4>1 DEF Looping
      <3> QED BY <1>8, <3>1, <3>2, <3>3, <3>4, <3>5 DEF ThreadActs, PCall, Uninstalls, ThreadStep
    <2> QED BY <1>7, <2>1, <2>2
  <1> QED BY <1>5, <1>6, <1>8

LEMMA OrderRestNext ==
    ASSUME BaseInv, OrderInv, [PNext]_pvars, Sequential, OneEach
    PROVE  OrderRest'
  <1>1. CASE SwitchStop \/ ProcessStop \/ KernelStop
    BY <1>1, OrderStop
  <1>2. CASE PHandlerStep
    BY <1>2, OrderBegin, OrderHandler
  <1>3. CASE ScheduledSwitch \/ ProcessSwitch \/ Hooked \/ Unhooked
    BY <1>3, OrderScript, OrderHooking
  <1>4. CASE ProcExec
    BY <1>4, OrderRemoving
  <1>5. ASSUME NEW t \in Threads, PCall(t) \/ PThreadStep(t)
        PROVE  OrderRest'
    BY <1>5, OrderThread, OrderRaised DEF ThreadActs, PThreadStep
  <1>6. CASE UNCHANGED pvars
    <2>1. /\ UNCHANGED <<registry, bps, at, obj, addr, hooks, index, handler, hit, pos, ran, todo,
                         script, cbProcExec, owed, running, savedPc>>
          /\ Self' = Self
      BY <1>6 DEF pvars, vars, processVars, guestVars, dispatchVars, callVars, objectVars, Self
    <2>2. /\ \A a : List(a)' = List(a)
          /\ \A o, a : Waits(o, a)' <=> Waits(o, a)
          /\ \A t, o : Looping(t, o)' <=> Looping(t, o)
      BY <2>1 DEF List, Waits, Looping
    <2> USE <2>1, <2>2 DEF OrderInv, OrderRest
    <2>3. Turns' /\ OneWaits' /\ Latest' /\ WaitArmed'
      BY DEF Turns, OneWaits, Latest, WaitArmed, Dispatching
    <2>4. SwitchInv'
      BY DEF SwitchInv, Dispatching, Count
    <2>5. CallInv' /\ Remembered' /\ UninstallInv'
      BY DEF CallInv, Remembered, UninstallInv
    <2>6. OwedInv'
      BY OwedKept
    <2> QED BY <2>3, <2>4, <2>5, <2>6
  <1> QED BY <1>1, <1>2, <1>3, <1>4, <1>5, <1>6 DEF PNext

(* A call of uninstall() takes the list as it is, and the one that ends    *)
(* leaves none waiting to those who go on with the list that it replaces.  *)
LEMMA ReplacedNext ==
    ASSUME BaseInv, OrderInv, [PNext]_pvars, Sequential
    PROVE  ReplacedInv'
  <1> USE DEF BaseInv, Inv, TypeInv, OrderInv, OrderRest, ReplacedInv, Sequential
  <1>1. ASSUME replaced' = replaced,
               \A t \in Threads, o \in Objects : Looping(t, o)' => Looping(t, o),
               \A o \in Objects, k \in UserPcs : Waits(o, k)' => Waits(o, k)
        PROVE  ReplacedInv'
    <2>1. DOMAIN replaced \subseteq Threads
      BY DEF TypeOK
    <2> QED BY <1>1, <2>1
  <1>2. CASE SwitchStop \/ ProcessStop \/ KernelStop
    <2>1. PICK k \in Addr : Stop(k)
      BY <1>2, ProcessAssumption DEF SwitchStop, ProcessStop, KernelStop
    <2>2. /\ UNCHANGED <<at, obj, index, replaced>>
          /\ \A a : List(a)' = List(a)
      BY <2>1, StopEffect DEF Stop, OfObject
    <2> QED BY <1>1, <2>2 DEF Looping, Waits
  <1>3. CASE PHandlerStep
    <2>1. UNCHANGED <<registry, at, obj, index, replaced>>
      BY <1>3 DEF PHandlerStep, Begin, End, OfObject, RunNext, Join, RearmBegin, RearmSet, RearmDone,
                  RearmRaises, RearmCheck, callVars
    <2> QED BY <1>1, <2>1 DEF Looping, Waits, List
  <1>4. CASE ScheduledSwitch \/ Hooked \/ Unhooked \/ UNCHANGED pvars
    <2>1. UNCHANGED <<registry, at, obj, index, replaced>>
      BY <1>4 DEF ScheduledSwitch, Hooked, Unhooked, pvars, vars, callVars
    <2> QED BY <1>1, <2>1 DEF Looping, Waits, List
  <1>5. CASE ProcessSwitch \/ ProcExec
    <2>1. CASE UNCHANGED <<registry, at, obj, index, replaced>>
      BY <1>1, <2>1 DEF Looping, Waits, List
    <2>2. CASE (ProcessSwitch /\ BeginAdd(CbThread, Self, savedPc)) \/ ProcExec
      <3>1. /\ CbThread \in Threads /\ handler = "join" /\ index' = index
            /\ at'[CbThread] \in {"addCheck", "removeCheck", "raised"}
            /\ \A u \in Threads \ {CbThread} : at'[u] = at[u] /\ obj'[u] = obj[u]
        BY <2>2, ClassCalls
      <3>2. \A t \in Threads, o \in Objects : ~Looping(t, o)
        BY <3>1, NoneUninstalls
      <3>3. index'[CbThread] = 0
        BY <3>1 DEF CallInv
      <3>4. \A t \in Threads, o \in Objects : ~Looping(t, o)'
        BY <3>1, <3>2, <3>3 DEF Looping
      <3>5. DOMAIN replaced' \subseteq Threads
        BY InvPNext DEF TypeOK
      <3> QED BY <3>4, <3>5
    <2>3. CASE ProcessSwitch /\ ~BeginAdd(CbThread, Self, savedPc)
      BY <2>1, <2>3 DEF ProcessSwitch, vars, callVars
    <2> QED BY <1>5, <2>2, <2>3
  <1>6. ASSUME NEW t \in Threads, PCall(t) \/ PThreadStep(t)
        PROVE  ReplacedInv'
    <2>1. CASE ThreadActs(t)
      BY <2>1, ReplacedThread
    <2>2. CASE CbRaised /\ t = CbThread
      <3>1. /\ UNCHANGED <<registry, replaced>>
            /\ at'[t] = "idle" /\ index'[t] = 0
            /\ \A u \in Threads \ {t} : at'[u] = at[u] /\ obj'[u] = obj[u] /\ index'[u] = index[u]
        BY <2>2 DEF CbRaised, Raised, Rests, Works, Goto, TypeOK
      <3> QED BY <1>1, <3>1 DEF Looping, Waits, List
    <2> QED BY <1>6, <2>1, <2>2 DEF ThreadActs, PThreadStep
  <1> QED BY <1>2, <1>3, <1>4, <1>5, <1>6 DEF PNext

LEMMA OrderNext ==
    ASSUME BaseInv, OrderInv, [PNext]_pvars, Sequential, OneEach
    PROVE  OrderInv'
  BY OrderRestNext, ReplacedNext DEF OrderInv

(* If nobody works for an object, what is owed is what waits for it.       *)
LEMMA AtRestOwed ==
    ASSUME BaseInv, OrderInv, NEW o \in Objects, IsProcess(o), Between(o)
    PROVE  owed[o] = OneIf(\E k \in UserPcs : Waits(o, k))
  <1> USE DEF BaseInv, OrderInv, OrderRest, Between
  <1>1. \A t \in Threads : ~Looping(t, o)
    BY DEF AtRest, Looping
  <1>2. owed[o] = Due(o)
    BY <1>1 DEF OwedInv
  <1> QED BY <1>2 DEF Due, OneIf

(* A callback that waits does so once, at one address.                     *)
LEMMA WaitingCount ==
    ASSUME BaseInv, OrderInv, NEW o \in Objects
    PROVE  Cardinality(Waiting(o)) = OneIf(\E k \in UserPcs : Waits(o, k))
  <1> USE DEF BaseInv, Inv, TypeInv, OrderInv, OrderRest
  <1> DEFINE At(k) == {k} \X {i \in DOMAIN List(k) : List(k)[i] = o}
  <1>1. Waiting(o) = UNION {At(k) : k \in UserPcs}
    BY DEF Waiting, UserPcs
  <1>2. ASSUME NEW k \in UserPcs
        PROVE  At(k) = IF Waits(o, k) THEN {<<k, 1>>} ELSE {}
    <2>1. List(k) \in Seq(Objects) /\ Len(List(k)) \in Nat /\ Len(List(k)) <= 1
      BY WaitsEmpty DEF OneWaits
    <2>2. DOMAIN List(k) = 1..Len(List(k))
      BY <2>1
    <2>3. {i \in DOMAIN List(k) : List(k)[i] = o} = IF Waits(o, k) THEN {1} ELSE {}
      BY <2>1, <2>2 DEF Waits, Contains
    <2> QED BY <2>3
  <1> HIDE DEF At
  <1>3. CASE \A k \in UserPcs : ~Waits(o, k)
    <2>1. Waiting(o) = {}
      BY <1>1, <1>2, <1>3
    <2> QED BY <1>3, <2>1, FS_EmptySet DEF OneIf
  <1>4. ASSUME NEW k \in UserPcs, Waits(o, k)
        PROVE  Cardinality(Waiting(o)) = OneIf(\E a \in UserPcs : Waits(o, a))
    <2>1. \A a \in UserPcs : Waits(o, a) => a = k
      BY <1>4 DEF OneWaits
    <2>2. Waiting(o) = {<<k, 1>>}
      BY <1>1, <1>2, <1>4, <2>1
    <2>3. Cardinality(Waiting(o)) = 1
      BY <2>2, FS_Singleton
    <2> QED BY <1>4, <2>3 DEF OneIf
  <1> QED BY <1>3, <1>4

(* The hook by which a process's callback waits is always the one that the *)
(* callback will remove when the process goes on: add_hook's result has    *)
(* replaced the one before only after that was removed                     *)
(* (linux/callbacks.py:54, 57).                                            *)
THEOREM HookIsTheLatest ==
    ASSUME Sequential, OneEach
    PROVE  PSpec => []HookIsLatest
  <1>1. BaseInv /\ OrderInv /\ [PNext]_pvars => OrderInv'
    BY OrderNext
  <1>2. OrderInv => HookIsLatest
    BY DEF OrderInv, OrderRest, Latest, HookIsLatest, UserPcs, Between
  <1> QED BY BaseInit, BaseNext, OrderInit, <1>1, <1>2, PTL DEF PSpec

(* No switch to a process is lost and none is counted twice: run() has     *)
(* been called for each, or a hook waits where the process goes on, be the *)
(* stops, calls, installs and uninstalls in any order that the rules allow *)
(* (linux/callbacks.py:38-58).                                             *)
THEOREM EverySwitchRuns ==
    ASSUME Sequential, OneEach
    PROVE  PSpec => []EachSwitchRuns
  <1>1. BaseInv /\ OrderInv /\ [PNext]_pvars => OrderInv'
    BY OrderNext
  <1>2. BaseInv /\ OrderInv => EachSwitchRuns
    BY AtRestOwed, WaitingCount DEF EachSwitchRuns
  <1> QED BY BaseInit, BaseNext, OrderInit, <1>1, <1>2, PTL DEF PSpec

----------------------------------------------------------------------------
(* What Callback promises of any program, it promises of one that is made  *)
(* of these classes.                                                       *)

LEMMA PTurnsNext ==
    ASSUME BaseInv, Turns, [PNext]_pvars, Quiet, OneUser
    PROVE  Turns'
  <1> USE DEF BaseInv, Inv, TypeInv
  <1>1. CASE [Next]_vars
    BY <1>1, TurnsNext
  <1>2. CASE (ProcessSwitch /\ BeginAdd(CbThread, Self, savedPc)) \/ ProcExec
    <2>1. /\ handler = "join" /\ handler' = handler
          /\ \A u \in Threads \ {CbThread} : at'[u] = at[u]
      BY <1>2, ClassCalls DEF dispatchVars
    <2> QED BY <2>1, ManagerAssumption DEF Turns, Threads
  <1> QED BY <1>1, <1>2, StepsOfCallback

(* Breakpoints and callbacks agree when nothing is under way, although the *)
(* callbacks of a stop hook and unhook other addresses, and a breakpoint   *)
(* may be refused (callback_manager.py:111-114, 147-151, 210-217).         *)
THEOREM ProcessBreakpointsMatch ==
    ASSUME Quiet, OneUser
    PROVE  PSpec => []Armed
  <1>1. BaseInv /\ ArmInv /\ [PNext]_pvars => ArmInv'
    <2> SUFFICES ASSUME BaseInv, ArmInv, [PNext]_pvars
                 PROVE  ArmInv'
      OBVIOUS
    <2> USE DEF BaseInv, Inv, TypeInv
    <2>1. CASE [Next]_vars
      BY <2>1, ArmNext
    <2>2. CASE (ProcessSwitch /\ BeginAdd(CbThread, Self, savedPc)) \/ ProcExec
      <3>1. Turns'
        BY PTurnsNext DEF ArmInv
      <3>2. \A u \in Threads \ {CbThread} : at[u] = "idle" /\ at'[u] = "idle"
        BY <2>2, ClassCalls DEF ArmInv, Turns, Threads
      <3>3. Lists' /\ Sound' /\ Complete' /\ Rearming'
        BY <2>2, <3>2, ClassCalls, BeginAddArm, BeginRemoveArm DEF ProcExec
      <3> QED BY <3>1, <3>3 DEF ArmInv
    <2> QED BY <2>1, <2>2, StepsOfCallback
  <1>2. PInit => ArmInv
    BY ArmInit DEF PInit
  <1>3. BaseInv /\ ArmInv => Armed
    BY ArmArms DEF BaseInv
  <1> QED BY BaseInit, BaseNext, <1>1, <1>2, <1>3, PTL DEF PSpec

(* A considerate program's uninstall() has one hook to remove at most, and *)
(* so the loop that shortens its own list passes over none.                *)
OneHookOf(t) ==
    LET held == hooks[obj[t]] IN
    /\ index[t] # 0 => at[t] \in {"uninstall", "uninstallHook", "raised"} \cup RemoveLabels
    /\ at[t] = "uninstall" => held = <<>> \/ (index[t] = 0 /\ Len(held) = 1)
    /\ at[t] = "uninstallHook" \/ (at[t] \in RemoveLabels /\ index[t] # 0) =>
          held = <<addr[t]>> /\ index[t] # 0
OneHook == \A t \in Threads : OneHookOf(t)
NoneReplaced == DOMAIN replaced = {}

LEMMA OneHookThread ==
    ASSUME BaseInv, OneHook, NoneReplaced, NEW t \in Threads, PCall(t) \/ PThreadStep(t), Considerate
    PROVE  OneHookOf(t)'
  <1> USE DEF BaseInv, Inv, TypeInv, TypeOK
  <1>1. OneHookOf(t)
    BY DEF OneHook
  <1>2. CASE Install(t) \/ Removes(t)
    <2>1. at[t] = "idle" /\ index' = index /\ at'[t] \in {"addCheck", "removeCheck", "raised"}
      BY <1>2 DEF Install, Removes, AddHook, RemoveHook, CanCall, BeginAdd, BeginRemove, Goto
    <2>2. index[t] = 0
      BY <1>1, <2>1 DEF OneHookOf, RemoveLabels
    <2> QED BY <2>1, <2>2 DEF OneHookOf, RemoveLabels
  <1>3. CASE Uninstalls(t)
    <2>1. PICK o \in Objects : Len(hooks[o]) < 2 /\ Uninstall(t, o)
      BY <1>3 DEF Uninstalls
    <2>2. /\ at[t] = "idle" /\ at'[t] = "uninstall" /\ obj'[t] = o
          /\ UNCHANGED <<index, hooks>>
      BY <2>1 DEF Uninstall, CanCall, Goto, Works, objectVars
    <2>3. index[t] = 0
      BY <1>1, <2>2 DEF OneHookOf, RemoveLabels
    <2>4. Len(hooks[o]) = 1 \/ hooks[o] = <<>>
      <3>1. hooks[o] \in Seq(Addr) /\ Len(hooks[o]) \in Nat
        OBVIOUS
      <3>2. Len(hooks[o]) = 1 \/ Len(hooks[o]) = 0
        <4>1. Len(hooks[o]) < 2
          BY <2>1
        <4>2. \A n \in Nat : n < 2 => n = 1 \/ n = 0
          OBVIOUS
        <4> QED BY <3>1, <4>1, <4>2
      <3> QED BY <3>1, <3>2, EmptySeq
    <2> QED BY <2>2, <2>3, <2>4 DEF OneHookOf, RemoveLabels
  <1>4. CASE \/ OfObject(AddCheck(t)) \/ OfObject(AddSet(t))
             \/ OfObject(RemoveCheck(t)) \/ OfObject(RemoveDel(t))
    <2>1. /\ UNCHANGED <<obj, addr, index, hooks>>
          /\ \/ at[t] \in AddLabels /\ at'[t] \in AddLabels \cup {"raised"}
             \/ at[t] \in RemoveLabels /\ at'[t] \in RemoveLabels
      BY <1>4 DEF OfObject, objectVars, AddCheck, AddSet, RemoveCheck, RemoveDel, Goto, AddLabels,
                  RemoveLabels
    <2> QED BY <1>1, <2>1 DEF OneHookOf, AddLabels, RemoveLabels
  <1>5. CASE AddDone(t) \/ Raised(t) \/ UninstallDone(t)
    <2>1. at'[t] = "idle" /\ index'[t] = 0
      BY <1>1, <1>5 DEF AddDone, Raised, UninstallDone, Goto, OneHookOf, RemoveLabels
    <2> QED BY <2>1 DEF OneHookOf, RemoveLabels
  <1>6. CASE RemoveDone(t)
    <2>1. CASE index[t] = 0
      BY <1>6, <2>1 DEF RemoveDone, Goto, OneHookOf, RemoveLabels
    <2>2. CASE index[t] # 0
      <3>1. obj[t] \in Objects /\ addr[t] \in Addr /\ at[t] = "removeDone"
        BY <1>6 DEF RemoveDone, LockInv, Holding, RemoveLabels
      <3>2. hooks[obj[t]] = <<addr[t]>>
        BY <1>1, <2>2, <3>1 DEF OneHookOf, RemoveLabels
      <3>3. hooks'[obj[t]] = RemoveFirst(hooks[obj[t]], addr[t])
        BY <1>6, <3>1 DEF RemoveDone
      <3>4. hooks[obj[t]] \in Seq(Addr) /\ Len(hooks[obj[t]]) = 1 /\ hooks[obj[t]][1] = addr[t]
        BY <3>1, <3>2
      <3>5. Contains(hooks[obj[t]], addr[t])
        BY <3>4 DEF Contains
      <3>6. RemoveFirst(hooks[obj[t]], addr[t]) = <<>>
        <4>1. Len(hooks[obj[t]]) <= 1
          BY <3>4
        <4> QED BY <3>4, <3>5, <4>1, RemoveLast
      <3>7. at'[t] = "uninstall" /\ obj'[t] = obj[t]
        BY <1>6, <2>2 DEF RemoveDone, Goto, Works
      <3> QED BY <3>3, <3>6, <3>7 DEF OneHookOf, RemoveLabels
    <2> QED BY <2>1, <2>2
  <1>7. CASE UninstallNext(t)
    <2>1. /\ at[t] = "uninstall" /\ index[t] < Len(hooks[obj[t]])
          /\ at'[t] = "uninstallHook" /\ addr'[t] = hooks[obj[t]][index[t] + 1]
          /\ index'[t] = index[t] + 1 /\ UNCHANGED <<hooks, obj>>
      BY <1>7 DEF UninstallNext, Goto, objectVars, NoneReplaced, Looped
    <2>2. hooks[obj[t]] \in Seq(Addr) /\ index[t] \in Nat
      BY <2>1 DEF LockInv
    <2>3. index[t] = 0 /\ Len(hooks[obj[t]]) = 1
      BY <1>1, <2>1, <2>2, EmptySeq DEF OneHookOf
    <2>4. hooks[obj[t]] = <<hooks[obj[t]][1]>>
      BY <2>2, <2>3
    <2> QED BY <2>1, <2>3, <2>4 DEF OneHookOf, RemoveLabels
  <1>8. CASE UninstallHook(t)
    <2>1. /\ at[t] = "uninstallHook" /\ at'[t] \in {"removeCheck", "raised"}
          /\ UNCHANGED <<index, hooks>> /\ obj'[t] = obj[t] /\ addr'[t] = addr[t]
      BY <1>8 DEF UninstallHook, BeginRemove, Goto, Works
    <2> QED BY <1>1, <2>1 DEF OneHookOf, RemoveLabels
  <1> QED BY <1>2, <1>3, <1>4, <1>5, <1>6, <1>7, <1>8
          DEF PCall, PThreadStep, CbRaised, ThreadStep

LEMMA OneHookNext ==
    ASSUME BaseInv, Turns, OneHook, NoneReplaced, [PNext]_pvars, Quiet, OneUser, Considerate
    PROVE  OneHook'
  <1> USE DEF BaseInv, Inv, TypeInv
  <1>1. CASE UNCHANGED <<at, obj, addr, index, hooks>>
    BY <1>1 DEF OneHook, OneHookOf
  <1>2. ASSUME NEW t \in Threads, OneHookOf(t)',
               \A u \in Threads \ {t} : at'[u] = "idle" /\ index'[u] = index[u] /\ at[u] = "idle"
        PROVE  OneHook'
    <2>1. ASSUME NEW u \in Threads
          PROVE  OneHookOf(u)'
      <3>1. CASE u = t
        BY <1>2, <3>1
      <3>2. CASE u # t
        <4>1. at'[u] = "idle" /\ index'[u] = 0
          BY <1>2, <3>2 DEF OneHook, OneHookOf, RemoveLabels
        <4> QED BY <4>1 DEF OneHookOf, RemoveLabels
      <3> QED BY <3>1, <3>2
    <2> QED BY <2>1 DEF OneHook
  <1>3. CASE (ProcessSwitch /\ BeginAdd(CbThread, Self, savedPc)) \/ ProcExec
    <2>1. /\ CbThread \in Threads /\ at[CbThread] = "idle" /\ handler = "join"
          /\ index' = index /\ at'[CbThread] \in {"addCheck", "removeCheck", "raised"}
          /\ \A u \in Threads \ {CbThread} : at'[u] = at[u]
      BY <1>3, ClassCalls
    <2>2. index[CbThread] = 0
      BY <2>1 DEF OneHook, OneHookOf, RemoveLabels
    <2>3. OneHookOf(CbThread)'
      BY <2>1, <2>2 DEF OneHookOf, RemoveLabels
    <2>4. \A u \in Threads \ {CbThread} : at[u] = "idle"
      BY <2>1 DEF Turns, Threads
    <2> QED BY <1>2, <2>1, <2>3, <2>4
  <1>4. ASSUME NEW t \in Threads, PCall(t) \/ PThreadStep(t)
        PROVE  OneHook'
    <2>1. OneHookOf(t)'
      BY <1>4, OneHookThread
    <2>2. \A u \in Threads \ {t} : at'[u] = at[u] /\ index'[u] = index[u]
      <3>1. CASE ThreadActs(t)
        BY <3>1, ThreadEffect
      <3>2. CASE CbRaised /\ t = CbThread
        BY <3>2 DEF CbRaised, Raised, Goto, TypeOK
      <3> QED BY <1>4, <3>1, <3>2 DEF ThreadActs, PThreadStep
    <2>3. \A u \in Threads \ {t} : at[u] = "idle"
      <3>1. CASE at[t] # "idle"
        BY <3>1, OneActive
      <3>2. CASE at[t] = "idle"
        <4>1. IF t = CbThread THEN handler = "join" ELSE handler = "idle"
          BY <1>4, <3>2
             DEF PCall, Install, Removes, Uninstalls, AddHook, RemoveHook, Uninstall, CanCall,
                 PThreadStep, CbRaised, ThreadStep, OfObject, AddCheck, AddSet, RemoveCheck,
                 RemoveDel, AddDone, Raised, RemoveDone, UninstallNext, UninstallHook,
                 UninstallDone
        <4> QED BY <3>2, <4>1 DEF Turns, Threads, OneUser
      <3> QED BY <3>1, <3>2
    <2> QED BY <1>2, <2>1, <2>2, <2>3
  <1>5. CASE SwitchStop \/ ProcessStop \/ KernelStop
    <2>1. \E k \in Addr : Stop(k)
      BY <1>5, ProcessAssumption DEF SwitchStop, ProcessStop, KernelStop
    <2> QED BY <1>1, <2>1, StopEffect DEF objectVars
  <1>6. CASE PHandlerStep
    <2>1. OfObject(HandlerStep)
      BY <1>6 DEF PHandlerStep, Begin, End, OfObject, HandlerStep
    <2>2. UNCHANGED <<at, obj, addr, index, hooks>>
      BY <2>1 DEF OfObject, objectVars, HandlerStep, RunNext, Join, RearmBegin, RearmSet, RearmDone,
                  RearmRaises, RearmCheck, callVars
    <2> QED BY <1>1, <2>2
  <1>7. CASE ScheduledSwitch \/ Hooked \/ Unhooked \/ UNCHANGED pvars
    BY <1>1, <1>7 DEF ScheduledSwitch, Hooked, Unhooked, pvars, vars, objectVars, callVars
  <1>8. CASE ProcessSwitch
    BY <1>1, <1>3, <1>8 DEF ProcessSwitch, callVars
  <1> QED BY <1>3, <1>4, <1>5, <1>6, <1>7, <1>8 DEF PNext

(* One thread at a time replaces nobody's list. *)
LEMMA NoneReplacedNext ==
    ASSUME BaseInv, Turns, OneHook, NoneReplaced, [PNext]_pvars, Quiet, OneUser
    PROVE  NoneReplaced'
  <1> USE DEF NoneReplaced
  <1>1. ASSUME NEW t \in Threads, UninstallDone(t)
        PROVE  NoneReplaced'
    <2>1. at[t] = "uninstall"
      BY <1>1 DEF UninstallDone
    <2>2. \A u \in Threads \ {t} : at[u] = "idle" /\ index[u] = 0
      BY <2>1, OneActive DEF OneHook, OneHookOf, RemoveLabels
    <2>3. \A u \in Threads \ {t} : ~Looping(u, obj[t])
      BY <2>2 DEF Looping
    <2> QED BY <1>1, <2>3 DEF UninstallDone
  <1>2. CASE \E t \in Threads, o \in Objects : Uninstall(t, o)
    BY <1>2 DEF Uninstall, Restrict
  <1>3. CASE UNCHANGED replaced
    BY <1>3
  <1>4. \/ \E t \in Threads : UninstallDone(t)
        \/ \E t \in Threads, o \in Objects : Uninstall(t, o)
        \/ UNCHANGED replaced
    <2>1. CASE (ProcessSwitch /\ BeginAdd(CbThread, Self, savedPc)) \/ ProcExec
      BY <2>1, ClassCalls
    <2>2. CASE [Next]_vars
      BY <2>2 DEF Next, vars, Stop, OfObject, Call, AddHook, RemoveHook, ThreadStep, AddDone, Raised,
                  RemoveDone, UninstallNext, UninstallHook
    <2> QED BY <2>1, <2>2, StepsOfCallback
  <1> QED BY <1>1, <1>2, <1>3, <1>4

(* The hooks that an object remembers are those that are registered for    *)
(* it, whatever its callbacks hook and unhook in the middle of stops, and  *)
(* also when it is uninstalled with its one hook (callback.py:64, 111;     *)
(* linux/callbacks.py:54, 57).                                             *)
THEOREM ProcessHooksTracked ==
    ASSUME Quiet, OneUser, Considerate, Refused = {}
    PROVE  PSpec => []HooksTracked
  <1> DEFINE I == Turns /\ OneHook /\ NoneReplaced /\ TrackInv
  <1>1. BaseInv /\ I /\ [PNext]_pvars => I'
    <2> SUFFICES ASSUME BaseInv, I, [PNext]_pvars
                 PROVE  I'
      OBVIOUS
    <2> USE DEF BaseInv, Inv, TypeInv
    <2>1. Turns' /\ OneHook' /\ NoneReplaced'
      BY PTurnsNext, OneHookNext, NoneReplacedNext
    <2>2. CASE [Next]_vars
      <3>1. ASSUME NEW t \in Threads, UninstallDone(t)
            PROVE  hooks[obj[t]] = <<>>
        <4>1. at[t] = "uninstall" /\ index[t] >= Len(hooks[obj[t]])
          BY <3>1 DEF UninstallDone, NoneReplaced, Looped
        <4>2. hooks[obj[t]] = <<>> \/ (index[t] = 0 /\ Len(hooks[obj[t]]) = 1)
          BY <4>1 DEF OneHook, OneHookOf
        <4> QED BY <4>1, <4>2
      <3>2. TrackInv'
        BY <2>2, <3>1, TrackNext
      <3> QED BY <2>1, <3>2
    <2>3. CASE (ProcessSwitch /\ BeginAdd(CbThread, Self, savedPc)) \/ ProcExec
      <3>1. TrackInv'
        BY <2>3, ClassCalls, BeginAddTracked, BeginRemoveTracked DEF ProcExec
      <3> QED BY <2>1, <3>1
    <2> QED BY <2>2, <2>3, StepsOfCallback
  <1>2. PInit => I
    <2>1. PInit => TrackInv
      BY TrackInit DEF PInit
    <2>2. PInit => Turns
      BY ArmInit DEF PInit, ArmInv
    <2>3. PInit => OneHook /\ NoneReplaced
      BY DEF PInit, Init, ManagerInit, OneHook, OneHookOf, RemoveLabels, NoneReplaced
    <2> QED BY <2>1, <2>2, <2>3
  <1>3. BaseInv /\ I => HooksTracked
    BY TrackTracks DEF BaseInv
  <1> QED BY BaseInit, BaseNext, <1>1, <1>2, <1>3, PTL DEF PSpec

(* A stop in the kernel runs its list from end to end, as the list only    *)
(* grows.  Where a process goes on there was at most one callback when the *)
(* guest stopped; it removes itself, but not before it has been begun.     *)
Served ==
    Dispatching =>
        /\ handler = "join" => pos > 0
        /\ hit \in Symbols => Progress
        /\ hit \in UserPcs =>
              /\ listed \in Seq(Objects) /\ Len(listed) <= 1
              /\ IF pos = 0 THEN List(hit) = listed ELSE ToSet(listed) \subseteq ToSet(ran)

LEMMA ServedKept ==
    ASSUME BaseInv, Served, UNCHANGED <<hit, pos, ran, listed>>,
           \/ handler' = handler
           \/ handler = "join" /\ handler' = "next",
           Dispatching /\ hit \in Symbols => Progress',
           Dispatching /\ hit \in UserPcs /\ pos = 0 => List(hit)' = List(hit)
    PROVE  Served'
  <1> SUFFICES ASSUME Dispatching'
               PROVE  Served'
    BY DEF Served
  <1>1. Dispatching /\ (handler' = "join" => handler = "join")
    BY DEF Dispatching
  <1> QED BY <1>1 DEF Served

LEMMA ServedStop ==
    ASSUME BaseInv, OrderInv, NEW k \in Addr, Stop(k)
    PROVE  Served'
  <1> USE DEF BaseInv, Inv, TypeInv
  <1>1. handler' = "next" /\ hit' = k /\ pos' = 0 /\ listed' = List(k) /\ List(k)' = List(k)
    BY StopEffect DEF Stop, OfObject, Fire
  <1>2. Progress'
    BY StopProgress
  <1>3. List(hit)' = List(k)
    BY <1>1 DEF List
  <1>4. List(k) \in Seq(Objects)
    BY ListType
  <1>5. k \in UserPcs => Len(List(k)) <= 1
    BY DEF OrderInv, OrderRest, OneWaits
  <1> QED BY <1>1, <1>2, <1>3, <1>4, <1>5 DEF Served

LEMMA ServedBegin ==
    ASSUME BaseInv, Served, Begin
    PROVE  Served'
  <1> USE DEF BaseInv, Inv, TypeInv
  <1>1. /\ Dispatching /\ handler' = "join" /\ pos' = pos + 1 /\ pos \in Nat
        /\ hit' = hit /\ listed' = listed /\ pos < Len(List(hit))
        /\ ran' = Append(ran, List(hit)[pos + 1]) /\ ran \in Seq(Objects)
    BY DEF Begin, OfObject, RunNext, Dispatching, PTypes
  <1>2. ASSUME hit \in Symbols
        PROVE  Progress'
    BY <1>1, <1>2, HandlerProgress DEF Served, Begin, OfObject, HandlerStep
  <1>3. ASSUME hit \in UserPcs
        PROVE  ToSet(listed') \subseteq ToSet(ran')
    <2>1. List(hit)[pos + 1] \in Objects
      BY BeginEffect
    <2>2. ToSet(ran) \cup {List(hit)[pos + 1]} \subseteq ToSet(ran')
      <3> DEFINE o == List(hit)[pos + 1]
      <3> HIDE DEF o
      <3>1. ran' = Append(ran, o) /\ o \in Objects
        BY <1>1, <2>1 DEF o
      <3>2. /\ Len(ran') = Len(ran) + 1 /\ ran' \in Seq(Objects) /\ ran'[Len(ran) + 1] = o
            /\ \A i \in 1..Len(ran) : ran'[i] = ran[i]
        BY <1>1, <3>1, AppendProperties
      <3>3. Len(ran) \in Nat
        BY <1>1
      <3> QED BY <1>1, <3>2, <3>3 DEF ToSet, o
    <2>3. CASE pos = 0
      <3>1. listed = List(hit) /\ Len(listed) <= 1 /\ listed \in Seq(Objects) /\ 0 < Len(listed)
        BY <1>1, <1>3, <2>3 DEF Served
      <3>2. Len(listed) = 1
        <4>1. Len(listed) \in Nat
          BY <3>1
        <4>2. \A n \in Nat : 0 < n /\ n <= 1 => n = 1
          OBVIOUS
        <4> QED BY <3>1, <4>1, <4>2
      <3>3. ToSet(listed) = {List(hit)[1]}
        BY <3>1, <3>2 DEF ToSet
      <3> QED BY <1>1, <2>2, <2>3, <3>3
    <2>4. CASE pos # 0
      BY <1>1, <1>3, <2>2, <2>4 DEF Served
    <2> QED BY <2>3, <2>4
  <1>4. pos' > 0
    BY <1>1
  <1> QED BY <1>1, <1>2, <1>3, <1>4 DEF Served

(* The handler's other steps, and those of the callback that it runs *)
LEMMA ServedHandler ==
    ASSUME BaseInv, Served, PHandlerStep, ~Begin
    PROVE  Served'
  <1> USE DEF BaseInv, Inv, TypeInv
  <1>1. CASE End
    <2>1. /\ handler = "join" /\ handler' = "next"
          /\ UNCHANGED <<registry, hit, pos, ran, listed>>
      BY <1>1 DEF End, OfObject, Join
    <2>2. Dispatching /\ hit \in Symbols => Progress'
      BY <1>1, HandlerProgress DEF Served, End, OfObject, HandlerStep
    <2> QED BY <2>1, <2>2, ServedKept DEF List
  <1>2. CASE ~End
    <2>1. handler' \notin {"next", "join"}
      BY <1>2 DEF PHandlerStep, OfObject, RearmBegin, RearmSet, RearmDone, RearmRaises, RearmCheck
    <2> QED BY <2>1 DEF Served, Dispatching
  <1> QED BY <1>1, <1>2

LEMMA ServedScript ==
    ASSUME BaseInv, Served, ScheduledSwitch \/ Hooked \/ Unhooked \/ ProcessSwitch \/ ProcExec
    PROVE  Served'
  <1> USE DEF BaseInv, Inv, TypeInv
  <1>1. UNCHANGED dispatchVars
    BY DEF ScheduledSwitch, Hooked, Unhooked, ProcessSwitch, ProcExec, vars
  <1>2. CASE UNCHANGED registry
    BY <1>1, <1>2, ProgressKept, ServedKept DEF dispatchVars, Grows, List, Served
  <1>3. CASE ProcessSwitch /\ BeginAdd(CbThread, Self, savedPc)
    <2>1. hit = SwitchTo /\ savedPc \in UserPcs /\ SwitchTo \in Symbols /\ hit \notin UserPcs
      BY <1>3, ProcessAssumption
         DEF ProcessSwitch, CbRests, ScriptInv, StopInv, Dispatching, UserPcs
    <2>2. List(hit)' = List(hit)
      BY <1>1, <1>3, <2>1, ListAfter DEF BeginAdd, Register, dispatchVars, UserPcs, List
    <2> QED BY <1>1, <2>1, <2>2, ProgressKept, ServedKept DEF dispatchVars, Grows, Served
  <1>4. CASE ProcExec
    <2>1. handler = "join" /\ hit \in UserPcs /\ hit \notin Symbols
      BY <1>4 DEF ProcExec, CbRests, ScriptInv, UserPcs
    <2>2. pos # 0
      BY <2>1 DEF Served, Dispatching
    <2> QED BY <1>1, <2>1, <2>2, ServedKept DEF dispatchVars
  <1> QED BY <1>2, <1>3, <1>4 DEF ScheduledSwitch, Hooked, Unhooked, ProcessSwitch, vars

(* A considerate program's run() may add callbacks of the stop it runs     *)
(* for, and removes none.                                                  *)
LEMMA ServedThread ==
    ASSUME BaseInv, OrderInv, Served, Sequential, NEW t \in Threads, ThreadActs(t)
    PROVE  Served'
  <1> USE DEF BaseInv, Inv, TypeInv
  <1>1. UNCHANGED dispatchVars
    BY ThreadEffect
  <1>2. CASE t # CbThread
    <2>1. handler = "idle"
      BY <1>2, ThreadTurn DEF ItsTurn, Sequential
    <2> QED BY <1>1, <2>1 DEF dispatchVars, Served, Dispatching
  <1>3. CASE t = CbThread
    <2>1. handler = "join" /\ hit \in Addr
      BY <1>3, ThreadTurn DEF ItsTurn, Sequential, StopInv, Dispatching
    <2>2. pos # 0
      BY <2>1 DEF Served, Dispatching
    <2>3. Grows(hit)
      <3>1. CASE Install(t)
        <4>1. PICK o \in Objects, k \in Addr : Register(o, k)
          BY <3>1, ProcessAssumption DEF Install, AddHook, BeginAdd
        <4>2. \A a : List(a)' = IF a = k THEN Append(List(k), o) ELSE List(a)
          BY <4>1, ListAfter DEF Register
        <4>3. hit' = hit
          BY <1>1 DEF dispatchVars
        <4> QED BY <4>2, <4>3 DEF Grows, List
      <3>2. CASE Removes(t)
        <4>1. PICK o \in Objects, k \in Addr : k # hit /\ Unregister(o, k)
          BY <1>3, <3>2, ProcessAssumption DEF Removes, RemoveHook, BeginRemove, Sequential
        <4>2. \A a : a # k => List(a)' = List(a)
          BY <4>1, ListAfter DEF Unregister
        <4>3. hit' = hit
          BY <1>1 DEF dispatchVars
        <4> QED BY <4>1, <4>2, <4>3 DEF Grows, List
      <3>3. ~UninstallHook(t)
        BY <1>3, UninstallLists
      <3>4. CASE UNCHANGED registry
        BY <1>1, <3>4 DEF Grows, List, dispatchVars
      <3> QED BY <3>1, <3>2, <3>3, <3>4
              DEF ThreadActs, PCall, Uninstalls, Uninstall, ThreadStep, OfObject, AddCheck, AddSet,
                  RemoveCheck, RemoveDel, AddDone, Raised, RemoveDone, UninstallNext, UninstallDone
    <2> QED BY <1>1, <2>1, <2>2, <2>3, ProgressKept, ServedKept DEF dispatchVars, Served
  <1> QED BY <1>2, <1>3

LEMMA ServedNext ==
    ASSUME BaseInv, OrderInv, Served, [PNext]_pvars, Sequential
    PROVE  Served'
  <1>1. CASE SwitchStop \/ ProcessStop \/ KernelStop
    <2>1. \E k \in Addr : Stop(k)
      BY <1>1, ProcessAssumption DEF SwitchStop, ProcessStop, KernelStop
    <2> QED BY <2>1, ServedStop
  <1>2. CASE PHandlerStep
    BY <1>2, ServedBegin, ServedHandler
  <1>3. CASE ScheduledSwitch \/ Hooked \/ Unhooked \/ ProcessSwitch \/ ProcExec
    BY <1>3, ServedScript
  <1>4. ASSUME NEW t \in Threads, PCall(t) \/ PThreadStep(t)
        PROVE  Served'
    <2>1. CASE ThreadActs(t)
      BY <2>1, ServedThread
    <2>2. CASE CbRaised
      <3>1. UNCHANGED <<registry, dispatchVars>>
        BY <2>2 DEF CbRaised, Raised
      <3> QED BY <3>1, ProgressKept, ServedKept
              DEF BaseInv, Inv, TypeInv, dispatchVars, Grows, List, Served
    <2> QED BY <1>4, <2>1, <2>2 DEF ThreadActs, PThreadStep
  <1>5. CASE UNCHANGED pvars
    <2>1. UNCHANGED <<registry, dispatchVars>>
      BY <1>5 DEF pvars, vars
    <2> QED BY <2>1, ProgressKept, ServedKept
            DEF BaseInv, Inv, TypeInv, dispatchVars, Grows, List, Served
  <1> QED BY <1>1, <1>2, <1>3, <1>4, <1>5 DEF PNext

(* A stop runs every callback that was there and still is: in the kernel   *)
(* callbacks may add more, and where a process goes on the one that waits  *)
(* removes itself only when its turn has come (callback_manager.py:199,    *)
(* linux/callbacks.py:57).                                                 *)
THEOREM ProcessCallbacksRun ==
    ASSUME Sequential, OneEach
    PROVE  PSpec => []EveryCallbackRuns
  <1>1. BaseInv /\ OrderInv /\ Served /\ [PNext]_pvars => OrderInv' /\ Served'
    BY OrderNext, ServedNext
  <1>2. PInit => Served
    BY DEF PInit, Init, ManagerInit, Served, Dispatching
  <1>3. BaseInv /\ Served => EveryCallbackRuns
    <2> SUFFICES ASSUME BaseInv, Served, handler = "next", pos >= Len(List(hit)),
                        NEW o \in ToSet(listed) \cap ToSet(List(hit))
                 PROVE  o \in ToSet(ran)
      BY DEF EveryCallbackRuns
    <2>1. Dispatching /\ hit \in Addr /\ pos \in Nat /\ List(hit) \in Seq(Objects)
      BY ListType DEF Dispatching, BaseInv, StopInv, PTypes, Inv, TypeInv
    <2>2. CASE hit \in Symbols
      <3>1. pos = Len(List(hit)) /\ ran \in Seq(Objects) /\ Len(ran) = pos
        BY <2>1, <2>2 DEF Served, Progress
      <3>2. PICK i \in 1..Len(List(hit)) : o = List(hit)[i]
        BY <2>1 DEF ToSet
      <3>3. i \in DOMAIN ran /\ ran[i] = o
        BY <2>1, <2>2, <3>1, <3>2 DEF Served, Progress
      <3> QED BY <3>3 DEF ToSet
    <2>3. CASE hit \in UserPcs
      <3>1. pos # 0
        <4>1. Len(List(hit)) # 0
          BY <2>1, EmptySeq DEF ToSet
        <4>2. Len(List(hit)) \in Nat
          BY <2>1
        <4> QED BY <2>1, <4>1, <4>2
      <3> QED BY <2>1, <2>3, <3>1 DEF Served
    <2> QED BY <2>1, <2>2, <2>3 DEF UserPcs
  <1> QED BY BaseInit, BaseNext, OrderInit, <1>1, <1>2, <1>3, PTL DEF PSpec
=============================================================================

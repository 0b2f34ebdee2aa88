--------------------------- MODULE ProcessCallbacks -------------------------
(***************************************************************************)
(* The callback classes of src/monk_plugins/linux/callbacks.py on top of   *)
(* Callback: OnExecute ("execute"), OnProcessScheduled ("scheduled") and   *)
(* OnProcessExecute ("process").  The last hooks the kernel's __switch_to; *)
(* when its process is switched to, it hooks the address at which the      *)
(* process goes on, and there removes that hook and runs.  The function    *)
(* that an object hooks an address with follows from the address.          *)
(*                                                                         *)
(* The guest switches between processes; what a callback reads of it (r2,  *)
(* the name and the saved registers of the thread, see Forensics) does not *)
(* change while it is halted.                                              *)
(***************************************************************************)
EXTENDS Callback

CONSTANTS
    Class,      \* object -> "execute", "scheduled", "process"
    ProcName,   \* object -> name of its process, or NoProcess
    Symbols,    \* addresses of kernel functions
    SwitchTo,   \* the address of __switch_to
    Processes,  \* names of processes
    KernelProcesses,    \* those without a user space (addr_limit is 0)
    Pcs,        \* process -> addresses at which it goes on
    Prompt,     \* TRUE: a process goes on before the next switch
    Considerate,    \* TRUE: calls that the code gets wrong are not made
    NoProcess

ASSUME ProcessAssumption ==
    /\ Class \in [Objects -> {"execute", "scheduled", "process"}]
    /\ SwitchTo \in Symbols /\ Symbols \subseteq Addr
    /\ Pcs \in [Processes -> SUBSET (Addr \ Symbols)]
    /\ KernelProcesses \subseteq Processes /\ NoProcess \notin Processes
    /\ Prompt \in BOOLEAN /\ Considerate \in BOOLEAN
    /\ ProcName \in [Objects -> Processes \cup {NoProcess}]

VARIABLES
    script,         \* control label of the callback that the handler runs
    cbProcExec,     \* _cb_proc_exec of each object: the address of the hook
    owed,           \* switches to an object's process minus calls of its run()
    running,        \* the process switched to last
    savedPc         \* where a callback finds that it goes on

guestVars == <<running, savedPc>>
processVars == <<script, cbProcExec, owed, guestVars>>
pvars == <<vars, processVars>>

PInit ==
    /\ Init
    /\ script = "none"
    /\ cbProcExec = [o \in Objects |-> NoAddr]
    /\ owed = [o \in Objects |-> 0]
    /\ running \in Processes
    /\ savedPc = NoAddr

Self == Last(ran)

----------------------------------------------------------------------------
(* The guest *)

(* r2 is the thread that is switched to.  The registers of a kernel        *)
(* process are read from the thread that is left (get_kernel_regs is       *)
(* called without a thread).                                               *)
SwitchStop ==
    /\ Prompt => savedPc \notin bps
    /\ Stop(SwitchTo)
    /\ \E p \in Processes :
          /\ running' = p
          /\ savedPc' \in Pcs[IF p \in KernelProcesses THEN running ELSE p]
    /\ UNCHANGED <<script, cbProcExec, owed>>

(* A switch is not noticed if __switch_to has no breakpoint. *)
ProcessStop ==
    /\ \E p \in Processes, k \in Addr \ Symbols :
          /\ p = running \/ SwitchTo \notin bps
          /\ k \in Pcs[p]
          /\ Stop(k)
          /\ running' = p
    /\ savedPc' = NoAddr
    /\ UNCHANGED <<script, cbProcExec, owed>>

KernelStop ==
    /\ \E k \in Symbols \ {SwitchTo} : Stop(k)
    /\ UNCHANGED processVars

----------------------------------------------------------------------------
(* The callback's thread *)

Begin ==
    /\ OfObject(RunNext)
    /\ script' = IF Class[Last(ran')] = "execute" THEN "run"
                 ELSE IF hit = SwitchTo THEN "onSwitchTo" ELSE "onProcExec"
    /\ UNCHANGED <<cbProcExec, owed, guestVars>>

End ==
    /\ script \in {"none", "run"}
    /\ OfObject(Join)
    /\ script' = "none"
    /\ UNCHANGED <<cbProcExec, owed, guestVars>>

CbRests(label) == script = label /\ at[CbThread] = "idle"

(* Defect: the names are not compared. *)
IsWantedAny(o) == TRUE

IsWanted(o) == ProcName[o] = running

ScheduledSwitch ==
    /\ CbRests("onSwitchTo") /\ Class[Self] = "scheduled"
    /\ script' = IF ProcName[Self] = NoProcess \/ IsWanted(Self) THEN "run" ELSE "none"
    /\ UNCHANGED <<vars, cbProcExec, owed, guestVars>>

ProcessSwitch ==
    /\ CbRests("onSwitchTo") /\ Class[Self] = "process"
    /\ IF IsWanted(Self)
          THEN /\ BeginAdd(CbThread, Self, savedPc)
               /\ script' = "hooking"
               /\ owed' = [owed EXCEPT ![Self] = @ + 1]
          ELSE /\ script' = "none"
               /\ UNCHANGED <<registry, callVars, hookLock, owed>>
    /\ UNCHANGED <<bps, dispatchVars, hooks, index, replaced, calls, cbProcExec, guestVars>>

(* Defect: a hook is remembered only if none is. *)
HookedFirst ==
    /\ CbRests("hooking")
    /\ cbProcExec' = [cbProcExec EXCEPT ![Self] = IF @ = NoAddr THEN savedPc ELSE @]
    /\ script' = "none"
    /\ UNCHANGED <<vars, owed, guestVars>>

(* The hook that add_hook returns replaces the one before. *)
Hooked ==
    /\ CbRests("hooking")
    /\ cbProcExec' = [cbProcExec EXCEPT ![Self] = savedPc]
    /\ script' = "none"
    /\ UNCHANGED <<vars, owed, guestVars>>

(* Defect: run() is called, but the hook stays. *)
ProcExecKeeps ==
    /\ CbRests("onProcExec")
    /\ script' = "removing"
    /\ UNCHANGED <<vars, cbProcExec, owed, guestVars>>

ProcExec ==
    /\ CbRests("onProcExec")
    /\ BeginRemove(CbThread, Self, cbProcExec[Self])
    /\ script' = "removing"
    /\ UNCHANGED <<bps, dispatchVars, hooks, index, replaced, calls, cbProcExec, owed, guestVars>>

Unhooked ==
    /\ CbRests("removing")
    /\ script' = "run"
    /\ owed' = [owed EXCEPT ![Self] = @ - 1]
    /\ UNCHANGED <<vars, cbProcExec, guestVars>>

(* What add_hook or remove_hook raises ends the callback. *)
CbRaised ==
    /\ Raised(CbThread)
    /\ script' = IF script = "run" THEN "run" ELSE "none"
    /\ UNCHANGED <<cbProcExec, owed, guestVars>>

----------------------------------------------------------------------------
(* Calls of the program, and of run(): the constructors and install() hook *)
(* a kernel function.  A considerate program installs an OnProcessExecute  *)
(* once, uninstalls what has one hook, and its callbacks remove no hook of *)
(* the address they run for.                                               *)

Install(t) ==
    \E o \in Objects : \E k \in IF Class[o] = "execute" THEN Symbols ELSE {SwitchTo} :
        /\ Considerate => ~(Class[o] = "process" /\ Contains(List(k), o))
        /\ AddHook(t, o, k)

Removes(t) ==
    \E o \in Objects, k \in Symbols :
        /\ Considerate /\ t = CbThread => k # hit
        /\ RemoveHook(t, o, k)

Uninstalls(t) ==
    \E o \in Objects :
        /\ Considerate => Len(hooks[o]) < 2
        /\ Uninstall(t, o)
        /\ owed' = [owed EXCEPT ![o] = 0]

PCall(t) ==
    /\ t = CbThread => script = "run"
    /\ \/ (Install(t) \/ Removes(t)) /\ UNCHANGED owed
       \/ Uninstalls(t)
    /\ UNCHANGED <<script, cbProcExec, guestVars>>

PThreadStep(t) ==
    \/ CbRaised /\ t = CbThread
    \/ ThreadStep(t) /\ ~(at[t] = "raised" /\ t = CbThread) /\ UNCHANGED processVars

PHandlerStep ==
    \/ Begin
    \/ End
    \/ OfObject(RearmBegin \/ RearmSet \/ RearmDone \/ RearmRaises) /\ UNCHANGED processVars
    \/ \E k \in todo : OfObject(RearmCheck(k)) /\ UNCHANGED processVars

PNext ==
    \/ SwitchStop \/ ProcessStop \/ KernelStop
    \/ PHandlerStep
    \/ ScheduledSwitch \/ ProcessSwitch \/ Hooked \/ ProcExec \/ Unhooked
    \/ \E t \in Threads : PCall(t) \/ PThreadStep(t)

PSpec == PInit /\ [][PNext]_pvars

----------------------------------------------------------------------------
(* Properties *)

IsProcess(o) == Class[o] = "process"
Waits(o, k) == Contains(List(k), o)
Waiting(o) ==
    UNION {{k} \X {i \in DOMAIN List(k) : List(k)[i] = o} : k \in Addr \ Symbols}
Between(o) == AtRest(o) /\ script \in {"none", "run"}

(* Each switch to the process of an OnProcessExecute leads to one run(),   *)
(* now or at a hook that still waits (callbacks.py:38-58).                 *)
EachSwitchRuns ==
    \A o \in Objects : IsProcess(o) /\ Between(o) => owed[o] = Cardinality(Waiting(o))

(* run() of a process's callback is called when that process is running    *)
(* or switched to (callbacks.py:31, 41, 56).                               *)
RunsForItsProcess ==
    script = "run" /\ Class[Self] # "execute" /\ ProcName[Self] # NoProcess =>
        ProcName[Self] = running

(* A hook that waits for a process is the one _on_proc_exec would remove   *)
(* (callbacks.py:54, 57).                                                  *)
HookIsLatest ==
    \A o \in Objects, k \in Addr \ Symbols :
        IsProcess(o) /\ Between(o) /\ Waits(o, k) => cbProcExec[o] = k
=============================================================================

----------------------------- MODULE Forensics ------------------------------
(***************************************************************************)
(* A program that reads and writes kernel structs through their objects    *)
(* and walks the kernel's task list (src/monk_plugins/linux/forensics.py)  *)
(* while a callback does the same.  The guest is halted, so its memory     *)
(* changes by these threads alone; a request with its reply is one step,   *)
(* since _rsp_lock keeps them together (rsp_target.py:300-335).            *)
(*                                                                         *)
(* A label names what a thread is reading; when its requests are done, the *)
(* action for the label goes on.  `wanted' is the memory that C's          *)
(* assignments would have made.                                            *)
(***************************************************************************)
EXTENDS Structs, FiniteSets

CONSTANTS
    Threads,    \* "main", and callbacks
    Backends,   \* "rsp", "gdb"
    Memories,   \* guest memories to begin with
    Sp,         \* the stack pointer (read_register("sp"))
    StackSize,  \* 0x2000
    Tasks,      \* addresses of the tasks of the guest
    Given,      \* tasks the threads name in a call
    MayGet,     \* fields of tasks the threads read
    MayAssign,  \* field -> lists of values the threads assign to it
    MayCall,    \* names of the other calls the threads make
    Sought,     \* task names the threads look for
    Careful,    \* TRUE: pids stay unique, and as they are during a walk
    Budget      \* bound: calls of each thread

ASSUME ForensicsAssumption ==
    /\ Tasks \subseteq Mapped \ {0} /\ Given \subseteq Tasks
    /\ Careful \in BOOLEAN /\ Budget \in Nat
    /\ Backends \subseteq {"rsp", "gdb"}

VARIABLES
    backend,    \* the backend in use
    mem,        \* guest memory
    wanted,     \* ... as it should be
    at,         \* control label of each thread
    call,       \* the call a thread makes
    queue,      \* requests it has still to make for its label
    got,        \* what it has read for its label
    cur,        \* t: the task a walk has come to
    first,      \* first_pid
    visited,    \* task_list, or the tasks walk_tasks has printed
    result,     \* what its last call returned
    touched,    \* another thread has written since the call began
    calls       \* calls made (only to bound the model)

memVars == <<backend, mem, wanted, touched>>
readVars == <<queue, got>>
walkVars == <<cur, first, visited>>
vars == <<memVars, at, call, readVars, walkVars, result, calls>>

None == [kind |-> "none", val |-> <<>>]
Raised == [kind |-> "raised", val |-> <<>>]
Value(list) == [kind |-> "value", val |-> list]
Call(name, field, list, task) == [list |-> list, name |-> name, task |-> task, field |-> field]
NoCall == Call("none", "none", <<>>, 0)

Attr(field) == Json["task_struct"][field]
Walks == {"find", "list", "walk", "setByName"}
Busy(t) == at[t] \notin {"idle", "returned"}

Init ==
    /\ backend \in Backends
    /\ mem \in Memories /\ wanted = mem
    /\ at = [t \in Threads |-> "idle"]
    /\ call = [t \in Threads |-> NoCall]
    /\ queue = [t \in Threads |-> <<>>] /\ got = [t \in Threads |-> <<>>]
    /\ cur = [t \in Threads |-> 0] /\ first = [t \in Threads |-> 0]
    /\ visited = [t \in Threads |-> <<>>]
    /\ result = [t \in Threads |-> None]
    /\ touched = [t \in Threads |-> FALSE]
    /\ calls = [t \in Threads |-> 0]

----------------------------------------------------------------------------
(* Requests *)

Reads(t, label, base, attr) ==
    /\ at' = [at EXCEPT ![t] = label]
    /\ queue' = [queue EXCEPT ![t] = GetRequests(base, attr)]
    /\ got' = [got EXCEPT ![t] = <<>>]

Returns(t, value) ==
    /\ at' = [at EXCEPT ![t] = "returned"]
    /\ result' = [result EXCEPT ![t] = value]
    /\ queue' = [queue EXCEPT ![t] = <<>>] /\ got' = [got EXCEPT ![t] = <<>>]
    /\ cur' = [cur EXCEPT ![t] = 0] /\ first' = [first EXCEPT ![t] = 0]
    /\ visited' = [visited EXCEPT ![t] = <<>>]

(* The reply to a read of what is not mapped is no number, and a refused   *)
(* write raises.                                                           *)
RequestFails(t) ==
    /\ queue[t] # <<>>
    /\ LET r == Head(queue[t])
       IN  \/ ~Reachable(r.addr, r.size)
           \/ backend = "rsp" /\ r.do = "write" /\ ~Fits(r.val, r.size)
    /\ Returns(t, Raised)
    /\ UNCHANGED <<memVars, call, calls>>

ReadRequest(t) ==
    /\ queue[t] # <<>>
    /\ LET r == Head(queue[t])
       IN  /\ r.do = "read" /\ Reachable(r.addr, r.size)
           /\ got' = [got EXCEPT ![t] = Append(@, Load(mem, r.addr, r.size))]
    /\ queue' = [queue EXCEPT ![t] = Tail(@)]
    /\ UNCHANGED <<memVars, at, call, walkVars, result, calls>>

WriteRequest(t) ==
    /\ queue[t] # <<>>
    /\ LET r == Head(queue[t])
       IN  /\ r.do = "write" /\ Reachable(r.addr, r.size)
           /\ mem' = Store(backend, mem, r.addr, r.val, r.size)
           /\ wanted' = CAssign(wanted, cur[t], Attr(call[t].field), r.elem,
                                call[t].list[r.elem + 1])
    /\ touched' = [u \in Threads |-> touched[u] \/ u # t]
    /\ queue' = [queue EXCEPT ![t] = Tail(@)]
    /\ UNCHANGED <<backend, at, call, got, walkVars, result, calls>>

Has(t, label) == at[t] = label /\ queue[t] = <<>>

----------------------------------------------------------------------------
(* Calls.  A task of 0 (None) stands for the current one: get_task reads   *)
(* it from the thread_info at the bottom of the stack (get_thread).        *)

ThreadOf(sp) == sp - (sp % StackSize)

Begins(t, c) ==
    /\ ~Busy(t) /\ calls[t] < Budget
    /\ backend = "gdb" => t = "main"
    /\ calls' = [calls EXCEPT ![t] = @ + 1]
    /\ call' = [call EXCEPT ![t] = c]
    /\ touched' = [touched EXCEPT ![t] = FALSE]
    /\ result' = [result EXCEPT ![t] = None]
    /\ IF c.task = 0
          THEN Reads(t, "begin", ThreadOf(Sp), Json["thread_info"]["task"])
          ELSE /\ at' = [at EXCEPT ![t] = "begin"]
               /\ got' = [got EXCEPT ![t] = <<c.task>>] /\ UNCHANGED queue
    /\ UNCHANGED <<backend, mem, wanted, walkVars>>

(* Getters, and get_pid, get_proc_name on top of them *)
CallGet(t) ==
    \E f \in MayGet, task \in Given \cup {0} :
        Begins(t, Call("get", f, <<>>, task))

Pids == {CValue(mem, x, Attr("pid")) : x \in Tasks}
Harmless(f, list) ==
    Careful /\ f = "pid" =>
        list \notin Pids /\ \A u \in Threads : Busy(u) => call[u].name = "get"

(* Setters, and set_task_pid on top of one *)
CallSet(t) ==
    \E f \in DOMAIN MayAssign, task \in Given \cup {0} : \E list \in MayAssign[f] :
        /\ Harmless(f, list)
        /\ Begins(t, Call("set", f, list, task))

(* find_task, get_task_list, walk_tasks.  set_task_pid with a name ends in *)
(* a TypeError: find_task returns an object and not its address.           *)
CallWalk(t) ==
    \E name \in MayCall \cap Walks, sought \in Sought \cup {<<>>}, task \in Given \cup {0} :
        /\ name \in {"find", "setByName"} => task = 0
        /\ name \in {"list", "walk"} <=> sought = <<>>
        /\ Careful => \A u \in Threads : Busy(u) => call[u].field # "pid"
        /\ Begins(t, Call(name, "none", sought, task))

(* get_root_task calls get_task without its target, set_task_name calls    *)
(* _get_task likewise: a TypeError or AttributeError before any request.   *)
CallRaises(t) ==
    /\ ~Busy(t) /\ calls[t] < Budget
    /\ \E name \in MayCall \cap {"get_root_task", "set_task_name"} :
          call' = [call EXCEPT ![t] = Call(name, "none", <<>>, 0)]
    /\ calls' = [calls EXCEPT ![t] = @ + 1]
    /\ Returns(t, Raised)
    /\ UNCHANGED memVars

----------------------------------------------------------------------------
(* Access to a field *)

(* A struct is read as an object and cannot be assigned: isinstance is     *)
(* called with one argument.  Other kinds read as None and ignore values.  *)
BeginField(t, base, attr) ==
    \/ /\ attr.kind \in class_types
       /\ Returns(t, IF call[t].name = "get" THEN Value(<<base + attr.offset>>) ELSE Raised)
    \/ /\ attr.kind \notin class_types \cup memory_types
       /\ Returns(t, None)
    \/ /\ attr.kind \in memory_types
       /\ call[t].name = "get" \/ attr.kind = "bitfield"
       /\ Reads(t, IF call[t].name = "get" THEN "get" ELSE "bits", base, attr)
       /\ cur' = [cur EXCEPT ![t] = base]
       /\ UNCHANGED <<first, visited, result>>
    \/ /\ attr.kind \in memory_types \ {"bitfield"}
       /\ call[t].name = "set"
       /\ at' = [at EXCEPT ![t] = "set"]
       /\ queue' = [queue EXCEPT ![t] = SetRequests(base, attr, call[t].list)]
       /\ got' = [got EXCEPT ![t] = <<>>]
       /\ cur' = [cur EXCEPT ![t] = base]
       /\ UNCHANGED <<first, visited, result>>

FieldBegins(t) ==
    /\ Has(t, "begin")
    /\ call[t].name \in {"get", "set"}
    /\ BeginField(t, Head(got[t]), Attr(call[t].field))
    /\ UNCHANGED <<memVars, call, calls>>

(* The bits of a field are read and written by two requests. *)
BitsGotten(t) ==
    /\ Has(t, "bits")
    /\ LET attr == Attr(call[t].field)
       IN  queue' = [queue EXCEPT ![t] =
                        <<Write(ElementAddr(cur[t], attr, 0), Width(ElementSize(attr)),
                                BitsWritten(attr, Head(got[t]), Head(call[t].list)), 0)>>]
    /\ at' = [at EXCEPT ![t] = "set"]
    /\ UNCHANGED <<memVars, call, got, walkVars, result, calls>>

FieldGotten(t) ==
    /\ Has(t, "get")
    /\ LET attr == Attr(call[t].field)
       IN  Returns(t, IF attr.kind # "bitfield" THEN Value(got[t])
                      ELSE IF BitsReadable(attr) THEN Value(<<BitsRead(attr, Head(got[t]))>>)
                      ELSE Raised)
    /\ UNCHANGED <<memVars, call, calls>>

FieldSet(t) ==
    /\ Has(t, "set")
    /\ Returns(t, None)
    /\ UNCHANGED <<memVars, call, calls>>

----------------------------------------------------------------------------
(* Walks *)

(* as_string *)
as_string(list) ==
    LET zeros == {i \in DOMAIN list : list[i] = 0}
    IN  IF zeros = {} THEN list ELSE SubSeq(list, 1, Min(zeros) - 1)

ReadsField(t, label, task, field) ==
    /\ Reads(t, label, task, Attr(field))
    /\ cur' = [cur EXCEPT ![t] = task]

(* t.tasks.next *)
ReadsNext(t) ==
    Reads(t, "next", cur[t] + Attr("tasks").offset, Json["list_head"]["next"])

Found(t) == as_string(got[t]) = call[t].list
Finds(t) == call[t].name \in {"find", "setByName"}
IsWalk(t) == call[t].name \in Walks


WalkBegins(t) ==
    /\ Has(t, "begin")
    /\ IsWalk(t)
    /\ IF Finds(t) THEN ReadsField(t, "firstComm", Head(got[t]), "comm")
                   ELSE ReadsField(t, "firstPid", Head(got[t]), "pid")
    /\ visited' = [visited EXCEPT ![t] = IF call[t].name = "list" THEN <<Head(got[t])>> ELSE <<>>]
    /\ UNCHANGED <<memVars, call, first, result, calls>>

FoundTask(t) ==
    IF call[t].name = "find" THEN Value(<<cur[t]>>) ELSE Raised

FirstComm(t) ==
    /\ Has(t, "firstComm")
    /\ IF Found(t)
          THEN Returns(t, FoundTask(t))
          ELSE ReadsField(t, "firstPid", cur[t], "pid") /\ UNCHANGED <<first, visited, result>>
    /\ UNCHANGED <<memVars, call, calls>>

FirstPid(t) ==
    /\ Has(t, "firstPid")
    /\ first' = [first EXCEPT ![t] = Head(got[t])]
    /\ ReadsNext(t)
    /\ UNCHANGED <<memVars, call, cur, visited, result, calls>>

(* The list's pointers lead to the tasks members of the tasks. *)
NextTask(t) == Head(got[t]) - Attr("tasks").offset

(* Defect: the pointer is taken for the task's address. *)
ArrivesUnadjusted(t) ==
    /\ Has(t, "next")
    /\ ReadsField(t, IF Finds(t) THEN "comm" ELSE "pid", Head(got[t]),
                  IF Finds(t) THEN "comm" ELSE "pid")
    /\ visited' = [visited EXCEPT ![t] = IF call[t].name = "list" THEN Append(@, Head(got[t])) ELSE @]
    /\ UNCHANGED <<memVars, call, first, result, calls>>

Arrives(t) ==
    /\ Has(t, "next")
    /\ ReadsField(t, IF Finds(t) THEN "comm" ELSE "pid", NextTask(t),
                  IF Finds(t) THEN "comm" ELSE "pid")
    /\ visited' = [visited EXCEPT ![t] = IF call[t].name = "list" THEN Append(@, NextTask(t)) ELSE @]
    /\ UNCHANGED <<memVars, call, first, result, calls>>

(* Defect: the walk ends at the name it seeks and never otherwise. *)
PidUnchecked(t) ==
    /\ Has(t, "pid")
    /\ IF call[t].name = "walk" THEN ReadsField(t, "comm", cur[t], "comm")
                                ELSE ReadsNext(t) /\ UNCHANGED cur
    /\ UNCHANGED <<memVars, call, first, visited, result, calls>>

(* The walk has come round when the pid is the first one's again. *)
Pid(t) ==
    /\ Has(t, "pid")
    /\ IF Head(got[t]) = first[t]
          THEN IF Finds(t)
                  THEN ReadsField(t, "final", cur[t], "comm") /\ UNCHANGED <<first, visited, result>>
                  ELSE Returns(t, Value(visited[t]))
          ELSE /\ IF call[t].name = "walk" THEN ReadsField(t, "comm", cur[t], "comm")
                                           ELSE ReadsNext(t) /\ UNCHANGED cur
               /\ UNCHANGED <<first, visited, result>>
    /\ UNCHANGED <<memVars, call, calls>>

(* find_task looks at the name before the pid, walk_tasks prints it after. *)
Comm(t) ==
    /\ Has(t, "comm")
    /\ IF Finds(t)
          THEN /\ ReadsField(t, IF Found(t) THEN "final" ELSE "pid", cur[t],
                             IF Found(t) THEN "comm" ELSE "pid")
               /\ UNCHANGED visited
          ELSE /\ ReadsNext(t)
               /\ visited' = [visited EXCEPT ![t] = Append(@, cur[t])]
               /\ UNCHANGED cur
    /\ UNCHANGED <<memVars, call, first, result, calls>>

Final(t) ==
    /\ Has(t, "final")
    /\ Returns(t, IF Found(t) THEN FoundTask(t) ELSE None)
    /\ UNCHANGED <<memVars, call, calls>>

----------------------------------------------------------------------------

Request(t) == RequestFails(t) \/ ReadRequest(t) \/ WriteRequest(t)
Calls(t) == CallGet(t) \/ CallSet(t) \/ CallWalk(t) \/ CallRaises(t)
GoesOn(t) ==
    \/ Request(t) \/ FieldBegins(t) \/ BitsGotten(t) \/ FieldGotten(t) \/ FieldSet(t)
    \/ WalkBegins(t) \/ FirstComm(t) \/ FirstPid(t) \/ Arrives(t) \/ Pid(t) \/ Comm(t)
    \/ Final(t)

Next == \E t \in Threads : Calls(t) \/ GoesOn(t)

Spec == Init /\ [][Next]_vars

(* The stub of a halted guest answers, and threads run; nobody must call.  *)
FairSpec == Spec /\ \A t \in Threads : WF_vars(GoesOn(t))

----------------------------------------------------------------------------
(* Properties *)

(* Assigning to a field of a struct does what the assignment does in C: it *)
(* changes the bytes of that field to the value, in the order of the       *)
(* guest, and leaves the neighbours as they are, whatever other threads    *)
(* assign (structs.py:36-39; "Clear the bits we want to set", :223).       *)
MatchesC == mem = wanted

Quietly(t, name) == at[t] = "returned" /\ call[t].name = name /\ ~touched[t]
InMemory(f) == Attr(f).kind \in memory_types

Current == Load(mem, ThreadOf(Sp) + Json["thread_info"]["task"].offset,
                Width(TypeSize["pointer"]))
Start(t) == IF call[t].task = 0 THEN Current ELSE call[t].task

(* A field that nobody writes meanwhile reads as it does in C, lists       *)
(* element by element (structs.py:67-114; rsp.py:15-20).                   *)
ReadsLikeC ==
    \A t \in Threads :
        Quietly(t, "get") /\ InMemory(call[t].field) /\ Start(t) \in Tasks =>
            result[t] = Value(CValue(mem, Start(t), Attr(call[t].field)))

(* The kernel's list of tasks from x on, in order, and round again *)
Successor(x) ==
    CLoad(mem, x + Attr("tasks").offset, Json["list_head"]["next"], 0) - Attr("tasks").offset
Path(x) ==
    LET nth[n \in Nat] == IF n = 0 THEN x ELSE Successor(nth[n - 1])
    IN  [i \in 1..(Cardinality(Tasks) + 1) |-> nth[i - 1]]
Size(x) == Cardinality(ToSet(Path(x)))
Named(x, name) == as_string(CValue(mem, x, Attr("comm"))) = name

(* find_task returns the first task of that name, counted from the current *)
(* one, and None only if no task of the list has it (forensics.py:60-97).  *)
FindsTask ==
    \A t \in Threads : Quietly(t, "find") /\ Current \in Tasks =>
        LET path == Path(Current)
            hits == {i \in DOMAIN path : Named(path[i], call[t].list)}
        IN  result[t] = IF hits = {} THEN None ELSE Value(<<path[Min(hits)]>>)


(* Every call returns or raises: a walk comes round (forensics.py:86, 117, *)
(* 138).                                                                   *)
CallsEnd == \A t \in Threads : Busy(t) ~> ~Busy(t)
=============================================================================

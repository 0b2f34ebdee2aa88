----------------------------- MODULE RspTarget -----------------------------
(***************************************************************************)
(* RspTarget (src/monk/backends/rsp_helpers/rsp_target.py): the object     *)
(* that every thread of a Monk program shares.  A thread is at a control   *)
(* label; each action is the code from one label to the next, and ends     *)
(* where the code may block (a lock, a queue, a join) or where another     *)
(* thread can change what it read.                                         *)
(*                                                                         *)
(*   main      the thread that made the RspTarget (_main_thread_id)        *)
(*   event     _stop_events_thread, the loop of _handle_stop_packets       *)
(*   cbMain, cbEvent                                                       *)
(*             the thread that runs one user callback, started and joined  *)
(*             by main (inside cmd_step) or by event (CallbackManager)     *)
(*   Users     any other threads of the program                            *)
(*                                                                         *)
(* on_execute, which CallbackManager installs, is the label "disp": the    *)
(* module Hooks takes a thread from there to DispReturn.                   *)
(***************************************************************************)
EXTENDS GdbStub, FiniteSets

CONSTANTS
    Users,      \* user threads besides main
    MayCall,    \* which API calls a thread of the program makes
    Budget,     \* bound: how many of them
    Careful,    \* threads that touch the target only when it is quiet
    Patient     \* TRUE: what arrives at all arrives before a timeout of 1 s

Main == "main"
Event == "event"
Cbs == {"cbMain", "cbEvent"}
NoThread == "none"
Dispatchers == {Main, Event}
Callers == {Main} \cup Cbs \cup Users
Threads == {Main, Event} \cup Cbs \cup Users
CallNames == {"run", "stop", "step", "read", "add", "remove", "close"}

ASSUME UsersAssumption == Users \cap ({Main, Event, NoThread} \cup Cbs) = {}
ASSUME MayCallAssumption == MayCall \in [Callers -> SUBSET CallNames]
ASSUME BudgetAssumption == Budget \in [Callers -> Nat]
ASSUME CarefulAssumption == Careful \subseteq Callers
ASSUME PatientAssumption == Patient \in BOOLEAN

VARIABLES
    stopped,     \* target_is_stopped
    userStopped, \* _user_stopped
    savedBp,     \* _saved_bp
    cbUnsetBp,   \* _callback_unset_bp
    shutdown,    \* _shutdown_flag
    eventLock,   \* _event_lock: the thread that holds it
    rspLock,     \* _rsp_lock: the thread that holds it
    stopQ,       \* GdbRsp.stop_queue: signals of stop packets
    readQ,       \* GdbRsp's queue of all other packets
    at,          \* control label of each thread
    rq,          \* the request a thread makes, and the label it goes on to
    val,         \* last register value read by a thread
    arg,         \* the address a thread works on (a local called addr)
    stepBack,    \* where main goes on after cmd_step
    dispBack,    \* where the event thread goes on after on_execute
    calls        \* API calls made by each thread (only to bound the model)

queueVars == <<stopQ, readQ>>
flagVars == <<stopped, userStopped, savedBp, cbUnsetBp, shutdown>>
lockVars == <<eventLock, rspLock>>
localVars == <<rq, val, arg>>
backVars == <<stepBack, dispBack>>
targetVars == <<queueVars, flagVars, lockVars, localVars, backVars, at, calls>>

NoRequest == [op |-> "none", addr |-> NoAddr, back |-> "user"]

Cb(t) == IF t = Main THEN "cbMain" ELSE "cbEvent"
Boss(c) == IF c = "cbMain" THEN Main ELSE Event

(* Where a thread is when it has returned from an API call.  After         *)
(* close() has begun, main only finishes close(); the event thread's only  *)
(* call is the cmd_continue at the end of its loop.                        *)
Home(t) ==
    CASE t \in Cbs -> "cb"
      [] t = Event -> "after"
      [] t = Main /\ shutdown -> "detach"
      [] OTHER -> "user"

(* Where an exception takes a thread: the event thread and a callback's    *)
(* thread die of it, the program's own threads get it from the call.       *)
Raised(t) ==
    CASE t \in Cbs -> "end"
      [] t = Event -> "dead"
      [] OTHER -> Home(t)

Labels ==
    {"user", "cb", "off", "end", "send", "recv", "cont", "contLock", "contSend",
     "guard", "stepLock", "stepSend", "stepWait", "stepDisp", "stepSaved", "stepClear",
     "stepEnd", "stop", "stopLock", "stopSend", "unsetPc", "unsetCmp", "loop", "acquire",
     "poll", "why", "whyWait", "unset", "eventDisp", "save", "resume", "after", "done",
     "dead", "closeJoin", "detach", "closed", "disp", "callbacks", "join", "rearm"}

(* Where the code goes on after a request *)
Returns ==
    {"user", "cb", "detach", "closed", "stepDisp", "stepClear", "unset", "unsetPc",
     "unsetCmp", "eventDisp", "rearm"}

Requests == [op : DataOps \cup {"none"}, addr : Addr \cup {NoAddr}, back : Returns]

Go(t, label) == at' = [at EXCEPT ![t] = label]
IsMain(t) == t = Main
StepReturn(t) == IF IsMain(t) THEN stepBack ELSE "contLock"
DispReturn(t) == IF IsMain(t) THEN "stepSaved" ELSE dispBack

----------------------------------------------------------------------------
(* GdbRsp as RspTarget uses it: a reader thread sorts what arrives into    *)
(* the stop queue and the read queue (gdbrsp.py:186-189).                  *)

(* Defect: only T02 is taken for a stop packet. *)
ReaderMissesTrap ==
    /\ fromStub # <<>>
    /\ fromStub' = Tail(fromStub)
    /\ IF Head(fromStub).body = "SIGINT"
          THEN /\ stopQ' = Append(stopQ, Head(fromStub).body)
               /\ UNCHANGED readQ
          ELSE /\ readQ' = Append(readQ, Head(fromStub))
               /\ UNCHANGED stopQ
    /\ UNCHANGED <<toStub, flagVars, lockVars, localVars, backVars, at, calls>>

Reader ==
    /\ fromStub # <<>>
    /\ fromStub' = Tail(fromStub)
    /\ IF Head(fromStub).kind = "stop"
          THEN /\ stopQ' = Append(stopQ, Head(fromStub).body)
               /\ UNCHANGED readQ
          ELSE /\ readQ' = Append(readQ, Head(fromStub))
               /\ UNCHANGED stopQ
    /\ UNCHANGED <<toStub, flagVars, lockVars, localVars, backVars, at, calls>>

(* A request: `with self._rsp_lock: send(..); recv()'.  Send takes the     *)
(* lock, Receive releases it.                                              *)
Ask(t, op, a, back) ==
    /\ rq' = [rq EXCEPT ![t] = [op |-> op, addr |-> a, back |-> back]]
    /\ Go(t, "send")

(* Defect: the request goes out without waiting for _rsp_lock. *)
SendUnlocked(t) ==
    /\ at[t] = "send"
    /\ rspLock' = t
    /\ toStub' = Append(toStub, Packet(rq[t].op, rq[t].addr, t))
    /\ Go(t, "recv")
    /\ UNCHANGED <<fromStub, queueVars, flagVars, eventLock, localVars, backVars, calls>>

Send(t) ==
    /\ at[t] = "send"
    /\ rspLock = NoThread
    /\ rspLock' = t
    /\ toStub' = Append(toStub, Packet(rq[t].op, rq[t].addr, t))
    /\ Go(t, "recv")
    /\ UNCHANGED <<fromStub, queueVars, flagVars, eventLock, localVars, backVars, calls>>

(* Defect: the reply is kept as it came. *)
DecodedRaw(body) == {body}

(* byte_order_int of a reply: an empty one is 0, and one that is no hex    *)
(* string raises ValueError.                                               *)
Decoded(body) ==
    CASE body \in Addr -> {body}
      [] body = "empty" -> {NoAddr}
      [] body = "data" -> Addr \cup {NoAddr}
      [] OTHER -> {}

(* set_sw_breakpoint raises unless the reply is OK.  The error that        *)
(* remove_sw_breakpoint raises is caught by each of its callers.           *)
Raises(op, body) ==
    \/ op = "set" /\ body # "OK"
    \/ op = "pc" /\ Decoded(body) = {}

(* Defect: recv gives up on a reply that is late, and leaves it for the    *)
(* next one.                                                               *)
ReceiveGivesUp(t) ==
    /\ at[t] = "recv"
    /\ readQ' = IF readQ = <<>> THEN readQ ELSE Tail(readQ)
    /\ rspLock' = NoThread
    /\ rq' = [rq EXCEPT ![t] = NoRequest]
    /\ Go(t, rq[t].back)
    /\ UNCHANGED val
    /\ UNCHANGED <<toStub, fromStub, stopQ, flagVars, eventLock, arg, backVars, calls>>

Receive(t) ==
    /\ at[t] = "recv"
    /\ readQ # <<>>
    /\ readQ' = Tail(readQ)
    /\ rspLock' = NoThread
    /\ rq' = [rq EXCEPT ![t] = NoRequest]
    /\ IF Raises(rq[t].op, Head(readQ).body)
          THEN Go(t, Raised(t)) /\ UNCHANGED val
          ELSE /\ Go(t, rq[t].back)
               /\ IF rq[t].op = "pc"
                     THEN \E a \in Decoded(Head(readQ).body) : val' = [val EXCEPT ![t] = a]
                     ELSE UNCHANGED val
    /\ UNCHANGED <<toStub, fromStub, stopQ, flagVars, eventLock, arg, backVars, calls>>

----------------------------------------------------------------------------
(* API calls *)

(* The guest is stopped and everything about it has been handled: what a   *)
(* test of the repository waits for with sleep(1) after a stop             *)
(* (test/behave/features/steps/breakpoints.py:44-45).  Callbacks need not  *)
(* wait: the guest is stopped for them.                                    *)
Quiet ==
    /\ stub.run = "stopped"
    /\ toStub = <<>> /\ fromStub = <<>> /\ stopQ = <<>>
    /\ at[Event] \in {"loop", "acquire", "poll"}

CanCall(t, name) ==
    /\ at[t] = Home(t)
    /\ t \in Careful /\ name \notin {"stop", "close"} => Quiet
    /\ ~shutdown \/ t # Main
    /\ name \in MayCall[t]
    /\ calls[t] < Budget[t]
    /\ calls' = [calls EXCEPT ![t] = @ + 1]

(* read_register, write_register, read_memory, write_memory *)
CallRead(t) ==
    /\ CanCall(t, "read")
    /\ Ask(t, "data", NoAddr, Home(t))
    /\ UNCHANGED <<toStub, fromStub, queueVars, flagVars, lockVars, val, arg, backVars>>

(* Defect: the event thread is refused like any other thread. *)
MayExecuteMainOnly(t) == stopped /\ t = Main

(* _guard_execution: only main and the event thread may execute the guest, *)
(* and only when it is stopped; the event thread not after a user's stop.  *)
MayExecute(t) == stopped /\ ~(t = Event /\ userStopped)

(* cmd_continue called by the program.  The event thread calls it at       *)
(* "resume".                                                               *)
CallRun(t) ==
    /\ CanCall(t, "run")
    /\ Go(t, IF ~IsMain(t) THEN Raised(t) ELSE IF MayExecute(t) THEN "cont" ELSE Home(t))
    /\ UNCHANGED <<toStub, fromStub, queueVars, flagVars, lockVars, localVars, backVars>>

EventResume ==
    /\ at[Event] = "resume"
    /\ Go(Event, IF MayExecute(Event) THEN "cont" ELSE Home(Event))
    /\ UNCHANGED <<toStub, fromStub, queueVars, flagVars, lockVars, localVars, backVars, calls>>

(* rsp_target.py:431-441 *)
Continue(t) ==
    /\ at[t] = "cont"
    /\ userStopped' = FALSE
    /\ Go(t, IF savedBp # NoAddr THEN "guard" ELSE "contLock")
    /\ stepBack' = IF IsMain(t) THEN "contLock" ELSE stepBack
    /\ UNCHANGED <<toStub, fromStub, queueVars, stopped, savedBp, cbUnsetBp, shutdown,
                   lockVars, localVars, dispBack, calls>>

ContinueLock(t) ==
    /\ at[t] = "contLock"
    /\ IF IsMain(t)
          THEN eventLock = NoThread /\ eventLock' = t
          ELSE UNCHANGED eventLock
    /\ Go(t, "contSend")
    /\ UNCHANGED <<toStub, fromStub, queueVars, flagVars, rspLock, localVars, backVars, calls>>

(* Defect: target_is_stopped is not reset. *)
ContinueSendSilently(t) ==
    /\ at[t] = "contSend"
    /\ rspLock = NoThread
    /\ toStub' = Append(toStub, Packet("cont", NoAddr, t))
    /\ eventLock' = IF IsMain(t) THEN NoThread ELSE eventLock
    /\ Go(t, Home(t))
    /\ UNCHANGED <<fromStub, queueVars, flagVars, rspLock, localVars, backVars, calls>>

(* Only main releases the event lock here: the event thread does so at the *)
(* end of its loop.                                                        *)
ContinueSend(t) ==
    /\ at[t] = "contSend"
    /\ rspLock = NoThread
    /\ stopped' = FALSE
    /\ toStub' = Append(toStub, Packet("cont", NoAddr, t))
    /\ eventLock' = IF IsMain(t) THEN NoThread ELSE eventLock
    /\ Go(t, Home(t))
    /\ UNCHANGED <<fromStub, queueVars, userStopped, savedBp, cbUnsetBp, shutdown,
                   rspLock, localVars, backVars, calls>>

----------------------------------------------------------------------------
(* cmd_step *)

CallStep(t) ==
    /\ CanCall(t, "step")
    /\ Go(t, IF IsMain(t) THEN "guard" ELSE Raised(t))
    /\ stepBack' = IF IsMain(t) THEN "user" ELSE stepBack
    /\ UNCHANGED <<toStub, fromStub, queueVars, flagVars, lockVars, localVars, dispBack>>

StepGuard(t) ==
    /\ at[t] = "guard"
    /\ Go(t, IF ~MayExecute(t) THEN StepReturn(t)
             ELSE IF IsMain(t) THEN "stepLock" ELSE "stepSend")
    /\ UNCHANGED <<toStub, fromStub, queueVars, flagVars, lockVars, localVars, backVars, calls>>

(* Defect: a failed acquire is taken for a success. *)
StepLockAnyway(t) ==
    /\ at[t] = "stepLock"
    /\ stopQ = <<>>
    /\ eventLock' = t
    /\ Go(t, "stepSend")
    /\ UNCHANGED <<toStub, fromStub, queueVars, flagVars, rspLock, localVars, backVars, calls>>

(* _acquire_event_lock_on_empty_stop_queue: the loop gives the lock back   *)
(* and retries while a stop packet is queued.                              *)
StepLock(t) ==
    /\ at[t] = "stepLock"
    /\ eventLock = NoThread
    /\ stopQ = <<>>
    /\ eventLock' = t
    /\ Go(t, "stepSend")
    /\ UNCHANGED <<toStub, fromStub, queueVars, flagVars, rspLock, localVars, backVars, calls>>

StepSend(t) ==
    /\ at[t] = "stepSend"
    /\ rspLock = NoThread
    /\ rspLock' = t
    /\ toStub' = Append(toStub, Packet("step", NoAddr, t))
    /\ Go(t, "stepWait")
    /\ UNCHANGED <<fromStub, queueVars, flagVars, eventLock, localVars, backVars, calls>>

(* Defect: the stop of the step is left for the event thread. *)
StepWaitPeeks(t) ==
    /\ at[t] = "stepWait"
    /\ stopQ # <<>>
    /\ rspLock' = NoThread
    /\ Ask(t, "pc", NoAddr, "stepDisp")
    /\ UNCHANGED <<toStub, fromStub, queueVars, flagVars, eventLock, val, arg, backVars, calls>>

(* stop_queue.get(timeout=1) and, in the same action, the call of          *)
(* read_register('pc') that follows.                                       *)
StepWait(t) ==
    /\ at[t] = "stepWait"
    /\ stopQ # <<>>
    /\ stopQ' = Tail(stopQ)
    /\ rspLock' = NoThread
    /\ Ask(t, "pc", NoAddr, "stepDisp")
    /\ UNCHANGED <<toStub, fromStub, readQ, flagVars, eventLock, val, arg, backVars, calls>>

(* Queue.get(timeout=1) gives up. *)
TimeIsUp ==
    ~Patient \/ (toStub = <<>> /\ fromStub = <<>> /\ stub.run # "stepping")

StepTimeout(t) ==
    /\ at[t] = "stepWait"
    /\ stopQ = <<>>
    /\ TimeIsUp
    /\ rspLock' = NoThread
    /\ Ask(t, "pc", NoAddr, "stepDisp")
    /\ UNCHANGED <<toStub, fromStub, queueVars, flagVars, eventLock, val, arg, backVars, calls>>

StepDispatch(t) ==
    /\ at[t] = "stepDisp"
    /\ arg' = [arg EXCEPT ![t] = val[t]]
    /\ val' = [val EXCEPT ![t] = NoAddr]
    /\ dispBack' = IF IsMain(t) THEN dispBack ELSE "stepSaved"
    /\ Go(t, "disp")
    /\ UNCHANGED <<toStub, fromStub, queueVars, flagVars, lockVars, rq, stepBack, calls>>

(* rsp_target.py:412-415 *)
StepSaved(t) ==
    /\ at[t] = "stepSaved"
    /\ arg' = [arg EXCEPT ![t] = NoAddr]
    /\ IF savedBp # NoAddr
          THEN Ask(t, "set", savedBp, "stepClear")
          ELSE Go(t, "stepEnd") /\ UNCHANGED rq
    /\ UNCHANGED <<toStub, fromStub, queueVars, flagVars, lockVars, val, backVars, calls>>

StepClear(t) ==
    /\ at[t] = "stepClear"
    /\ savedBp' = NoAddr
    /\ Go(t, "stepEnd")
    /\ UNCHANGED <<toStub, fromStub, queueVars, stopped, userStopped, cbUnsetBp, shutdown,
                   lockVars, localVars, backVars, calls>>

StepEnd(t) ==
    /\ at[t] = "stepEnd"
    /\ eventLock' = IF IsMain(t) THEN NoThread ELSE eventLock
    /\ Go(t, StepReturn(t))
    /\ UNCHANGED <<toStub, fromStub, queueVars, flagVars, rspLock, localVars, backVars, calls>>

----------------------------------------------------------------------------
(* cmd_stop *)

(* Defect: the target counts as stopped before it is. *)
CallStopEarly(t) ==
    /\ CanCall(t, "stop")
    /\ userStopped' = TRUE
    /\ stopped' = TRUE
    /\ Go(t, "stop")
    /\ UNCHANGED <<toStub, fromStub, queueVars, savedBp, cbUnsetBp, shutdown,
                   lockVars, localVars, backVars>>

CallStop(t) ==
    /\ CanCall(t, "stop")
    /\ userStopped' = TRUE
    /\ Go(t, "stop")
    /\ UNCHANGED <<toStub, fromStub, queueVars, stopped, savedBp, cbUnsetBp, shutdown,
                   lockVars, localVars, backVars>>

StopCheck(t) ==
    /\ at[t] = "stop"
    /\ Go(t, IF stopped THEN Home(t) ELSE "stopLock")
    /\ UNCHANGED <<toStub, fromStub, queueVars, flagVars, lockVars, localVars, backVars, calls>>

(* Defect: cmd_stop does not wait for the event lock. *)
StopLockAnyway(t) ==
    /\ at[t] = "stopLock"
    /\ Go(t, "stopSend")
    /\ UNCHANGED <<toStub, fromStub, queueVars, flagVars, lockVars, localVars, backVars, calls>>

StopLock(t) ==
    /\ at[t] = "stopLock"
    /\ eventLock = NoThread
    /\ eventLock' = t
    /\ Go(t, "stopSend")
    /\ UNCHANGED <<toStub, fromStub, queueVars, flagVars, rspLock, localVars, backVars, calls>>

(* Defect: nothing is sent. *)
StopSendNothing(t) ==
    /\ at[t] = "stopSend"
    /\ rspLock = NoThread
    /\ stopped' = TRUE
    /\ eventLock' = NoThread
    /\ Go(t, Home(t))
    /\ UNCHANGED <<toStub, fromStub, queueVars, userStopped, savedBp, cbUnsetBp, shutdown,
                   rspLock, localVars, backVars, calls>>

StopSend(t) ==
    /\ at[t] = "stopSend"
    /\ rspLock = NoThread
    /\ stopped' = TRUE
    /\ toStub' = Append(toStub, Packet("ctrlC", NoAddr, t))
    /\ eventLock' = NoThread
    /\ Go(t, Home(t))
    /\ UNCHANGED <<fromStub, queueVars, userStopped, savedBp, cbUnsetBp, shutdown,
                   rspLock, localVars, backVars, calls>>

----------------------------------------------------------------------------
(* remove_sw_breakpoint, after the reply: a thread that is neither main    *)
(* nor the event thread compares the address with the pc                   *)
(* (rsp_target.py:551-554).                                                *)

UnsetReadPc(t) ==
    /\ at[t] = "unsetPc"
    /\ Ask(t, "pc", NoAddr, "unsetCmp")
    /\ UNCHANGED <<toStub, fromStub, queueVars, flagVars, lockVars, val, arg, backVars, calls>>

UnsetCompare(t) ==
    /\ at[t] = "unsetCmp"
    /\ cbUnsetBp' = (cbUnsetBp \/ arg[t] = val[t])
    /\ arg' = [arg EXCEPT ![t] = NoAddr]
    /\ val' = [val EXCEPT ![t] = NoAddr]
    /\ Go(t, Home(t))
    /\ UNCHANGED <<toStub, fromStub, queueVars, stopped, userStopped, savedBp, shutdown,
                   lockVars, rq, backVars, calls>>

----------------------------------------------------------------------------
(* _handle_stop_packets, the event thread *)

(* Defect: the event loop does not look at _shutdown_flag. *)
EventTopForever ==
    /\ at[Event] = "loop"
    /\ Go(Event, "acquire")
    /\ UNCHANGED <<toStub, fromStub, queueVars, flagVars, lockVars, localVars, backVars, calls>>

EventTop ==
    /\ at[Event] = "loop"
    /\ Go(Event, IF shutdown THEN "done" ELSE "acquire")
    /\ UNCHANGED <<toStub, fromStub, queueVars, flagVars, lockVars, localVars, backVars, calls>>

EventAcquire ==
    /\ at[Event] = "acquire"
    /\ eventLock = NoThread
    /\ eventLock' = Event
    /\ Go(Event, "poll")
    /\ UNCHANGED <<toStub, fromStub, queueVars, flagVars, rspLock, localVars, backVars, calls>>

EventIdle ==
    /\ at[Event] = "poll"
    /\ stopQ = <<>>
    /\ eventLock' = NoThread
    /\ Go(Event, "loop")
    /\ UNCHANGED <<toStub, fromStub, queueVars, flagVars, rspLock, localVars, backVars, calls>>

(* rsp_target.py:143-166; T02 needs no question to the stub *)
EventPoll ==
    /\ at[Event] = "poll"
    /\ stopQ # <<>>
    /\ stopQ' = Tail(stopQ)
    /\ stopped' = TRUE
    /\ Go(Event, IF Head(stopQ) = "SIGTRAP" THEN "why" ELSE "resume")
    /\ UNCHANGED <<toStub, fromStub, readQ, userStopped, savedBp, cbUnsetBp, shutdown,
                   lockVars, localVars, backVars, calls>>

(* _get_stop_reason asks the stub again and waits without a timeout *)
EventAskWhy ==
    /\ at[Event] = "why"
    /\ rspLock = NoThread
    /\ rspLock' = Event
    /\ toStub' = Append(toStub, Packet("why", NoAddr, Event))
    /\ Go(Event, "whyWait")
    /\ UNCHANGED <<fromStub, queueVars, flagVars, eventLock, localVars, backVars, calls>>

EventWhy ==
    /\ at[Event] = "whyWait"
    /\ stopQ # <<>>
    /\ stopQ' = Tail(stopQ)
    /\ rspLock' = NoThread
    /\ IF Head(stopQ) = "SIGTRAP"
          THEN Ask(Event, "pc", NoAddr, "unset")
          ELSE Go(Event, "resume") /\ UNCHANGED rq
    /\ UNCHANGED <<toStub, fromStub, readQ, flagVars, eventLock, val, arg, backVars, calls>>

(* rsp_target.py:174-189 *)
EventUnset ==
    /\ at[Event] = "unset"
    /\ cbUnsetBp' = FALSE
    /\ arg' = [arg EXCEPT ![Event] = val[Event]]
    /\ val' = [val EXCEPT ![Event] = NoAddr]
    /\ Ask(Event, "clear", val[Event], "eventDisp")
    /\ UNCHANGED <<toStub, fromStub, queueVars, stopped, userStopped, savedBp, shutdown,
                   lockVars, backVars, calls>>

(* Defect: on_execute is not called. *)
EventDispatchSkipped ==
    /\ at[Event] = "eventDisp"
    /\ Go(Event, "save")
    /\ UNCHANGED <<toStub, fromStub, queueVars, flagVars, lockVars, localVars, backVars, calls>>

EventDispatch ==
    /\ at[Event] = "eventDisp"
    /\ dispBack' = "save"
    /\ Go(Event, "disp")
    /\ UNCHANGED <<toStub, fromStub, queueVars, flagVars, lockVars, localVars, stepBack, calls>>

EventSave ==
    /\ at[Event] = "save"
    /\ savedBp' = IF cbUnsetBp THEN savedBp ELSE arg[Event]
    /\ arg' = [arg EXCEPT ![Event] = NoAddr]
    /\ Go(Event, "resume")
    /\ UNCHANGED <<toStub, fromStub, queueVars, stopped, userStopped, cbUnsetBp, shutdown,
                   lockVars, rq, val, backVars, calls>>

EventRelease ==
    /\ at[Event] = "after"
    /\ eventLock' = NoThread
    /\ Go(Event, "loop")
    /\ UNCHANGED <<toStub, fromStub, queueVars, flagVars, rspLock, localVars, backVars, calls>>

----------------------------------------------------------------------------
(* close *)

CallClose(t) ==
    /\ CanCall(t, "close")
    /\ shutdown' = IF IsMain(t) THEN TRUE ELSE shutdown
    /\ Go(t, IF IsMain(t) THEN "closeJoin" ELSE Raised(t))
    /\ UNCHANGED <<toStub, fromStub, queueVars, stopped, userStopped, savedBp, cbUnsetBp,
                   lockVars, localVars, backVars>>

(* The event thread has ended; cmd_stop begins. *)
CloseStop ==
    /\ at[Main] = "closeJoin"
    /\ at[Event] \in {"done", "dead"}
    /\ userStopped' = TRUE
    /\ Go(Main, "stop")
    /\ UNCHANGED <<toStub, fromStub, queueVars, stopped, savedBp, cbUnsetBp, shutdown,
                   lockVars, localVars, backVars, calls>>

CloseDetach ==
    /\ at[Main] = "detach"
    /\ Ask(Main, "detach", NoAddr, "closed")
    /\ UNCHANGED <<toStub, fromStub, queueVars, flagVars, lockVars, val, arg, backVars, calls>>

(* recv(timeout=1) of _detach gives up *)
CloseTimeout ==
    /\ at[Main] = "recv"
    /\ rq[Main].op = "detach"
    /\ readQ = <<>>
    /\ TimeIsUp
    /\ rspLock' = NoThread
    /\ rq' = [rq EXCEPT ![Main] = NoRequest]
    /\ Go(Main, "closed")
    /\ UNCHANGED <<toStub, fromStub, queueVars, flagVars, eventLock, val, arg, backVars, calls>>
=============================================================================

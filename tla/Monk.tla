------------------------------- MODULE Monk --------------------------------
(***************************************************************************)
(* A Monk program on the RSP backend: the stub, the RspTarget shared by    *)
(* the program's threads, its event thread, and the hooks.                 *)
(***************************************************************************)
EXTENDS Hooks

vars == <<stubVars, targetVars, hookVars>>

(* The state RspTarget.__init__ leaves behind (rsp_target.py:93-103): the  *)
(* guest is stopped, as the user's doing.  When it was running before, the *)
(* T02 of the stop is still queued for the event thread.                   *)
Init ==
    /\ StubInit
    /\ HooksInit
    /\ stopped = TRUE
    /\ userStopped = TRUE
    /\ savedBp = NoAddr
    /\ cbUnsetBp = FALSE
    /\ shutdown = FALSE
    /\ eventLock = NoThread
    /\ rspLock = NoThread
    /\ stopQ \in {<<>>, <<"SIGINT">>}
    /\ stopQ # <<>> => stub.sig = "SIGINT"
    /\ readQ = <<>>
    /\ at = [t \in Threads |-> CASE t = Event -> "loop"
                                 [] t \in Cbs -> "off"
                                 [] OTHER -> "user"]
    /\ rq = [t \in Threads |-> NoRequest]
    /\ val = [t \in Threads |-> NoAddr]
    /\ arg = [t \in Threads |-> NoAddr]
    /\ stepBack = "user"
    /\ dispBack = "save"
    /\ calls = [t \in Callers |-> 0]

----------------------------------------------------------------------------
(* Steps of the stub, of RspTarget and of the hooks, as steps of the whole *)

OfStub(A) == A /\ UNCHANGED <<targetVars, hookVars>>
OfTarget(A) == A /\ UNCHANGED <<stub, hits, hookVars>>
OfHooks(A) == A /\ UNCHANGED <<stub, hits>>

(* The program, or a callback, makes a call. *)
Call(t) ==
    \/ OfTarget(CallRead(t)) \/ OfTarget(CallRun(t)) \/ OfTarget(CallStep(t))
    \/ OfTarget(CallStop(t)) \/ OfTarget(CallClose(t))
    \/ OfHooks(CallAdd(t)) \/ OfHooks(CallRemove(t)) \/ OfHooks(CallRemoveGone(t))

(* Steps inside cmd_stop and remove_sw_breakpoint, which any caller makes *)
CallerStep(t) ==
    \/ StopCheck(t) \/ StopLock(t) \/ StopSend(t)
    \/ UnsetReadPc(t) \/ UnsetCompare(t)

(* Steps inside cmd_continue and cmd_step, by main or the event thread *)
ExecStep(t) ==
    \/ Continue(t) \/ ContinueLock(t) \/ ContinueSend(t)
    \/ StepGuard(t) \/ StepSend(t) \/ StepWait(t) \/ StepTimeout(t)
    \/ StepDispatch(t) \/ StepSaved(t) \/ StepClear(t) \/ StepEnd(t)

DispatchStep(t) ==
    \/ Dispatch(t) \/ StartCallback(t) \/ JoinCallback(t) \/ CallbacksDone(t)
    \/ Rearm(t) \/ RearmSkip(t) \/ RearmDone(t) \/ RearmRaises(t)

EventStep ==
    \/ EventTop \/ EventAcquire \/ EventIdle \/ EventPoll \/ EventAskWhy
    \/ EventWhy \/ EventUnset \/ EventDispatch \/ EventSave
    \/ EventResume \/ EventRelease

MainStep == StepLock(Main) \/ CloseStop \/ CloseDetach \/ CloseTimeout

(* A thread goes on with the call it is in. *)
ThreadStep(t) ==
    \/ OfTarget(Send(t)) \/ OfTarget(Receive(t))
    \/ t \in Callers /\ OfTarget(CallerStep(t))
    \/ t \in Dispatchers /\ (OfTarget(ExecStep(t)) \/ OfHooks(DispatchStep(t)))
    \/ t = Event /\ OfTarget(EventStep)
    \/ t = Main /\ OfTarget(MainStep)
    \/ t \in Cbs /\ OfHooks(EndCallback(t))

Next ==
    \/ OfStub(StubNext)
    \/ OfTarget(Reader)
    \/ \E t \in Callers : Call(t)
    \/ \E t \in Threads : ThreadStep(t)

Spec == Init /\ [][Next]_vars

(* The stub answers, the reader thread reads, and a thread inside a call   *)
(* goes on: strongly fair, because the event loop sleeps after releasing   *)
(* its lock "in order to let other functions which require the event lock  *)
(* to pick it up" (rsp_target.py:146-150).  Nothing obliges a program to   *)
(* make calls or the guest to reach a breakpoint; callbacks end (README).  *)
Fairness ==
    /\ WF_vars(OfStub(StubReads))
    /\ WF_vars(OfStub(StubStepped))
    /\ WF_vars(OfTarget(Reader))
    /\ \A t \in Threads : SF_vars(ThreadStep(t))

FairSpec == Spec /\ Fairness

----------------------------------------------------------------------------
(* Types *)

Addrs == Addr \cup {NoAddr}

StubType ==
    /\ toStub \in Seq(Packets(Threads))
    /\ fromStub \in Seq(Replies(Threads))
    /\ stub \in Guests
    /\ hits \in Nat

TargetType ==
    /\ stopped \in BOOLEAN
    /\ userStopped \in BOOLEAN
    /\ savedBp \in Addrs
    /\ cbUnsetBp \in BOOLEAN
    /\ shutdown \in BOOLEAN
    /\ eventLock \in Threads \cup {NoThread}
    /\ rspLock \in Threads \cup {NoThread}
    /\ stopQ \in Seq(Signals)
    /\ readQ \in Seq(DataReplies(Threads))
    /\ at \in [Threads -> Labels]
    /\ rq \in [Threads -> Requests]
    /\ val \in [Threads -> Addrs]
    /\ arg \in [Threads -> Addrs]
    /\ stepBack \in {"user", "contLock"}
    /\ dispBack \in {"save", "stepSaved"}
    /\ calls \in [Callers -> Nat]

HooksType ==
    /\ hooks \subseteq Addr
    /\ keys \subseteq Addrs
    /\ due \in [Dispatchers -> BOOLEAN]
    /\ todo \in [Dispatchers -> SUBSET Addrs]
    /\ seen \in [Dispatchers -> SUBSET Addrs]

(* Every variable has the values its Python attribute can take. *)
TypeOK == StubType /\ TargetType /\ HooksType

----------------------------------------------------------------------------
(* Locks and callbacks *)

(* Where a thread is in its call: in a request, where the request returns. *)
Place(t) == IF at[t] \in {"send", "recv"} THEN rq[t].back ELSE at[t]

EventFree == {"loop", "acquire", "done", "dead"}
MainHeld ==
    {"stepSend", "stepWait", "stepDisp", "disp", "callbacks", "join", "rearm",
     "stepSaved", "stepClear", "stepEnd", "contSend", "stopSend"}

(* The code between event_lock.acquire() and event_lock.release() *)
InEventLock(t) ==
    CASE t = Event -> at[t] \notin EventFree
      [] t = Main -> Place(t) \in MainHeld
      [] OTHER -> Place(t) = "stopSend"

Live(c) == at[c] # "off"

(* The strengthening the proofs need: a thread inside the event lock is    *)
(* the one that holds it, a thread inside the RSP lock likewise, and the   *)
(* thread that started a callback waits to join it.                        *)
EventLockHeld == \A t \in Threads : InEventLock(t) => eventLock = t
RspLockHeld == \A t \in Threads : at[t] \in {"recv", "stepWait", "whyWait"} => rspLock = t
DispatcherJoins == \A c \in Cbs : Live(c) => at[Boss(c)] = "join"
Asking == \A t \in Threads : at[t] = "send" => rq[t].op # "none"

LockInv == EventLockHeld /\ RspLockHeld /\ DispatcherJoins /\ Asking

(* One callback runs at a time: the one of a step by main never overlaps   *)
(* the one of a stop event (rsp_target.py:80-86; callback_manager.py:204). *)
OneCallback == \A c, d \in Cbs : Live(c) /\ Live(d) => c = d

SendsExec == Len(toStub') > Len(toStub) /\ toStub'[Len(toStub')].op \in ExecOps

(* While a callback runs no thread sends vCont or vCtrlC: "The target must *)
(* remain stopped during callbacks" (README.md:113, rsp_target.py:81-86).  *)
NoExecInCallback == [][SendsExec => \A c \in Cbs : ~Live(c)]_vars

(* At most one thread has a request under way, so a reply has one reader   *)
(* (rsp_target.py:74-80).                                                  *)
OneRequest ==
    \A t, u \in Threads : at[t] = "recv" /\ at[u] = "recv" => t = u

----------------------------------------------------------------------------
(* Properties of the whole *)

(* The reply a thread reads is the reply to its own request: no thread     *)
(* "receive[s] a response not meant for [it]" (rsp_target.py:74-80).       *)
RepliesMatch ==
    \A t \in Threads : at[t] = "recv" /\ readQ # <<>> => Head(readQ).to = t

Idle ==
    /\ at[Event] \in {"loop", "acquire", "poll"}
    /\ \A t \in Threads \ {Event} : at[t] \in {"user", "off"}
Settled == Idle /\ toStub = <<>> /\ fromStub = <<>> /\ stopQ = <<>>

(* When nothing is under way, target_is_running() tells what the guest     *)
(* does, and no reply is left over for a later request (rsp.py:53-59).     *)
StatusAccurate == Settled => (stopped <=> stub.run = "stopped")
NothingLeftOver == Settled => readQ = <<>>

Changing == \E t \in Threads : rq[t].op \in {"set", "clear"} \/ at[t] = "rearm"

(* Whenever the guest runs, every hooked address has its breakpoint again  *)
(* although each stop drops them all (callback_manager.py:210-217).        *)
HooksArmed == stub.run = "running" /\ ~Changing => hooks \ Refused \subseteq stub.bps

(* ... and there is a breakpoint at hooked addresses only: one whose last  *)
(* callback is removed goes away (callback_manager.py:111-114).            *)
NoOrphan == stub.run = "running" /\ ~Changing => stub.bps \subseteq hooks

(* What the event thread does between a stop and the end of its callbacks *)
EventHandling ==
    Place(Event) \in {"why", "whyWait", "unset", "eventDisp", "disp", "callbacks", "join",
                     "rearm", "save"}

(* The guest does not run while the event thread handles a stop: "Running  *)
(* the guest will mess up the target state" (rsp_target.py:158-161).       *)
HandledWhileHalted == EventHandling => stub.run # "running"

(* No exception ends the event thread: its lock would never be released.   *)
EventThreadLives == at[Event] # "dead"

(* cmd_continue does not run the guest after a stop() that came since it   *)
(* began (rsp_target.py:64-66).                                            *)
StopSticks == [][\A t \in Dispatchers : ContinueSend(t) => ~userStopped]_vars

----------------------------------------------------------------------------
(* What the program may rely on, abstractly *)

Guest == INSTANCE GuestExecution WITH
    Visitors <- Dispatchers,
    running <- stub.run # "stopped",
    visiting <- {Boss(c) : c \in {d \in Cbs : at[d] \notin {"off", "end"}}}

(* The guest is halted while a callback runs and stays so until it ends    *)
(* (README.md:113).                                                        *)
GuestSpec == Guest!Spec

----------------------------------------------------------------------------
(* Liveness *)

(* When the guest stops at a hooked address, its callback runs, unless the *)
(* hook is removed meanwhile (callback_manager.py:19-23).                  *)
StopsAt(a) ==
    /\ fromStub # <<>>
    /\ Head(fromStub) = StopReply("SIGTRAP")
    /\ stub.pc = a /\ a \in hooks
CalledBack(a) == \E c \in Cbs : at[c] = "cb" /\ arg[Boss(c)] = a
EveryStopCalledBack == \A a \in Addr : StopsAt(a) ~> (CalledBack(a) \/ a \notin hooks)

(* A guest that nobody stopped on purpose runs again (rsp_target.py:208).  *)
Resumes == (stub.run = "stopped" /\ ~userStopped) ~> (stub.run = "running" \/ userStopped)

(* stop() stops the guest (execution.feature, "Tell a running target to    *)
(* stop").                                                                 *)
StopStops == at[Main] = "stop" ~> stub.run = "stopped"

(* close() returns (rsp_target.py:606-623).                                *)
Closes == shutdown ~> at[Main] = "closed"
=============================================================================

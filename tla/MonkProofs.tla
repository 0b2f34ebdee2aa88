---------------------------- MODULE MonkProofs -----------------------------
(***************************************************************************)
(* Proofs about Monk, for every set of addresses and threads, every        *)
(* assignment of calls to threads and every bound: the types, and the      *)
(* discipline of the event lock, from which it follows that one callback   *)
(* runs at a time and that no thread runs or stops the guest meanwhile.    *)
(***************************************************************************)
EXTENDS Monk, TLAPS

USE DEF Main, Event, Cbs, NoThread, Dispatchers

----------------------------------------------------------------------------
(* Operators *)

LEMMA HomeLabel ==
    ASSUME NEW t
    PROVE  Home(t) \in Labels /\ Raised(t) \in Labels
  BY DEF Home, Raised, Labels

LEMMA HomeReturn ==
    ASSUME NEW t \in Callers
    PROVE  Home(t) \in Returns
  BY UsersAssumption DEF Callers, Home, Returns

LEMMA DecodedAddr ==
    ASSUME NEW body
    PROVE  Decoded(body) \subseteq Addrs
  BY DEF Decoded, Addrs

LEMMA ReturnLabel ==
    ASSUME TypeOK, NEW t
    PROVE  StepReturn(t) \in Labels /\ DispReturn(t) \in Labels
  BY DEF TypeOK, TargetType, StepReturn, DispReturn, IsMain, Labels

LEMMA GoLabel ==
    ASSUME TypeOK, NEW t, NEW l \in Labels, Go(t, l)
    PROVE  at' \in [Threads -> Labels]
  BY DEF TypeOK, TargetType, Go

LEMMA AskRequest ==
    ASSUME TypeOK, NEW t, NEW op \in DataOps, NEW a \in Addrs, NEW l \in Returns,
           Ask(t, op, a, l)
    PROVE  at' \in [Threads -> Labels] /\ rq' \in [Threads -> Requests]
  <1>1. at' \in [Threads -> Labels]
    BY DEF TypeOK, TargetType, Ask, Go, Labels
  <1>2. [op |-> op, addr |-> a, back |-> l] \in Requests
    BY DEF Requests, Addrs
  <1> QED
    BY <1>1, <1>2 DEF TypeOK, TargetType, Ask

LEMMA QueuePacket ==
    ASSUME TypeOK, NEW op \in Ops, NEW a \in Addrs, NEW t \in Threads
    PROVE  Append(toStub, Packet(op, a, t)) \in Seq(Packets(Threads))
  BY DEF TypeOK, StubType, Packet, Packets, Addrs

----------------------------------------------------------------------------
(* Every action preserves the types. *)

LEMMA TypeStub ==
    ASSUME TypeOK, OfStub(StubNext)
    PROVE  TypeOK'
  <1> USE DEF OfStub, TypeOK, Take, Guests
  <1>1. TargetType' /\ HooksType'
    BY DEF TargetType, HooksType, targetVars, queueVars, flagVars, lockVars, localVars,
           backVars, hookVars, loopVars
  <1> USE DEF StubType
  <1>2. CASE StubServe
    <2> DEFINE m == Head(toStub)
    <2>1. m \in Packets(Threads) /\ toStub' \in Seq(Packets(Threads))
      BY <1>2 DEF StubServe
    <2>2. DataReply(Answer(m), m.by) \in Replies(Threads)
      BY <2>1 DEF DataReply, Answer, Replies, DataReplies, Packets
    <2>3. BpsAfter(m) \in SUBSET Addr
      BY <2>1 DEF BpsAfter, Packets
    <2>4. stub' \in Guests
      BY <1>2, <2>3 DEF StubServe
    <2>5. fromStub' \in Seq(Replies(Threads))
      BY <1>2, <2>2 DEF StubServe
    <2> QED BY <1>1, <1>2, <2>1, <2>4, <2>5 DEF StubServe
  <1>3. CASE StubWhy
    BY <1>1, <1>3 DEF StubWhy, StopReply, Replies
  <1>4. CASE StubResume
    BY <1>1, <1>4 DEF StubResume
  <1>5. CASE StubStrayCtrlC
    BY <1>1, <1>5 DEF StubStrayCtrlC, DataReply, Replies, DataReplies
  <1>6. ASSUME NEW sig \in Signals, NEW a \in Addr, Halt(sig, a)
        PROVE  stub' \in Guests /\ fromStub' \in Seq(Replies(Threads))
    BY <1>6 DEF Halt, StopReply, Replies
  <1>7. CASE StubCtrlC
    BY <1>1, <1>6, <1>7 DEF StubCtrlC, Signals
  <1>8. CASE StubIgnore
    BY <1>1, <1>8 DEF StubIgnore
  <1>9. CASE StubBreak
    BY <1>1, <1>6, <1>9 DEF StubBreak, Signals
  <1>10. CASE StubStepped
    BY <1>1, <1>6, <1>10 DEF StubStepped, Signals
  <1> QED
    BY <1>2, <1>3, <1>4, <1>5, <1>7, <1>8, <1>9, <1>10 DEF StubNext, StubReads

LEMMA TypeReader ==
    ASSUME TypeOK, OfTarget(Reader)
    PROVE  TypeOK'
  <1> DEFINE r == Head(fromStub)
  <1>1. r \in Replies(Threads) /\ fromStub' \in Seq(Replies(Threads))
    BY DEF TypeOK, StubType, OfTarget, Reader
  <1>2. stopQ' \in Seq(Signals) /\ readQ' \in Seq(DataReplies(Threads))
    <2>1. CASE r.kind = "stop"
      <3>1. r.body \in Signals
        BY <1>1, <2>1 DEF Replies, DataReplies
      <3>2. stopQ' = Append(stopQ, r.body) /\ readQ' = readQ
        BY <2>1 DEF OfTarget, Reader
      <3> QED BY <3>1, <3>2 DEF TypeOK, TargetType
    <2>2. CASE r.kind # "stop"
      <3>1. r \in DataReplies(Threads)
        BY <1>1, <2>2 DEF Replies
      <3>2. readQ' = Append(readQ, r) /\ stopQ' = stopQ
        BY <2>2 DEF OfTarget, Reader
      <3> QED BY <3>1, <3>2 DEF TypeOK, TargetType
    <2> QED BY <2>1, <2>2
  <1> QED
    BY <1>1, <1>2 DEF TypeOK, StubType, TargetType, HooksType, OfTarget, Reader,
       flagVars, lockVars, localVars, backVars, hookVars, loopVars

LEMMA TypeSend ==
    ASSUME TypeOK, Asking, NEW t \in Threads, OfTarget(Send(t))
    PROVE  TypeOK'
  <1>1. rq[t].op \in Ops /\ rq[t].addr \in Addrs
    BY DEF TypeOK, TargetType, Requests, Asking, OfTarget, Send, Addrs, Ops
  <1>2. toStub' \in Seq(Packets(Threads))
    BY <1>1, QueuePacket DEF OfTarget, Send
  <1>3. at' \in [Threads -> Labels]
    BY GoLabel DEF OfTarget, Send, Labels
  <1> QED
    BY <1>2, <1>3 DEF OfTarget, Send, TypeOK, StubType, TargetType, HooksType,
       queueVars, flagVars, localVars, backVars, hookVars, loopVars

LEMMA TypeReceive ==
    ASSUME TypeOK, NEW t \in Threads, OfTarget(Receive(t))
    PROVE  TypeOK'
  <1> USE DEF OfTarget, Receive
  <1>1. StubType' /\ HooksType'
    BY DEF TypeOK, StubType, HooksType, hookVars, loopVars
  <1>2. \E l \in Labels : Go(t, l)
    <2>1. rq[t].back \in Labels
      BY DEF TypeOK, TargetType, Requests, Returns, Labels
    <2> QED BY <2>1, HomeLabel
  <1>3. at' \in [Threads -> Labels]
    BY <1>2, GoLabel
  <1>4. val' \in [Threads -> Addrs]
    BY DecodedAddr DEF TypeOK, TargetType
  <1>5. rq' \in [Threads -> Requests]
    BY DEF TypeOK, TargetType, Requests, NoRequest, Returns
  <1>6. readQ' \in Seq(DataReplies(Threads))
    BY DEF TypeOK, TargetType
  <1> QED
    BY <1>1, <1>3, <1>4, <1>5, <1>6 DEF TypeOK, TargetType, flagVars, backVars

LEMMA TypeCall ==
    ASSUME TypeOK, NEW t \in Callers, Call(t)
    PROVE  TypeOK'
  <1> USE DEF OfTarget, OfHooks, Unmoved, queueVars, flagVars, lockVars, localVars, backVars,
              hookVars, loopVars
  <1>1. t \in Threads
    BY DEF Callers, Threads
  <1>2. ASSUME NEW name, CanCall(t, name)
        PROVE  calls' \in [Callers -> Nat]
    BY <1>2 DEF CanCall, TypeOK, TargetType
  <1>3. CASE OfTarget(CallRead(t))
    <2>1. at' \in [Threads -> Labels] /\ rq' \in [Threads -> Requests]
      BY <1>1, <1>3, AskRequest, HomeReturn DEF CallRead, DataOps, Addrs
    <2> QED BY <1>2, <1>3, <2>1 DEF CallRead, TypeOK, StubType, TargetType, HooksType
  <1>4. CASE OfTarget(CallRun(t))
    <2>1. at' \in [Threads -> Labels]
      BY <1>4, GoLabel, HomeLabel DEF CallRun, Labels
    <2> QED BY <1>2, <1>4, <2>1 DEF CallRun, TypeOK, StubType, TargetType, HooksType
  <1>5. CASE OfTarget(CallStep(t))
    <2>1. at' \in [Threads -> Labels]
      BY <1>5, GoLabel, HomeLabel DEF CallStep, Labels
    <2> QED BY <1>2, <1>5, <2>1 DEF CallStep, TypeOK, StubType, TargetType, HooksType
  <1>6. CASE OfTarget(CallStop(t))
    <2>1. at' \in [Threads -> Labels]
      BY <1>6, GoLabel DEF CallStop, Labels
    <2> QED BY <1>2, <1>6, <2>1 DEF CallStop, TypeOK, StubType, TargetType, HooksType
  <1>7. CASE OfTarget(CallClose(t))
    <2>1. at' \in [Threads -> Labels]
      BY <1>7, GoLabel, HomeLabel DEF CallClose, Labels
    <2> QED BY <1>2, <1>7, <2>1 DEF CallClose, TypeOK, StubType, TargetType, HooksType
  <1>8. CASE OfHooks(CallAdd(t))
    <2>1. PICK a \in Addr \ hooks :
             hooks' = hooks \cup {a} /\ keys' = keys \cup {a} /\ Ask(t, "set", a, Home(t))
      BY <1>8 DEF CallAdd
    <2>2. at' \in [Threads -> Labels] /\ rq' \in [Threads -> Requests]
      BY <1>1, <2>1, AskRequest, HomeReturn DEF DataOps, Addrs
    <2> QED BY <1>2, <1>8, <2>1, <2>2 DEF CallAdd, TypeOK, StubType, TargetType, HooksType, Addrs
  <1>9. CASE OfHooks(CallRemove(t))
    <2>1. PICK a \in hooks : hooks' = hooks \ {a}
             /\ \/ Ask(t, "clear", a, Home(t)) /\ UNCHANGED arg
                \/ Ask(t, "clear", a, "unsetPc") /\ arg' = [arg EXCEPT ![t] = a]
      BY <1>9 DEF CallRemove
    <2>2. a \in Addrs
      BY <2>1 DEF TypeOK, HooksType, Addrs
    <2>3. at' \in [Threads -> Labels] /\ rq' \in [Threads -> Requests]
      BY <1>1, <2>1, <2>2, AskRequest, HomeReturn DEF DataOps, Returns
    <2>4. arg' \in [Threads -> Addrs]
      BY <2>1, <2>2 DEF TypeOK, TargetType
    <2> QED BY <1>2, <1>9, <2>1, <2>3, <2>4 DEF CallRemove, TypeOK, StubType, TargetType, HooksType
  <1>10. CASE OfHooks(CallRemoveGone(t))
    <2>1. at' \in [Threads -> Labels]
      BY <1>10, GoLabel, HomeLabel DEF CallRemoveGone
    <2> QED BY <1>2, <1>10, <2>1 DEF CallRemoveGone, TypeOK, StubType, TargetType, HooksType, Addrs
  <1> QED BY <1>3, <1>4, <1>5, <1>6, <1>7, <1>8, <1>9, <1>10 DEF Call

LEMMA TypeCaller ==
    ASSUME TypeOK, NEW t \in Callers, OfTarget(CallerStep(t))
    PROVE  TypeOK'
  <1>1. t \in Threads
    BY DEF Callers, Threads
  <1> USE DEF OfTarget, queueVars, flagVars, lockVars, localVars, backVars, hookVars, loopVars
  <1>2. CASE StopCheck(t)
    <2>1. at' \in [Threads -> Labels]
      BY <1>2, GoLabel, HomeLabel DEF StopCheck, Labels
    <2> QED BY <1>2, <2>1 DEF StopCheck, TypeOK, StubType, TargetType, HooksType
  <1>3. CASE StopLock(t)
    <2>1. at' \in [Threads -> Labels]
      BY <1>3, GoLabel DEF StopLock, Labels
    <2> QED BY <1>1, <1>3, <2>1 DEF StopLock, TypeOK, StubType, TargetType, HooksType
  <1>4. CASE StopSend(t)
    <2>1. at' \in [Threads -> Labels]
      BY <1>4, GoLabel, HomeLabel DEF StopSend
    <2>2. toStub' \in Seq(Packets(Threads))
      BY <1>1, <1>4, QueuePacket DEF StopSend, Ops, ExecOps, Addrs
    <2> QED BY <1>4, <2>1, <2>2 DEF StopSend, TypeOK, StubType, TargetType, HooksType
  <1>5. CASE UnsetReadPc(t)
    <2>1. at' \in [Threads -> Labels] /\ rq' \in [Threads -> Requests]
      BY <1>1, <1>5, AskRequest DEF UnsetReadPc, DataOps, Addrs, Returns
    <2> QED BY <1>5, <2>1 DEF UnsetReadPc, TypeOK, StubType, TargetType, HooksType
  <1>6. CASE UnsetCompare(t)
    <2>1. at' \in [Threads -> Labels]
      BY <1>6, GoLabel, HomeLabel DEF UnsetCompare
    <2> QED BY <1>6, <2>1 DEF UnsetCompare, TypeOK, StubType, TargetType, HooksType, Addrs
  <1> QED BY <1>2, <1>3, <1>4, <1>5, <1>6 DEF CallerStep

LEMMA TypeExec ==
    ASSUME TypeOK, NEW t \in Dispatchers, OfTarget(ExecStep(t))
    PROVE  TypeOK'
  <1>1. t \in Threads
    BY DEF Threads
  <1> USE DEF OfTarget, OfHooks, Unmoved, queueVars, flagVars, lockVars, localVars, backVars,
              hookVars, loopVars
  <1>2. CASE Continue(t)
    <2>1. at' \in [Threads -> Labels]
      BY <1>2, GoLabel, HomeLabel, ReturnLabel DEF Continue, Labels
    <2> QED BY <1>1, <1>2, <2>1 DEF Continue, TypeOK, StubType, TargetType, HooksType, Addrs
  <1>3. CASE ContinueLock(t)
    <2>1. at' \in [Threads -> Labels]
      BY <1>3, GoLabel, HomeLabel, ReturnLabel DEF ContinueLock, Labels
    <2> QED BY <1>1, <1>3, <2>1 DEF ContinueLock, TypeOK, StubType, TargetType, HooksType, Addrs
  <1>4. CASE ContinueSend(t)
    <2>1. at' \in [Threads -> Labels]
      BY <1>4, GoLabel, HomeLabel DEF ContinueSend, Labels
    <2>2. toStub' \in Seq(Packets(Threads))
      BY <1>1, <1>4, QueuePacket DEF ContinueSend, Ops, ExecOps, Addrs
    <2> QED BY <1>1, <1>4, <2>1, <2>2 DEF ContinueSend, TypeOK, StubType, TargetType, HooksType, Addrs
  <1>5. CASE StepGuard(t)
    <2>1. at' \in [Threads -> Labels]
      BY <1>5, GoLabel, HomeLabel, ReturnLabel DEF StepGuard, Labels
    <2> QED BY <1>1, <1>5, <2>1 DEF StepGuard, TypeOK, StubType, TargetType, HooksType, Addrs
  <1>6. CASE StepSend(t)
    <2>1. at' \in [Threads -> Labels]
      BY <1>6, GoLabel, HomeLabel DEF StepSend, Labels
    <2>2. toStub' \in Seq(Packets(Threads))
      BY <1>1, <1>6, QueuePacket DEF StepSend, Ops, ExecOps, Addrs
    <2> QED BY <1>1, <1>6, <2>1, <2>2 DEF StepSend, TypeOK, StubType, TargetType, HooksType, Addrs
  <1>7. CASE StepWait(t)
    <2>1. at' \in [Threads -> Labels] /\ rq' \in [Threads -> Requests]
      BY <1>1, <1>7, AskRequest DEF StepWait, DataOps, Addrs, Returns
    <2> QED BY <1>1, <1>7, <2>1 DEF StepWait, TypeOK, StubType, TargetType, HooksType, Addrs
  <1>8. CASE StepTimeout(t)
    <2>1. at' \in [Threads -> Labels] /\ rq' \in [Threads -> Requests]
      BY <1>1, <1>8, AskRequest DEF StepTimeout, DataOps, Addrs, Returns
    <2> QED BY <1>1, <1>8, <2>1 DEF StepTimeout, TypeOK, StubType, TargetType, HooksType, Addrs
  <1>9. CASE StepDispatch(t)
    <2>1. at' \in [Threads -> Labels]
      BY <1>9, GoLabel, HomeLabel, ReturnLabel DEF StepDispatch, Labels
    <2> QED BY <1>1, <1>9, <2>1 DEF StepDispatch, TypeOK, StubType, TargetType, HooksType, Addrs
  <1>10. CASE StepSaved(t)
    <2>1. at' \in [Threads -> Labels] /\ rq' \in [Threads -> Requests]
      <3>1. CASE savedBp # NoAddr
        BY <1>1, <1>10, <3>1, AskRequest DEF StepSaved, DataOps, Addrs, Returns, TypeOK, TargetType
      <3>2. CASE ~(savedBp # NoAddr)
        BY <1>10, <3>2, GoLabel DEF StepSaved, Labels, TypeOK, TargetType
      <3> QED BY <3>1, <3>2
    <2> QED BY <1>1, <1>10, <2>1 DEF StepSaved, TypeOK, StubType, TargetType, HooksType, Addrs
  <1>11. CASE StepClear(t)
    <2>1. at' \in [Threads -> Labels]
      BY <1>11, GoLabel, HomeLabel, ReturnLabel DEF StepClear, Labels
    <2> QED BY <1>1, <1>11, <2>1 DEF StepClear, TypeOK, StubType, TargetType, HooksType, Addrs
  <1>12. CASE StepEnd(t)
    <2>1. at' \in [Threads -> Labels]
      BY <1>12, GoLabel, HomeLabel, ReturnLabel DEF StepEnd, Labels
    <2> QED BY <1>1, <1>12, <2>1 DEF StepEnd, TypeOK, StubType, TargetType, HooksType, Addrs
  <1> QED BY <1>2, <1>3, <1>4, <1>5, <1>6, <1>7, <1>8, <1>9, <1>10, <1>11, <1>12 DEF ExecStep

LEMMA TypeEvent ==
    ASSUME TypeOK, OfTarget(EventStep)
    PROVE  TypeOK'
  <1>1. Event \in Threads
    BY DEF Threads
  <1> USE DEF OfTarget, OfHooks, Unmoved, queueVars, flagVars, lockVars, localVars, backVars,
              hookVars, loopVars
  <1>2. CASE EventTop
    <2>1. at' \in [Threads -> Labels]
      BY <1>2, GoLabel, HomeLabel, ReturnLabel DEF EventTop, Labels
    <2> QED BY <1>1, <1>2, <2>1 DEF EventTop, TypeOK, StubType, TargetType, HooksType, Addrs
  <1>3. CASE EventAcquire
    <2>1. at' \in [Threads -> Labels]
      BY <1>3, GoLabel, HomeLabel, ReturnLabel DEF EventAcquire, Labels
    <2> QED BY <1>1, <1>3, <2>1 DEF EventAcquire, TypeOK, StubType, TargetType, HooksType, Addrs
  <1>4. CASE EventIdle
    <2>1. at' \in [Threads -> Labels]
      BY <1>4, GoLabel, HomeLabel, ReturnLabel DEF EventIdle, Labels
    <2> QED BY <1>1, <1>4, <2>1 DEF EventIdle, TypeOK, StubType, TargetType, HooksType, Addrs
  <1>5. CASE EventPoll
    <2>1. at' \in [Threads -> Labels]
      BY <1>5, GoLabel, HomeLabel, ReturnLabel DEF EventPoll, Labels
    <2> QED BY <1>1, <1>5, <2>1 DEF EventPoll, TypeOK, StubType, TargetType, HooksType, Addrs
  <1>6. CASE EventAskWhy
    <2>1. at' \in [Threads -> Labels]
      BY <1>6, GoLabel, HomeLabel DEF EventAskWhy, Labels
    <2>2. toStub' \in Seq(Packets(Threads))
      BY <1>1, <1>6, QueuePacket DEF EventAskWhy, Ops, ExecOps, Addrs
    <2> QED BY <1>1, <1>6, <2>1, <2>2 DEF EventAskWhy, TypeOK, StubType, TargetType, HooksType, Addrs
  <1>7. CASE EventWhy
    <2>1. at' \in [Threads -> Labels] /\ rq' \in [Threads -> Requests]
      <3>1. CASE Head(stopQ) = "SIGTRAP"
        BY <1>1, <1>7, <3>1, AskRequest DEF EventWhy, DataOps, Addrs, Returns, TypeOK, TargetType
      <3>2. CASE ~(Head(stopQ) = "SIGTRAP")
        BY <1>7, <3>2, GoLabel DEF EventWhy, Labels, TypeOK, TargetType
      <3> QED BY <3>1, <3>2
    <2> QED BY <1>1, <1>7, <2>1 DEF EventWhy, TypeOK, StubType, TargetType, HooksType, Addrs
  <1>8. CASE EventUnset
    <2>1. val[Event] \in Addrs
      BY <1>1 DEF TypeOK, TargetType
    <2>2. at' \in [Threads -> Labels] /\ rq' \in [Threads -> Requests]
      BY <1>1, <1>8, <2>1, AskRequest DEF EventUnset, DataOps, Returns
    <2> QED BY <1>1, <1>8, <2>1, <2>2 DEF EventUnset, TypeOK, StubType, TargetType, HooksType, Addrs
  <1>9. CASE EventDispatch
    <2>1. at' \in [Threads -> Labels]
      BY <1>9, GoLabel, HomeLabel, ReturnLabel DEF EventDispatch, Labels
    <2> QED BY <1>1, <1>9, <2>1 DEF EventDispatch, TypeOK, StubType, TargetType, HooksType, Addrs
  <1>10. CASE EventSave
    <2>1. at' \in [Threads -> Labels]
      BY <1>10, GoLabel, HomeLabel, ReturnLabel DEF EventSave, Labels
    <2> QED BY <1>1, <1>10, <2>1 DEF EventSave, TypeOK, StubType, TargetType, HooksType, Addrs
  <1>11. CASE EventResume
    <2>1. at' \in [Threads -> Labels]
      BY <1>11, GoLabel, HomeLabel, ReturnLabel DEF EventResume, Labels
    <2> QED BY <1>1, <1>11, <2>1 DEF EventResume, TypeOK, StubType, TargetType, HooksType, Addrs
  <1>12. CASE EventRelease
    <2>1. at' \in [Threads -> Labels]
      BY <1>12, GoLabel, HomeLabel, ReturnLabel DEF EventRelease, Labels
    <2> QED BY <1>1, <1>12, <2>1 DEF EventRelease, TypeOK, StubType, TargetType, HooksType, Addrs
  <1> QED BY <1>2, <1>3, <1>4, <1>5, <1>6, <1>7, <1>8, <1>9, <1>10, <1>11, <1>12 DEF EventStep

LEMMA TypeMain ==
    ASSUME TypeOK, OfTarget(MainStep)
    PROVE  TypeOK'
  <1>1. Main \in Threads
    BY DEF Threads
  <1> USE DEF OfTarget, OfHooks, Unmoved, queueVars, flagVars, lockVars, localVars, backVars,
              hookVars, loopVars
  <1>2. CASE StepLock(Main)
    <2>1. at' \in [Threads -> Labels]
      BY <1>2, GoLabel, HomeLabel, ReturnLabel DEF StepLock, Labels
    <2> QED BY <1>1, <1>2, <2>1 DEF StepLock, TypeOK, StubType, TargetType, HooksType, Addrs
  <1>3. CASE CloseStop
    <2>1. at' \in [Threads -> Labels]
      BY <1>3, GoLabel, HomeLabel, ReturnLabel DEF CloseStop, Labels
    <2> QED BY <1>1, <1>3, <2>1 DEF CloseStop, TypeOK, StubType, TargetType, HooksType, Addrs
  <1>4. CASE CloseDetach
    <2>1. at' \in [Threads -> Labels] /\ rq' \in [Threads -> Requests]
      BY <1>1, <1>4, AskRequest DEF CloseDetach, DataOps, Addrs, Returns
    <2> QED BY <1>1, <1>4, <2>1 DEF CloseDetach, TypeOK, StubType, TargetType, HooksType, Addrs
  <1>5. CASE CloseTimeout
    <2>1. at' \in [Threads -> Labels]
      BY <1>5, GoLabel DEF CloseTimeout, Labels
    <2>2. rq' \in [Threads -> Requests]
      BY <1>5 DEF CloseTimeout, NoRequest, Requests, Returns, TypeOK, TargetType
    <2> QED BY <1>1, <1>5, <2>1, <2>2 DEF CloseTimeout, TypeOK, StubType, TargetType, HooksType, Addrs
  <1> QED BY <1>2, <1>3, <1>4, <1>5 DEF MainStep

LEMMA TypeDispatch ==
    ASSUME TypeOK, NEW t \in Dispatchers, OfHooks(DispatchStep(t))
    PROVE  TypeOK'
  <1>1. t \in Threads
    BY DEF Threads
  <1> USE DEF OfTarget, OfHooks, Unmoved, queueVars, flagVars, lockVars, localVars, backVars,
              hookVars, loopVars
  <1>2. CASE Dispatch(t)
    <2>1. at' \in [Threads -> Labels]
      BY <1>2, GoLabel, HomeLabel, ReturnLabel DEF Dispatch, Labels
    <2> QED BY <1>1, <1>2, <2>1 DEF Dispatch, TypeOK, StubType, TargetType, HooksType, Addrs
  <1>3. CASE StartCallback(t)
    <2>1. at' \in [Threads -> Labels]
      BY <1>3 DEF StartCallback, Cb, Labels, TypeOK, TargetType
    <2> QED BY <1>1, <1>3, <2>1 DEF StartCallback, TypeOK, StubType, TargetType, HooksType, Addrs
  <1>4. CASE JoinCallback(t)
    <2>1. at' \in [Threads -> Labels]
      BY <1>4 DEF JoinCallback, Cb, Labels, TypeOK, TargetType
    <2> QED BY <1>1, <1>4, <2>1 DEF JoinCallback, TypeOK, StubType, TargetType, HooksType, Addrs
  <1>5. CASE CallbacksDone(t)
    <2>1. at' \in [Threads -> Labels]
      BY <1>5, GoLabel, HomeLabel, ReturnLabel DEF CallbacksDone, Labels
    <2> QED BY <1>1, <1>5, <2>1 DEF CallbacksDone, TypeOK, StubType, TargetType, HooksType, Addrs
  <1>6. CASE Rearm(t)
    <2>1. PICK a \in todo[t] \cap hooks :
             todo' = [todo EXCEPT ![t] = @ \ {a}] /\ Ask(t, "set", a, "rearm")
      BY <1>6 DEF Rearm
    <2>2. a \in Addrs
      BY <2>1 DEF TypeOK, HooksType, Addrs
    <2>3. at' \in [Threads -> Labels] /\ rq' \in [Threads -> Requests]
      BY <1>1, <2>1, <2>2, AskRequest DEF DataOps, Returns
    <2> QED BY <1>1, <1>6, <2>1, <2>3 DEF Rearm, TypeOK, StubType, TargetType, HooksType, Addrs
  <1>7. CASE RearmDone(t)
    <2>1. at' \in [Threads -> Labels]
      BY <1>7, GoLabel, HomeLabel, ReturnLabel DEF RearmDone, Labels
    <2> QED BY <1>1, <1>7, <2>1 DEF RearmDone, TypeOK, StubType, TargetType, HooksType, Addrs
  <1>8. CASE RearmRaises(t)
    <2>1. at' \in [Threads -> Labels]
      BY <1>8, GoLabel, HomeLabel, ReturnLabel DEF RearmRaises, Labels
    <2> QED BY <1>1, <1>8, <2>1 DEF RearmRaises, TypeOK, StubType, TargetType, HooksType, Addrs
  <1>9. CASE RearmSkip(t)
    <2>1. at' \in [Threads -> Labels]
      BY <1>9, GoLabel DEF RearmSkip, Labels
    <2> QED BY <1>1, <1>9, <2>1 DEF RearmSkip, TypeOK, StubType, TargetType, HooksType, Addrs
  <1> QED BY <1>2, <1>3, <1>4, <1>5, <1>6, <1>7, <1>8, <1>9 DEF DispatchStep

LEMMA TypeEndCallback ==
    ASSUME TypeOK, NEW c \in Cbs, OfHooks(EndCallback(c))
    PROVE  TypeOK'
  <1>1. at' \in [Threads -> Labels]
    BY GoLabel DEF OfHooks, EndCallback, Labels
  <1> QED
    BY <1>1 DEF OfHooks, EndCallback, Unmoved, queueVars, flagVars, lockVars, localVars, backVars,
       hookVars, loopVars, TypeOK, StubType, TargetType, HooksType

----------------------------------------------------------------------------
(* The lock discipline.  A step of thread t moves t alone (StartCallback   *)
(* and JoinCallback move the callback's thread too) and does one of three  *)
(* things to each lock: t takes it when it is free, t leaves the code      *)
(* under it, or neither changes.                                           *)

Waiting(t) == at[t] \in {"recv", "stepWait", "whyWait"}

Alone(t) == \A u \in Threads \ {t} : at'[u] = at[u] /\ rq'[u] = rq[u]

EventLockStep(t) ==
    \/ eventLock' = eventLock /\ (InEventLock(t)' => InEventLock(t))
    \/ eventLock = NoThread /\ eventLock' = t
    \/ InEventLock(t) /\ ~InEventLock(t)'

RspLockStep(t) ==
    \/ rspLock' = rspLock /\ (Waiting(t)' => Waiting(t))
    \/ rspLock = NoThread /\ rspLock' = t
    \/ Waiting(t) /\ ~Waiting(t)'

LEMMA NoThreadIsNone == NoThread \notin Threads
  BY UsersAssumption DEF Threads

LEMMA EventLockKept ==
    ASSUME EventLockHeld, NEW t \in Threads, Alone(t), EventLockStep(t)
    PROVE  EventLockHeld'
  <1> SUFFICES ASSUME NEW u \in Threads, InEventLock(u)'
               PROVE  eventLock' = u
    BY DEF EventLockHeld
  <1>1. CASE u = t
    BY <1>1 DEF EventLockHeld, EventLockStep
  <1>2. CASE u # t
    <2>1. InEventLock(u)
      BY <1>2 DEF Alone, InEventLock, Place
    <2>2. eventLock = u
      BY <2>1 DEF EventLockHeld
    <2> QED BY <1>2, <2>2, NoThreadIsNone DEF EventLockHeld, EventLockStep
  <1> QED BY <1>1, <1>2

LEMMA RspLockKept ==
    ASSUME RspLockHeld, NEW t \in Threads, Alone(t), RspLockStep(t)
    PROVE  RspLockHeld'
  <1> SUFFICES ASSUME NEW u \in Threads, Waiting(u)'
               PROVE  rspLock' = u
    BY DEF RspLockHeld, Waiting
  <1>1. CASE u = t
    BY <1>1 DEF RspLockHeld, RspLockStep, Waiting
  <1>2. CASE u # t
    <2>1. Waiting(u)
      BY <1>2 DEF Alone, Waiting
    <2>2. rspLock = u
      BY <2>1 DEF RspLockHeld, Waiting
    <2> QED BY <1>2, <2>2, NoThreadIsNone DEF RspLockHeld, RspLockStep, Waiting
  <1> QED BY <1>1, <1>2

LEMMA BossesJoin ==
    ASSUME DispatcherJoins, NEW t \in Threads, Alone(t), at[t] \notin {"join", "off"}
    PROVE  DispatcherJoins'
  <1> SUFFICES ASSUME NEW c \in Cbs, Live(c)'
               PROVE  at'[Boss(c)] = "join"
    BY DEF DispatcherJoins
  <1>1. c \in Threads /\ Boss(c) \in Threads /\ Boss(c) # c
    BY DEF Threads, Boss
  <1>2. Live(c)
    BY <1>1 DEF Alone, Live
  <1>3. at[Boss(c)] = "join"
    BY <1>2 DEF DispatcherJoins
  <1> QED BY <1>1, <1>3 DEF Alone

LEMMA LocalStep ==
    ASSUME LockInv, NEW t \in Threads, Alone(t), at[t] \notin {"join", "off"},
           EventLockStep(t), RspLockStep(t), at'[t] = "send" => rq'[t].op # "none"
    PROVE  LockInv'
  <1>1. Asking'
    BY DEF LockInv, Asking, Alone
  <1> QED
    BY <1>1, EventLockKept, RspLockKept, BossesJoin DEF LockInv

(* Where a call returns to is outside the event lock. *)
LEMMA HomeOutside ==
    ASSUME NEW t \in Callers
    PROVE  /\ Home(t) \notin MainHeld \cup {"send", "recv", "stepWait", "whyWait"}
           /\ Raised(t) \notin MainHeld \cup {"send", "recv", "stepWait", "whyWait"}
  BY UsersAssumption DEF Callers, Home, Raised, MainHeld

LEMMA LockSend ==
    ASSUME TypeOK, LockInv, NEW t \in Threads, OfTarget(Send(t))
    PROVE  LockInv'
  <1> USE DEF OfTarget, Send, Go
  <1>1. Alone(t) /\ at[t] = "send" /\ at'[t] = "recv" /\ rq' = rq
    BY DEF Alone, TypeOK, TargetType, localVars
  <1>2. EventLockStep(t)
    BY <1>1 DEF EventLockStep, InEventLock, Place, EventFree
  <1>3. RspLockStep(t)
    BY DEF RspLockStep
  <1> QED BY <1>1, <1>2, <1>3, LocalStep

LEMMA LockReceive ==
    ASSUME TypeOK, LockInv, NEW t \in Threads, OfTarget(Receive(t))
    PROVE  LockInv'
  <1> USE DEF OfTarget, Receive, Go
  <1>1. /\ Alone(t) /\ at[t] = "recv"
        /\ at'[t] \in {Raised(t), rq[t].back}
        /\ eventLock' = eventLock
    BY DEF Alone, TypeOK, TargetType
  <1>2. rq[t].back \in Returns
    BY DEF TypeOK, TargetType, Requests
  <1>3. Raised(t) \notin MainHeld \cup {"send", "recv", "stepWait", "whyWait"}
    <2>1. CASE t \in Callers
      BY <2>1, HomeOutside
    <2>2. CASE t = Event
      BY <2>2 DEF Raised, MainHeld
    <2> QED BY <2>1, <2>2 DEF Threads, Callers
  <1>4. at'[t] \notin {"send", "recv", "stepWait", "whyWait"}
    BY <1>1, <1>2, <1>3 DEF Returns
  <1>5. RspLockStep(t)
    BY <1>1, <1>4 DEF RspLockStep, Waiting
  <1>6. EventLockStep(t)
    <2>1. CASE at'[t] = rq[t].back
      BY <1>1, <1>4, <2>1 DEF EventLockStep, InEventLock, Place, EventFree
    <2>2. CASE at'[t] = Raised(t)
      BY <1>1, <1>3, <2>2 DEF EventLockStep, InEventLock, Place, EventFree, MainHeld
    <2> QED BY <1>1, <2>1, <2>2
  <1> QED BY <1>1, <1>4, <1>5, <1>6, LocalStep

LEMMA LockCall ==
    ASSUME TypeOK, LockInv, NEW t \in Callers, Call(t)
    PROVE  LockInv'
  <1> DEFINE Outside == Labels \ (MainHeld \cup {"send", "recv", "stepWait", "whyWait"})
  <1>1. t \in Threads /\ t # Event
    BY UsersAssumption DEF Callers, Threads
  <1>2. Home(t) \in Outside /\ Raised(t) \in Outside /\ Home(t) \notin {"join", "off"}
    <2>1. Home(t) \in Returns
      BY HomeReturn
    <2> QED BY <2>1, HomeLabel, HomeOutside DEF Returns
  <1>3. ASSUME NEW name, CanCall(t, name)
        PROVE  at[t] = Home(t)
    BY <1>3 DEF CanCall
  <1>4. ASSUME NEW l \in Outside, Go(t, l), at[t] = Home(t), UNCHANGED <<rq, lockVars>>
        PROVE  LockInv'
    <2>1. Alone(t) /\ at'[t] = l /\ eventLock' = eventLock /\ rspLock' = rspLock
      BY <1>1, <1>4 DEF Alone, Go, TypeOK, TargetType, lockVars
    <2>2. EventLockStep(t) /\ RspLockStep(t)
      BY <1>1, <1>2, <2>1 DEF EventLockStep, RspLockStep, InEventLock, Place, Waiting, MainHeld
    <2> QED BY <1>1, <1>2, <1>4, <2>1, <2>2, LocalStep
  <1>5. ASSUME NEW op \in DataOps, NEW a, NEW l \in Outside, Ask(t, op, a, l),
               at[t] = Home(t), UNCHANGED lockVars
        PROVE  LockInv'
    <2>1. /\ Alone(t) /\ at'[t] = "send" /\ rq'[t].op = op /\ rq'[t].back = l
          /\ eventLock' = eventLock /\ rspLock' = rspLock
      BY <1>1, <1>5 DEF Alone, Ask, Go, TypeOK, TargetType, lockVars
    <2>2. EventLockStep(t) /\ RspLockStep(t)
      BY <1>1, <1>2, <2>1 DEF EventLockStep, RspLockStep, InEventLock, Place, Waiting, MainHeld
    <2> QED BY <1>1, <1>2, <1>5, <2>1, <2>2, LocalStep DEF DataOps
  <1> USE DEF OfTarget, OfHooks, Unmoved, localVars
  <1>6. CASE OfTarget(CallRead(t))
    BY <1>2, <1>3, <1>5, <1>6 DEF CallRead, DataOps
  <1>7. CASE OfTarget(CallRun(t))
    BY <1>2, <1>3, <1>4, <1>7 DEF CallRun, Labels, MainHeld
  <1>8. CASE OfTarget(CallStep(t))
    BY <1>2, <1>3, <1>4, <1>8 DEF CallStep, Labels, MainHeld
  <1>9. CASE OfTarget(CallStop(t))
    BY <1>3, <1>4, <1>9 DEF CallStop, Labels, MainHeld
  <1>10. CASE OfTarget(CallClose(t))
    BY <1>2, <1>3, <1>4, <1>10 DEF CallClose, Labels, MainHeld
  <1>11. CASE OfHooks(CallAdd(t))
    BY <1>2, <1>3, <1>5, <1>11 DEF CallAdd, DataOps
  <1>12. CASE OfHooks(CallRemove(t))
    BY <1>2, <1>3, <1>5, <1>12 DEF CallRemove, DataOps, Labels, MainHeld
  <1>13. CASE OfHooks(CallRemoveGone(t))
    BY <1>2, <1>3, <1>4, <1>13 DEF CallRemoveGone
  <1> QED BY <1>6, <1>7, <1>8, <1>9, <1>10, <1>11, <1>12, <1>13 DEF Call

LEMMA LockCaller ==
    ASSUME TypeOK, LockInv, NEW t \in Callers, OfTarget(CallerStep(t))
    PROVE  LockInv'
  <1>1. t \in Threads /\ t # Event
    BY UsersAssumption DEF Threads, Callers
  <1> USE DEF OfTarget, OfHooks, Unmoved, lockVars, localVars, Alone, Go, Ask, TypeOK, TargetType,
              EventLockStep, RspLockStep, InEventLock, Place, Waiting, MainHeld, EventFree, IsMain,
              DataOps
  <1>2. CASE StopCheck(t)
    <2>1. /\ Alone(t) /\ at[t] = "stop" /\ at'[t] \in {Home(t), "stopLock"}
          /\ rq' = rq /\ eventLock' = eventLock /\ rspLock' = rspLock
      BY <1>1, <1>2 DEF StopCheck
    <2> QED BY <1>1, <2>1, LocalStep, HomeOutside
  <1>3. CASE StopLock(t)
    <2>1. /\ Alone(t) /\ at[t] = "stopLock" /\ at'[t] = "stopSend"
          /\ rq' = rq /\ eventLock = NoThread /\ eventLock' = t /\ rspLock' = rspLock
      BY <1>1, <1>3 DEF StopLock
    <2> QED BY <1>1, <2>1, LocalStep
  <1>4. CASE StopSend(t)
    <2>1. /\ Alone(t) /\ at[t] = "stopSend" /\ at'[t] = Home(t)
          /\ rq' = rq /\ eventLock' = NoThread /\ rspLock' = rspLock
      BY <1>1, <1>4 DEF StopSend
    <2> QED BY <1>1, <2>1, LocalStep, HomeOutside
  <1>5. CASE UnsetReadPc(t)
    <2>1. /\ Alone(t) /\ at[t] = "unsetPc" /\ at'[t] = "send"
          /\ rq'[t].back = "unsetCmp" /\ rq'[t].op \in DataOps /\ eventLock' = eventLock /\ rspLock' = rspLock
      BY <1>1, <1>5 DEF UnsetReadPc
    <2> QED BY <1>1, <2>1, LocalStep
  <1>6. CASE UnsetCompare(t)
    <2>1. /\ Alone(t) /\ at[t] = "unsetCmp" /\ at'[t] = Home(t)
          /\ rq' = rq /\ eventLock' = eventLock /\ rspLock' = rspLock
      BY <1>1, <1>6 DEF UnsetCompare
    <2> QED BY <1>1, <2>1, LocalStep, HomeOutside
  <1> QED BY <1>2, <1>3, <1>4, <1>5, <1>6 DEF CallerStep

LEMMA LockExec ==
    ASSUME TypeOK, LockInv, NEW t \in Dispatchers, OfTarget(ExecStep(t))
    PROVE  LockInv'
  <1>1. t \in Threads
    BY DEF Threads, Callers
  <1> USE DEF OfTarget, OfHooks, Unmoved, lockVars, localVars, Alone, Go, Ask, TypeOK, TargetType,
              EventLockStep, RspLockStep, InEventLock, Place, Waiting, MainHeld, EventFree, IsMain,
              DataOps
  <1>2. CASE Continue(t)
    <2>1. /\ Alone(t) /\ at[t] = "cont" /\ at'[t] \in {"guard", "contLock"}
          /\ rq' = rq /\ eventLock' = eventLock /\ rspLock' = rspLock
      BY <1>1, <1>2 DEF Continue
    <2> QED BY <1>1, <2>1, LocalStep
  <1>3. CASE ContinueLock(t)
    <2>1. /\ Alone(t) /\ at[t] = "contLock" /\ at'[t] = "contSend"
          /\ rq' = rq /\ rspLock' = rspLock
          /\ \/ t = Main /\ eventLock = NoThread /\ eventLock' = t
             \/ t = Event /\ eventLock' = eventLock
      BY <1>1, <1>3 DEF ContinueLock
    <2> QED BY <1>1, <2>1, LocalStep
  <1>4. CASE ContinueSend(t)
    <2>1. /\ Alone(t) /\ at[t] = "contSend" /\ at'[t] = Home(t)
          /\ rq' = rq /\ eventLock' = (IF t = Main THEN NoThread ELSE eventLock) /\ rspLock' = rspLock
      BY <1>1, <1>4 DEF ContinueSend
    <2> QED BY <1>1, <2>1, HomeOutside, LocalStep DEF Callers, Home
  <1>5. CASE StepGuard(t)
    <2>1. /\ Alone(t) /\ at[t] = "guard"
          /\ t = Main => at'[t] \in {"user", "contLock", "stepLock"}
          /\ t = Event => at'[t] \in {"contLock", "stepSend"}
          /\ rq' = rq /\ eventLock' = eventLock /\ rspLock' = rspLock
      BY <1>1, <1>5 DEF StepGuard, StepReturn
    <2> QED BY <1>1, <2>1, LocalStep
  <1>6. CASE StepSend(t)
    <2>1. /\ Alone(t) /\ at[t] = "stepSend" /\ at'[t] = "stepWait"
          /\ rq' = rq /\ eventLock' = eventLock /\ rspLock = NoThread /\ rspLock' = t
      BY <1>1, <1>6 DEF StepSend
    <2> QED BY <1>1, <2>1, LocalStep
  <1>7. CASE StepWait(t)
    <2>1. /\ Alone(t) /\ at[t] = "stepWait" /\ at'[t] = "send"
          /\ rq'[t].back = "stepDisp" /\ rq'[t].op \in DataOps /\ eventLock' = eventLock /\ rspLock' = NoThread
      BY <1>1, <1>7 DEF StepWait
    <2> QED BY <1>1, <2>1, LocalStep
  <1>8. CASE StepTimeout(t)
    <2>1. /\ Alone(t) /\ at[t] = "stepWait" /\ at'[t] = "send"
          /\ rq'[t].back = "stepDisp" /\ rq'[t].op \in DataOps /\ eventLock' = eventLock /\ rspLock' = NoThread
      BY <1>1, <1>8 DEF StepTimeout
    <2> QED BY <1>1, <2>1, LocalStep
  <1>9. CASE StepDispatch(t)
    <2>1. /\ Alone(t) /\ at[t] = "stepDisp" /\ at'[t] = "disp"
          /\ rq' = rq /\ eventLock' = eventLock /\ rspLock' = rspLock
      BY <1>1, <1>9 DEF StepDispatch
    <2> QED BY <1>1, <2>1, LocalStep
  <1>10. CASE StepSaved(t)
    <2>1. /\ Alone(t) /\ at[t] = "stepSaved" /\ eventLock' = eventLock /\ rspLock' = rspLock
          /\ \/ at'[t] = "send" /\ rq'[t].back = "stepClear" /\ rq'[t].op \in DataOps
             \/ at'[t] = "stepEnd"
      BY <1>1, <1>10 DEF StepSaved
    <2> QED BY <1>1, <2>1, LocalStep
  <1>11. CASE StepClear(t)
    <2>1. /\ Alone(t) /\ at[t] = "stepClear" /\ at'[t] = "stepEnd"
          /\ rq' = rq /\ eventLock' = eventLock /\ rspLock' = rspLock
      BY <1>1, <1>11 DEF StepClear
    <2> QED BY <1>1, <2>1, LocalStep
  <1>12. CASE StepEnd(t)
    <2>1. /\ Alone(t) /\ at[t] = "stepEnd" /\ at'[t] \in {"user", "contLock"}
          /\ rq' = rq /\ eventLock' = (IF t = Main THEN NoThread ELSE eventLock) /\ rspLock' = rspLock
      BY <1>1, <1>12 DEF StepEnd, StepReturn
    <2> QED BY <1>1, <2>1, LocalStep
  <1> QED BY <1>2, <1>3, <1>4, <1>5, <1>6, <1>7, <1>8, <1>9, <1>10, <1>11, <1>12 DEF ExecStep

LEMMA LockEvent ==
    ASSUME TypeOK, LockInv, OfTarget(EventStep)
    PROVE  LockInv'
  <1>1. Event \in Threads
    BY DEF Threads, Callers
  <1> USE DEF OfTarget, OfHooks, Unmoved, lockVars, localVars, Alone, Go, Ask, TypeOK, TargetType,
              EventLockStep, RspLockStep, InEventLock, Place, Waiting, MainHeld, EventFree, IsMain,
              DataOps
  <1>2. CASE EventTop
    <2>1. /\ Alone(Event) /\ at[Event] = "loop" /\ at'[Event] \in {"done", "acquire"}
          /\ rq' = rq /\ eventLock' = eventLock /\ rspLock' = rspLock
      BY <1>1, <1>2 DEF EventTop
    <2> QED BY <1>1, <2>1, LocalStep
  <1>3. CASE EventAcquire
    <2>1. /\ Alone(Event) /\ at[Event] = "acquire" /\ at'[Event] = "poll"
          /\ rq' = rq /\ eventLock = NoThread /\ eventLock' = Event /\ rspLock' = rspLock
      BY <1>1, <1>3 DEF EventAcquire
    <2> QED BY <1>1, <2>1, LocalStep
  <1>4. CASE EventIdle
    <2>1. /\ Alone(Event) /\ at[Event] = "poll" /\ at'[Event] = "loop"
          /\ rq' = rq /\ eventLock' = NoThread /\ rspLock' = rspLock
      BY <1>1, <1>4 DEF EventIdle
    <2> QED BY <1>1, <2>1, LocalStep
  <1>5. CASE EventPoll
    <2>1. /\ Alone(Event) /\ at[Event] = "poll" /\ at'[Event] \in {"why", "resume"}
          /\ rq' = rq /\ eventLock' = eventLock /\ rspLock' = rspLock
      BY <1>1, <1>5 DEF EventPoll
    <2> QED BY <1>1, <2>1, LocalStep
  <1>6. CASE EventAskWhy
    <2>1. /\ Alone(Event) /\ at[Event] = "why" /\ at'[Event] = "whyWait"
          /\ rq' = rq /\ eventLock' = eventLock /\ rspLock = NoThread /\ rspLock' = Event
      BY <1>1, <1>6 DEF EventAskWhy
    <2> QED BY <1>1, <2>1, LocalStep
  <1>7. CASE EventWhy
    <2>1. /\ Alone(Event) /\ at[Event] = "whyWait" /\ eventLock' = eventLock /\ rspLock' = NoThread
          /\ \/ at'[Event] = "send" /\ rq'[Event].op \in DataOps
             \/ at'[Event] = "resume"
      BY <1>1, <1>7 DEF EventWhy
    <2> QED BY <1>1, <2>1, LocalStep
  <1>8. CASE EventUnset
    <2>1. /\ Alone(Event) /\ at[Event] = "unset" /\ at'[Event] = "send"
          /\ rq'[Event].back = "eventDisp" /\ rq'[Event].op \in DataOps /\ eventLock' = eventLock /\ rspLock' = rspLock
      BY <1>1, <1>8 DEF EventUnset
    <2> QED BY <1>1, <2>1, LocalStep
  <1>9. CASE EventDispatch
    <2>1. /\ Alone(Event) /\ at[Event] = "eventDisp" /\ at'[Event] = "disp"
          /\ rq' = rq /\ eventLock' = eventLock /\ rspLock' = rspLock
      BY <1>1, <1>9 DEF EventDispatch
    <2> QED BY <1>1, <2>1, LocalStep
  <1>10. CASE EventSave
    <2>1. /\ Alone(Event) /\ at[Event] = "save" /\ at'[Event] = "resume"
          /\ rq' = rq /\ eventLock' = eventLock /\ rspLock' = rspLock
      BY <1>1, <1>10 DEF EventSave
    <2> QED BY <1>1, <2>1, LocalStep
  <1>11. CASE EventResume
    <2>1. /\ Alone(Event) /\ at[Event] = "resume" /\ at'[Event] \in {"cont", "after"}
          /\ rq' = rq /\ eventLock' = eventLock /\ rspLock' = rspLock
      BY <1>1, <1>11 DEF EventResume, Home
    <2> QED BY <1>1, <2>1, LocalStep
  <1>12. CASE EventRelease
    <2>1. /\ Alone(Event) /\ at[Event] = "after" /\ at'[Event] = "loop"
          /\ rq' = rq /\ eventLock' = NoThread /\ rspLock' = rspLock
      BY <1>1, <1>12 DEF EventRelease
    <2> QED BY <1>1, <2>1, LocalStep
  <1> QED BY <1>2, <1>3, <1>4, <1>5, <1>6, <1>7, <1>8, <1>9, <1>10, <1>11, <1>12 DEF EventStep

LEMMA LockMain ==
    ASSUME TypeOK, LockInv, OfTarget(MainStep)
    PROVE  LockInv'
  <1>1. Main \in Threads /\ Main \in Callers
    BY DEF Threads, Callers
  <1> USE DEF OfTarget, OfHooks, Unmoved, lockVars, localVars, Alone, Go, Ask, TypeOK, TargetType,
              EventLockStep, RspLockStep, InEventLock, Place, Waiting, MainHeld, EventFree, IsMain,
              DataOps
  <1>2. CASE StepLock(Main)
    <2>1. /\ Alone(Main) /\ at[Main] = "stepLock" /\ at'[Main] = "stepSend"
          /\ rq' = rq /\ eventLock = NoThread /\ eventLock' = Main /\ rspLock' = rspLock
      BY <1>1, <1>2 DEF StepLock
    <2> QED BY <1>1, <2>1, LocalStep
  <1>3. CASE CloseStop
    <2>1. /\ Alone(Main) /\ at[Main] = "closeJoin" /\ at'[Main] = "stop"
          /\ rq' = rq /\ eventLock' = eventLock /\ rspLock' = rspLock
      BY <1>1, <1>3 DEF CloseStop
    <2> QED BY <1>1, <2>1, LocalStep
  <1>4. CASE CloseDetach
    <2>1. /\ Alone(Main) /\ at[Main] = "detach" /\ at'[Main] = "send"
          /\ rq'[Main].back = "closed" /\ rq'[Main].op \in DataOps /\ eventLock' = eventLock /\ rspLock' = rspLock
      BY <1>1, <1>4 DEF CloseDetach
    <2> QED BY <1>1, <2>1, LocalStep
  <1>5. CASE CloseTimeout
    <2>1. /\ Alone(Main) /\ at[Main] = "recv" /\ at'[Main] = "closed"
          /\ eventLock' = eventLock /\ rspLock' = NoThread
      BY <1>1, <1>5 DEF CloseTimeout
    <2> QED BY <1>1, <2>1, LocalStep
  <1> QED BY <1>2, <1>3, <1>4, <1>5 DEF MainStep

(* A step of a dispatcher that moves no callback's thread *)
LEMMA LockLoop ==
    ASSUME TypeOK, LockInv, NEW t \in Dispatchers, UNCHANGED lockVars,
           at[t] \in {"disp", "callbacks", "rearm"}, Alone(t),
           \/ at'[t] = "send" /\ rq'[t].back = "rearm" /\ rq'[t].op \in DataOps
           \/ at'[t] \in {"callbacks", "rearm", "stepSaved", "save"}
           \/ at'[t] = Raised(t)
    PROVE  LockInv'
  <1>1. t \in Threads
    BY DEF Threads
  <1> USE DEF lockVars, EventLockStep, RspLockStep, InEventLock, Place, Waiting, MainHeld,
              EventFree, DataOps
  <1>2. CASE t = Main
    <2>1. t \in Callers
      BY <1>2 DEF Callers
    <2> QED BY <1>1, <1>2, <2>1, HomeOutside, LocalStep
  <1>3. CASE t = Event
    BY <1>1, <1>3, LocalStep DEF Raised
  <1> QED BY <1>2, <1>3

LEMMA LockDispatch ==
    ASSUME TypeOK, LockInv, NEW t \in Dispatchers, OfHooks(DispatchStep(t))
    PROVE  LockInv'
  <1> USE DEF OfHooks, Unmoved, lockVars, localVars
  <1>1. t \in Threads /\ Cb(t) \in Cbs /\ Cb(t) \in Threads /\ Boss(Cb(t)) = t
    BY DEF Threads, Cb, Boss
  <1>2. at \in [Threads -> Labels] /\ rq \in [Threads -> Requests]
    BY DEF TypeOK, TargetType
  <1>3. CASE Dispatch(t)
    BY <1>1, <1>2, <1>3, LockLoop DEF Dispatch, Alone, Go
  <1>4. CASE CallbacksDone(t)
    BY <1>1, <1>2, <1>4, LockLoop DEF CallbacksDone, Alone, Go
  <1>5. CASE Rearm(t)
    BY <1>1, <1>2, <1>5, LockLoop DEF Rearm, Alone, Ask, Go, DataOps
  <1>6. CASE RearmDone(t)
    BY <1>1, <1>2, <1>6, LockLoop DEF RearmDone, Alone, Go, DispReturn, TypeOK, TargetType
  <1>7. CASE RearmSkip(t) \/ RearmRaises(t)
    BY <1>1, <1>2, <1>7, LockLoop DEF RearmSkip, RearmRaises, Alone, Go
  <1>8. ASSUME NEW l \in {"callbacks", "join"}, NEW k \in {"cb", "off"},
               at[t] \in {"callbacks", "join"},
               at' = [at EXCEPT ![t] = l, ![Cb(t)] = k], UNCHANGED <<rq, lockVars>>
        PROVE  EventLockHeld' /\ RspLockHeld' /\ Asking'
    <2>1. \A u \in Threads : u # t /\ u # Cb(t) => at'[u] = at[u]
      BY <1>8, <1>2
    <2>2. at'[t] = l /\ at'[Cb(t)] = k
      BY <1>8, <1>1, <1>2 DEF Cb
    <2>3. \A u \in Threads : InEventLock(u)' => InEventLock(u)
      BY <1>8, <1>1, <2>1, <2>2 DEF InEventLock, Place, MainHeld, EventFree
    <2> QED BY <1>8, <2>1, <2>2, <2>3 DEF LockInv, EventLockHeld, RspLockHeld, Asking
  <1>9. \A c \in Cbs : c # Cb(t) => Boss(c) # t /\ Boss(c) # Cb(t) /\ c # t
    BY DEF Cb, Boss
  <1>10. CASE StartCallback(t)
    <2>1. at[t] = "callbacks" /\ at' = [at EXCEPT ![t] = "join", ![Cb(t)] = "cb"]
      BY <1>10 DEF StartCallback
    <2>2. DispatcherJoins'
      BY <1>1, <1>2, <1>9, <2>1 DEF LockInv, DispatcherJoins, Live, Boss, Cb, Threads
    <2> QED BY <1>8, <1>10, <2>1, <2>2 DEF LockInv, StartCallback
  <1>11. CASE JoinCallback(t)
    <2>1. at[t] = "join" /\ at' = [at EXCEPT ![t] = "callbacks", ![Cb(t)] = "off"]
      BY <1>11 DEF JoinCallback
    <2>2. DispatcherJoins'
      BY <1>1, <1>2, <1>9, <2>1 DEF LockInv, DispatcherJoins, Live, Boss, Cb, Threads
    <2> QED BY <1>8, <1>11, <2>1, <2>2 DEF LockInv, JoinCallback
  <1> QED BY <1>3, <1>4, <1>5, <1>6, <1>7, <1>10, <1>11 DEF DispatchStep

LEMMA LockEndCallback ==
    ASSUME TypeOK, LockInv, NEW c \in Cbs, OfHooks(EndCallback(c))
    PROVE  LockInv'
  <1>1. c \in Threads
    BY DEF Threads
  <1>2. /\ Alone(c) /\ at[c] = "cb" /\ at'[c] = "end" /\ rq' = rq
        /\ eventLock' = eventLock /\ rspLock' = rspLock
    BY <1>1 DEF OfHooks, EndCallback, Unmoved, lockVars, localVars, Alone, Go, TypeOK, TargetType
  <1>3. EventLockStep(c) /\ RspLockStep(c)
    BY <1>2 DEF EventLockStep, RspLockStep, InEventLock, Place, Waiting
  <1> QED BY <1>1, <1>2, <1>3, LocalStep

LEMMA LockStutter ==
    ASSUME LockInv, UNCHANGED <<at, rq, lockVars>>
    PROVE  LockInv'
  BY DEF LockInv, EventLockHeld, RspLockHeld, DispatcherJoins, Asking, InEventLock, Place, Live,
     lockVars

----------------------------------------------------------------------------
(* The invariant is inductive. *)

Inv == TypeOK /\ LockInv

LEMMA InvInit == Init => Inv
  <1> SUFFICES ASSUME Init PROVE Inv
    OBVIOUS
  <1>1. TypeOK
    <2>1. StubType
      BY DEF Init, StubInit, StubType, Guests
    <2>2. TargetType
      <3>1. stopQ \in Seq(Signals)
        <4>1. stopQ = <<>> \/ stopQ = <<"SIGINT">>
          BY DEF Init
        <4>2. "SIGINT" \in Signals /\ <<"SIGINT">> = Append(<<>>, "SIGINT")
          BY DEF Signals
        <4>3. <<"SIGINT">> \in Seq(Signals)
          <5>1. \A q \in Seq(Signals) : Append(q, "SIGINT") \in Seq(Signals)
            BY <4>2
          <5> QED BY <4>2, <5>1
        <4>4. CASE stopQ = <<>>
          BY <4>4
        <4>5. CASE stopQ = <<"SIGINT">>
          BY <4>3, <4>5
        <4> QED BY <4>1, <4>4, <4>5
      <3>2. at \in [Threads -> Labels]
        BY DEF Init, Labels
      <3>3. rq \in [Threads -> Requests]
        BY DEF Init, NoRequest, Requests, Returns
      <3>4. val \in [Threads -> Addrs] /\ arg \in [Threads -> Addrs] /\ calls \in [Callers -> Nat]
        BY DEF Init, Addrs
      <3>5. readQ \in Seq(DataReplies(Threads))
        BY DEF Init
      <3> HIDE DEF Main, Event, Cbs, Dispatchers
      <3> QED BY <3>1, <3>2, <3>3, <3>4, <3>5 DEF Init, TargetType, Addrs
    <2>3. HooksType
      BY DEF Init, HooksInit, HooksType
    <2> QED BY <2>1, <2>2, <2>3 DEF TypeOK
  <1>2. LockInv
    <2>1. \A t \in Threads : at[t] \in {"loop", "off", "user"}
      BY DEF Init
    <2>2. at[Event] = "loop" /\ \A c \in Cbs : at[c] = "off"
      BY DEF Init, Threads
    <2>3. \A t \in Threads : ~InEventLock(t)
      BY <2>1, <2>2 DEF InEventLock, Place, MainHeld, EventFree
    <2> QED
      BY <2>1, <2>2, <2>3
         DEF LockInv, EventLockHeld, RspLockHeld, DispatcherJoins, Asking, Live
  <1> QED BY <1>1, <1>2 DEF Inv

LEMMA InvNext == Inv /\ [Next]_vars => Inv'
  <1> SUFFICES ASSUME Inv, [Next]_vars PROVE Inv'
    OBVIOUS
  <1> USE DEF Inv
  <1>1. CASE OfStub(StubNext)
    <2>1. UNCHANGED <<at, rq, lockVars>>
      BY <1>1 DEF OfStub, targetVars, localVars
    <2> QED BY <1>1, <2>1, TypeStub, LockStutter
  <1>2. CASE OfTarget(Reader)
    <2>1. UNCHANGED <<at, rq, lockVars>>
      BY <1>2 DEF OfTarget, Reader, localVars
    <2> QED BY <1>2, <2>1, TypeReader, LockStutter
  <1>3. CASE \E t \in Callers : Call(t)
    BY <1>3, TypeCall, LockCall
  <1>4. ASSUME NEW t \in Threads, ThreadStep(t)
        PROVE  Inv'
    <2>1. CASE OfTarget(Send(t))
      BY <2>1, TypeSend, LockSend DEF LockInv
    <2>2. CASE OfTarget(Receive(t))
      BY <2>2, TypeReceive, LockReceive
    <2>3. CASE t \in Callers /\ OfTarget(CallerStep(t))
      BY <2>3, TypeCaller, LockCaller
    <2>4. CASE t \in Dispatchers /\ OfTarget(ExecStep(t))
      BY <2>4, TypeExec, LockExec
    <2>5. CASE t \in Dispatchers /\ OfHooks(DispatchStep(t))
      BY <2>5, TypeDispatch, LockDispatch
    <2>6. CASE t = Event /\ OfTarget(EventStep)
      BY <2>6, TypeEvent, LockEvent
    <2>7. CASE t = Main /\ OfTarget(MainStep)
      BY <2>7, TypeMain, LockMain
    <2>8. CASE t \in Cbs /\ OfHooks(EndCallback(t))
      BY <2>8, TypeEndCallback, LockEndCallback
    <2> QED
      BY <1>4, <2>1, <2>2, <2>3, <2>4, <2>5, <2>6, <2>7, <2>8 DEF ThreadStep
  <1>5. CASE UNCHANGED vars
    <2> USE <1>5 DEF vars, stubVars, targetVars, queueVars, flagVars, lockVars, localVars,
                     backVars, hookVars, loopVars
    <2>1. TypeOK'
      BY DEF TypeOK, StubType, TargetType, HooksType
    <2> QED BY <2>1, LockStutter
  <1> QED BY <1>1, <1>2, <1>3, <1>4, <1>5 DEF Next

LEMMA Invariant == Spec => []Inv
  BY InvInit, InvNext, PTL DEF Spec

----------------------------------------------------------------------------
(* What follows from it *)

(* Every variable keeps its type. *)
THEOREM TypeCorrect == Spec => []TypeOK
  BY Invariant, PTL DEF Inv

(* The lock discipline holds: whoever is in the code between acquiring and *)
(* releasing a lock of RspTarget holds it, and a dispatcher does not leave *)
(* a callback before it ends.                                              *)
THEOREM LocksHeld == Spec => []LockInv
  BY Invariant, PTL DEF Inv

(* A dispatcher that joins a callback is inside the event lock. *)
LEMMA JoinsInsideLock ==
    ASSUME LockInv, NEW c \in Cbs, Live(c)
    PROVE  at[Boss(c)] = "join" /\ eventLock = Boss(c)
  <1>1. at[Boss(c)] = "join" /\ Boss(c) \in Threads
    BY DEF LockInv, DispatcherJoins, Boss, Threads
  <1>2. InEventLock(Boss(c))
    BY <1>1 DEF InEventLock, Place, Boss, MainHeld, EventFree
  <1> QED BY <1>1, <1>2 DEF LockInv, EventLockHeld

(* One callback runs at a time, whichever thread dispatches it. *)
THEOREM OneCallbackAtATime == Spec => []OneCallback
  <1>1. Inv => OneCallback
    <2> SUFFICES ASSUME Inv, NEW c \in Cbs, NEW d \in Cbs, Live(c), Live(d)
                 PROVE  c = d
      BY DEF OneCallback
    <2>1. Boss(c) = Boss(d)
      BY JoinsInsideLock DEF Inv
    <2> QED BY <2>1 DEF Boss
  <1> QED BY <1>1, Invariant, PTL

(* At most one thread waits for a reply. *)
THEOREM OneRequestAtATime == Spec => []OneRequest
  <1>1. Inv => OneRequest
    BY DEF Inv, LockInv, RspLockHeld, OneRequest
  <1> QED BY <1>1, Invariant, PTL

(* No request that goes through Send runs or stops the guest. *)
LEMMA SendIsData ==
    ASSUME Inv, NEW t \in Threads, Send(t)
    PROVE  rq[t].op \in DataOps
  BY DEF Inv, TypeOK, TargetType, LockInv, Asking, Requests, Send

(* vCont and vCtrlC are sent at three places only. *)
LEMMA ExecSenders ==
    ASSUME Inv, Next, SendsExec
    PROVE  \E t \in Threads :
              \/ t \in Dispatchers /\ at[t] \in {"contSend", "stepSend"}
              \/ t \in Callers /\ at[t] = "stopSend"
  <1> DEFINE Goal ==
        \E t \in Threads :
           \/ t \in Dispatchers /\ at[t] \in {"contSend", "stepSend"}
           \/ t \in Callers /\ at[t] = "stopSend"
  <1>1. toStub \in Seq(Packets(Threads))
    BY DEF Inv, TypeOK, StubType
  <1>2. toStub' # toStub
    BY <1>1 DEF SendsExec
  <1>3. ASSUME NEW m, toStub' = Append(toStub, m)
        PROVE  toStub'[Len(toStub')] = m
    BY <1>1, <1>3
  <1>4. CASE OfStub(StubNext)
    <2>1. toStub' = toStub \/ (toStub # <<>> /\ toStub' = Tail(toStub))
      BY <1>4 DEF OfStub, StubNext, StubReads, StubServe, StubWhy, StubResume, StubStrayCtrlC,
         StubCtrlC, StubIgnore, StubBreak, StubStepped, Take
    <2> QED BY <1>1, <1>2, <2>1 DEF SendsExec
  <1>5. CASE OfTarget(Reader)
    BY <1>2, <1>5 DEF OfTarget, Reader
  <1>6. CASE \E t \in Callers : Call(t)
    BY <1>2, <1>6 DEF Call, OfTarget, OfHooks, CallRead, CallRun, CallStep, CallStop, CallClose,
       CallAdd, CallRemove, CallRemoveGone, Unmoved
  <1>7. ASSUME NEW t \in Threads, ThreadStep(t)
        PROVE  Goal
    <2>1. CASE OfTarget(Send(t))
      <3>1. rq[t].op \in DataOps /\ toStub' = Append(toStub, Packet(rq[t].op, rq[t].addr, t))
        BY <2>1, SendIsData DEF OfTarget, Send
      <3> QED BY <1>3, <3>1 DEF SendsExec, Packet, DataOps, ExecOps
    <2>2. CASE OfTarget(Receive(t))
      BY <1>2, <2>2 DEF OfTarget, Receive
    <2>3. CASE t \in Callers /\ OfTarget(CallerStep(t))
      BY <1>2, <2>3 DEF OfTarget, CallerStep, StopCheck, StopLock, StopSend, UnsetReadPc,
         UnsetCompare
    <2>4. CASE t \in Dispatchers /\ OfTarget(ExecStep(t))
      BY <1>2, <2>4 DEF OfTarget, ExecStep, Continue, ContinueLock, ContinueSend, StepGuard,
         StepSend, StepWait, StepTimeout, StepDispatch, StepSaved, StepClear, StepEnd
    <2>5. CASE t \in Dispatchers /\ OfHooks(DispatchStep(t))
      BY <1>2, <2>5 DEF OfHooks, DispatchStep, Dispatch, StartCallback, JoinCallback,
         CallbacksDone, Rearm, RearmSkip, RearmDone, RearmRaises, Unmoved
    <2>6. CASE t = Event /\ OfTarget(EventStep)
      <3>1. CASE EventAskWhy
        <4>1. toStub' = Append(toStub, Packet("why", NoAddr, Event))
          BY <3>1 DEF EventAskWhy
        <4> QED BY <1>3, <4>1 DEF SendsExec, Packet, ExecOps
      <3> QED
        BY <1>2, <2>6, <3>1 DEF OfTarget, EventStep, EventTop, EventAcquire, EventIdle, EventPoll,
           EventWhy, EventUnset, EventDispatch, EventSave, EventResume, EventRelease
    <2>7. CASE t = Main /\ OfTarget(MainStep)
      BY <1>2, <2>7 DEF OfTarget, MainStep, StepLock, CloseStop, CloseDetach, CloseTimeout
    <2>8. CASE t \in Cbs /\ OfHooks(EndCallback(t))
      BY <1>2, <2>8 DEF OfHooks, EndCallback, Unmoved
    <2> QED
      BY <1>7, <2>1, <2>2, <2>3, <2>4, <2>5, <2>6, <2>7, <2>8 DEF ThreadStep
  <1> QED BY <1>4, <1>5, <1>6, <1>7 DEF Next

(* The guest is neither run nor stopped while a callback runs: whoever     *)
(* sends vCont or vCtrlC holds the event lock and is at no join, and a     *)
(* callback's dispatcher holds that lock and is at its join.               *)
THEOREM GuestHeldForCallbacks == Spec => NoExecInCallback
  <1>1. Inv /\ [Next]_vars => [SendsExec => \A c \in Cbs : ~Live(c)]_vars
    <2> SUFFICES ASSUME Inv, Next, SendsExec, NEW c \in Cbs, Live(c)
                 PROVE  FALSE
      OBVIOUS
    <2>1. at[Boss(c)] = "join" /\ eventLock = Boss(c)
      BY JoinsInsideLock DEF Inv
    <2>2. PICK t \in Threads :
             \/ t \in Dispatchers /\ at[t] \in {"contSend", "stepSend"}
             \/ t \in Callers /\ at[t] = "stopSend"
      BY ExecSenders
    <2>3. InEventLock(t)
      BY <2>2, UsersAssumption DEF InEventLock, Place, MainHeld, EventFree, Callers
    <2>4. eventLock = t
      BY <2>3 DEF Inv, LockInv, EventLockHeld
    <2> QED BY <2>1, <2>2, <2>4
  <1> QED BY <1>1, Invariant, PTL DEF Spec, NoExecInCallback

====

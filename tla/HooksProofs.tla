----------------------------- MODULE HooksProofs ----------------------------
(***************************************************************************)
(* Proofs about the execution hooks of Monk, for careful programs that     *)
(* stop the guest from callbacks only and add and remove hooks from main   *)
(* and from callbacks (see README, section 3): whenever the guest runs,    *)
(* the breakpoint of every hook is set, although each stop drops them all. *)
(***************************************************************************)
EXTENDS CarefulProofs

USE DEF Main, Event, Cbs, NoThread, Dispatchers

----------------------------------------------------------------------------
(* What the threads ask for *)

UsersHookNothing == \A u \in Users : MayCall[u] \cap {"add", "remove"} = {}
Hooking == Disciplined /\ UsersHookNothing

Asks == {"send", "recv"}
Changes == {"set", "clear"}

(* A thread has a request only while it makes one; users change no         *)
(* breakpoint; main asks only while the guest is calm, and compares no     *)
(* address with the pc; the event thread clears the breakpoint it has hit, *)
(* and the others those they unhook.                                       *)
RequestsOpen == \A t \in Threads : at[t] \notin Asks => rq[t] = NoRequest
UsersKeepOff == \A u \in Users : rq[u].op \notin Changes
MainAsking ==
    /\ at[Main] \in Asks => Calm /\ at[Event] \in AtEase
    /\ Place(Main) \notin {"unsetPc", "unsetCmp"}
ClearsSafely ==
    \A t \in Threads : rq[t].op = "clear" =>
        IF t = Event THEN rq[t].back = "eventDisp" ELSE rq[t].addr \notin hooks
AskingInv == RequestsOpen /\ UsersKeepOff /\ MainAsking /\ ClearsSafely

(* A dispatcher that an exception has ended keeps the event lock: nothing  *)
(* moves the guest any more. *)
Stuck == \E t \in Dispatchers : eventLock = t /\ ~InEventLock(t)
StuckCalm == Stuck => Calm

(* A stop packet says what the stub says; only the one left from the start *)
(* is no breakpoint's or step's, and then there is no hook.                *)
WhyAsked == \A i \in Asked : toStub[i].op = "why" => at[Event] = "whyWait"
StopSignals ==
    /\ \A i \in Told : fromStub[i].body = "SIGTRAP" /\ stub.sig = "SIGTRAP"
    /\ Queued => stopQ[1] = stub.sig
    /\ Queued /\ stopQ[1] = "SIGINT" => hooks = {}
    /\ at[Event] \in {"why", "whyWait"} => stub.sig = "SIGTRAP"
StopInv == StuckCalm /\ WhyAsked /\ StopSignals

----------------------------------------------------------------------------
(* Breakpoints *)

(* From the stop until its breakpoints are set again they may be missing.  *)
Looping == {"stepWait", "stepDisp", "disp", "callbacks", "join", "rearm"}
DropPlaces(t) ==
    Looping \cup IF t = Event THEN {"why", "whyWait", "unset", "eventDisp"} ELSE {}
Dropped ==
    Told # {} \/ Queued \/ Stuck \/ \E t \in Dispatchers : Place(t) \in DropPlaces(t)

SetPending(a) == \E t \in Threads : rq[t].op = "set" /\ rq[t].addr = a
Has(a) == a \in stub.bps \/ SetPending(a)
Armed == ~Dropped => \A a \in hooks \ Refused : Has(a)

(* While a dispatcher sets them again, those it has not come to yet *)
RearmingBy(t) ==
    Place(t) = "rearm" =>
        seen[t] = keys /\ \A a \in hooks \ Refused : Has(a) \/ a \in todo[t]
Rearming == \A t \in Dispatchers : RearmingBy(t)

(* A reply to a request to set a breakpoint finds it set. *)
IsSet(r) == rq[r.to].op = "set" => rq[r.to].addr \notin Addr \ (Refused \cup stub.bps)
SetDone ==
    /\ \A i \in ToldData : IsSet(fromStub[i])
    /\ \A i \in DOMAIN readQ : IsSet(readQ[i])

BreakInv == hooks \subseteq keys /\ Armed /\ Rearming /\ SetDone

HookInv == AskingInv /\ StopInv /\ BreakInv

Steady == Inv /\ OrderInv /\ DisciplineInv /\ HookInv

LEMMA SteadyFacts ==
    ASSUME Steady
    PROVE  /\ TypeOK /\ LockInv /\ Order /\ ~Over /\ ~shutdown /\ OneStop
           /\ at \in [Threads -> Labels] /\ rq \in [Threads -> Requests]
           /\ Main \in Threads /\ Event \in Threads
           /\ NoCtrlC /\ StatusInv /\ ReplyInv /\ AskingInv /\ StopInv /\ BreakInv
           /\ \A t \in Threads : rq[t].op # "detach"
  <1>1. Inv /\ OrderInv /\ NoCtrlC /\ StatusInv /\ ReplyInv /\ AskingInv /\ StopInv /\ BreakInv
    BY DEF Steady, DisciplineInv, HookInv
  <1> QED BY <1>1, NotOver DEF Inv, Order, TypeOK, TargetType, Threads

----------------------------------------------------------------------------
(* What a step of thread t does to the others, to the event lock and to    *)
(* the dispatchers *)

Others(t) ==
    \A u \in Threads \ {t} :
        /\ rq'[u] = rq[u]
        /\ at'[u] = at[u] \/ (u \in Cbs /\ at[u] \notin Asks /\ at'[u] \notin Asks)
LockMove(t) ==
    IF t \in Dispatchers
       THEN \/ eventLock' = eventLock /\ (InEventLock(t)' <=> InEventLock(t))
            \/ eventLock = NoThread /\ eventLock' = t /\ InEventLock(t)'
            \/ InEventLock(t) /\ eventLock' = NoThread
       ELSE eventLock' = eventLock

LEMMA OthersStay ==
    ASSUME NEW t, Others(t)
    PROVE  \A u \in Dispatchers \ {t} :
              /\ at'[u] = at[u] /\ rq'[u] = rq[u] /\ Place(u)' = Place(u)
              /\ InEventLock(u)' <=> InEventLock(u)
  BY DEF Others, Threads, Place, InEventLock

(* A dispatcher inside the event lock holds it, and the other is outside. *)
LEMMA Holder ==
    ASSUME LockInv, NEW t \in Dispatchers, InEventLock(t)
    PROVE  ~Stuck /\ eventLock = t /\ \A u \in Dispatchers : InEventLock(u) => u = t
  BY DEF LockInv, EventLockHeld, Stuck, Threads

LEMMA StuckKept ==
    ASSUME LockInv, NEW t, Others(t), LockMove(t)
    PROVE  Stuck' <=> Stuck
  <1>1. \A u \in Dispatchers \ {t} : InEventLock(u)' <=> InEventLock(u)
    BY OthersStay
  <1>2. CASE t \in Dispatchers
    BY <1>1, <1>2, Holder DEF LockMove, Stuck
  <1>3. CASE t \notin Dispatchers
    BY <1>1, <1>3 DEF LockMove, Stuck
  <1> QED BY <1>2, <1>3

(* Whoever changes a breakpoint does so while the guest is calm.           *)
LEMMA ChangesAreCalm ==
    ASSUME Steady, NEW t \in Threads, rq[t].op \in Changes
    PROVE  Calm /\ at[t] \in Asks /\ t \notin Users
  <1>1. at[t] \in Asks /\ t \notin Users /\ rq[t] \in Requests
    BY SteadyFacts DEF AskingInv, RequestsOpen, UsersKeepOff, NoRequest, Changes
  <1>2. CASE t = Main
    BY <1>1, <1>2, SteadyFacts DEF AskingInv, MainAsking
  <1>3. CASE t = Event
    <2>1. Place(Event) \notin AtEase \cup {"after", "whyWait", "stepWait"}
      BY <1>1, <1>3 DEF Place, Asks, Requests, Returns, AtEase
    <2> QED BY <1>1, <2>1, SteadyFacts DEF Order, EventCalm
  <1>4. CASE t \in Cbs
    BY <1>1, <1>4, CallbackIsCalm DEF Steady, Live, Asks
  <1> QED BY <1>1, <1>2, <1>3, <1>4 DEF Threads

----------------------------------------------------------------------------
(* What keeps each part of the invariant *)

(* Thread t stays in its request or outside it, ends it, or makes one.     *)
AskFits(t) ==
    /\ t \in Users => rq'[t].op \notin Changes
    /\ rq'[t].op = "clear" =>
          IF t = Event THEN rq'[t].back = "eventDisp" ELSE rq'[t].addr \notin hooks'
RequestMove(t) ==
    \/ rq'[t] = rq[t] /\ (at[t] \in Asks <=> at'[t] \in Asks)
    \/ rq'[t] = NoRequest /\ at'[t] \notin Asks
    \/ rq[t] = NoRequest /\ at[t] \notin Asks /\ at'[t] = "send" /\ AskFits(t)
HooksMove(t) ==
    \/ hooks' \subseteq hooks
    \/ Calm /\ \A u \in Threads : rq[u].op # "clear"

LEMMA AskingKept ==
    ASSUME AskingInv, NEW t \in Threads, Others(t), RequestMove(t), HooksMove(t), MainAsking'
    PROVE  AskingInv'
  <1>1. RequestsOpen'
    BY DEF AskingInv, RequestsOpen, Others, RequestMove, Asks
  <1>2. UsersKeepOff'
    <2> SUFFICES ASSUME NEW u \in Users PROVE rq'[u].op \notin Changes
      BY DEF UsersKeepOff
    <2>1. u \in Threads /\ rq[u].op \notin Changes
      BY DEF AskingInv, UsersKeepOff, Threads
    <2>2. NoRequest.op \notin Changes
      BY DEF NoRequest, Changes
    <2>3. CASE u # t
      BY <2>1, <2>3 DEF Others
    <2>4. CASE u = t
      BY <2>1, <2>2, <2>4 DEF RequestMove, AskFits
    <2> QED BY <2>3, <2>4
  <1>3. ClearsSafely'
    BY DEF AskingInv, ClearsSafely, Others, RequestMove, AskFits, HooksMove, NoRequest
  <1> QED BY <1>1, <1>2, <1>3 DEF AskingInv

LEMMA BreaksKept ==
    ASSUME BreakInv, SetDone', hooks' \subseteq keys',
           \A a \in hooks \ Refused : Has(a) => Has(a)',
           \A a \in hooks' \ hooks : Has(a)',
           \A u \in Dispatchers :
              \/ RearmingBy(u)'
              \/ Place(u)' = Place(u) /\ todo'[u] = todo[u] /\ seen'[u] = seen[u] /\ keys' = keys,
           Dropped => Dropped' \/ \A a \in hooks \ Refused : Has(a)
    PROVE  BreakInv'
  <1>1. Armed'
    <2> SUFFICES ASSUME ~Dropped', NEW a \in hooks' \ Refused PROVE Has(a)'
      BY DEF Armed
    <2> QED BY DEF BreakInv, Armed
  <1>2. ASSUME NEW u \in Dispatchers,
               Place(u)' = Place(u), todo'[u] = todo[u], seen'[u] = seen[u], keys' = keys
        PROVE  RearmingBy(u)'
    <2> SUFFICES ASSUME Place(u)' = "rearm"
                 PROVE  seen'[u] = keys' /\ \A a \in hooks' \ Refused : Has(a)' \/ a \in todo'[u]
      BY DEF RearmingBy
    <2>1. seen[u] = keys /\ \A a \in hooks \ Refused : Has(a) \/ a \in todo[u]
      BY <1>2 DEF BreakInv, Rearming, RearmingBy
    <2> QED BY <1>2, <2>1
  <1>3. Rearming'
    BY <1>2 DEF Rearming
  <1> QED BY <1>1, <1>3 DEF BreakInv

(* While no reply is taken, requests are not lost. *)
LEMMA RequestsKept ==
    ASSUME Steady, NEW t \in Threads, Others(t), stub' = stub, fromStub' = fromStub, readQ' = readQ,
           at[t] # "recv", rq'[t] = rq[t] \/ rq[t] = NoRequest
    PROVE  SetDone' /\ \A a \in Addr : Has(a) => Has(a)'
  <1>1. ASSUME NEW a \in Addr, SetPending(a) PROVE SetPending(a)'
    <2>1. PICK u \in Threads : rq[u].op = "set" /\ rq[u].addr = a
      BY <1>1 DEF SetPending
    <2>2. rq'[u] = rq[u]
      BY <2>1 DEF Others, NoRequest
    <2> QED BY <2>1, <2>2 DEF SetPending
  <1>2. ASSUME NEW r, Fits(r), IsSet(r) PROVE IsSet(r)'
    <2>1. r.to \in Threads /\ at[r.to] = "recv"
      BY <1>2 DEF Fits
    <2>2. rq'[r.to] = rq[r.to]
      BY <2>1 DEF Others
    <2> QED BY <1>2, <2>2 DEF IsSet
  <1>3. ToldData' = ToldData
    BY DEF ToldData
  <1>4. \A i \in ToldData' : IsSet(fromStub[i])'
    BY <1>2, <1>3, SteadyFacts DEF ReplyInv, BreakInv, SetDone
  <1>5. \A i \in DOMAIN readQ' : IsSet(readQ[i])'
    BY <1>2, SteadyFacts DEF ReplyInv, BreakInv, SetDone
  <1>6. SetDone'
    BY <1>4, <1>5 DEF SetDone
  <1> QED BY <1>1, <1>6 DEF Has

(* What thread t does to the loops that set breakpoints again *)
LoopsMove(t) ==
    \A u \in Dispatchers :
        \/ RearmingBy(u)'
        \/ Place(u)' = Place(u) /\ todo'[u] = todo[u] /\ seen'[u] = seen[u] /\ keys' = keys
DropMove(t) ==
    t \in Dispatchers /\ Place(t) \in DropPlaces(t) =>
        Place(t)' \in DropPlaces(t) \/ \A a \in hooks \ Refused : Has(a)

(* A step that sends nothing that stirs the guest, and takes nothing       *)
EventMove(t) ==
    t = Event => /\ at[Event] # "whyWait" /\ at'[Event] \notin {"why", "whyWait"}
                 /\ at[Event] \in AtEase => at'[Event] \in AtEase
Plain(t) ==
    /\ KeepTokens /\ readQ' = readQ /\ at[t] # "recv"
    /\ rq'[t] = rq[t] \/ rq[t] = NoRequest
    /\ Others(t) /\ LockMove(t) /\ RequestMove(t) /\ HooksMove(t) /\ EventMove(t)
    /\ t = Main /\ at'[t] \in Asks => Calm /\ at[Event] \in AtEase
    /\ t = Main => Place(Main)' \notin {"unsetPc", "unsetCmp"}
    /\ hooks' \subseteq keys' /\ (\A a \in hooks' \ hooks : Has(a)')
    /\ LoopsMove(t) /\ DropMove(t)

LEMMA DropKept ==
    ASSUME NEW t, Others(t), DropMove(t), Told' = Told, stopQ' = stopQ, Stuck' <=> Stuck
    PROVE  Dropped => Dropped' \/ \A a \in hooks \ Refused : Has(a)
  <1>1. \A u \in Dispatchers \ {t} : Place(u)' = Place(u)
    BY OthersStay
  <1> QED BY <1>1 DEF Dropped, DropMove, Queued, DropPlaces

LEMMA PlainStep ==
    ASSUME Steady, NEW t \in Threads, Plain(t)
    PROVE  HookInv'
  <1>1. /\ Asked' = Asked /\ Told' = Told /\ (Calm' <=> Calm)
        /\ \A i \in Asked : toStub'[i] = toStub[i]
        /\ stub' = stub /\ fromStub' = fromStub /\ stopQ' = stopQ
    BY SteadyFacts, Kept DEF Plain, KeepTokens
  <1>2. Stuck' <=> Stuck
    BY SteadyFacts, StuckKept DEF Plain
  <1>3. at'[Event] = at[Event] \/ t = Event
    BY OthersStay DEF Plain
  <1>4. MainAsking'
    <2>1. CASE t = Main
      BY <1>1, <1>3, <2>1 DEF MainAsking, Plain
    <2>2. CASE t # Main
      <3>1. at'[Main] = at[Main] /\ Place(Main)' = Place(Main)
        BY <2>2, OthersStay DEF Plain
      <3>2. MainAsking
        BY SteadyFacts DEF AskingInv
      <3> QED BY <1>1, <1>3, <3>1, <3>2 DEF MainAsking, Plain, EventMove
    <2> QED BY <2>1, <2>2
  <1>5. AskingInv'
    BY <1>4, SteadyFacts, AskingKept DEF Plain
  <1>6. StopInv'
    <2>1. StuckCalm'
      BY <1>1, <1>2, SteadyFacts DEF StopInv, StuckCalm
    <2>2. WhyAsked'
      BY <1>1, <1>3, SteadyFacts DEF StopInv, WhyAsked, Plain, EventMove
    <2>3. at'[Event] \in {"why", "whyWait"} => at[Event] \in {"why", "whyWait"}
      BY <1>3 DEF Plain, EventMove
    <2>4. hooks' \subseteq hooks \/ ~Queued
      BY DEF Plain, HooksMove, Calm
    <2>5. Queued' <=> Queued
      BY <1>1 DEF Queued
    <2>6. StopSignals'
      BY <1>1, <2>3, <2>4, <2>5, SteadyFacts DEF StopInv, StopSignals
    <2> QED BY <2>1, <2>2, <2>6 DEF StopInv
  <1>7. BreakInv'
    <2>1. SetDone' /\ \A a \in Addr : Has(a) => Has(a)'
      BY <1>1, RequestsKept DEF Plain
    <2>2. hooks \subseteq Addr
      BY SteadyFacts DEF TypeOK, HooksType
    <2>3. Dropped => Dropped' \/ \A a \in hooks \ Refused : Has(a)
      BY <1>1, <1>2, DropKept DEF Plain
    <2>4. BreakInv
      BY SteadyFacts
    <2> QED BY <2>1, <2>2, <2>3, <2>4, BreaksKept DEF Plain, LoopsMove
  <1> QED BY <1>5, <1>6, <1>7 DEF HookInv

(* Steps that touch no hook, of a thread that only calls ... *)
LEMMA ByCaller ==
    ASSUME Steady, NEW t \in Threads \ Dispatchers, KeepTokens, at[t] # "recv",
           UNCHANGED <<readQ, hookVars, eventLock>>, Others(t), RequestMove(t),
           rq'[t] = rq[t] \/ rq[t] = NoRequest
    PROVE  HookInv'
  <1>1. LoopsMove(t) /\ DropMove(t)
    BY OthersStay DEF LoopsMove, DropMove, hookVars, loopVars
  <1>2. hooks' = hooks /\ hooks' \subseteq keys'
    BY SteadyFacts DEF BreakInv, hookVars
  <1> QED BY <1>1, <1>2, PlainStep DEF Plain, LockMove, HooksMove, EventMove

(* ... and of a dispatcher.  After it asks main finds the guest calm.      *)
LEMMA ByDispatcher ==
    ASSUME Steady, NEW t \in Dispatchers, KeepTokens, at[t] # "recv",
           UNCHANGED <<readQ, hookVars>>, Others(t), LockMove(t), RequestMove(t), EventMove(t),
           rq'[t] = rq[t] \/ rq[t] = NoRequest,
           t = Main /\ at'[t] \in Asks => Calm /\ at[Event] \in AtEase,
           t = Main => Place(Main)' \notin {"unsetPc", "unsetCmp"},
           Place(t)' = Place(t) \/ Place(t)' # "rearm",
           Place(t) \in DropPlaces(t) => Place(t)' \in DropPlaces(t)
    PROVE  HookInv'
  <1>1. LoopsMove(t) /\ DropMove(t)
    BY OthersStay DEF LoopsMove, DropMove, RearmingBy, hookVars, loopVars
  <1>2. hooks' = hooks /\ hooks' \subseteq keys' /\ t \in Threads
    BY SteadyFacts DEF BreakInv, hookVars
  <1> QED BY <1>1, <1>2, PlainStep DEF Plain, HooksMove

(* A dispatcher that goes about it inside the event lock sets the guest in *)
(* motion or asks why it stopped.                                          *)
LEMMA StirStep ==
    ASSUME Steady, NEW t \in Dispatchers, Calm, InEventLock(t), at[t] \notin AtEase \cup Asks,
           stub' = stub, fromStub' = fromStub, stopQ' = stopQ, readQ' = readQ,
           NEW m \in Stirring, toStub' = Append(toStub, m),
           UNCHANGED <<hookVars, rq>>, Others(t), LockMove(t), at'[t] \notin Asks,
           m.op = "why" => t = Event,
           t = Event => (at'[Event] = "whyWait" <=> m.op = "why"),
           t = Event /\ m.op = "why" => at[Event] = "why",
           t = Event => at'[Event] # "why",
           Place(t) \in DropPlaces(t) => Place(t)' \in DropPlaces(t), Place(t)' # "rearm",
           t = Main => Place(Main)' \notin {"unsetPc", "unsetCmp"}
    PROVE  HookInv'
  <1>1. /\ ~Moves' /\ \A i \in Asked' : toStub'[i] = m
        /\ Told' = {} /\ Told = {} /\ ~Queued'
    BY SteadyFacts, Stirred DEF Calm, Told, Queued
  <1>2. ~Stuck /\ ~Stuck'
    BY SteadyFacts, Holder, StuckKept
  <1>3. at'[Event] = at[Event] \/ t = Event
    BY OthersStay
  <1>4. MainAsking'
    <2>1. CASE t = Main
      BY <2>1 DEF MainAsking
    <2>2. CASE t = Event
      BY <2>2, SteadyFacts, OthersStay DEF MainAsking, AskingInv
    <2> QED BY <2>1, <2>2
  <1>5. AskingInv'
    BY <1>4, SteadyFacts, AskingKept DEF RequestMove, HooksMove, hookVars
  <1>6. StopInv'
    <2>1. WhyAsked'
      BY <1>1 DEF WhyAsked
    <2>2. at'[Event] \in {"why", "whyWait"} => at[Event] \in {"why", "whyWait"}
      BY <1>3
    <2>3. StopSignals'
      BY <1>1, <2>2, SteadyFacts DEF StopInv, StopSignals
    <2> QED BY <1>2, <2>1, <2>3 DEF StopInv, StuckCalm
  <1>7. BreakInv'
    <2>1. SetDone' /\ \A a \in Addr : Has(a) => Has(a)'
      BY RequestsKept, SteadyFacts DEF Asks
    <2>2. hooks \subseteq Addr /\ hooks' = hooks /\ hooks' \subseteq keys' /\ BreakInv
      BY SteadyFacts DEF TypeOK, HooksType, hookVars, BreakInv
    <2>3. LoopsMove(t) /\ DropMove(t)
      BY OthersStay DEF LoopsMove, DropMove, RearmingBy, hookVars, loopVars
    <2>4. Dropped => Dropped' \/ \A a \in hooks \ Refused : Has(a)
      BY <1>1, <1>2, <2>3, DropKept
    <2> QED BY <2>1, <2>2, <2>3, <2>4, BreaksKept DEF LoopsMove
  <1> QED BY <1>5, <1>6, <1>7 DEF HookInv

(* A dispatcher takes the stop packet it has waited for, or finds that     *)
(* there is none.                                                          *)
LEMMA TakeStep ==
    ASSUME Steady, NEW t \in Dispatchers, Calm', Asked' = {}, at[t] \notin Asks,
           UNCHANGED <<stub, fromStub, toStub, readQ, hookVars>>,
           Others(t), eventLock' = eventLock, InEventLock(t)' <=> InEventLock(t),
           \/ rq'[t] = rq[t] /\ at'[t] \notin Asks
           \/ rq[t] = NoRequest /\ at'[t] = "send" /\ rq'[t].op = "pc",
           t = Main => at[Event] \in AtEase,
           t = Event => at[Main] \notin Asks,
           at'[Event] \in {"why", "whyWait"} => stub.sig = "SIGTRAP",
           t = Main => Place(Main)' \notin {"unsetPc", "unsetCmp"},
           Place(t)' # "rearm", Place(t)' \in DropPlaces(t) \/ hooks = {}
    PROVE  HookInv'
  <1>1. LockMove(t) /\ HooksMove(t) /\ RequestMove(t)
    BY DEF LockMove, HooksMove, RequestMove, AskFits, Changes, hookVars
  <1>2. at'[Event] = at[Event] \/ t = Event
    BY OthersStay
  <1>3. MainAsking'
    <2>1. MainAsking
      BY SteadyFacts DEF AskingInv
    <2>2. Place(Main)' \notin {"unsetPc", "unsetCmp"}
      BY <2>1, OthersStay DEF MainAsking
    <2> QED BY <1>2, <2>2, OthersStay DEF MainAsking
  <1>4. AskingInv'
    BY <1>1, <1>3, SteadyFacts, AskingKept
  <1>5. StopInv'
    BY DEF StopInv, StuckCalm, WhyAsked, StopSignals, Calm
  <1>6. BreakInv'
    <2>1. SetDone' /\ \A a \in Addr : Has(a) => Has(a)'
      BY RequestsKept, SteadyFacts DEF Asks
    <2>2. hooks \subseteq Addr /\ hooks' = hooks /\ hooks' \subseteq keys' /\ BreakInv
      BY SteadyFacts DEF TypeOK, HooksType, hookVars, BreakInv
    <2>3. LoopsMove(t)
      BY OthersStay DEF LoopsMove, RearmingBy, hookVars, loopVars
    <2>4. Dropped' \/ hooks = {}
      BY DEF Dropped
    <2> QED BY <2>1, <2>2, <2>3, <2>4, BreaksKept DEF LoopsMove
  <1> QED BY <1>4, <1>5, <1>6 DEF HookInv

----------------------------------------------------------------------------
(* Calls *)

(* Whoever adds or removes a hook finds the guest calm, and nobody at work *)
(* on the breakpoints. *)
LEMMA HookCaller ==
    ASSUME Steady, Hooking, NEW t \in Callers, NEW name \in {"add", "remove"}, CanCall(t, name)
    PROVE  /\ t \notin Users /\ Calm /\ (t = Main => at[Event] \in AtEase)
           /\ \A u \in Threads : rq[u].op \notin Changes
           /\ \A u \in Dispatchers : Place(u) # "rearm"
  <1>1. t \notin Users
    BY DEF Hooking, UsersHookNothing, CanCall
  <1>2. \A u \in Threads : rq[u].op \in Changes => at[u] \in Asks /\ u \notin Users
    BY ChangesAreCalm
  <1>3. \A c \in Cbs : Live(c) => at[Boss(c)] = "join" /\ InEventLock(Boss(c)) /\ Boss(c) \in Dispatchers
    BY SteadyFacts DEF LockInv, DispatcherJoins, InEventLock, Place, MainHeld, EventFree, Boss
  <1>4. CASE t = Main
    <2>1. Calm /\ at[Event] \in AtEase
      BY <1>4, QuietIsCalm DEF Hooking, Disciplined, Orderly
    <2>2. at[Main] = "user" /\ at[Event] \in {"loop", "acquire", "poll"}
      BY <1>4, SteadyFacts DEF CanCall, Home, Quiet, Hooking, Disciplined, Orderly
    <2>3. ASSUME NEW c \in Cbs, at[c] \in Asks PROVE FALSE
      BY <1>3, <2>2, <2>3 DEF Live, Asks, Boss
    <2>4. \A u \in Threads : rq[u].op \notin Changes
      BY <1>2, <2>2, <2>3 DEF Asks, Threads
    <2>5. \A u \in Dispatchers : Place(u) # "rearm"
      BY <2>2 DEF Place
    <2> QED BY <1>1, <2>1, <2>4, <2>5
  <1>5. CASE t \in Cbs
    <2>1. at[t] = "cb" /\ Live(t) /\ at[Boss(t)] = "join" /\ InEventLock(Boss(t)) /\ t # Main
      BY <1>3, <1>5 DEF CanCall, Home, Live
    <2>2. Calm
      BY <1>5, <2>1, CallbackIsCalm DEF Steady
    <2>3. \A u \in Dispatchers : InEventLock(u) => u = Boss(t)
      BY <1>5, <2>1, <1>3, Holder, SteadyFacts
    <2>4. \A c \in Cbs : Live(c) => c = t
      BY <1>3, <1>5, <2>3 DEF Boss
    <2>5. \A u \in Dispatchers : Place(u) # "rearm"
      <3>1. \A u \in Dispatchers : Place(u) = "rearm" => InEventLock(u)
        BY DEF InEventLock, Place, MainHeld, EventFree
      <3> QED BY <2>1, <2>3, <3>1 DEF Place
    <2>6. at[Main] \notin Asks /\ at[Event] \notin Asks
      <3>1. CASE Boss(t) = Main
        BY <2>1, <2>3, <3>1 DEF Asks, InEventLock, EventFree
      <3>2. CASE Boss(t) = Event
        BY <2>1, <3>2, SteadyFacts DEF AskingInv, MainAsking, Asks, AtEase
      <3> QED BY <3>1, <3>2 DEF Boss
    <2>7. \A u \in Threads : rq[u].op \notin Changes
      BY <1>2, <2>1, <2>4, <2>6 DEF Live, Asks, Threads
    <2> QED BY <1>1, <2>1, <2>2, <2>5, <2>7
  <1> QED BY <1>1, <1>4, <1>5 DEF Callers

(* A call that adds or removes a hook *)
LEMMA HookChange ==
    ASSUME Steady, NEW t \in Callers, t \notin Users, KeepTokens, UNCHANGED <<readQ, eventLock>>,
           Calm, t = Main => at[Event] \in AtEase,
           \A u \in Threads : rq[u].op \notin Changes,
           \A u \in Dispatchers : Place(u) # "rearm",
           at[t] \in {"user", "cb"}, Others(t), RequestMove(t),
           rq'[t] = rq[t] \/ rq[t] = NoRequest,
           t = Main => at[Main] = "user" /\ Place(Main)' = "user",
           hooks' \subseteq keys', \A a \in hooks' \ hooks : Has(a)'
    PROVE  HookInv'
  <1>1. t \in Threads /\ t # Event /\ at[t] # "recv" /\ \A u \in Threads : rq[u].op # "clear"
    BY UsersAssumption DEF Callers, Threads, Changes
  <1>2. t \in Dispatchers => t = Main /\ ~InEventLock(t) /\ ~InEventLock(t)' /\ Place(t) = "user"
    <2>1. ASSUME t = Main
          PROVE  Place(Main) = "user" /\ Place(Main)' = "user"
      BY <1>1, <2>1 DEF Place
    <2>2. InEventLock(Main) <=> Place(Main) \in MainHeld
      BY DEF InEventLock
    <2>3. InEventLock(Main)' <=> Place(Main)' \in MainHeld
      BY DEF InEventLock
    <2> QED BY <1>1, <2>1, <2>2, <2>3 DEF MainHeld
  <1>3. LoopsMove(t) /\ DropMove(t) /\ LockMove(t)
    BY <1>2, OthersStay DEF LoopsMove, RearmingBy, DropMove, DropPlaces, Looping, LockMove
  <1> QED BY <1>1, <1>3, PlainStep DEF Plain, HooksMove, EventMove

LEMMA HookCall ==
    ASSUME Steady, Hooking, NEW t \in Callers, Call(t)
    PROVE  HookInv'
  <1>1. /\ t \in Threads /\ t # Event /\ KeepTokens /\ ~shutdown
        /\ at \in [Threads -> Labels] /\ rq \in [Threads -> Requests]
    BY UsersAssumption, SteadyFacts, CallShape DEF Callers, Threads
  <1>2. at[t] = Home(t) /\ UNCHANGED <<readQ, eventLock>>
    BY DEF Call, OfTarget, OfHooks, CallRead, CallRun, CallStep, CallStop, CallClose, CallAdd,
       CallRemove, CallRemoveGone, CanCall, Unmoved, queueVars, lockVars
  <1>3. /\ Home(t) \in {"user", "cb"} /\ (t = Main => Home(t) = "user" /\ Raised(t) = "user")
        /\ Raised(t) \in {"user", "end"} /\ rq[t] = NoRequest /\ at[t] \notin Asks
    <2>1. Home(t) \in {"user", "cb"} /\ (t = Main => Home(t) = "user")
      BY <1>1 DEF Home
    <2>2. Raised(t) \in {"user", "end"} /\ (t = Main => Raised(t) = "user")
      <3>1. CASE t \in Cbs
        BY <3>1 DEF Raised
      <3>2. CASE t \notin Cbs
        BY <1>1, <2>1, <3>2 DEF Raised, Home
      <3> QED BY <3>1, <3>2
    <2>3. at[t] \notin Asks
      BY <1>2, <2>1 DEF Asks
    <2> QED BY <1>1, <2>1, <2>2, <2>3, SteadyFacts DEF AskingInv, RequestsOpen
  <1> USE DEF OfTarget, OfHooks, localVars
  <1>4. CASE OfTarget(CallRead(t))
    <2>1. /\ at' = [at EXCEPT ![t] = "send"]
          /\ rq' = [rq EXCEPT ![t] = [op |-> "data", addr |-> NoAddr, back |-> Home(t)]]
          /\ CanCall(t, "read") /\ UNCHANGED hookVars
      BY <1>4 DEF CallRead, Ask, Go
    <2>2. /\ at'[t] = "send" /\ rq'[t] = [op |-> "data", addr |-> NoAddr, back |-> Home(t)]
          /\ Others(t)
      BY <1>1, <2>1 DEF Others
    <2>3. RequestMove(t)
      BY <1>3, <2>2 DEF RequestMove, AskFits, Changes
    <2>4. CASE t = Main
      <3>1. Calm /\ at[Event] \in AtEase
        BY <2>1, <2>4, QuietIsCalm DEF Hooking, Disciplined, Orderly
      <3>2. Place(t) = "user" /\ Place(t)' = "user" /\ LockMove(t) /\ EventMove(t)
        BY <1>1, <1>2, <1>3, <2>2, <2>4 DEF Place, LockMove, EventMove, InEventLock, MainHeld
      <3> QED BY <1>1, <1>2, <1>3, <2>1, <2>2, <2>3, <2>4, <3>1, <3>2, ByDispatcher
              DEF DropPlaces, Looping
    <2>5. CASE t # Main
      BY <1>1, <1>2, <1>3, <2>1, <2>2, <2>3, <2>5, ByCaller
    <2> QED BY <2>4, <2>5
  <1>5. CASE OfTarget(CallRun(t) \/ CallStep(t) \/ CallStop(t) \/ CallClose(t))
    <2>1. PICK l \in {Home(t), Raised(t), "cont", "guard", "stop", "closeJoin"} :
             at' = [at EXCEPT ![t] = l]
      BY <1>5 DEF CallRun, CallStep, CallStop, CallClose, Go
    <2>2. at'[t] = l /\ l \notin Asks \cup MainHeld \cup {"rearm"} /\ Others(t) /\ rq' = rq
          /\ UNCHANGED hookVars
      BY <1>1, <1>3, <1>5, <2>1 DEF Others, Asks, MainHeld, CallRun, CallStep, CallStop, CallClose
    <2>3. RequestMove(t)
      BY <1>3, <2>2 DEF RequestMove
    <2>4. CASE t = Main
      <3>1. Place(t) = "user" /\ Place(t)' = l /\ LockMove(t) /\ EventMove(t)
        BY <1>1, <1>2, <1>3, <2>2, <2>4 DEF Place, Asks, LockMove, EventMove, InEventLock, MainHeld
      <3> QED BY <1>1, <1>2, <1>3, <2>2, <2>3, <2>4, <3>1, ByDispatcher DEF DropPlaces, Looping
    <2>5. CASE t # Main
      BY <1>1, <1>2, <1>3, <2>2, <2>3, <2>5, ByCaller
    <2> QED BY <2>4, <2>5
  <1>6. ASSUME NEW name \in {"add", "remove"}, CanCall(t, name)
        PROVE  /\ t \notin Users /\ Calm /\ (t = Main => at[Event] \in AtEase)
               /\ \A u \in Threads : rq[u].op \notin Changes
               /\ \A u \in Dispatchers : Place(u) # "rearm"
    BY <1>6, HookCaller
  <1>7. hooks \subseteq keys
    BY SteadyFacts DEF BreakInv
  <1>8. CASE OfHooks(CallAdd(t))
    <2>1. PICK a \in Addr \ hooks :
             /\ hooks' = hooks \cup {a} /\ keys' = keys \cup {a}
             /\ Ask(t, "set", a, Home(t))
      BY <1>8 DEF CallAdd
    <2>2. /\ at'[t] = "send" /\ rq'[t] = [op |-> "set", addr |-> a, back |-> Home(t)]
          /\ Others(t) /\ CanCall(t, "add")
      BY <1>1, <1>8, <2>1 DEF Others, Ask, Go, CallAdd
    <2>3. RequestMove(t) /\ (t = Main => Place(Main)' = "user")
      BY <1>3, <1>6, <2>2 DEF RequestMove, AskFits, Place
    <2>4. \A b \in hooks' \ hooks : Has(b)'
      BY <1>1, <2>1, <2>2 DEF Has, SetPending
    <2>5. hooks' \subseteq keys'
      BY <1>7, <2>1
    <2> QED BY <1>1, <1>2, <1>3, <1>6, <2>2, <2>3, <2>4, <2>5, HookChange
  <1>9. CASE OfHooks(CallRemove(t))
    <2>1. PICK a \in hooks, l \in {Home(t), "unsetPc"} :
             /\ hooks' = hooks \ {a} /\ keys' = keys
             /\ Ask(t, "clear", a, l) /\ (t = Main => l = Home(t))
      BY <1>9 DEF CallRemove, IsMain
    <2>2. /\ at'[t] = "send" /\ rq'[t] = [op |-> "clear", addr |-> a, back |-> l]
          /\ Others(t) /\ CanCall(t, "remove")
      BY <1>1, <1>9, <2>1 DEF Others, Ask, Go, CallRemove
    <2>3. RequestMove(t) /\ (t = Main => Place(Main)' = "user")
      BY <1>1, <1>3, <1>6, <2>1, <2>2 DEF RequestMove, AskFits, Place
    <2>4. hooks' \subseteq keys' /\ hooks' \subseteq hooks
      BY <1>7, <2>1
    <2> QED BY <1>1, <1>2, <1>3, <1>6, <2>2, <2>3, <2>4, HookChange
  <1>10. CASE OfHooks(CallRemoveGone(t))
    <2>1. /\ at'[t] = Raised(t) /\ rq' = rq /\ Others(t) /\ CanCall(t, "remove")
          /\ hooks' = hooks /\ keys \subseteq keys'
      BY <1>1, <1>10 DEF Others, Go, CallRemoveGone
    <2>2. RequestMove(t) /\ (t = Main => Place(Main)' = "user")
      BY <1>3, <2>1 DEF RequestMove, Place, Asks
    <2> QED BY <1>1, <1>2, <1>3, <1>6, <1>7, <2>1, <2>2, HookChange
  <1> QED BY <1>4, <1>5, <1>8, <1>9, <1>10 DEF Call

----------------------------------------------------------------------------
(* Every other step preserves the invariant too. *)

LEMMA HookSend ==
    ASSUME Steady, NEW t \in Threads, OfTarget(Send(t))
    PROVE  HookInv'
  <1> DEFINE m == Packet(rq[t].op, rq[t].addr, t)
  <1>1. /\ at[t] = "send" /\ at' = [at EXCEPT ![t] = "recv"] /\ rq' = rq
        /\ toStub' = Append(toStub, m) /\ eventLock' = eventLock
        /\ UNCHANGED <<stub, fromStub, stopQ, readQ, hookVars>>
    BY DEF OfTarget, Send, Go, queueVars, localVars
  <1>2. KeepTokens
    <2>1. rq[t].op \in DataOps /\ rq[t].op # "detach" /\ rq[t].addr \in Addrs
      BY SteadyFacts, SendIsData DEF OfTarget, Requests, Addrs, Steady
    <2>2. m \in Packets(Threads) \ Stirring /\ m.op # "detach"
      BY <2>1 DEF Packet, Packets, Ops, Addrs, Stirring, DataOps
    <2> QED BY <1>1, <2>2 DEF KeepTokens
  <1>3. at'[t] = "recv" /\ Others(t) /\ RequestMove(t) /\ Place(t)' = Place(t)
    BY <1>1, SteadyFacts DEF Others, RequestMove, Asks, Place
  <1>4. CASE t \in Dispatchers
    <2>1. InEventLock(t)' <=> InEventLock(t)
      BY <1>1, <1>3, <1>4 DEF InEventLock, EventFree
    <2>2. LockMove(t) /\ EventMove(t)
      BY <1>1, <1>3, <1>4, <2>1 DEF LockMove, EventMove, AtEase
    <2>3. t = Main => Calm /\ at[Event] \in AtEase
      BY <1>1, SteadyFacts DEF AskingInv, MainAsking, Asks
    <2>4. t = Main => Place(Main)' \notin {"unsetPc", "unsetCmp"}
      BY <1>3, SteadyFacts DEF AskingInv, MainAsking
    <2> QED BY <1>1, <1>2, <1>3, <1>4, <2>2, <2>3, <2>4, ByDispatcher
  <1>5. CASE t \notin Dispatchers
    BY <1>1, <1>2, <1>3, <1>5, ByCaller
  <1> QED BY <1>4, <1>5

(* A dispatcher that asks is inside the event lock, but for a call by main.*)
LEMMA AskingDispatcher ==
    ASSUME Steady, NEW t \in Dispatchers, at[t] \in Asks
    PROVE  /\ Calm
           /\ InEventLock(t) \/ (t = Main /\ Place(t) \notin MainHeld)
           /\ t = Event => at[Main] \notin Asks
  <1>1. rq[t] \in Requests
    BY SteadyFacts
  <1>2. CASE t = Main
    BY <1>2, SteadyFacts DEF AskingInv, MainAsking, InEventLock
  <1>3. CASE t = Event
    <2>1. Place(Event) \notin AtEase \cup {"after", "whyWait", "stepWait"} /\ at[Event] \notin AtEase
      BY <1>1, <1>3 DEF Place, Asks, Requests, Returns, AtEase
    <2>2. Calm /\ at[Main] \notin Asks
      BY <2>1, SteadyFacts DEF Order, EventCalm, AskingInv, MainAsking
    <2>3. InEventLock(Event)
      BY <1>3 DEF InEventLock, Asks, EventFree
    <2> QED BY <1>3, <2>2, <2>3
  <1> QED BY <1>2, <1>3

(* The reply that thread t reads is its own. *)
LEMMA ReplyRead ==
    ASSUME Steady, NEW t \in Threads, at[t] = "recv", readQ # <<>>, readQ' = Tail(readQ)
    PROVE  /\ Fits(Head(readQ)) /\ IsSet(Head(readQ)) /\ Head(readQ).to = t
           /\ ToldData = {} /\ DOMAIN readQ' = {}
  <1>1. readQ \in Seq(DataReplies(Threads)) /\ Len(readQ) <= 1 /\ ToldData = {}
    BY SteadyFacts DEF TypeOK, TargetType, ReplyInv
  <1>2. 1 \in DOMAIN readQ /\ Head(readQ) = readQ[1]
    BY <1>1, EmptySeq
  <1>3. Fits(Head(readQ)) /\ IsSet(Head(readQ))
    BY <1>2, SteadyFacts DEF ReplyInv, BreakInv, SetDone
  <1>4. rspLock = t /\ rspLock = Head(readQ).to
    BY <1>3, SteadyFacts DEF LockInv, RspLockHeld, Fits
  <1>5. readQ' = <<>> /\ DOMAIN <<>> = {}
    BY <1>1, TailOfOne
  <1> QED BY <1>1, <1>3, <1>4, <1>5

LEMMA HookReceive ==
    ASSUME Steady, NEW t \in Threads, OfTarget(Receive(t))
    PROVE  HookInv'
  <1>1. /\ at[t] = "recv" /\ rq' = [rq EXCEPT ![t] = NoRequest]
        /\ readQ # <<>> /\ readQ' = Tail(readQ) /\ eventLock' = eventLock
        /\ UNCHANGED <<stub, toStub, fromStub, stopQ, hookVars>>
        /\ \E l \in {rq[t].back, Raised(t)} : at' = [at EXCEPT ![t] = l]
    BY DEF OfTarget, Receive, Go
  <1>2. /\ Others(t) /\ rq'[t] = NoRequest /\ at'[t] \in {rq[t].back, Raised(t)}
        /\ Place(t) = rq[t].back
    BY <1>1, SteadyFacts DEF Others, Place
  <1>3. at'[t] \notin Asks /\ Place(t)' = at'[t] /\ RequestMove(t)
        /\ at'[t] \notin {"whyWait", "stepWait", "why"} /\ rq[t].back \notin EventFree
    <2>1. rq[t].back \in Returns
      BY SteadyFacts DEF Requests
    <2>2. Raised(t) \notin Asks \cup {"whyWait", "stepWait", "why"}
      BY DEF Raised, Home, Asks
    <2>3. at'[t] \notin Asks \cup {"whyWait", "stepWait", "why"} /\ rq[t].back \notin EventFree
      BY <1>2, <2>1, <2>2 DEF Returns, Asks, EventFree
    <2> QED BY <1>2, <2>3 DEF Place, RequestMove, Asks
  <1>4. (Calm' <=> Calm) /\ Asked' = Asked /\ Told' = Told /\ (Queued' <=> Queued)
    BY <1>1 DEF Calm, Asked, Told, Moves, Queued
  <1>5. MainAsking'
    <2>0. MainAsking
      BY SteadyFacts DEF AskingInv
    <2>1. CASE t = Main
      <3>1. Raised(Main) = "user"
        BY SteadyFacts DEF Raised, Home
      <3> QED BY <1>2, <1>3, <2>0, <2>1, <3>1 DEF MainAsking
    <2>2. CASE t = Event
      <3>1. at[Main] \notin Asks /\ at'[Main] = at[Main] /\ Place(Main)' = Place(Main)
        BY <1>1, <1>2, <2>2, AskingDispatcher, OthersStay DEF Asks
      <3> QED BY <2>0, <3>1 DEF MainAsking
    <2>3. CASE t \notin Dispatchers
      BY <1>2, <1>4, <2>0, <2>3, OthersStay DEF MainAsking
    <2> QED BY <2>1, <2>2, <2>3
  <1>6. AskingInv'
    BY <1>1, <1>2, <1>3, <1>5, SteadyFacts, AskingKept DEF HooksMove, hookVars
  <1>7. /\ Stuck' => Calm
        /\ Stuck => Stuck'
        /\ t \in Dispatchers /\ at'[t] # rq[t].back /\ InEventLock(t) => Stuck'
    <2>1. CASE t \in Dispatchers /\ Place(t)' # Place(t) /\ InEventLock(t)
      <3>1. ~InEventLock(t)' /\ eventLock' = t
        <4>1. Raised(Main) = "user"
          BY SteadyFacts DEF Raised, Home
        <4>2. Raised(Event) = "dead"
          BY DEF Raised
        <4>3. eventLock = t
          BY <2>1, Holder, SteadyFacts
        <4>4. CASE t = Main
          BY <1>1, <1>2, <1>3, <2>1, <4>1, <4>3, <4>4 DEF InEventLock, MainHeld
        <4>5. CASE t = Event
          BY <1>1, <1>2, <1>3, <2>1, <4>2, <4>3, <4>5 DEF InEventLock, EventFree
        <4> QED BY <2>1, <4>4, <4>5
      <3> QED BY <1>1, <2>1, <3>1, AskingDispatcher DEF Stuck, Asks
    <2>2. CASE ~(t \in Dispatchers /\ Place(t)' # Place(t) /\ InEventLock(t))
      <3>1. LockMove(t)
        <4>1. CASE t = Main /\ Place(Main)' = Place(Main)
          BY <1>1, <4>1 DEF LockMove, InEventLock
        <4>2. CASE t = Event /\ Place(Event)' = Place(Event)
          BY <1>1, <1>2, <1>3, <4>2 DEF LockMove, InEventLock, EventFree
        <4>3. CASE t = Main /\ ~InEventLock(Main) /\ Place(Main)' # Place(Main)
          <5>1. Place(Main)' = "user"
            BY <1>2, <1>3, <4>3, SteadyFacts DEF Raised, Home
          <5> QED BY <1>1, <4>3, <5>1 DEF LockMove, InEventLock, MainHeld
        <4>4. CASE t = Event /\ ~InEventLock(Event)
          BY <1>1, <4>4 DEF InEventLock, EventFree
        <4>5. CASE t \notin Dispatchers
          BY <1>1, <4>5 DEF LockMove
        <4> QED BY <2>2, <4>1, <4>2, <4>3, <4>4, <4>5
      <3>2. Stuck' <=> Stuck
        BY <1>2, <3>1, StuckKept, SteadyFacts
      <3> QED BY <1>2, <1>3, <2>2, <3>2, SteadyFacts DEF StopInv, StuckCalm
    <2> QED BY <2>1, <2>2
  <1>8. at'[Event] = at[Event] \/ (t = Event /\ at'[Event] \notin {"why", "whyWait"} /\ at[Event] = "recv")
    BY <1>1, <1>2, <1>3, OthersStay
  <1>9. StopInv'
    <2>1. StuckCalm'
      BY <1>4, <1>7 DEF StuckCalm
    <2>2. WhyAsked'
      BY <1>1, <1>4, <1>8, SteadyFacts DEF StopInv, WhyAsked
    <2>3. StopSignals'
      BY <1>1, <1>4, <1>8, SteadyFacts DEF StopInv, StopSignals, hookVars
    <2> QED BY <2>1, <2>2, <2>3 DEF StopInv
  <1>10. BreakInv'
    <2> DEFINE r == Head(readQ)
    <2>1. Fits(r) /\ IsSet(r) /\ r.to = t /\ ToldData = {} /\ DOMAIN readQ' = {}
      BY <1>1, ReplyRead
    <2>2. SetDone'
      <3>1. ToldData' = {}
        BY <1>1, <2>1 DEF ToldData
      <3> QED BY <2>1, <3>1 DEF SetDone
    <2>3. hooks \subseteq Addr /\ hooks' = hooks /\ hooks' \subseteq keys' /\ BreakInv
      BY <1>1, SteadyFacts DEF TypeOK, HooksType, hookVars, BreakInv
    <2>4. ASSUME NEW a \in hooks \ Refused, Has(a) PROVE Has(a)'
      <3>1. CASE a \in stub.bps
        BY <1>1, <3>1 DEF Has
      <3>2. CASE SetPending(a)
        <4>1. PICK u \in Threads : rq[u].op = "set" /\ rq[u].addr = a
          BY <3>2 DEF SetPending
        <4>2. CASE u = t
          BY <1>1, <2>1, <2>3, <4>1, <4>2 DEF IsSet, Has
        <4>3. CASE u # t
          BY <1>2, <4>1, <4>3 DEF Others, Has, SetPending
        <4> QED BY <4>2, <4>3
      <3> QED BY <2>4, <3>1, <3>2 DEF Has
    <2>5. LoopsMove(t)
      <3>1. Place(t)' = Place(t) \/ Place(t)' # "rearm"
        BY <1>2, <1>3 DEF Raised, Home
      <3> QED BY <1>1, <1>2, <3>1, OthersStay DEF LoopsMove, RearmingBy, hookVars, loopVars
    <2>6. Dropped => Dropped'
      <3>1. \A u \in Dispatchers \ {t} : Place(u)' = Place(u)
        BY <1>2, OthersStay
      <3>2. ASSUME t \in Dispatchers, Place(t) \in DropPlaces(t)
            PROVE  Place(t)' \in DropPlaces(t) \/ Stuck'
        <4>1. InEventLock(t)
          BY <1>1, <3>2, AskingDispatcher DEF Asks, DropPlaces, Looping, MainHeld
        <4> QED BY <1>2, <1>3, <1>7, <3>2, <4>1
      <3> QED BY <1>4, <1>7, <3>1, <3>2 DEF Dropped, DropPlaces
    <2> QED BY <2>2, <2>3, <2>4, <2>5, <2>6, BreaksKept DEF LoopsMove
  <1> QED BY <1>6, <1>9, <1>10 DEF HookInv

LEMMA HookCallerStep ==
    ASSUME Steady, NEW t \in Callers, OfTarget(CallerStep(t))
    PROVE  HookInv'
  <1>1. /\ t \in Threads /\ t # Event
        /\ at \in [Threads -> Labels] /\ rq \in [Threads -> Requests]
    BY UsersAssumption, SteadyFacts DEF Callers, Threads
  <1> USE DEF OfTarget, queueVars, flagVars, lockVars, localVars
  <1>2. at[t] \in {"stop", "unsetPc", "unsetCmp"} /\ ~StopLock(t) /\ ~StopSend(t)
        /\ (t = Main => at[t] \in {"unsetPc", "unsetCmp"})
    BY <1>1, SteadyFacts DEF CallerStep, StopCheck, StopLock, StopSend, UnsetReadPc, UnsetCompare,
       NoCtrlC
  <1>3. at[t] \notin Asks /\ rq[t] = NoRequest /\ t # Main
    BY <1>1, <1>2, SteadyFacts DEF AskingInv, RequestsOpen, Asks, MainAsking, Place
  <1>4. Home(t) \in {"user", "cb"}
    BY <1>1, SteadyFacts DEF Home
  <1>5. /\ KeepTokens /\ UNCHANGED <<readQ, hookVars, eventLock>>
    BY <1>2 DEF CallerStep, StopCheck, UnsetReadPc, UnsetCompare, KeepTokens
  <1>6. Others(t) /\ RequestMove(t)
    <2>1. CASE UnsetReadPc(t)
      BY <1>1, <1>3, <2>1 DEF UnsetReadPc, Ask, Go, Others, RequestMove, AskFits, Changes
    <2>2. CASE StopCheck(t) \/ UnsetCompare(t)
      BY <1>1, <1>2, <1>3, <1>4, <2>2, SteadyFacts DEF StopCheck, UnsetCompare, Go, Others,
         RequestMove, Asks
    <2> QED BY <1>2, <2>1, <2>2 DEF CallerStep
  <1> QED BY <1>1, <1>2, <1>3, <1>5, <1>6, ByCaller DEF Asks

LEMMA HookEndCallback ==
    ASSUME Steady, NEW c \in Cbs, OfHooks(EndCallback(c))
    PROVE  HookInv'
  <1>1. c \in Threads \ Dispatchers
    BY DEF Threads
  <1>2. /\ at[c] = "cb" /\ at'[c] = "end" /\ rq' = rq /\ Others(c) /\ KeepTokens
        /\ UNCHANGED <<readQ, hookVars, eventLock>>
    BY <1>1, SteadyFacts DEF OfHooks, EndCallback, Unmoved, queueVars, lockVars, localVars, Go,
       Others, KeepTokens
  <1>3. RequestMove(c)
    BY <1>2 DEF RequestMove, Asks
  <1> QED BY <1>1, <1>2, <1>3, ByCaller

(* A dispatcher goes from one label to another. *)
LEMMA DispatcherJumps ==
    ASSUME Steady, NEW t \in Dispatchers, KeepTokens, UNCHANGED <<readQ, hookVars, rq>>,
           at[t] \notin Asks \cup {"whyWait"},
           at'[t] \notin Asks \cup {"rearm", "why", "whyWait", "unsetPc", "unsetCmp"},
           \A u \in Threads \ {t} : at'[u] = at[u],
           LockMove(t), t = Event /\ at[Event] \in AtEase => at'[Event] \in AtEase,
           at[t] \in DropPlaces(t) => at'[t] \in DropPlaces(t)
    PROVE  HookInv'
  <1>1. Others(t) /\ RequestMove(t) /\ EventMove(t) /\ Place(t) = at[t] /\ Place(t)' = at'[t]
    BY DEF Others, RequestMove, EventMove, Place, Asks
  <1> QED BY <1>1, ByDispatcher DEF Asks

LEMMA HookExec ==
    ASSUME Steady, Patient, NEW t \in Dispatchers, OfTarget(ExecStep(t))
    PROVE  HookInv'
  <1>1. t \in Threads /\ at \in [Threads -> Labels] /\ rq \in [Threads -> Requests]
    BY SteadyFacts
  <1> USE DEF OfTarget, queueVars, flagVars, lockVars, localVars, Go, IsMain
  <1> DEFINE Jump == /\ UNCHANGED <<stub, toStub, fromStub, stopQ, readQ, hookVars, rq>>
                     /\ \A u \in Threads \ {t} : at'[u] = at[u]
             Drops == at[t] \in DropPlaces(t) => at'[t] \in DropPlaces(t)
  <1>2. Jump => KeepTokens
    BY DEF KeepTokens
  <1>3. at[t] \notin Asks => rq[t] = NoRequest
    BY <1>1, SteadyFacts DEF AskingInv, RequestsOpen
  <1>4. CASE Continue(t)
    <2>1. at[t] = "cont" /\ at'[t] \in {"guard", "contLock"} /\ eventLock' = eventLock /\ Jump
      BY <1>1, <1>4 DEF Continue
    <2>2. LockMove(t) /\ Drops
      BY <2>1 DEF LockMove, InEventLock, Place, MainHeld, EventFree, DropPlaces, Looping
    <2> QED BY <1>2, <2>1, <2>2, DispatcherJumps DEF Asks, AtEase
  <1>5. CASE ContinueLock(t)
    <2>1. /\ at[t] = "contLock" /\ at'[t] = "contSend" /\ Jump
          /\ \/ t = Main /\ eventLock = NoThread /\ eventLock' = t
             \/ t = Event /\ eventLock' = eventLock
      BY <1>1, <1>5 DEF ContinueLock
    <2>2. LockMove(t) /\ Drops
      BY <2>1 DEF LockMove, InEventLock, Place, MainHeld, EventFree, DropPlaces, Looping
    <2> QED BY <1>2, <2>1, <2>2, DispatcherJumps DEF Asks, AtEase
  <1>6. CASE ContinueSend(t)
    <2> DEFINE m == Packet("cont", NoAddr, t)
    <2>1. /\ at[t] = "contSend" /\ at'[t] = Home(t) /\ toStub' = Append(toStub, m)
          /\ eventLock' = (IF t = Main THEN NoThread ELSE eventLock)
          /\ UNCHANGED <<stub, fromStub, stopQ, readQ, hookVars, rq>>
          /\ \A u \in Threads \ {t} : at'[u] = at[u]
      BY <1>1, <1>6 DEF ContinueSend
    <2>2. m \in Stirring /\ m.op = "cont"
      BY <1>1 DEF Packet, Packets, Stirring, Ops, ExecOps
    <2> HIDE DEF m
    <2>3. t = Main => at'[t] = "user"
      BY <2>1, SteadyFacts DEF Home
    <2>4. t = Event => at'[t] = "after"
      BY <2>1 DEF Home
    <2>5. /\ Calm /\ InEventLock(t) /\ at[t] \notin AtEase \cup Asks
          /\ LockMove(t) /\ Others(t)
          /\ Place(t)' = at'[t] /\ Place(t) \notin DropPlaces(t)
      <3>1. Place(t) = "contSend" /\ Place(t)' = at'[t]
        BY <2>1, <2>3, <2>4 DEF Place
      <3>2. Calm
        BY <3>1, SteadyFacts DEF Order, MainCalm, EventCalm, Executing, AtEase
      <3>3. InEventLock(t)
        BY <2>1, <3>1 DEF InEventLock, MainHeld, EventFree
      <3>4. LockMove(t)
        <4>1. CASE t = Main
          BY <2>1, <3>3, <4>1 DEF LockMove
        <4>2. CASE t = Event
          BY <2>1, <2>4, <3>3, <4>2 DEF LockMove, InEventLock, EventFree
        <4> QED BY <4>1, <4>2
      <3> QED BY <2>1, <3>1, <3>2, <3>3, <3>4 DEF Others, AtEase, Asks, DropPlaces, Looping
    <2> QED BY <2>1, <2>2, <2>3, <2>4, <2>5, StirStep DEF Asks
  <1>7. CASE StepGuard(t)
    <2>1. /\ at[t] = "guard" /\ eventLock' = eventLock /\ Jump
          /\ t = Main => at'[t] \in {"user", "contLock", "stepLock"}
          /\ t = Event => at'[t] \in {"contLock", "stepSend"}
      BY <1>1, <1>7, SteadyFacts DEF StepGuard, StepReturn, TypeOK, TargetType
    <2>2. LockMove(t) /\ Drops
      BY <2>1 DEF LockMove, InEventLock, Place, MainHeld, EventFree, DropPlaces, Looping
    <2> QED BY <1>2, <2>1, <2>2, DispatcherJumps DEF Asks, AtEase
  <1>8. CASE StepSend(t)
    <2> DEFINE m == Packet("step", NoAddr, t)
    <2>1. /\ at[t] = "stepSend" /\ at'[t] = "stepWait" /\ toStub' = Append(toStub, m)
          /\ eventLock' = eventLock
          /\ UNCHANGED <<stub, fromStub, stopQ, readQ, hookVars, rq>>
          /\ \A u \in Threads \ {t} : at'[u] = at[u]
      BY <1>1, <1>8 DEF StepSend
    <2>2. m \in Stirring /\ m.op = "step"
      BY <1>1 DEF Packet, Packets, Stirring, Ops, ExecOps
    <2> HIDE DEF m
    <2>3. Place(t) = "stepSend" /\ Place(t)' = "stepWait"
      BY <2>1 DEF Place
    <2>4. Calm /\ InEventLock(t) /\ LockMove(t) /\ Others(t)
      BY <2>1, <2>3, SteadyFacts DEF Order, MainCalm, EventCalm, Executing, AtEase, InEventLock,
         MainHeld, EventFree, LockMove, Others
    <2> QED BY <2>1, <2>2, <2>3, <2>4, StirStep DEF Asks, AtEase, DropPlaces, Looping
  <1>9. CASE StepWait(t) \/ StepTimeout(t)
    <2>1. /\ at[t] = "stepWait" /\ at'[t] = "send" /\ eventLock' = eventLock
          /\ rq'[t] = [op |-> "pc", addr |-> NoAddr, back |-> "stepDisp"]
          /\ UNCHANGED <<stub, fromStub, toStub, readQ, hookVars>> /\ Others(t)
      BY <1>1, <1>9 DEF StepWait, StepTimeout, Ask, Others
    <2>2. Calm' /\ Asked' = {}
      BY <1>9, <2>1, SteadyFacts, StepAnswered DEF Steady
    <2>3. Place(t) = "stepWait" /\ Place(t)' = "stepDisp" /\ at[t] \notin Asks
      BY <2>1 DEF Place, Asks
    <2>4. (InEventLock(t)' <=> InEventLock(t))
      BY <2>1, <2>3 DEF InEventLock, MainHeld, EventFree
    <2>5. /\ t = Main => at[Event] \in AtEase
          /\ t = Event => at[Main] \notin Asks
      BY <2>1, <2>3, SteadyFacts, EventLockSeparates DEF MainHeld, AskingInv, MainAsking, AtEase
    <2>6. at'[Event] \notin {"why", "whyWait"}
      BY <2>1, <2>5, OthersStay DEF AtEase
    <2>7. Place(t)' \in DropPlaces(t)
      BY <2>3 DEF DropPlaces, Looping
    <2> QED BY <1>3, <2>1, <2>2, <2>3, <2>4, <2>5, <2>6, <2>7, TakeStep
  <1>10. CASE StepDispatch(t)
    <2>1. at[t] = "stepDisp" /\ at'[t] = "disp" /\ eventLock' = eventLock /\ Jump
      BY <1>1, <1>10 DEF StepDispatch
    <2>2. LockMove(t) /\ Drops
      BY <2>1 DEF LockMove, InEventLock, Place, MainHeld, EventFree, DropPlaces, Looping
    <2> QED BY <1>2, <2>1, <2>2, DispatcherJumps DEF Asks, AtEase
  <1>11. CASE StepSaved(t) /\ savedBp = NoAddr
    <2>1. at[t] = "stepSaved" /\ at'[t] = "stepEnd" /\ eventLock' = eventLock /\ Jump
      BY <1>1, <1>11 DEF StepSaved
    <2>2. LockMove(t) /\ Drops
      BY <2>1 DEF LockMove, InEventLock, Place, MainHeld, EventFree, DropPlaces, Looping
    <2> QED BY <1>2, <2>1, <2>2, DispatcherJumps DEF Asks, AtEase
  <1>12. CASE StepSaved(t) /\ savedBp # NoAddr
    <2>1. /\ at[t] = "stepSaved" /\ at'[t] = "send" /\ eventLock' = eventLock
          /\ rq'[t] = [op |-> "set", addr |-> savedBp, back |-> "stepClear"]
          /\ UNCHANGED <<stub, fromStub, toStub, stopQ, readQ, hookVars>> /\ Others(t)
      BY <1>1, <1>12 DEF StepSaved, Ask, Others
    <2>2. Place(t) = "stepSaved" /\ Place(t)' = "stepClear" /\ rq[t] = NoRequest /\ KeepTokens
      BY <1>3, <2>1 DEF Place, Asks, KeepTokens
    <2>3. RequestMove(t) /\ LockMove(t) /\ EventMove(t)
      BY <2>1, <2>2, UsersAssumption DEF RequestMove, AskFits, Asks, LockMove, InEventLock, MainHeld,
         EventFree, EventMove, AtEase
    <2>4. t = Main => Calm /\ at[Event] \in AtEase
      BY <2>2, SteadyFacts DEF Order, MainCalm, Executing
    <2> QED BY <2>1, <2>2, <2>3, <2>4, ByDispatcher DEF DropPlaces, Looping
  <1>13. CASE StepClear(t)
    <2>1. at[t] = "stepClear" /\ at'[t] = "stepEnd" /\ eventLock' = eventLock /\ Jump
      BY <1>1, <1>13 DEF StepClear
    <2>2. LockMove(t) /\ Drops
      BY <2>1 DEF LockMove, InEventLock, Place, MainHeld, EventFree, DropPlaces, Looping
    <2> QED BY <1>2, <2>1, <2>2, DispatcherJumps DEF Asks, AtEase
  <1>14. CASE StepEnd(t)
    <2>1. /\ at[t] = "stepEnd" /\ at'[t] \in {"user", "contLock"} /\ Jump
          /\ eventLock' = (IF t = Main THEN NoThread ELSE eventLock)
          /\ t = Event => at'[t] = "contLock"
      BY <1>1, <1>14, SteadyFacts DEF StepEnd, StepReturn, TypeOK, TargetType
    <2>2. LockMove(t) /\ Drops
      BY <2>1 DEF LockMove, InEventLock, Place, MainHeld, EventFree, DropPlaces, Looping
    <2> QED BY <1>2, <2>1, <2>2, DispatcherJumps DEF Asks, AtEase
  <1> QED BY <1>4, <1>5, <1>6, <1>7, <1>8, <1>9, <1>10, <1>11, <1>12, <1>13, <1>14 DEF ExecStep

LEMMA HookEvent ==
    ASSUME Steady, OfTarget(EventStep)
    PROVE  HookInv'
  <1>1. Event \in Threads /\ at \in [Threads -> Labels] /\ rq \in [Threads -> Requests]
        /\ Event \in Dispatchers
    BY SteadyFacts
  <1> USE DEF OfTarget, queueVars, flagVars, lockVars, localVars, Go
  <1> DEFINE Jump == /\ UNCHANGED <<stub, toStub, fromStub, stopQ, readQ, hookVars, rq>>
                     /\ \A u \in Threads \ {Event} : at'[u] = at[u]
             Drops == at[Event] \in DropPlaces(Event) => at'[Event] \in DropPlaces(Event)
  <1>2. Jump => KeepTokens
    BY DEF KeepTokens
  <1>3. at[Event] \notin Asks => rq[Event] = NoRequest
    BY <1>1, SteadyFacts DEF AskingInv, RequestsOpen
  <1>4. CASE EventTop
    <2>1. at[Event] = "loop" /\ at'[Event] = "acquire" /\ eventLock' = eventLock /\ Jump
      BY <1>1, <1>4, SteadyFacts DEF EventTop
    <2>2. LockMove(Event) /\ Drops
      BY <2>1 DEF LockMove, InEventLock, EventFree, DropPlaces, Looping
    <2> QED BY <1>1, <1>2, <2>1, <2>2, DispatcherJumps DEF Asks, AtEase
  <1>5. CASE EventAcquire
    <2>1. /\ at[Event] = "acquire" /\ at'[Event] = "poll" /\ Jump
          /\ eventLock = NoThread /\ eventLock' = Event
      BY <1>1, <1>5 DEF EventAcquire
    <2>2. LockMove(Event) /\ Drops
      BY <2>1 DEF LockMove, InEventLock, EventFree, DropPlaces, Looping
    <2> QED BY <1>1, <1>2, <2>1, <2>2, DispatcherJumps DEF Asks, AtEase
  <1>6. CASE EventIdle
    <2>1. at[Event] = "poll" /\ at'[Event] = "loop" /\ eventLock' = NoThread /\ Jump
      BY <1>1, <1>6 DEF EventIdle
    <2>2. LockMove(Event) /\ Drops
      BY <2>1 DEF LockMove, InEventLock, EventFree, DropPlaces, Looping
    <2> QED BY <1>1, <1>2, <2>1, <2>2, DispatcherJumps DEF Asks, AtEase
  <1>7. CASE EventPoll \/ EventWhy
    <2>1. /\ at[Event] \in {"poll", "whyWait"} /\ eventLock' = eventLock
          /\ stopQ # <<>> /\ stopQ' = Tail(stopQ)
          /\ UNCHANGED <<stub, fromStub, toStub, readQ, hookVars>> /\ Others(Event)
          /\ \/ /\ Head(stopQ) = "SIGTRAP" /\ at[Event] = "poll" /\ at'[Event] = "why"
                /\ rq'[Event] = rq[Event]
             \/ /\ Head(stopQ) = "SIGTRAP" /\ at[Event] = "whyWait" /\ at'[Event] = "send"
                /\ rq'[Event] = [op |-> "pc", addr |-> NoAddr, back |-> "unset"]
             \/ Head(stopQ) # "SIGTRAP" /\ at'[Event] = "resume" /\ rq'[Event] = rq[Event]
      BY <1>1, <1>7 DEF EventPoll, EventWhy, Ask, Others
    <2>2. Calm' /\ Asked' = {} /\ ~Moves
      BY <2>1, SteadyFacts, StopTaken DEF OneStop, Queued
    <2>3. Place(Event)' \in {"why", "unset", "resume"} /\ at[Event] \notin Asks
      BY <2>1 DEF Place, Asks
    <2>4. InEventLock(Event)' <=> InEventLock(Event)
      BY <2>1 DEF InEventLock, EventFree
    <2>5. Head(stopQ) = stub.sig /\ (stub.sig # "SIGTRAP" => hooks = {})
      <3>1. stopQ \in Seq(Signals) /\ Queued /\ stopQ[1] = stub.sig /\ stub.sig \in Signals
        BY <2>1, SteadyFacts DEF TypeOK, TargetType, StubType, Guests, StopInv, StopSignals, Queued
      <3> QED BY <3>1, SteadyFacts DEF StopInv, StopSignals, Signals
    <2>6. at[Main] \notin Asks
      <3>1. ~Calm
        BY <2>1 DEF Calm, Queued
      <3> QED BY <3>1, SteadyFacts DEF AskingInv, MainAsking
    <2>7. Place(Event)' \in DropPlaces(Event) \/ hooks = {}
      BY <2>1, <2>3, <2>5 DEF DropPlaces, Looping, Place
    <2> QED BY <1>1, <1>3, <2>1, <2>2, <2>3, <2>4, <2>5, <2>6, <2>7, TakeStep DEF Asks
  <1>8. CASE EventAskWhy
    <2> DEFINE m == Packet("why", NoAddr, Event)
    <2>1. /\ at[Event] = "why" /\ at'[Event] = "whyWait" /\ toStub' = Append(toStub, m)
          /\ eventLock' = eventLock
          /\ UNCHANGED <<stub, fromStub, stopQ, readQ, hookVars, rq>>
          /\ \A u \in Threads \ {Event} : at'[u] = at[u]
      BY <1>1, <1>8 DEF EventAskWhy
    <2>2. m \in Stirring /\ m.op = "why"
      BY <1>1 DEF Packet, Packets, Stirring, Ops
    <2> HIDE DEF m
    <2>3. Place(Event) = "why" /\ Place(Event)' = "whyWait"
      BY <2>1 DEF Place
    <2>4. Calm /\ InEventLock(Event) /\ LockMove(Event) /\ Others(Event)
      BY <2>1, <2>3, SteadyFacts DEF Order, EventCalm, AtEase, InEventLock, EventFree, LockMove,
         Others
    <2> QED BY <1>1, <2>1, <2>2, <2>3, <2>4, StirStep DEF Asks, AtEase, DropPlaces, Looping
  <1>9. CASE EventUnset
    <2>1. /\ at[Event] = "unset" /\ at'[Event] = "send" /\ eventLock' = eventLock
          /\ rq'[Event] = [op |-> "clear", addr |-> val[Event], back |-> "eventDisp"]
          /\ UNCHANGED <<stub, fromStub, toStub, stopQ, readQ, hookVars>> /\ Others(Event)
      BY <1>1, <1>9 DEF EventUnset, Ask, Others
    <2>2. /\ Place(Event) = "unset" /\ Place(Event)' = "eventDisp" /\ rq[Event] = NoRequest
          /\ KeepTokens
      BY <1>3, <2>1 DEF Place, Asks, KeepTokens
    <2>3. RequestMove(Event) /\ LockMove(Event) /\ EventMove(Event)
      BY <2>1, <2>2, UsersAssumption DEF RequestMove, AskFits, Asks, LockMove, InEventLock,
         EventFree, EventMove, AtEase
    <2> QED BY <1>1, <2>1, <2>2, <2>3, ByDispatcher DEF DropPlaces, Looping
  <1>10. CASE EventDispatch
    <2>1. at[Event] = "eventDisp" /\ at'[Event] = "disp" /\ eventLock' = eventLock /\ Jump
      BY <1>1, <1>10 DEF EventDispatch
    <2>2. LockMove(Event) /\ Drops
      BY <2>1 DEF LockMove, InEventLock, EventFree, DropPlaces, Looping
    <2> QED BY <1>1, <1>2, <2>1, <2>2, DispatcherJumps DEF Asks, AtEase
  <1>11. CASE EventSave
    <2>1. at[Event] = "save" /\ at'[Event] = "resume" /\ eventLock' = eventLock /\ Jump
      BY <1>1, <1>11 DEF EventSave
    <2>2. LockMove(Event) /\ Drops
      BY <2>1 DEF LockMove, InEventLock, EventFree, DropPlaces, Looping
    <2> QED BY <1>1, <1>2, <2>1, <2>2, DispatcherJumps DEF Asks, AtEase
  <1>12. CASE EventResume
    <2>1. at[Event] = "resume" /\ at'[Event] \in {"cont", "after"} /\ eventLock' = eventLock /\ Jump
      BY <1>1, <1>12 DEF EventResume, Home
    <2>2. LockMove(Event) /\ Drops
      BY <2>1 DEF LockMove, InEventLock, EventFree, DropPlaces, Looping
    <2> QED BY <1>1, <1>2, <2>1, <2>2, DispatcherJumps DEF Asks, AtEase
  <1>13. CASE EventRelease
    <2>1. at[Event] = "after" /\ at'[Event] = "loop" /\ eventLock' = NoThread /\ Jump
      BY <1>1, <1>13 DEF EventRelease
    <2>2. LockMove(Event) /\ Drops
      BY <2>1 DEF LockMove, InEventLock, EventFree, DropPlaces, Looping
    <2> QED BY <1>1, <1>2, <2>1, <2>2, DispatcherJumps DEF Asks, AtEase
  <1> QED BY <1>4, <1>5, <1>6, <1>7, <1>8, <1>9, <1>10, <1>11, <1>12, <1>13 DEF EventStep

LEMMA HookMain ==
    ASSUME Steady, OfTarget(MainStep)
    PROVE  HookInv'
  <1>1. Main \in Threads /\ at \in [Threads -> Labels] /\ rq \in [Threads -> Requests]
        /\ Main \in Dispatchers
    BY SteadyFacts
  <1>2. OfTarget(StepLock(Main))
    BY SteadyFacts DEF OfTarget, MainStep, CloseStop, CloseDetach, CloseTimeout, NoCtrlC, Steady,
       OrderInv, CloseInv, Place
  <1>3. /\ at[Main] = "stepLock" /\ at'[Main] = "stepSend"
        /\ eventLock = NoThread /\ eventLock' = Main
        /\ UNCHANGED <<stub, toStub, fromStub, stopQ, readQ, hookVars, rq>>
        /\ \A u \in Threads \ {Main} : at'[u] = at[u]
    BY <1>1, <1>2 DEF OfTarget, StepLock, queueVars, localVars, Go
  <1>4. LockMove(Main) /\ KeepTokens
    BY <1>3 DEF LockMove, InEventLock, Place, MainHeld, KeepTokens
  <1> QED BY <1>1, <1>3, <1>4, DispatcherJumps DEF Asks, AtEase, DropPlaces, Looping

(* The on_execute of a dispatcher *)
LEMMA HookDispatch ==
    ASSUME Steady, NEW t \in Dispatchers, OfHooks(DispatchStep(t))
    PROVE  HookInv'
  <1>1. /\ t \in Threads /\ at \in [Threads -> Labels] /\ rq \in [Threads -> Requests]
        /\ Cb(t) \in Cbs /\ Cb(t) \in Threads /\ Cb(t) # t
    BY SteadyFacts DEF Cb, Threads
  <1> USE DEF OfHooks, Unmoved, queueVars, flagVars, lockVars, localVars, Go
  <1>2. /\ at[t] \in {"disp", "callbacks", "join", "rearm"} /\ Place(t) = at[t]
        /\ UNCHANGED <<stub, toStub, fromStub, stopQ, readQ, hooks, eventLock>> /\ KeepTokens
    BY DEF DispatchStep, Dispatch, StartCallback, JoinCallback, CallbacksDone, Rearm, RearmSkip,
       RearmDone, RearmRaises, Place, KeepTokens, hookVars
  <1>3. rq[t] = NoRequest /\ at[t] \notin Asks
    BY <1>1, <1>2, SteadyFacts DEF AskingInv, RequestsOpen, Asks
  <1>4. InEventLock(t) /\ Calm /\ (t = Main => at[Event] \in AtEase)
        /\ \A u \in Dispatchers : InEventLock(u) => u = t
    <2>1. InEventLock(t)
      BY <1>2 DEF InEventLock, MainHeld, EventFree
    <2>2. Calm /\ (t = Main => at[Event] \in AtEase)
      BY <1>2, SteadyFacts DEF Order, MainCalm, EventCalm, Executing, AtEase
    <2> QED BY <2>1, <2>2, Holder, SteadyFacts
  <1>5. \A u \in Dispatchers \ {t} : Place(u) # "rearm"
    BY <1>4 DEF InEventLock, Place, MainHeld, EventFree
  <1>6. hooks \subseteq keys /\ Rearming
    BY SteadyFacts DEF BreakInv
  (* Whatever it does but raise: *)
  <1>7. ASSUME Others(t), RequestMove(t), rq'[t] = rq[t] \/ rq[t] = NoRequest,
               at'[t] \in {"callbacks", "join", "rearm", "send", "stepSaved"}
                  \cup (IF t = Event THEN {"save"} ELSE {}),
               rq'[t].back = "rearm" \/ at'[t] # "send",
               keys \subseteq keys', LoopsMove(t), DropMove(t)
        PROVE  HookInv'
    <2>1. Place(t)' \in {"callbacks", "join", "rearm", "stepSaved"}
                           \cup (IF t = Event THEN {"save"} ELSE {})
      BY <1>7 DEF Place
    <2>2. InEventLock(t)'
      BY <1>7, <2>1 DEF InEventLock, MainHeld, EventFree
    <2>3. LockMove(t) /\ EventMove(t)
      BY <1>2, <1>4, <1>7, <2>2 DEF LockMove, EventMove, AtEase
    <2>4. Plain(t)
      BY <1>2, <1>3, <1>4, <1>6, <1>7, <2>1, <2>3 DEF Plain, HooksMove, Asks
    <2> QED BY <1>1, <2>4, PlainStep
  <1>8. CASE Dispatch(t)
    <2>1. /\ at'[t] = "callbacks" /\ rq' = rq /\ keys \subseteq keys' /\ Others(t)
          /\ at[t] = "disp" /\ Place(t)' = "callbacks"
      BY <1>1, <1>8 DEF Dispatch, Others, Place
    <2>2. \A u \in Dispatchers \ {t} : Place(u)' # "rearm"
      BY <1>5, <2>1, OthersStay
    <2>3. LoopsMove(t) /\ DropMove(t) /\ RequestMove(t)
      BY <2>1, <2>2 DEF LoopsMove, RearmingBy, DropMove, DropPlaces, Looping, RequestMove, Asks
    <2> QED BY <1>7, <2>1, <2>3
  <1>9. CASE StartCallback(t)
    <2>1. /\ at[t] = "callbacks" /\ at'[t] = "join" /\ at'[Cb(t)] = "cb" /\ rq' = rq
          /\ UNCHANGED <<keys, todo, seen>>
          /\ \A u \in Threads : u # t /\ u # Cb(t) => at'[u] = at[u]
      BY <1>1, <1>9 DEF StartCallback
    <2>2. at[Cb(t)] = "off"
      BY <1>1, <2>1, StarterIsCalm DEF Steady, Live
    <2>3. Others(t) /\ Place(t)' = "join" /\ RequestMove(t)
      BY <1>1, <2>1, <2>2 DEF Others, Asks, Place, RequestMove
    <2>4. LoopsMove(t) /\ DropMove(t)
      BY <1>2, <2>1, <2>3, OthersStay DEF LoopsMove, RearmingBy, DropMove, DropPlaces, Looping
    <2> QED BY <1>7, <2>1, <2>3, <2>4
  <1>10. CASE JoinCallback(t)
    <2>1. /\ at[t] = "join" /\ at'[t] = "callbacks" /\ at'[Cb(t)] = "off" /\ at[Cb(t)] = "end"
          /\ rq' = rq /\ UNCHANGED <<keys, todo, seen>>
          /\ \A u \in Threads : u # t /\ u # Cb(t) => at'[u] = at[u]
      BY <1>1, <1>10 DEF JoinCallback, hookVars, loopVars
    <2>2. Others(t) /\ Place(t)' = "callbacks" /\ RequestMove(t)
      BY <1>1, <2>1 DEF Others, Asks, Place, RequestMove
    <2>3. LoopsMove(t) /\ DropMove(t)
      BY <1>2, <2>1, <2>2, OthersStay DEF LoopsMove, RearmingBy, DropMove, DropPlaces, Looping
    <2> QED BY <1>7, <2>1, <2>2, <2>3
  <1>11. CASE CallbacksDone(t)
    <2>1. /\ at[t] = "callbacks" /\ at'[t] = "rearm" /\ rq' = rq /\ keys' = keys /\ Others(t)
          /\ todo'[t] = keys /\ seen'[t] = keys
          /\ \A u \in Dispatchers \ {t} : todo'[u] = todo[u] /\ seen'[u] = seen[u]
          /\ Place(t)' = "rearm"
      BY <1>1, <1>11, SteadyFacts DEF CallbacksDone, Others, Place, TypeOK, HooksType
    <2>2. RearmingBy(t)'
      BY <1>2, <1>6, <2>1 DEF RearmingBy
    <2>3. LoopsMove(t) /\ DropMove(t) /\ RequestMove(t)
      BY <2>1, <2>2, OthersStay DEF LoopsMove, DropMove, DropPlaces, Looping, RequestMove, Asks
    <2> QED BY <1>7, <2>1, <2>3
  <1>12. CASE Rearm(t)
    <2>1. PICK a \in todo[t] \cap hooks :
             todo' = [todo EXCEPT ![t] = @ \ {a}] /\ Ask(t, "set", a, "rearm")
      BY <1>12 DEF Rearm
    <2>2. /\ at[t] = "rearm" /\ at'[t] = "send" /\ keys' = keys /\ seen' = seen /\ Others(t)
          /\ rq'[t] = [op |-> "set", addr |-> a, back |-> "rearm"]
          /\ todo'[t] = todo[t] \ {a}
          /\ \A u \in Dispatchers \ {t} : todo'[u] = todo[u]
          /\ Place(t)' = "rearm"
      BY <1>1, <1>12, <2>1, SteadyFacts DEF Rearm, Ask, Others, Place, TypeOK, HooksType
    <2>3. seen[t] = keys /\ \A b \in hooks \ Refused : Has(b) \/ b \in todo[t]
      BY <1>2, <1>6, <2>2 DEF Rearming, RearmingBy
    <2>4. \A b \in Addr : Has(b) => Has(b)'
      BY <1>1, <1>2, <1>3, <2>2, RequestsKept DEF Asks
    <2>5. Has(a)'
      BY <1>1, <2>2 DEF Has, SetPending
    <2>6. RearmingBy(t)'
      <3>1. hooks \subseteq Addr
        BY SteadyFacts DEF TypeOK, HooksType
      <3> QED BY <1>2, <2>2, <2>3, <2>4, <2>5, <3>1 DEF RearmingBy
    <2>7. LoopsMove(t) /\ DropMove(t)
      BY <2>2, <2>6, OthersStay DEF LoopsMove, DropMove, DropPlaces, Looping
    <2>8. RequestMove(t)
      BY <1>3, <2>2, UsersAssumption DEF RequestMove, AskFits
    <2> QED BY <1>3, <1>7, <2>2, <2>7, <2>8
  <1>13. CASE RearmDone(t)
    <2>1. /\ at[t] = "rearm" /\ at'[t] = DispReturn(t) /\ rq' = rq /\ keys' = keys /\ Others(t)
          /\ todo[t] = {}
          /\ \A u \in Dispatchers \ {t} : todo'[u] = todo[u] /\ seen'[u] = seen[u]
      BY <1>1, <1>13, SteadyFacts DEF RearmDone, Others, TypeOK, HooksType
    <2>2. at'[t] \in {"stepSaved"} \cup (IF t = Event THEN {"save"} ELSE {})
      BY <2>1, SteadyFacts DEF DispReturn, IsMain, TypeOK, TargetType
    <2>3. Place(t)' = at'[t] /\ Place(t)' # "rearm"
      BY <2>2 DEF Place
    <2>4. \A a \in hooks \ Refused : Has(a)
      BY <1>2, <1>6, <2>1 DEF Rearming, RearmingBy
    <2>5. LoopsMove(t) /\ DropMove(t) /\ RequestMove(t)
      BY <1>3, <2>1, <2>2, <2>3, <2>4, OthersStay DEF LoopsMove, RearmingBy, DropMove, RequestMove, Asks
    <2> QED BY <1>7, <2>1, <2>2, <2>5
  <1>14. CASE RearmRaises(t)
    BY <1>2, <1>6, <1>14 DEF RearmRaises, Rearming, RearmingBy
  <1>15. CASE RearmSkip(t)
    <2>1. PICK a \in todo[t] \ hooks : todo' = [todo EXCEPT ![t] = @ \ {a}]
      BY <1>15 DEF RearmSkip
    <2>2. /\ at[t] = "rearm" /\ at'[t] = "rearm" /\ keys' = keys /\ seen' = seen /\ rq' = rq
          /\ Others(t) /\ todo'[t] = todo[t] \ {a}
          /\ \A u \in Dispatchers \ {t} : todo'[u] = todo[u]
          /\ Place(t)' = "rearm"
      BY <1>1, <1>15, <2>1, SteadyFacts DEF RearmSkip, Others, Place, TypeOK, HooksType
    <2>3. seen[t] = keys /\ \A b \in hooks \ Refused : Has(b) \/ b \in todo[t]
      BY <1>2, <1>6, <2>2 DEF Rearming, RearmingBy
    <2>4. \A b \in Addr : Has(b) => Has(b)'
      BY <1>2, <2>2 DEF Has, SetPending
    <2>5. RearmingBy(t)'
      <3>1. hooks \subseteq Addr
        BY SteadyFacts DEF TypeOK, HooksType
      <3> QED BY <1>2, <2>1, <2>2, <2>3, <2>4, <3>1 DEF RearmingBy
    <2>6. LoopsMove(t) /\ DropMove(t)
      BY <2>2, <2>5, OthersStay DEF LoopsMove, DropMove, DropPlaces, Looping
    <2>7. RequestMove(t)
      BY <1>2, <1>3, <2>2 DEF RequestMove, Asks
    <2> QED BY <1>7, <2>2, <2>6, <2>7
  <1> QED BY <1>8, <1>9, <1>10, <1>11, <1>12, <1>13, <1>14, <1>15 DEF DispatchStep

----------------------------------------------------------------------------
(* Steps of the stub and of the reader: no thread moves. *)

(* Breakpoints may go only when they count as dropped. *)
LEMMA NobodyMoves ==
    ASSUME Steady, UNCHANGED <<at, rq, eventLock, hookVars>>, Calm => Calm',
           WhyAsked', StopSignals', SetDone', Dropped => Dropped',
           \/ \A a \in hooks \ Refused : Has(a) => Has(a)'
           \/ Dropped' /\ \A u \in Dispatchers : Place(u) # "rearm"
    PROVE  HookInv'
  <1>1. AskingInv'
    <2>1. RequestsOpen' /\ UsersKeepOff' /\ ClearsSafely'
      BY SteadyFacts DEF AskingInv, RequestsOpen, UsersKeepOff, ClearsSafely, hookVars
    <2>2. MainAsking'
      BY SteadyFacts DEF AskingInv, MainAsking, Place
    <2> QED BY <2>1, <2>2 DEF AskingInv
  <1>2. \A u \in Dispatchers : Place(u)' = Place(u)
    BY DEF Place
  <1>3. StopInv'
    <2>1. Stuck' <=> Stuck
      BY DEF Stuck, InEventLock, Place
    <2> QED BY <2>1, SteadyFacts DEF StopInv, StuckCalm
  <1>4. hooks' = hooks /\ keys' = keys /\ todo' = todo /\ seen' = seen /\ hooks' \subseteq keys'
        /\ BreakInv
    BY SteadyFacts DEF hookVars, loopVars, BreakInv
  <1>5. CASE \A a \in hooks \ Refused : Has(a) => Has(a)'
    BY <1>1, <1>2, <1>3, <1>4, <1>5, BreaksKept DEF HookInv
  <1>6. CASE Dropped' /\ \A u \in Dispatchers : Place(u) # "rearm"
    <2>1. Armed' /\ Rearming'
      BY <1>2, <1>6 DEF Armed, Rearming, RearmingBy
    <2> QED BY <1>1, <1>3, <1>4, <2>1 DEF HookInv, BreakInv
  <1> QED BY <1>5, <1>6

LEMMA RearmerIsCalm ==
    ASSUME Steady, NEW u \in Dispatchers, Place(u) = "rearm"
    PROVE  Calm /\ (u = Main => at[Event] \in AtEase)
  BY SteadyFacts DEF Order, MainCalm, EventCalm, Executing, AtEase

(* The stub takes a packet. *)
LEMMA StubTakes ==
    ASSUME Steady, Take
    PROVE  /\ Head(toStub) \in Packets(Threads)
           /\ Head(toStub) \in Stirring => 1 \in Asked /\ Head(toStub) = toStub[1]
           /\ Head(toStub) \in Requesting => 1 \in AskedData /\ Head(toStub) = toStub[1]
           /\ at' = at => WhyAsked'
  <1> DEFINE tl == Tail(toStub)
  <1>1. toStub # <<>> /\ toStub' = tl /\ toStub \in Seq(Packets(Threads))
    BY SteadyFacts, QueueTypes DEF Take
  <1>2. /\ Head(toStub) = toStub[1] /\ 1 \in DOMAIN toStub
        /\ \A i \in DOMAIN tl : tl[i] = toStub[i + 1]
        /\ \A i \in Marked(tl, Stirring) : i + 1 \in Marked(toStub, Stirring)
        /\ Head(toStub) \in Stirring => 1 \in Marked(toStub, Stirring)
        /\ Head(toStub) \in Requesting => 1 \in Marked(toStub, Requesting)
    BY ONLY <1>1, MarkedTail
  <1>3. Head(toStub) \in Packets(Threads)
    BY <1>1, <1>2, ElementOfSeq
  <1> HIDE DEF tl
  <1>4. \A i \in Asked' : i + 1 \in Asked /\ toStub'[i] = toStub[i + 1]
    BY <1>1, <1>2 DEF Asked, Marked
  <1>5. at' = at => WhyAsked'
    BY <1>4, SteadyFacts DEF StopInv, WhyAsked
  <1> QED BY <1>2, <1>3, <1>5 DEF Asked, AskedData

(* The stub says that the guest has stopped. *)
LEMMA StubTells ==
    ASSUME Steady, NEW sig \in Signals, fromStub' = Append(fromStub, StopReply(sig))
    PROVE  /\ ToldData' = ToldData /\ \A i \in ToldData : fromStub'[i] = fromStub[i]
           /\ Told' # {}
           /\ \A i \in Told' :
                 \/ i \in Told /\ fromStub'[i] = fromStub[i]
                 \/ fromStub'[i].body = sig
           /\ Told = {} => \A i \in Told' : fromStub'[i].body = sig
  <1> DEFINE r == StopReply(sig)
  <1>1. r \in Replies(Threads) /\ r \in Stops /\ r \notin DataReplies(Threads) /\ r.body = sig
    BY DEF StopReply, Replies, Stops, DataReplies
  <1> HIDE DEF r
  <1>2. /\ ToldData' = ToldData /\ \A i \in DOMAIN fromStub : fromStub'[i] = fromStub[i]
        /\ Told' = Told \cup {Len(fromStub) + 1} /\ fromStub'[Len(fromStub) + 1] = r
    BY <1>1, SteadyFacts, QueueTypes, MarkedAppend DEF Told, ToldData, r
  <1> QED BY <1>1, <1>2 DEF ToldData, Told, Marked

LEMMA HookStub ==
    ASSUME Steady, OfStub(StubNext)
    PROVE  HookInv'
  <1> DEFINE m == Head(toStub)
  <1>1. UNCHANGED <<at, rq, eventLock, hookVars, stopQ, readQ>>
    BY DEF OfStub, targetVars, queueVars, lockVars, localVars
  <1>2. Calm => Calm'
    BY SteadyFacts, StubOrder DEF Steady, OrderInv
  <1>3. /\ Queued' <=> Queued
        /\ Stuck' <=> Stuck
        /\ \A u \in Dispatchers : Place(u)' = Place(u)
    BY <1>1 DEF Queued, Stuck, InEventLock, Place
  <1>4. ASSUME Told # {} => Told' # {} PROVE Dropped => Dropped'
    BY <1>3, <1>4 DEF Dropped, DropPlaces
  <1>5. ASSUME fromStub' = fromStub, stub'.bps = stub.bps, stub'.sig = stub.sig, Take
        PROVE  HookInv'
    <2>1. Told' = Told /\ ToldData' = ToldData
      BY <1>5 DEF Told, ToldData
    <2>2. StopSignals' /\ WhyAsked'
      BY <1>1, <1>3, <1>5, <2>1, SteadyFacts, StubTakes DEF StopInv, StopSignals, hookVars
    <2>3. SetDone'
      BY <1>1, <1>5, <2>1, SteadyFacts DEF BreakInv, SetDone, IsSet
    <2>4. \A a \in hooks \ Refused : Has(a) => Has(a)'
      BY <1>1, <1>5 DEF Has, SetPending
    <2> QED BY <1>1, <1>2, <1>4, <2>1, <2>2, <2>3, <2>4, NobodyMoves
  <1>6. CASE StubServe
    <2>1. /\ Take /\ m.op \in DataOps
          /\ fromStub' = Append(fromStub, DataReply(Answer(m), m.by))
          /\ stub' = [stub EXCEPT !.bps = BpsAfter(m),
                                  !.run = IF m.op = "detach" THEN "running" ELSE @]
      BY <1>6 DEF StubServe
    <2>2. m \in Packets(Threads) /\ m \in Requesting
      BY <2>1, StubTakes DEF Requesting
    <2>3. FitsAsk(m) /\ ToldData = {} /\ readQ = <<>>
      BY <2>1, <2>2, SteadyFacts, StubTakes DEF ReplyInv
    <2>4. stub'.bps = BpsAfter(m) /\ stub'.sig = stub.sig
      BY <2>1, SteadyFacts DEF TypeOK, StubType, Guests
    <2> DEFINE r == DataReply(Answer(m), m.by)
    <2>5. r \in DataReplies(Threads) /\ r.to = m.by
      BY <2>2, SteadyFacts DEF DataReply, Answer, DataReplies, Packets, TypeOK, StubType, Guests
    <2> HIDE DEF r
    <2>6. /\ ToldData' = {Len(fromStub) + 1} /\ fromStub'[Len(fromStub) + 1] = r /\ Told' = Told
          /\ \A i \in Told : fromStub'[i] = fromStub[i]
      <3>1. fromStub' = Append(fromStub, r) /\ r \in Replies(Threads) /\ r \notin Stops
        BY <2>1, <2>5, StopKinds DEF r, Replies
      <3>2. \A i \in DOMAIN fromStub : fromStub'[i] = fromStub[i]
        BY <3>1, SteadyFacts, QueueTypes, MarkedAppend
      <3> QED BY <2>3, <2>5, <3>1, <3>2, SteadyFacts, QueueTypes, MarkedAppend
              DEF Told, ToldData, Marked
    <2>7. StopSignals' /\ WhyAsked'
      BY <1>1, <1>3, <2>1, <2>4, <2>6, SteadyFacts, StubTakes DEF StopInv, StopSignals, hookVars
    <2>8. SetDone'
      <3>1. rq[m.by].op = "set" => rq[m.by].addr \notin Addr \ (Refused \cup stub'.bps)
        BY <2>3, <2>4 DEF FitsAsk, BpsAfter
      <3>2. rq'[r.to].op = "set" => rq'[r.to].addr \notin Addr \ (Refused \cup stub'.bps)
        BY <1>1, <2>5, <3>1
      <3>3. \A i \in ToldData' : fromStub'[i] = r
        BY <2>6
      <3>4. \A i \in ToldData' : IsSet(fromStub[i])'
        BY <3>2, <3>3 DEF IsSet
      <3>5. DOMAIN readQ' = {}
        BY <1>1, <2>3
      <3> QED BY <3>4, <3>5 DEF SetDone
    <2>9. CASE m.op # "clear"
      <3>1. \A a \in hooks \ Refused : Has(a) => Has(a)'
        BY <1>1, <2>4, <2>9 DEF Has, SetPending, BpsAfter
      <3> QED BY <1>1, <1>2, <1>4, <2>6, <2>7, <2>8, <3>1, NobodyMoves
    <2>10. CASE m.op = "clear" /\ m.by # Event
      <3>1. m.by \in Threads /\ m.addr \notin hooks
        BY <2>2, <2>3, <2>10, SteadyFacts DEF AskingInv, ClearsSafely, FitsAsk, Packets
      <3>2. \A a \in hooks \ Refused : Has(a) => Has(a)'
        BY <1>1, <2>4, <2>10, <3>1 DEF Has, SetPending, BpsAfter
      <3> QED BY <1>1, <1>2, <1>4, <2>6, <2>7, <2>8, <3>2, NobodyMoves
    <2>11. CASE m.op = "clear" /\ m.by = Event
      <3>1. Place(Event) = "eventDisp" /\ at[Event] = "recv"
        BY <2>3, <2>11, SteadyFacts DEF AskingInv, ClearsSafely, FitsAsk, Place
      <3>2. Dropped /\ \A u \in Dispatchers : Place(u) # "rearm"
        BY <3>1, RearmerIsCalm DEF Dropped, DropPlaces, AtEase
      <3> QED BY <1>1, <1>2, <1>4, <2>6, <2>7, <2>8, <3>2, NobodyMoves
    <2> QED BY <2>9, <2>10, <2>11
  <1>7. CASE StubWhy
    <2>1. /\ Take /\ stub' = stub /\ m.op = "why" /\ stub.sig \in Signals
          /\ fromStub' = Append(fromStub, StopReply(stub.sig))
      BY <1>7, SteadyFacts DEF StubWhy, TypeOK, StubType, Guests
    <2>2. at[Event] = "whyWait"
      BY <2>1, SteadyFacts, StubTakes DEF StopInv, WhyAsked, Stirring
    <2>3. stub.sig = "SIGTRAP"
      BY <2>2, SteadyFacts DEF StopInv, StopSignals
    <2>4. /\ ToldData' = ToldData /\ (\A i \in ToldData : fromStub'[i] = fromStub[i])
          /\ Told' # {}
          /\ \A i \in Told' : fromStub'[i].body = "SIGTRAP"
      <3>1. \A i \in Told : fromStub[i].body = "SIGTRAP"
        BY SteadyFacts DEF StopInv, StopSignals
      <3> QED BY <2>1, <2>3, <3>1, StubTells
    <2>5. StopSignals' /\ WhyAsked'
      BY <1>1, <1>3, <2>1, <2>3, <2>4, SteadyFacts, StubTakes DEF StopInv, StopSignals, hookVars
    <2>6. SetDone'
      BY <1>1, <2>1, <2>4, SteadyFacts DEF BreakInv, SetDone, IsSet
    <2>7. \A a \in hooks \ Refused : Has(a) => Has(a)'
      BY <1>1, <2>1 DEF Has, SetPending
    <2> QED BY <1>1, <1>2, <1>4, <2>4, <2>5, <2>6, <2>7, NobodyMoves
  <1>8. CASE StubResume \/ StubIgnore
    <2>1. Take /\ fromStub' = fromStub /\ stub'.bps = stub.bps /\ stub'.sig = stub.sig
      BY <1>8, SteadyFacts DEF StubResume, StubIgnore, TypeOK, StubType, Guests
    <2> QED BY <1>5, <2>1
  <1>9. CASE StubStrayCtrlC \/ StubCtrlC
    <2>1. toStub # <<>> /\ m.op = "ctrlC" /\ toStub \in Seq(Packets(Threads))
      BY <1>9, SteadyFacts, QueueTypes DEF StubStrayCtrlC, StubCtrlC, Take
    <2>2. m = toStub[1] /\ 1 \in DOMAIN toStub
      BY <2>1, MarkedTail
    <2> QED BY <2>1, <2>2, SteadyFacts DEF NoCtrlC
  <1>10. CASE StubBreak \/ StubStepped
    <2>1. PICK a : Halt("SIGTRAP", a)
      BY <1>10 DEF StubBreak, StubStepped
    <2>2. /\ toStub' = toStub /\ fromStub' = Append(fromStub, StopReply("SIGTRAP"))
          /\ stub'.sig = "SIGTRAP" /\ Moves
      BY <1>10, <2>1 DEF StubBreak, StubStepped, Halt, Moves
    <2>3. Told = {} /\ ~Queued /\ ~Calm
      BY <2>2, SteadyFacts DEF OneStop, Calm
    <2>4. /\ ToldData' = ToldData /\ (\A i \in ToldData : fromStub'[i] = fromStub[i])
          /\ Told' # {}
          /\ \A i \in Told' : fromStub'[i].body = "SIGTRAP"
      BY <2>2, <2>3, StubTells DEF Signals
    <2>5. StopSignals'
      BY <1>3, <2>2, <2>3, <2>4 DEF StopSignals
    <2>6. WhyAsked'
      <3>1. Asked' = Asked
        BY <2>2 DEF Asked
      <3> QED BY <1>1, <2>2, <3>1, SteadyFacts DEF StopInv, WhyAsked
    <2>7. SetDone'
      <3>1. \A t \in Threads : rq[t].op # "set"
        BY <2>3, ChangesAreCalm DEF Changes
      <3>2. \A i \in ToldData : fromStub[i].to \in Threads
        BY SteadyFacts DEF ReplyInv, Fits
      <3>3. \A i \in DOMAIN readQ : readQ[i].to \in Threads
        BY SteadyFacts DEF ReplyInv, Fits
      <3> QED BY <1>1, <2>4, <3>1, <3>2, <3>3 DEF SetDone, IsSet
    <2>8. Dropped' /\ \A u \in Dispatchers : Place(u) # "rearm"
      BY <2>3, <2>4, RearmerIsCalm DEF Dropped
    <2> QED BY <1>1, <1>2, <2>5, <2>6, <2>7, <2>8, NobodyMoves
  <1> QED BY <1>6, <1>7, <1>8, <1>9, <1>10 DEF OfStub, StubNext, StubReads

LEMMA HookReader ==
    ASSUME Steady, OfTarget(Reader)
    PROVE  HookInv'
  <1> DEFINE r == Head(fromStub)
  <1>1. /\ UNCHANGED <<at, rq, eventLock, hookVars, stub, toStub>>
        /\ fromStub # <<>> /\ fromStub' = Tail(fromStub)
        /\ r.kind = "stop" => stopQ' = Append(stopQ, r.body) /\ readQ' = readQ
        /\ r.kind # "stop" => stopQ' = stopQ /\ readQ' = Append(readQ, r)
    BY DEF OfTarget, Reader, flagVars, lockVars, localVars
  <1>2. /\ fromStub \in Seq(Replies(Threads)) /\ readQ \in Seq(DataReplies(Threads))
        /\ stopQ \in Seq(Signals)
    BY SteadyFacts, QueueTypes DEF TypeOK, TargetType
  <1>3. r \in Replies(Threads)
    BY <1>1, <1>2
  <1>4. Calm => Calm'
    BY SteadyFacts, ReaderOrder
  <1>5. Asked' = Asked /\ WhyAsked'
    BY <1>1, SteadyFacts DEF StopInv, WhyAsked, Asked
  <1>6. \A a \in hooks \ Refused : Has(a) => Has(a)'
    BY <1>1 DEF Has, SetPending
  <1>7. /\ r = fromStub[1]
        /\ \A i \in Told' : i + 1 \in Told /\ fromStub'[i] = fromStub[i + 1]
        /\ \A i \in ToldData' : i + 1 \in ToldData /\ fromStub'[i] = fromStub[i + 1]
        /\ r \in Stops => 1 \in Told
        /\ r \notin Stops => (Told # {} => Told' # {})
        /\ r \in DataReplies(Threads) => 1 \in ToldData
    <2> DEFINE tl == Tail(fromStub)
    <2>1. /\ r = fromStub[1]
          /\ \A i \in DOMAIN tl : tl[i] = fromStub[i + 1]
          /\ \A i \in Marked(tl, DataReplies(Threads)) :
                i + 1 \in Marked(fromStub, DataReplies(Threads))
          /\ \A i \in Marked(tl, Stops) : i + 1 \in Marked(fromStub, Stops)
          /\ r \in DataReplies(Threads) => 1 \in Marked(fromStub, DataReplies(Threads))
          /\ r \in Stops => 1 \in Marked(fromStub, Stops)
          /\ r \notin Stops => (Marked(fromStub, Stops) # {} => Marked(tl, Stops) # {})
      BY ONLY <1>1, <1>2, MarkedTail
    <2> HIDE DEF tl
    <2>2. fromStub' = tl
      BY <1>1 DEF tl
    <2>3. /\ \A i \in Marked(tl, DataReplies(Threads)) : i \in DOMAIN tl
          /\ \A i \in Marked(tl, Stops) : i \in DOMAIN tl
      BY DEF Marked
    <2> QED BY <2>1, <2>2, <2>3 DEF Told, ToldData
  <1> HIDE DEF r
  <1>8. /\ \A i \in Told' : fromStub'[i].body = "SIGTRAP" /\ stub'.sig = "SIGTRAP"
        /\ \A i \in ToldData' : IsSet(fromStub[i])'
        /\ at'[Event] \in {"why", "whyWait"} => stub'.sig = "SIGTRAP"
    <2>1. /\ \A i \in Told : fromStub[i].body = "SIGTRAP" /\ stub.sig = "SIGTRAP"
          /\ at[Event] \in {"why", "whyWait"} => stub.sig = "SIGTRAP"
      BY SteadyFacts DEF StopInv, StopSignals
    <2>2. \A i \in ToldData : IsSet(fromStub[i])
      BY SteadyFacts DEF BreakInv, SetDone
    <2>3. UNCHANGED <<stub, at, rq>>
      BY <1>1
    <2>4. \A i \in ToldData' : IsSet(fromStub[i])'
      BY ONLY <1>7, <2>2, <2>3 DEF IsSet
    <2> QED BY ONLY <1>7, <2>1, <2>3, <2>4
  <1>9. \A u \in Dispatchers : Place(u)' = Place(u)
    BY <1>1 DEF Place
  <1>10. Stuck' <=> Stuck
    BY <1>1 DEF Stuck, InEventLock, Place
  <1>11. CASE r.kind = "stop"
    <2>1. r \in Stops
      BY <1>3, <1>11 DEF Stops
    <2>2. r.body = "SIGTRAP" /\ stub.sig = "SIGTRAP" /\ stopQ = <<>>
      BY <1>7, <2>1, SteadyFacts DEF StopInv, StopSignals, OneStop, Queued
    <2>3. stopQ' = <<"SIGTRAP">> /\ stopQ'[1] = "SIGTRAP" /\ Len(stopQ') = 1 /\ readQ' = readQ
      BY <1>1, <1>11, <2>2
    <2>4. StopSignals'
      BY <1>1, <1>8, <2>2, <2>3 DEF StopSignals
    <2>5. SetDone'
      BY <1>1, <1>8, <2>3, SteadyFacts DEF BreakInv, SetDone, IsSet
    <2>6. Dropped'
      BY <2>3 DEF Dropped, Queued
    <2> QED BY <1>1, <1>4, <1>5, <1>6, <2>4, <2>5, <2>6, NobodyMoves
  <1>12. CASE r.kind # "stop"
    <2>1. r \in DataReplies(Threads) /\ r \notin Stops
      BY <1>3, <1>12 DEF Replies, Stops
    <2>2. IsSet(r) /\ readQ = <<>>
      BY <1>7, <2>1, SteadyFacts DEF BreakInv, SetDone, ReplyInv
    <2>3. readQ' = <<r>> /\ stopQ' = stopQ
      BY <1>1, <1>12, <2>2
    <2>4. \A i \in DOMAIN readQ' : readQ'[i] = r
      BY <2>3
    <2>5. SetDone'
      BY <1>1, <1>8, <2>2, <2>4 DEF SetDone, IsSet
    <2>6. StopSignals'
      BY <1>1, <1>8, <2>3, SteadyFacts DEF StopInv, StopSignals, Queued, hookVars
    <2>7. Dropped => Dropped'
      BY <1>7, <1>9, <1>10, <2>1, <2>3 DEF Dropped, Queued, DropPlaces
    <2> QED BY <1>1, <1>4, <1>5, <1>6, <2>5, <2>6, <2>7, NobodyMoves
  <1> QED BY <1>11, <1>12

----------------------------------------------------------------------------
(* The hooks are armed *)

LEMMA HookInit == Init => HookInv
  <1> SUFFICES ASSUME Init PROVE HookInv
    OBVIOUS
  <1>1. /\ toStub = <<>> /\ fromStub = <<>> /\ readQ = <<>> /\ eventLock = NoThread
        /\ stopQ \in {<<>>, <<"SIGINT">>} /\ (stopQ # <<>> => stub.sig = "SIGINT")
        /\ hooks = {} /\ keys = {} /\ stub.run = "stopped"
    BY DEF Init, StubInit, HooksInit
  <1>2. \A t \in Threads : at[t] \in {"user", "loop", "off"} /\ rq[t] = NoRequest
    BY DEF Init
  <1>3. Asked = {} /\ Told = {} /\ ToldData = {} /\ DOMAIN readQ = {}
    BY <1>1 DEF Asked, Told, ToldData, Marked
  <1>4. \A t \in Dispatchers : t \in Threads /\ Place(t) = at[t]
    BY <1>2 DEF Threads, Place
  <1>5. AskingInv
    <2>1. RequestsOpen /\ UsersKeepOff /\ ClearsSafely
      <3>1. NoRequest.op = "none"
        BY DEF NoRequest
      <3>2. \A t \in Threads : rq[t].op \notin Changes
        BY <1>2, <3>1 DEF Changes
      <3>3. Users \subseteq Threads
        BY DEF Threads
      <3> QED BY <1>2, <3>2, <3>3 DEF RequestsOpen, UsersKeepOff, ClearsSafely, Changes
    <2>2. MainAsking
      BY <1>2, <1>4 DEF MainAsking, Asks
    <2> QED BY <2>1, <2>2 DEF AskingInv
  <1>6. StopInv
    <2>1. ~Stuck
      BY <1>1 DEF Stuck
    <2>2. Queued => stopQ[1] = stub.sig
      BY <1>1 DEF Queued
    <2>3. at[Event] \notin {"why", "whyWait"}
      BY <1>2, <1>4
    <2> QED BY <1>1, <1>3, <2>1, <2>2, <2>3 DEF StopInv, StuckCalm, WhyAsked, StopSignals
  <1>7. BreakInv
    BY <1>1, <1>2, <1>3, <1>4 DEF BreakInv, Armed, Rearming, RearmingBy, SetDone
  <1> QED BY <1>5, <1>6, <1>7 DEF HookInv

LEMMA HookStutter ==
    ASSUME Steady, UNCHANGED vars
    PROVE  HookInv'
  <1>1. /\ UNCHANGED <<at, rq, eventLock, hookVars>>
        /\ UNCHANGED <<toStub, fromStub, stub, stopQ, readQ>>
    BY DEF vars, stubVars, targetVars, queueVars, lockVars, localVars
  <1>2. Asked' = Asked /\ Told' = Told /\ ToldData' = ToldData /\ (Calm' <=> Calm)
    BY <1>1 DEF Asked, Told, ToldData, Calm, Moves, Queued
  <1>3. WhyAsked' /\ StopSignals' /\ SetDone'
    BY <1>1, <1>2, SteadyFacts
       DEF StopInv, WhyAsked, StopSignals, Queued, BreakInv, SetDone, IsSet, hookVars
  <1>4. Dropped => Dropped'
    BY <1>1, <1>2 DEF Dropped, Queued, Stuck, InEventLock, Place, DropPlaces
  <1>5. \A a \in hooks \ Refused : Has(a) => Has(a)'
    BY <1>1 DEF Has, SetPending
  <1> QED BY <1>1, <1>2, <1>3, <1>4, <1>5, NobodyMoves

LEMMA HookNext ==
    ASSUME Hooking
    PROVE  Steady /\ [Next]_vars => HookInv'
  <1> SUFFICES ASSUME Steady, [Next]_vars PROVE HookInv'
    OBVIOUS
  <1>1. Patient
    BY DEF Hooking, Disciplined, Orderly
  <1>2. CASE OfStub(StubNext)
    BY <1>2, HookStub
  <1>3. CASE OfTarget(Reader)
    BY <1>3, HookReader
  <1>4. CASE \E t \in Callers : Call(t)
    BY <1>4, HookCall
  <1>5. ASSUME NEW t \in Threads, ThreadStep(t)
        PROVE  HookInv'
    BY <1>1, <1>5, HookSend, HookReceive, HookCallerStep, HookExec, HookDispatch, HookEvent,
       HookMain, HookEndCallback DEF ThreadStep
  <1>6. CASE UNCHANGED vars
    BY <1>6, HookStutter
  <1> QED BY <1>2, <1>3, <1>4, <1>5, <1>6 DEF Next

LEMMA SteadyAlways ==
    ASSUME Hooking
    PROVE  Spec => []Steady
  <1>1. Orderly /\ Disciplined
    BY DEF Hooking, Disciplined
  <1>2. Init => Steady
    BY <1>1, InvInit, OrderInit, DisciplineInit, HookInit DEF Steady
  <1>3. Steady /\ [Next]_vars => Steady'
    <2>1. Steady => Inv /\ OrderInv /\ DisciplineInv
      BY DEF Steady
    <2>2. Steady /\ [Next]_vars => Inv' /\ OrderInv' /\ DisciplineInv' /\ HookInv'
      BY <1>1, <2>1, InvNext, OrderNext, DisciplineNext, HookNext
    <2> QED BY <2>2 DEF Steady
  <1> QED BY <1>2, <1>3, PTL DEF Spec

(* Whenever the guest runs and nobody changes a breakpoint, the breakpoint *)
(* of every hook is set, although each stop drops them all                 *)
(* (callback_manager.py:210-217).                                          *)
THEOREM HooksAreArmed ==
    ASSUME Hooking
    PROVE  Spec => []HooksArmed
  <1>1. Steady => HooksArmed
    <2> SUFFICES ASSUME Steady, stub.run = "running", ~Changing
                 PROVE  hooks \ Refused \subseteq stub.bps
      BY DEF HooksArmed
    <2>1. Moves /\ Told = {} /\ ~Queued /\ ~Calm
      BY SteadyFacts DEF Moves, OneStop, Calm
    <2>2. ~Stuck
      BY <2>1, SteadyFacts DEF StopInv, StuckCalm
    <2>3. Place(Event) \notin DropPlaces(Event)
      <3>1. at[Event] \notin {"whyWait", "stepWait"}
        BY <2>1, SteadyFacts DEF Order, WhyHalted, StepHalted
      <3>2. rq[Event].back \in Returns
        BY SteadyFacts DEF Requests
      <3>3. Place(Event) \notin {"whyWait", "stepWait"}
        BY <3>1, <3>2 DEF Place, Returns
      <3>4. Place(Event) \in AtEase \cup {"after", "whyWait", "stepWait"}
        BY <2>1, SteadyFacts DEF Order, EventCalm
      <3> QED BY <3>3, <3>4 DEF AtEase, DropPlaces, Looping
    <2>4. Place(Main) \notin DropPlaces(Main)
      <3>1. at[Main] # "stepWait"
        BY SteadyFacts DEF Order, StepHalted
      <3>2. rq[Main].back \in Returns
        BY SteadyFacts DEF Requests
      <3>3. Place(Main) # "stepWait"
        BY <3>1, <3>2 DEF Place, Returns
      <3>4. Place(Main) \notin Executing
        BY <2>1, SteadyFacts DEF Order, MainCalm
      <3> QED BY <3>3, <3>4 DEF Executing, DropPlaces, Looping
    <2>5. ~Dropped
      BY <2>1, <2>2, <2>3, <2>4 DEF Dropped
    <2>6. \A a : ~SetPending(a)
      BY DEF Changing, SetPending
    <2> QED BY <2>5, <2>6, SteadyFacts DEF BreakInv, Armed, Has
  <1> QED BY <1>1, SteadyAlways, PTL

(* No exception ends the event thread when the stub refuses no breakpoint: *)
(* what it is told of the pc is an address, and nobody adds a key while it *)
(* sets breakpoints again.                                                 *)
LEMMA EventLives ==
    ASSUME Steady, Refused = {}, at[Event] # "dead", [Next]_vars
    PROVE  at'[Event] # "dead"
  <1>1. at \in [Threads -> Labels] /\ Event \in Threads /\ Event \notin Callers /\ Main # Event
    BY SteadyFacts, UsersAssumption DEF Callers
  <1>2. CASE UNCHANGED at
    BY <1>2
  <1>3. CASE OfStub(StubNext) \/ OfTarget(Reader) \/ UNCHANGED vars
    BY <1>2, <1>3 DEF OfStub, OfTarget, Reader, targetVars, vars
  <1>4. ASSUME NEW t \in Callers, Call(t)
        PROVE  at'[Event] # "dead"
    <2>1. \E l : at' = [at EXCEPT ![t] = l]
      BY <1>4 DEF Call, OfTarget, OfHooks, CallRead, CallRun, CallStep, CallStop, CallClose,
                  CallAdd, CallRemove, CallRemoveGone, Ask, Go
    <2> QED BY <1>1, <2>1
  <1>5. ASSUME NEW t \in Threads, OfTarget(Send(t))
        PROVE  at'[Event] # "dead"
    BY <1>1, <1>5 DEF OfTarget, Send, Go
  <1>6. ASSUME NEW t \in Threads, OfTarget(Receive(t))
        PROVE  at'[Event] # "dead"
    <2>1. /\ at[t] = "recv" /\ readQ # <<>> /\ readQ' = Tail(readQ)
          /\ IF Raises(rq[t].op, Head(readQ).body)
                THEN at' = [at EXCEPT ![t] = Raised(t)]
                ELSE at' = [at EXCEPT ![t] = rq[t].back]
      BY <1>6 DEF OfTarget, Receive, Go
    <2>2. Fits(Head(readQ)) /\ Head(readQ).to = t
      BY <2>1, ReplyRead
    <2>3. ~Raises(rq[t].op, Head(readQ).body)
      BY <2>2 DEF Fits, Raises, Decoded
    <2>4. rq[t].back # "dead"
      BY SteadyFacts DEF Requests, Returns
    <2> QED BY <1>1, <2>1, <2>3, <2>4
  <1>7. ASSUME NEW t \in Callers, OfTarget(CallerStep(t))
        PROVE  at'[Event] # "dead"
    <2>1. \E l : at' = [at EXCEPT ![t] = l]
      BY <1>7 DEF OfTarget, CallerStep, StopCheck, StopLock, StopSend, UnsetReadPc, UnsetCompare,
                  Ask, Go
    <2> QED BY <1>1, <2>1
  <1>8. ASSUME NEW t \in Dispatchers, OfTarget(ExecStep(t))
        PROVE  at'[Event] # "dead"
    <2>1. \E l : l # "dead" /\ at' = [at EXCEPT ![t] = l]
      <3>1. stepBack # "dead" /\ Home(t) # "dead"
        BY SteadyFacts DEF TypeOK, TargetType, Home
      <3> QED BY <1>8, <3>1 DEF OfTarget, ExecStep, Continue, ContinueLock, ContinueSend, StepGuard,
              StepSend, StepWait, StepTimeout, StepDispatch, StepSaved, StepClear, StepEnd,
              StepReturn, Ask, Go
    <2> QED BY <1>1, <2>1
  <1>9. ASSUME NEW t \in Dispatchers, OfHooks(DispatchStep(t))
        PROVE  at'[Event] # "dead"
    <2>1. dispBack # "dead" /\ ~RearmRaises(t)
      <3>1. at[t] = "rearm" => Place(t) = "rearm"
        BY DEF Place
      <3> QED BY <3>1, SteadyFacts
              DEF TypeOK, TargetType, RearmRaises, BreakInv, Rearming, RearmingBy
    <2>2. DispReturn(t) # "dead" /\ Cb(t) # Event
      BY <2>1 DEF DispReturn, Cb
    <2>3. CASE StartCallback(t) \/ JoinCallback(t)
      BY <1>1, <2>2, <2>3 DEF StartCallback, JoinCallback
    <2>4. CASE ~StartCallback(t) /\ ~JoinCallback(t)
      <3>1. \E l : l # "dead" /\ at' = [at EXCEPT ![t] = l]
        BY <1>9, <2>1, <2>2, <2>4
           DEF OfHooks, DispatchStep, Dispatch, CallbacksDone, Rearm, RearmSkip, RearmDone, Ask, Go
      <3> QED BY <1>1, <3>1
    <2> QED BY <2>3, <2>4
  <1>10. CASE OfTarget(EventStep)
    <2>1. \E l : l # "dead" /\ at' = [at EXCEPT ![Event] = l]
      BY <1>10 DEF OfTarget, EventStep, EventTop, EventAcquire, EventIdle, EventPoll, EventAskWhy,
                   EventWhy, EventUnset, EventDispatch, EventSave, EventResume, EventRelease,
                   Home, Ask, Go
    <2> QED BY <1>1, <2>1
  <1>11. CASE OfTarget(MainStep)
    <2>1. \E l : at' = [at EXCEPT ![Main] = l]
      BY <1>11 DEF OfTarget, MainStep, StepLock, CloseStop, CloseDetach, CloseTimeout, Ask, Go
    <2> QED BY <1>1, <2>1
  <1>12. ASSUME NEW c \in Cbs, OfHooks(EndCallback(c))
         PROVE  at'[Event] # "dead"
    BY <1>1, <1>12 DEF OfHooks, EndCallback, Go
  <1> QED BY <1>3, <1>4, <1>5, <1>6, <1>7, <1>8, <1>9, <1>10, <1>11, <1>12 DEF Next, ThreadStep

(* The event thread is never ended by an exception: it would keep the lock *)
(* of the event loop for ever.                                             *)
THEOREM EventThreadSurvives ==
    ASSUME Hooking, Refused = {}
    PROVE  Spec => []EventThreadLives
  <1>1. Init => EventThreadLives
    BY DEF Init, EventThreadLives, Threads
  <1>2. Steady /\ EventThreadLives /\ [Next]_vars => EventThreadLives'
    BY EventLives DEF EventThreadLives
  <1> QED BY <1>1, <1>2, SteadyAlways, PTL DEF Spec
=============================================================================

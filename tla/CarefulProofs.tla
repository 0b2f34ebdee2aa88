---------------------------- MODULE CarefulProofs ---------------------------
(***************************************************************************)
(* Proofs about Monk for careful programs (see README, section 3): main    *)
(* calls only when what the guest did before has been handled, and no      *)
(* packet takes longer than a timeout.  Each theorem names the rules it    *)
(* needs as its assumptions.                                               *)
(***************************************************************************)
EXTENDS MonkProofs, SequenceTheorems

USE DEF Main, Event, Cbs, NoThread, Dispatchers

----------------------------------------------------------------------------
(* Marked elements of a queue *)

Marked(s, S) == {i \in DOMAIN s : s[i] \in S}
Single(M) == \A i, j \in M : i = j

LEMMA MarkedAppend ==
    ASSUME NEW T, NEW s \in Seq(T), NEW e \in T, NEW S
    PROVE  /\ Append(s, e) \in Seq(T)
           /\ e \notin S => Marked(Append(s, e), S) = Marked(s, S)
           /\ e \in S => Marked(Append(s, e), S) = Marked(s, S) \cup {Len(s) + 1}
           /\ \A i \in DOMAIN s : Append(s, e)[i] = s[i]
           /\ Append(s, e)[Len(s) + 1] = e
           /\ DOMAIN Append(s, e) = DOMAIN s \cup {Len(s) + 1}
           /\ Len(s) + 1 \notin DOMAIN s
  <1> DEFINE r == Append(s, e)
  <1>1. /\ r \in Seq(T) /\ DOMAIN r = 1..(Len(s) + 1) /\ DOMAIN s = 1..Len(s) /\ Len(s) \in Nat
        /\ \A i \in 1..Len(s) : r[i] = s[i]
        /\ r[Len(s) + 1] = e
    BY AppendProperties
  <1> HIDE DEF r
  <1>2. DOMAIN r = DOMAIN s \cup {Len(s) + 1} /\ Len(s) + 1 \notin DOMAIN s
    BY <1>1
  <1>3. /\ e \notin S => Marked(r, S) = Marked(s, S)
        /\ e \in S => Marked(r, S) = Marked(s, S) \cup {Len(s) + 1}
    BY <1>1, <1>2 DEF Marked
  <1> QED BY <1>1, <1>2, <1>3 DEF r

LEMMA MarkedTail ==
    ASSUME NEW T, NEW s \in Seq(T), s # <<>>, NEW S
    PROVE  /\ Tail(s) \in Seq(T) /\ Head(s) = s[1] /\ 1 \in DOMAIN s
           /\ \A i \in DOMAIN Tail(s) : i + 1 \in DOMAIN s /\ Tail(s)[i] = s[i + 1] /\ i + 1 # 1
           /\ \A i \in Marked(Tail(s), S) : i + 1 \in Marked(s, S) /\ i + 1 # 1
           /\ Head(s) \notin S /\ Marked(s, S) # {} => Marked(Tail(s), S) # {}
           /\ Head(s) \in S => 1 \in Marked(s, S)
  <1> DEFINE r == Tail(s)
  <1>1. /\ r \in Seq(T) /\ DOMAIN r = 1..(Len(s) - 1) /\ DOMAIN s = 1..Len(s) /\ Len(s) \in Nat
        /\ 1 \in DOMAIN s
        /\ Len(s) > 0 /\ \A i \in 1..(Len(s) - 1) : r[i] = s[i + 1]
    BY EmptySeq
  <1>2. Head(s) = s[1]
    OBVIOUS
  <1> HIDE DEF r
  <1>3. \A i \in DOMAIN r : i + 1 \in DOMAIN s /\ r[i] = s[i + 1] /\ i + 1 # 1
    BY <1>1
  <1>4. \A i \in Marked(r, S) : i + 1 \in Marked(s, S) /\ i + 1 # 1
    BY <1>3 DEF Marked
  <1>5. ASSUME NEW i \in Marked(s, S), s[1] \notin S
        PROVE  i - 1 \in Marked(r, S)
    <2>1. i \in 1..Len(s) /\ s[i] \in S /\ i # 1
      BY <1>1, <1>5 DEF Marked
    <2>2. i - 1 \in 1..(Len(s) - 1) /\ (i - 1) + 1 = i
      BY <1>1, <2>1
    <2> QED BY <1>1, <2>1, <2>2 DEF Marked
  <1>6. Head(s) \notin S /\ Marked(s, S) # {} => Marked(r, S) # {}
    BY <1>2, <1>5
  <1>7. Head(s) \in S => 1 \in Marked(s, S)
    BY <1>1, <1>2 DEF Marked
  <1> QED BY <1>1, <1>2, <1>3, <1>4, <1>6, <1>7 DEF r

LEMMA TailOfOne ==
    ASSUME NEW T, NEW s \in Seq(T), s # <<>>, Len(s) <= 1
    PROVE  Tail(s) = <<>> /\ Len(Tail(s)) = 0
  <1>1. Len(s) \in Nat /\ Len(s) # 0
    BY EmptySeq
  <1>2. \A n \in Nat : n # 0 /\ n <= 1 => n = 1
    OBVIOUS
  <1>3. Len(s) = 1
    BY <1>1, <1>2
  <1>4. Tail(s) \in Seq(T) /\ Len(Tail(s)) = 0
    BY <1>3
  <1> QED BY <1>4, EmptySeq

(* Of a single marked element nothing is left when it is taken. *)
LEMMA SingleTail ==
    ASSUME NEW T, NEW s \in Seq(T), s # <<>>, NEW S, Single(Marked(s, S))
    PROVE  /\ Single(Marked(Tail(s), S))
           /\ Head(s) \in S => Marked(Tail(s), S) = {}
           /\ Marked(s, S) = {} => Marked(Tail(s), S) = {}
           /\ Head(s) \notin S /\ Marked(s, S) # {} => Marked(Tail(s), S) # {}
           /\ Head(s) \in S => Marked(s, S) # {}
  <1>1. \A i \in Marked(Tail(s), S) : i \in Int
    <2>1. Tail(s) \in Seq(T)
      BY MarkedTail
    <2> QED BY <2>1 DEF Marked
  <1>2. \A i, j \in Marked(Tail(s), S) : i = j
    <2> SUFFICES ASSUME NEW i \in Marked(Tail(s), S), NEW j \in Marked(Tail(s), S)
                 PROVE  i = j
      OBVIOUS
    <2>1. i + 1 = j + 1
      BY MarkedTail DEF Single
    <2> QED BY <1>1, <2>1
  <1> QED BY <1>2, MarkedTail DEF Single

----------------------------------------------------------------------------
(* One stop at a time.  A request that sets the guest in motion or asks    *)
(* why it stopped leads to one stop packet.  Wherever that is on its way,  *)
(* there is no other.                                                      *)

Orderly == Main \in Careful /\ Patient

Stirring == {m \in Packets(Threads) : m.op \in {"cont", "step", "why"}}
Stops == {r \in Replies(Threads) : r.kind = "stop"}
Asked == Marked(toStub, Stirring)
Told == Marked(fromStub, Stops)
Moves == stub.run # "stopped"
Queued == stopQ # <<>>

(* Nothing is on its way and the guest is halted. *)
Calm == ~Moves /\ Asked = {} /\ Told = {} /\ ~Queued
OneStop ==
    /\ Single(Asked) /\ Single(Told) /\ Len(stopQ) <= 1
    /\ Asked # {} => ~Moves /\ Told = {} /\ ~Queued
    /\ Moves => Told = {} /\ ~Queued
    /\ Told # {} => ~Queued

(* Places of the event thread at which nothing is handled, or a stop       *)
(* packet is awaited                                                       *)
AtEase == {"loop", "acquire", "poll", "done", "dead"}
EventCalm == Place(Event) \notin AtEase \cup {"after", "whyWait", "stepWait"} => Calm

(* ... and those of main at which it is about to execute the guest, or has *)
(* done a step                                                             *)
Executing ==
    {"cont", "guard", "contLock", "contSend", "stepLock", "stepSend", "stepDisp", "disp",
     "callbacks", "join", "rearm", "stepSaved", "stepClear", "stepEnd"}
MainCalm == Place(Main) \in Executing => Calm /\ at[Event] \in AtEase

WhyHalted ==
    at[Event] = "whyWait" => ~Moves /\ \A i \in Asked : toStub[i].op = "why"
StepHalted ==
    \A t \in Dispatchers : at[t] = "stepWait" =>
        stub.run # "running" /\ \A i \in Asked : toStub[i].op = "step"

(* close() waits for the event thread; what follows executes nothing. *)
Over == shutdown /\ at[Event] \in {"done", "dead"}
Closing == {"closeJoin", "stop", "stopLock", "stopSend", "detach", "closed"}
CloseInv ==
    /\ shutdown => Place(Main) \in Closing
    /\ shutdown /\ Place(Main) # "closeJoin" => Over
    /\ Place(Main) \in {"detach", "closed"} => shutdown
Detaching ==
    /\ \A t \in Threads : rq[t].op = "detach" => Over
    /\ \A i \in DOMAIN toStub : toStub[i].op = "detach" => Over

Order == OneStop /\ EventCalm /\ MainCalm /\ WhyHalted /\ StepHalted
OrderInv == CloseInv /\ Detaching /\ (~Over => Order)

----------------------------------------------------------------------------
(* Tokens: the packets that stand for a stop, and where they are *)

LEMMA StopKinds == Stops \cap DataReplies(Threads) = {}
  BY DEF Stops, DataReplies

LEMMA QueueTypes ==
    ASSUME TypeOK
    PROVE  toStub \in Seq(Packets(Threads)) /\ fromStub \in Seq(Replies(Threads))
           /\ stopQ \in Seq(Signals)
  BY DEF TypeOK, StubType, TargetType

(* A step that sends nothing that stirs the guest *)
KeepTokens ==
    /\ stub' = stub /\ fromStub' = fromStub /\ stopQ' = stopQ
    /\ \/ toStub' = toStub
       \/ \E m \in Packets(Threads) \ Stirring :
             toStub' = Append(toStub, m) /\ (m.op = "detach" => Over)

LEMMA Kept ==
    ASSUME TypeOK, KeepTokens
    PROVE  /\ Asked' = Asked /\ Told' = Told /\ (Calm' <=> Calm) /\ (OneStop' <=> OneStop)
           /\ \A i \in Asked : toStub'[i] = toStub[i]
           /\ \A i \in DOMAIN toStub' : toStub'[i].op = "detach" =>
                 Over \/ (i \in DOMAIN toStub /\ toStub[i].op = "detach")
  <1>1. /\ Asked' = Asked
        /\ \A i \in DOMAIN toStub : toStub'[i] = toStub[i]
        /\ \A i \in DOMAIN toStub' : toStub'[i].op = "detach" =>
              Over \/ (i \in DOMAIN toStub /\ toStub[i].op = "detach")
    <2>1. CASE toStub' = toStub
      BY <2>1 DEF Asked
    <2>2. CASE toStub' # toStub
      <3>1. PICK m \in Packets(Threads) \ Stirring :
               toStub' = Append(toStub, m) /\ (m.op = "detach" => Over)
        BY <2>2 DEF KeepTokens
      <3>2. /\ Marked(toStub', Stirring) = Marked(toStub, Stirring)
            /\ \A i \in DOMAIN toStub : toStub'[i] = toStub[i]
            /\ toStub'[Len(toStub) + 1] = m
            /\ DOMAIN toStub' = DOMAIN toStub \cup {Len(toStub) + 1}
        BY <3>1, QueueTypes, MarkedAppend
      <3> QED BY <3>1, <3>2 DEF Asked
    <2> QED BY <2>1, <2>2
  <1>2. Told' = Told /\ stub' = stub /\ stopQ' = stopQ
    BY DEF KeepTokens, Told
  <1> QED BY <1>1, <1>2 DEF Calm, OneStop, Moves, Queued, Asked, Marked

(* From calm, a packet that stirs the guest is the only one of its kind. *)
LEMMA Stirred ==
    ASSUME TypeOK, Calm, stub' = stub, fromStub' = fromStub, stopQ' = stopQ,
           NEW m \in Stirring, toStub' = Append(toStub, m)
    PROVE  /\ OneStop' /\ ~Moves' /\ \A i \in Asked' : toStub'[i] = m
           /\ \A i \in DOMAIN toStub' : toStub'[i].op = "detach" =>
                 i \in DOMAIN toStub /\ toStub[i].op = "detach"
  <1>1. m \in Packets(Threads) /\ m.op # "detach"
    BY DEF Stirring
  <1>2. /\ Marked(toStub', Stirring) = Marked(toStub, Stirring) \cup {Len(toStub) + 1}
        /\ \A i \in DOMAIN toStub : toStub'[i] = toStub[i]
        /\ toStub'[Len(toStub) + 1] = m
        /\ DOMAIN toStub' = DOMAIN toStub \cup {Len(toStub) + 1}
    BY <1>1, QueueTypes, MarkedAppend
  <1>3. Asked' = {Len(toStub) + 1} /\ Told' = {} /\ ~Queued' /\ ~Moves' /\ Len(stopQ') = 0
    BY <1>2 DEF Asked, Told, Queued, Moves, Calm
  <1>4. OneStop'
    BY <1>3 DEF OneStop, Single
  <1> QED BY <1>1, <1>2, <1>3, <1>4

(* Who takes a queued stop packet finds the guest calm. *)
LEMMA StopTaken ==
    ASSUME TypeOK, OneStop, stopQ # <<>>, stopQ' = Tail(stopQ),
           UNCHANGED <<stub, fromStub, toStub>>
    PROVE  Calm' /\ OneStop' /\ Asked' = {}
  <1>1. Asked = {} /\ Told = {} /\ ~Moves
    BY DEF OneStop, Queued
  <1>2. Asked' = {} /\ Told' = {} /\ ~Moves'
    BY <1>1 DEF Asked, Told, Moves
  <1>3. stopQ' = <<>> /\ Len(stopQ') = 0
    BY QueueTypes, TailOfOne DEF OneStop
  <1> QED BY <1>2, <1>3 DEF Calm, OneStop, Queued, Single

----------------------------------------------------------------------------
(* Steps of the stub and of the reader: tokens move, threads do not. *)

LEMMA StubOrder ==
    ASSUME TypeOK, OneStop, Detaching, ~Over, OfStub(StubNext)
    PROVE  /\ OneStop' /\ (Calm => Calm') /\ Detaching'
           /\ (WhyHalted => WhyHalted') /\ (StepHalted => StepHalted')
  <1> USE DEF OfStub
  <1> DEFINE Aside ==
        /\ \A i \in Asked' : i + 1 \in Asked /\ toStub'[i] = toStub[i + 1] /\ i + 1 # 1
        /\ \A i \in DOMAIN toStub' : i + 1 \in DOMAIN toStub /\ toStub'[i] = toStub[i + 1]
  <1>1. /\ at' = at /\ rq' = rq /\ stopQ' = stopQ /\ shutdown' = shutdown
        /\ (Queued' <=> Queued)
    BY DEF targetVars, queueVars, flagVars, localVars, Queued
  <1>2. \A t \in Threads : rq'[t].op # "detach"
    BY <1>1 DEF Detaching
  <1>3. ASSUME Take
        PROVE  /\ Aside /\ Single(Asked') /\ Detaching'
               /\ Head(toStub) \in Packets(Threads) /\ Head(toStub).op # "detach"
               /\ Head(toStub) = toStub[1]
               /\ Head(toStub) \in Stirring => Asked' = {} /\ 1 \in Asked
               /\ Asked = {} => Asked' = {}
    <2>1. toStub # <<>> /\ toStub' = Tail(toStub) /\ toStub \in Seq(Packets(Threads))
      BY <1>3, QueueTypes DEF Take
    <2>2. Aside /\ Head(toStub) = toStub[1] /\ 1 \in DOMAIN toStub
          /\ (Head(toStub) \in Stirring => 1 \in Asked)
      <3> DEFINE tl == Tail(toStub)
      <3>1. /\ Head(toStub) = toStub[1] /\ 1 \in DOMAIN toStub
            /\ \A i \in DOMAIN tl : i + 1 \in DOMAIN toStub /\ tl[i] = toStub[i + 1] /\ i + 1 # 1
            /\ \A i \in Marked(tl, Stirring) : i + 1 \in Marked(toStub, Stirring) /\ i + 1 # 1
            /\ Head(toStub) \in Stirring => 1 \in Marked(toStub, Stirring)
        BY ONLY <2>1, MarkedTail
      <3>2. toStub' = tl
        BY <2>1
      <3> HIDE DEF tl
      <3> QED BY <3>1, <3>2 DEF Asked, Marked
    <2>3. /\ Single(Asked')
          /\ Head(toStub) \in Stirring => Asked' = {}
          /\ Asked = {} => Asked' = {}
      BY <2>1, SingleTail DEF Asked, OneStop
    <2>4. Head(toStub) \in Packets(Threads)
      BY <2>1, <2>2, ElementOfSeq
    <2>5. Detaching' /\ Head(toStub).op # "detach"
      BY <1>2, <2>2 DEF Detaching
    <2> QED BY <2>2, <2>3, <2>4, <2>5
  <1> HIDE DEF Aside
  <1>4. ASSUME UNCHANGED toStub
        PROVE  Asked' = Asked /\ Detaching'
    BY <1>2, <1>4 DEF Asked, Detaching
  <1>5. ASSUME NEW r \in Replies(Threads), fromStub' = Append(fromStub, r)
        PROVE  /\ r \notin Stops => Told' = Told
               /\ r \in Stops /\ Told = {} => Single(Told')
    <2>1. /\ r \notin Stops => Told' = Told
          /\ r \in Stops => Told' = Told \cup {Len(fromStub) + 1}
      BY <1>5, QueueTypes, MarkedAppend DEF Told
    <2> QED BY <2>1 DEF Single
  <1>6. ASSUME NEW sig \in Signals
        PROVE  StopReply(sig) \in Replies(Threads) /\ StopReply(sig) \in Stops
    BY DEF StopReply, Replies, Stops
  <1>7. CASE StubServe
    <2> DEFINE m == Head(toStub)
    <2>1. Take /\ ~Moves /\ stub' \in Guests /\ stub'.run = stub.run
      <3>1. stub' \in Guests
        BY TypeStub DEF TypeOK, StubType
      <3>2. Take /\ ~Moves /\ m.op # "detach"
        BY <1>3, <1>7 DEF StubServe, Moves
      <3> QED BY <1>7, <3>1, <3>2 DEF StubServe, TypeOK, StubType, Guests
    <2>2. m \in Packets(Threads) /\ m \notin Stirring
      BY <1>3, <1>7, <2>1 DEF StubServe, Stirring, DataOps
    <2>3. DataReply(Answer(m), m.by) \in DataReplies(Threads)
      BY <2>2 DEF DataReply, Answer, DataReplies, Packets, TypeOK, StubType, Guests
    <2>4. Told' = Told
      BY <1>5, <1>7, <2>3, StopKinds DEF StubServe, Replies
    <2>5. Asked = {} <=> Asked' = {}
      BY <1>3, <2>1, <2>2, SingleTail, QueueTypes DEF Take, Asked, OneStop
    <2>6. Aside /\ Single(Asked') /\ Detaching'
      BY <1>3, <2>1
    <2>7. Calm => Calm'
      BY <1>1, <2>1, <2>4, <2>5 DEF Calm, Moves
    <2>8. OneStop'
      BY <1>1, <2>1, <2>4, <2>5, <2>6 DEF OneStop, Moves
    <2> QED BY <1>1, <2>1, <2>6, <2>7, <2>8 DEF WhyHalted, StepHalted, Moves, Aside
  <1>8. CASE StubWhy
    <2>1. Take /\ ~Moves /\ stub' = stub /\ stub.sig \in Signals
      BY <1>8 DEF StubWhy, Moves, TypeOK, StubType, Guests
    <2>2. Head(toStub) \in Stirring /\ Asked' = {} /\ Asked # {} /\ Detaching'
      BY <1>3, <1>8, <2>1 DEF StubWhy, Stirring
    <2>3. Told = {} /\ ~Queued
      BY <2>2 DEF OneStop
    <2>4. Single(Told')
      BY <1>5, <1>6, <1>8, <2>1, <2>3 DEF StubWhy
    <2> QED BY <1>1, <2>1, <2>2, <2>3, <2>4
            DEF OneStop, Calm, Single, Moves, WhyHalted, StepHalted
  <1>9. CASE StubResume
    <2>1. Take /\ ~Moves /\ fromStub' = fromStub
      BY <1>9 DEF StubResume, Moves
    <2>2. Head(toStub) \in Stirring /\ Asked' = {} /\ 1 \in Asked /\ Detaching'
          /\ Head(toStub) = toStub[1]
      BY <1>3, <1>9, <2>1 DEF StubResume, Stirring
    <2>3. Told = {} /\ ~Queued /\ Told' = {}
      BY <2>1, <2>2 DEF OneStop, Told
    <2>4. OneStop' /\ ~Calm
      BY <1>1, <2>2, <2>3 DEF OneStop, Single, Calm
    <2>5. stub'.run = IF toStub[1].op = "cont" THEN "running" ELSE "stepping"
      BY <1>9, <2>2 DEF StubResume, TypeOK, StubType, Guests
    <2>6. toStub[1].op \in {"cont", "step"}
      BY <1>9, <2>2 DEF StubResume
    <2>7. ~WhyHalted \/ at[Event] # "whyWait"
      BY <2>2, <2>6 DEF WhyHalted
    <2> QED BY <1>1, <2>2, <2>4, <2>5, <2>7 DEF WhyHalted, StepHalted
  <1>10. CASE StubStrayCtrlC
    <2>1. Take /\ stub' = stub
      BY <1>10 DEF StubStrayCtrlC
    <2>2. Head(toStub) \in Packets(Threads) /\ Head(toStub) \notin Stirring
      BY <1>3, <1>10, <2>1 DEF StubStrayCtrlC, Stirring
    <2>3. DataReply("empty", "none") \in DataReplies(Threads)
      BY DEF DataReply, DataReplies
    <2>4. Told' = Told
      BY <1>5, <1>10, <2>3, StopKinds DEF StubStrayCtrlC, Replies
    <2>5. Asked = {} <=> Asked' = {}
      BY <1>3, <2>1, <2>2, SingleTail, QueueTypes DEF Take, Asked, OneStop
    <2>6. Aside /\ Single(Asked') /\ Detaching'
      BY <1>3, <2>1
    <2> QED BY <1>1, <2>1, <2>4, <2>5, <2>6
            DEF OneStop, Calm, WhyHalted, StepHalted, Moves, Aside
  <1>11. ASSUME Moves, NEW sig \in Signals, NEW a \in Addr, Halt(sig, a), Asked' = {}
         PROVE  OneStop' /\ ~Calm /\ WhyHalted' /\ StepHalted'
    <2>1. Told = {} /\ ~Queued
      BY <1>11 DEF OneStop
    <2>2. Single(Told')
      BY <1>5, <1>6, <1>11, <2>1 DEF Halt
    <2>3. stub'.run = "stopped"
      BY <1>11 DEF Halt
    <2> QED BY <1>1, <1>11, <2>1, <2>2, <2>3
            DEF OneStop, Calm, Single, Moves, WhyHalted, StepHalted
  <1>12. Moves => Asked = {}
    BY DEF OneStop
  <1>13. CASE StubCtrlC
    <2>1. Take /\ Moves /\ "SIGINT" \in Signals
      BY <1>13 DEF StubCtrlC, Moves, Signals
    <2>2. Asked' = {} /\ Detaching'
      BY <1>3, <1>12, <2>1
    <2> QED BY <1>11, <1>13, <2>1, <2>2 DEF StubCtrlC
  <1>14. CASE StubIgnore
    <2>1. Take /\ Moves /\ stub' = stub /\ fromStub' = fromStub
      BY <1>14 DEF StubIgnore, Moves
    <2>2. Asked' = {} /\ Detaching' /\ Told' = Told
      BY <1>3, <1>12, <2>1 DEF Told
    <2> QED BY <1>1, <1>12, <2>1, <2>2
            DEF OneStop, Calm, Single, Moves, WhyHalted, StepHalted
  <1>15. CASE StubBreak
    <2>1. Moves /\ toStub' = toStub /\ "SIGTRAP" \in Signals /\ stub.bps \subseteq Addr
      BY <1>15 DEF StubBreak, Moves, Signals, TypeOK, StubType, Guests
    <2>2. Asked' = {} /\ Detaching'
      BY <1>4, <1>12, <2>1
    <2> QED BY <1>11, <1>15, <2>1, <2>2 DEF StubBreak
  <1>16. CASE StubStepped
    <2>1. Moves /\ toStub' = toStub /\ "SIGTRAP" \in Signals
      BY <1>16 DEF StubStepped, Moves, Signals
    <2>2. Asked' = {} /\ Detaching'
      BY <1>4, <1>12, <2>1
    <2> QED BY <1>11, <1>16, <2>1, <2>2 DEF StubStepped
  <1> QED BY <1>7, <1>8, <1>9, <1>10, <1>13, <1>14, <1>15, <1>16 DEF StubNext, StubReads

LEMMA ReaderOrder ==
    ASSUME TypeOK, OneStop, OfTarget(Reader)
    PROVE  /\ OneStop' /\ (Calm => Calm') /\ Asked' = Asked
           /\ toStub' = toStub /\ stub' = stub /\ at' = at /\ rq' = rq /\ shutdown' = shutdown
  <1> DEFINE r == Head(fromStub)
  <1>1. /\ toStub' = toStub /\ stub' = stub /\ at' = at /\ rq' = rq /\ shutdown' = shutdown
        /\ fromStub # <<>> /\ fromStub' = Tail(fromStub)
        /\ r.kind = "stop" => stopQ' = Append(stopQ, r.body)
        /\ r.kind # "stop" => stopQ' = stopQ
    BY DEF OfTarget, Reader, flagVars, localVars
  <1>2. fromStub \in Seq(Replies(Threads))
    BY QueueTypes
  <1>3. r \in Replies(Threads)
    BY <1>1, <1>2
  <1>4. r \in Stops <=> r.kind = "stop"
    BY <1>3 DEF Stops
  <1>5. /\ Single(Told')
        /\ r \in Stops => Told' = {} /\ Told # {}
        /\ Told = {} => Told' = {}
    BY <1>1, <1>2, SingleTail DEF Told, OneStop
  <1>6. Asked' = Asked /\ (Moves' <=> Moves)
    BY <1>1 DEF Asked, Moves
  <1>7. CASE r.kind = "stop"
    <2>1. Told # {} /\ Told' = {} /\ Asked = {} /\ ~Moves /\ stopQ = <<>>
      BY <1>4, <1>5, <1>7 DEF OneStop, Queued
    <2>2. r.body \in Signals
      BY <1>3, <1>7 DEF Replies, DataReplies
    <2>3. stopQ' = <<r.body>> /\ Len(stopQ') = 1
      BY <1>1, <1>7, <2>1, <2>2
    <2> QED BY <1>1, <1>5, <1>6, <2>1, <2>3 DEF OneStop, Calm
  <1>8. CASE r.kind # "stop"
    <2>1. stopQ' = stopQ
      BY <1>1, <1>8
    <2> QED BY <1>1, <1>5, <1>6, <2>1 DEF OneStop, Calm, Queued
  <1> QED BY <1>1, <1>6, <1>7, <1>8

----------------------------------------------------------------------------
(* Steps of threads *)

(* Thread t moves; the dispatchers, t apart, stay where they are, and      *)
(* nobody asks to detach before the end.                                   *)
Stays(t) == at'[t] = at[t] /\ rq'[t] = rq[t]
Moving(t) ==
    /\ \A u \in Dispatchers \ {t} : Stays(u)
    /\ \A u \in Threads : rq'[u].op = "detach" => Over
Lingers == shutdown' = shutdown /\ (at[Event] \in {"done", "dead"} => at'[Event] = at[Event])

LEMMA DetachKept ==
    ASSUME Detaching, NEW t, Moving(t), Over => Over',
           \A i \in DOMAIN toStub' : toStub'[i].op = "detach" =>
              Over \/ (i \in DOMAIN toStub /\ toStub[i].op = "detach")
    PROVE  Detaching'
  BY DEF Detaching, Moving

LEMMA PlaceOf ==
    ASSUME NEW t
    PROVE  /\ Place(t) = at[t] \/ at[t] \in {"send", "recv"}
           /\ at[t] \in {"stepWait", "whyWait"} \cup AtEase => Place(t) = at[t]
  BY DEF Place, AtEase

(* Both dispatchers keep their place. *)
LEMMA OrderByOther ==
    ASSUME TypeOK, OrderInv, KeepTokens, NEW t, Moving(t), Lingers,
           Place(Main)' = Place(Main), Place(Event)' = Place(Event),
           at[Event] \in AtEase => at'[Event] = at[Event],
           \A u \in Dispatchers : at'[u] \in {"stepWait", "whyWait"} => at'[u] = at[u]
    PROVE  OrderInv'
  <1>1. Over => Over'
    BY DEF Over, Lingers
  <1>2. CloseInv'
    BY <1>1 DEF OrderInv, CloseInv, Lingers
  <1>3. Detaching'
    BY <1>1, Kept, DetachKept DEF OrderInv
  <1>4. ~Over => Order'
    <2> SUFFICES ASSUME ~Over PROVE Order'
      OBVIOUS
    <2>1. OneStop' /\ EventCalm' /\ MainCalm'
      BY Kept DEF OrderInv, Order, EventCalm, MainCalm
    <2>2. WhyHalted' /\ StepHalted'
      BY Kept DEF OrderInv, Order, WhyHalted, StepHalted, KeepTokens, Moves
    <2> QED BY <2>1, <2>2 DEF Order
  <1> QED BY <1>1, <1>2, <1>3, <1>4 DEF OrderInv

(* Main moves. *)
LEMMA OrderByMain ==
    ASSUME TypeOK, OrderInv, KeepTokens, Moving(Main), CloseInv', shutdown => shutdown',
           at'[Main] \notin {"stepWait", "whyWait"},
           ~Over /\ Place(Main)' \in Executing => Calm /\ at[Event] \in AtEase
    PROVE  OrderInv'
  <1>1. Stays(Event) /\ Place(Event)' = Place(Event)
    BY DEF Moving, Stays, Place
  <1>2. Over => Over'
    BY <1>1 DEF Over, Stays
  <1>3. Detaching'
    BY <1>2, Kept, DetachKept DEF OrderInv
  <1>4. ~Over => Order'
    <2> SUFFICES ASSUME ~Over PROVE Order'
      OBVIOUS
    <2>1. OneStop' /\ EventCalm' /\ MainCalm'
      BY <1>1, Kept DEF OrderInv, Order, EventCalm, MainCalm, Stays
    <2>2. WhyHalted' /\ StepHalted'
      BY <1>1, Kept DEF OrderInv, Order, WhyHalted, StepHalted, KeepTokens, Moves, Stays
    <2> QED BY <2>1, <2>2 DEF Order
  <1> QED BY <1>2, <1>3, <1>4 DEF OrderInv

(* The event thread moves. *)
Handling(l) == l \notin AtEase \cup {"after", "whyWait", "stepWait"}
LEMMA OrderByEvent ==
    ASSUME TypeOK, OrderInv, KeepTokens, Moving(Event), shutdown' = shutdown,
           at[Event] \notin {"done", "dead"},
           at'[Event] \notin {"stepWait", "whyWait"},
           Handling(Place(Event)') => Handling(Place(Event)),
           at[Event] \in AtEase => at'[Event] \in AtEase
    PROVE  OrderInv'
  <1>1. Stays(Main) /\ Place(Main)' = Place(Main)
    BY DEF Moving, Stays, Place
  <1>2. ~Over
    BY DEF Over
  <1>3. CloseInv'
    BY <1>1, <1>2 DEF OrderInv, CloseInv
  <1>4. Detaching'
    BY <1>2, Kept, DetachKept DEF OrderInv
  <1>5. OneStop' /\ EventCalm' /\ MainCalm'
    BY <1>1, <1>2, Kept DEF OrderInv, Order, EventCalm, MainCalm, Stays, Handling
  <1>6. WhyHalted' /\ StepHalted'
    BY <1>1, <1>2, Kept DEF OrderInv, Order, WhyHalted, StepHalted, KeepTokens, Moves, Stays
  <1> QED BY <1>3, <1>4, <1>5, <1>6 DEF Order, OrderInv

(* A dispatcher goes on with cmd_continue, cmd_step or on_execute, or has  *)
(* finished it. *)
After(t) == IF t = Main THEN {"user"} ELSE {"after", "dead", "save"}
LEMMA OrderGoesOn ==
    ASSUME TypeOK, OrderInv, KeepTokens, NEW t \in Dispatchers, Moving(t), shutdown' = shutdown,
           Place(t) \in Executing, Place(t)' \in Executing \cup After(t)
    PROVE  OrderInv'
  <1>1. at'[t] \notin {"stepWait", "whyWait"}
    BY DEF Executing, After, Place
  <1>2. CASE t = Main
    <2>1. ~shutdown
      BY <1>2 DEF OrderInv, CloseInv, Executing, Closing
    <2>2. CloseInv'
      BY <1>2, <2>1 DEF CloseInv, Executing, After
    <2>3. ~Over => Calm /\ at[Event] \in AtEase
      BY <1>2 DEF OrderInv, Order, MainCalm
    <2> QED BY <1>1, <1>2, <2>2, <2>3, OrderByMain
  <1>3. CASE t = Event
    <2>1. Handling(Place(Event)) /\ at[Event] \notin AtEase
      BY <1>3, PlaceOf DEF Executing, Handling, AtEase
    <2> QED BY <1>1, <1>3, <2>1, OrderByEvent DEF AtEase
  <1> QED BY <1>2, <1>3

----------------------------------------------------------------------------
(* Every action preserves the order. *)

LEMMA OrderSend ==
    ASSUME Inv, OrderInv, NEW t \in Threads, OfTarget(Send(t))
    PROVE  OrderInv'
  <1> DEFINE m == Packet(rq[t].op, rq[t].addr, t)
  <1>1. /\ at[t] = "send" /\ at' = [at EXCEPT ![t] = "recv"] /\ rq' = rq
        /\ toStub' = Append(toStub, m) /\ stub' = stub /\ fromStub' = fromStub
        /\ stopQ' = stopQ /\ shutdown' = shutdown
    BY DEF OfTarget, Send, Go, queueVars, flagVars, localVars
  <1>2. at \in [Threads -> Labels] /\ rq \in [Threads -> Requests] /\ TypeOK
    BY DEF Inv, TypeOK, TargetType
  <1>3. rq[t].op \in DataOps /\ rq[t].addr \in Addrs
    BY <1>2, SendIsData DEF OfTarget, Requests, Addrs
  <1>4. m \in Packets(Threads) \ Stirring /\ (m.op = "detach" => Over)
    BY <1>3 DEF Packet, Packets, Stirring, DataOps, Ops, Addrs, OrderInv, Detaching
  <1>5. KeepTokens
    BY <1>1, <1>4 DEF KeepTokens
  <1>6. \A u \in Threads : at'[u] = IF u = t THEN "recv" ELSE at[u]
    BY <1>1, <1>2
  <1>7. Moving(t) /\ Lingers
    BY <1>1, <1>6 DEF Moving, Stays, Lingers, OrderInv, Detaching, Threads
  <1>8. \A u \in Dispatchers : Place(u)' = Place(u)
    BY <1>1, <1>6 DEF Place, Threads
  <1> QED BY <1>1, <1>2, <1>5, <1>6, <1>7, <1>8, OrderByOther DEF Threads, AtEase

LEMMA OrderReceive ==
    ASSUME Inv, OrderInv, NEW t \in Threads, OfTarget(Receive(t))
    PROVE  OrderInv'
  <1>1. at \in [Threads -> Labels] /\ rq \in [Threads -> Requests] /\ TypeOK
    BY DEF Inv, TypeOK, TargetType
  <1>2. /\ at[t] = "recv" /\ rq' = [rq EXCEPT ![t] = NoRequest]
        /\ \E l \in {rq[t].back, Raised(t)} : at' = [at EXCEPT ![t] = l]
        /\ KeepTokens /\ shutdown' = shutdown
    BY DEF OfTarget, Receive, Go, KeepTokens, flagVars
  <1>3. Raised(t) \notin {"send", "recv", "stepWait", "whyWait"}
    BY DEF Raised, Home
  <1>4. rq[t].back \in Returns
    BY <1>1 DEF Requests
  <1>5. /\ \A u \in Threads \ {t} : at'[u] = at[u] /\ rq'[u] = rq[u]
        /\ rq'[t] = NoRequest
        /\ at'[t] \in {rq[t].back, Raised(t)}
    BY <1>1, <1>2
  <1>6. Moving(t)
    BY <1>5 DEF Moving, Stays, NoRequest, Threads, OrderInv, Detaching
  <1>7. Place(t) = rq[t].back /\ Place(t)' = at'[t]
    BY <1>2, <1>3, <1>4, <1>5 DEF Place, Returns
  <1>8. CASE t \notin Dispatchers
    <2>1. /\ Place(Main)' = Place(Main) /\ Place(Event)' = Place(Event)
          /\ at'[Main] = at[Main] /\ at'[Event] = at[Event] /\ Lingers
      BY <1>2, <1>5, <1>8 DEF Place, Threads, Lingers
    <2> QED BY <1>1, <1>2, <1>6, <2>1, OrderByOther
  <1>9. CASE t = Main
    <2>1. /\ Place(Main)' \in {Place(Main), Raised(Main)} /\ Place(Main) # "closeJoin"
          /\ at'[Event] = at[Event] /\ Raised(Main) = (IF shutdown THEN "detach" ELSE "user")
      BY <1>4, <1>5, <1>7, <1>9 DEF Returns, Threads, Raised, Home
    <2>2. CloseInv'
      BY <1>2, <2>1 DEF OrderInv, CloseInv, Over, Closing
    <2>3. ~Over /\ Place(Main)' \in Executing => Calm /\ at[Event] \in AtEase
      BY <2>1 DEF OrderInv, Order, MainCalm, Executing
    <2>4. at'[Main] \notin {"stepWait", "whyWait"}
      BY <1>3, <1>4, <1>5, <1>9 DEF Returns
    <2> QED BY <1>1, <1>2, <1>6, <1>9, <2>2, <2>3, <2>4, OrderByMain
  <1>10. CASE t = Event
    <2>1. Place(Event)' \in {Place(Event), "dead"}
      BY <1>5, <1>7, <1>10 DEF Raised
    <2>2. at'[Event] \notin {"stepWait", "whyWait"}
      BY <1>3, <1>4, <1>5, <1>10 DEF Returns
    <2>3. Handling(Place(Event)') => Handling(Place(Event))
      BY <2>1 DEF Handling, AtEase
    <2> QED BY <1>1, <1>2, <1>6, <1>10, <2>2, <2>3, OrderByEvent DEF AtEase
  <1> QED BY <1>8, <1>9, <1>10

(* A careful main finds the guest calm when it calls. *)
LEMMA QuietIsCalm ==
    ASSUME Main \in Careful, NEW name \in {"run", "step", "read", "add", "remove"},
           CanCall(Main, name)
    PROVE  Calm /\ at[Event] \in AtEase
  <1>1. Quiet
    BY DEF CanCall
  <1>2. DOMAIN <<>> = {}
    OBVIOUS
  <1> QED BY <1>1, <1>2 DEF Quiet, Calm, Moves, Queued, Asked, Told, Marked, AtEase

(* A call is a request or a jump. *)
MakesRequest(t) ==
    \E op \in {"data", "set", "clear"}, a \in Addrs, l \in {Home(t), "unsetPc"} :
       Ask(t, op, a, l) /\ (t = Main => l = Home(t)) /\ shutdown' = shutdown
Jumps(t) ==
    /\ rq' = rq
    /\ \/ shutdown' = shutdown /\ Go(t, Raised(t))
       \/ shutdown' = shutdown /\ Go(t, Home(t))
       \/ shutdown' = shutdown /\ CanCall(t, "stop") /\ Go(t, "stop")
       \/ t = Main /\ shutdown' = shutdown /\ CanCall(t, "run") /\ Go(t, "cont")
       \/ t = Main /\ shutdown' = shutdown /\ CanCall(t, "step") /\ Go(t, "guard")
       \/ t = Main /\ shutdown' /\ CanCall(t, "close") /\ Go(t, "closeJoin")

LEMMA CallShape ==
    ASSUME TypeOK, NEW t \in Callers, Call(t)
    PROVE  /\ KeepTokens /\ (t = Main => ~shutdown)
           /\ MakesRequest(t) \/ Jumps(t)
  <1> USE DEF OfTarget, OfHooks, Unmoved, flagVars, queueVars, localVars, KeepTokens, IsMain
  <1>0. ASSUME NEW name, CanCall(t, name) PROVE t = Main => ~shutdown
    BY <1>0 DEF CanCall
  <1>1. CASE OfTarget(CallRead(t))
    BY <1>0, <1>1 DEF CallRead, MakesRequest, Addrs
  <1>2. CASE OfTarget(CallRun(t))
    BY <1>0, <1>2 DEF CallRun, Jumps
  <1>3. CASE OfTarget(CallStep(t))
    BY <1>0, <1>3 DEF CallStep, Jumps
  <1>4. CASE OfTarget(CallStop(t))
    BY <1>0, <1>4 DEF CallStop, Jumps
  <1>5. CASE OfTarget(CallClose(t))
    BY <1>0, <1>5 DEF CallClose, Jumps
  <1>6. CASE OfHooks(CallAdd(t))
    <2>1. PICK a \in Addr \ hooks : Ask(t, "set", a, Home(t))
      BY <1>6 DEF CallAdd
    <2>2. a \in Addrs /\ KeepTokens /\ (t = Main => ~shutdown) /\ shutdown' = shutdown
      BY <1>0, <1>6 DEF CallAdd, Addrs
    <2> QED BY <2>1, <2>2 DEF MakesRequest
  <1>7. CASE OfHooks(CallRemove(t))
    <2>1. PICK a \in hooks :
             \/ Ask(t, "clear", a, Home(t))
             \/ ~IsMain(t) /\ Ask(t, "clear", a, "unsetPc")
      BY <1>7 DEF CallRemove
    <2>2. a \in Addrs /\ KeepTokens /\ (t = Main => ~shutdown) /\ shutdown' = shutdown
      BY <1>0, <1>7 DEF CallRemove, Addrs, TypeOK, HooksType
    <2> QED BY <2>1, <2>2 DEF MakesRequest
  <1>8. CASE OfHooks(CallRemoveGone(t))
    BY <1>0, <1>8 DEF CallRemoveGone, Jumps
  <1> QED BY <1>1, <1>2, <1>3, <1>4, <1>5, <1>6, <1>7, <1>8 DEF Call

LEMMA OrderCall ==
    ASSUME Inv, OrderInv, Main \in Careful, NEW t \in Callers, Call(t)
    PROVE  OrderInv'
  <1>1. /\ at \in [Threads -> Labels] /\ rq \in [Threads -> Requests] /\ TypeOK
        /\ t \in Threads /\ t # Event
    BY UsersAssumption DEF Inv, TypeOK, TargetType, Callers, Threads
  <1>2. KeepTokens /\ (t = Main => ~shutdown) /\ (MakesRequest(t) \/ Jumps(t))
    BY <1>1, CallShape
  <1>3. /\ \A u \in Threads \ {t} : at'[u] = at[u] /\ rq'[u] = rq[u]
        /\ rq'[t].op = "detach" => rq[t].op = "detach"
        /\ shutdown' # shutdown => t = Main /\ shutdown'
    <2>1. CASE MakesRequest(t)
      BY <1>1, <2>1 DEF MakesRequest, Ask, Go
    <2>2. CASE Jumps(t)
      BY <1>1, <2>2 DEF Jumps, Go, TypeOK, TargetType
    <2> QED BY <1>2, <2>1, <2>2
  <1>4. Moving(t)
    BY <1>1, <1>3 DEF Moving, Stays, Threads, OrderInv, Detaching
  <1>5. CASE t # Main
    <2>1. /\ Place(Main)' = Place(Main) /\ Place(Event)' = Place(Event)
          /\ at'[Main] = at[Main] /\ at'[Event] = at[Event] /\ Lingers
      BY <1>1, <1>3, <1>5 DEF Place, Threads, Lingers
    <2> QED BY <1>1, <1>2, <1>4, <2>1, OrderByOther
  <1>6. CASE t = Main
    <2>1. ~shutdown /\ Home(Main) = "user" /\ Raised(Main) = "user"
      BY <1>2, <1>6 DEF Home, Raised
    <2>2. /\ Place(Main)' \in {"user", "cont", "guard", "stop", "closeJoin"}
          /\ at'[Main] \in {"send", "user", "cont", "guard", "stop", "closeJoin"}
          /\ shutdown' => Place(Main)' = "closeJoin"
          /\ Place(Main)' \in {"cont", "guard"} => Calm /\ at[Event] \in AtEase
      <3>1. CASE MakesRequest(t)
        BY <1>1, <1>6, <2>1, <3>1 DEF MakesRequest, Go, Ask, Place
      <3>2. CASE Jumps(t)
        BY <1>1, <1>6, <2>1, <3>2, QuietIsCalm DEF Jumps, Go, Place, TypeOK, TargetType
      <3> QED BY <1>2, <3>1, <3>2
    <2>3. CloseInv'
      BY <2>2 DEF CloseInv, Closing
    <2>4. ~Over /\ Place(Main)' \in Executing => Calm /\ at[Event] \in AtEase
      BY <2>2 DEF Executing
    <2> QED BY <1>1, <1>2, <1>4, <1>6, <2>1, <2>2, <2>3, <2>4, OrderByMain
  <1> QED BY <1>5, <1>6

LEMMA OrderCaller ==
    ASSUME Inv, OrderInv, NEW t \in Callers, OfTarget(CallerStep(t))
    PROVE  OrderInv'
  <1>1. /\ at \in [Threads -> Labels] /\ rq \in [Threads -> Requests] /\ TypeOK
        /\ t \in Threads /\ t # Event
    BY UsersAssumption DEF Inv, TypeOK, TargetType, Callers, Threads
  <1>2. KeepTokens /\ shutdown' = shutdown
    <2>1. CASE StopSend(t)
      <3>1. Packet("ctrlC", NoAddr, t) \in Packets(Threads) \ Stirring
        BY <1>1 DEF Packet, Packets, Stirring, Ops, ExecOps
      <3>2. Packet("ctrlC", NoAddr, t).op # "detach"
        BY DEF Packet
      <3>3. /\ toStub' = Append(toStub, Packet("ctrlC", NoAddr, t)) /\ shutdown' = shutdown
            /\ stub' = stub /\ fromStub' = fromStub /\ stopQ' = stopQ
        BY <2>1 DEF StopSend, OfTarget, queueVars
      <3> QED BY <3>1, <3>2, <3>3 DEF KeepTokens
    <2> QED BY <2>1 DEF OfTarget, CallerStep, StopCheck, StopLock, UnsetReadPc, UnsetCompare,
               KeepTokens, flagVars, queueVars
  <1>3. /\ \A u \in Threads \ {t} : at'[u] = at[u] /\ rq'[u] = rq[u]
        /\ rq'[t].op = "detach" => rq[t].op = "detach"
        /\ at[t] \in {"stop", "stopLock", "stopSend", "unsetPc", "unsetCmp"}
        /\ Place(t)' \in {Home(t), "stopLock", "stopSend", "unsetCmp"}
        /\ at'[t] \in {Home(t), "stopLock", "stopSend", "send"}
        /\ at[t] = "stop" \/ at[t] = "stopLock" \/ at[t] = "stopSend"
             => Place(t)' \in {Home(t), "stopLock", "stopSend"}
    <2>1. Home(t) \notin {"send", "recv"}
      BY DEF Home
    <2>2. CASE StopCheck(t) \/ StopLock(t) \/ StopSend(t) \/ UnsetCompare(t)
      BY <1>1, <2>1, <2>2 DEF StopCheck, StopLock, StopSend, UnsetCompare, Go, Place, localVars
    <2>3. CASE UnsetReadPc(t)
      BY <1>1, <2>1, <2>3 DEF UnsetReadPc, Ask, Go, Place
    <2> QED BY <2>2, <2>3 DEF OfTarget, CallerStep
  <1>4. Moving(t)
    BY <1>1, <1>3 DEF Moving, Stays, Threads, OrderInv, Detaching
  <1>5. CASE t # Main
    <2>1. /\ Place(Main)' = Place(Main) /\ Place(Event)' = Place(Event)
          /\ at'[Main] = at[Main] /\ at'[Event] = at[Event] /\ Lingers
      BY <1>1, <1>2, <1>3, <1>5 DEF Place, Threads, Lingers
    <2> QED BY <1>1, <1>2, <1>4, <2>1, OrderByOther
  <1>6. CASE t = Main
    <2>1. Home(Main) = IF shutdown THEN "detach" ELSE "user"
      BY DEF Home
    <2>2. Place(Main) = at[Main] /\ at'[Event] = at[Event]
      BY <1>3, <1>6 DEF Place, Threads
    <2>3. shutdown => at[Main] \in {"stop", "stopLock", "stopSend"} /\ Over
      BY <1>3, <1>6, <2>2 DEF OrderInv, CloseInv, Closing
    <2>4. CloseInv'
      BY <1>2, <1>3, <1>6, <2>1, <2>2, <2>3 DEF CloseInv, Closing, Over
    <2>5. Place(Main)' \notin Executing /\ at'[Main] \notin {"stepWait", "whyWait"}
      BY <1>3, <1>6, <2>1 DEF Executing
    <2> QED BY <1>1, <1>2, <1>4, <1>6, <2>4, <2>5, OrderByMain
  <1> QED BY <1>5, <1>6

(* What the event lock separates *)
LEMMA EventLockSeparates ==
    ASSUME LockInv, Place(Main) \in MainHeld
    PROVE  at[Event] \in EventFree /\ at[Event] \in AtEase
  BY DEF LockInv, EventLockHeld, InEventLock, Threads, EventFree, AtEase

(* A packet that stirs the guest goes out. *)
LEMMA OrderStirs ==
    ASSUME TypeOK, OrderInv, Calm, NEW t \in Dispatchers, Moving(t), CloseInv',
           stub' = stub, fromStub' = fromStub, stopQ' = stopQ,
           NEW m \in Stirring, toStub' = Append(toStub, m),
           ~Over, Place(Main)' \notin Executing, ~Handling(Place(Event)'),
           at'[Event] = "whyWait" => m.op = "why",
           \A u \in Dispatchers : at'[u] = "stepWait" => m.op = "step"
    PROVE  OrderInv'
  <1>1. /\ OneStop' /\ ~Moves' /\ \A i \in Asked' : toStub'[i] = m
        /\ Detaching'
    BY Stirred, DetachKept DEF OrderInv
  <1>2. EventCalm' /\ MainCalm' /\ WhyHalted' /\ StepHalted'
    BY <1>1 DEF EventCalm, MainCalm, WhyHalted, StepHalted, Handling, Moves
  <1> QED BY <1>1, <1>2 DEF Order, OrderInv

LEMMA OrderExec ==
    ASSUME Inv, OrderInv, Patient, NEW t \in Dispatchers, OfTarget(ExecStep(t))
    PROVE  OrderInv'
  <1> USE DEF OfTarget, queueVars, flagVars, localVars
  <1>1. /\ at \in [Threads -> Labels] /\ rq \in [Threads -> Requests] /\ TypeOK
        /\ t \in Threads /\ LockInv
    BY DEF Inv, TypeOK, TargetType, Threads
  <1>2. ASSUME NEW l, at' = [at EXCEPT ![t] = l],
               \A u \in Threads \ {t} : rq'[u] = rq[u], rq'[t].op = "detach" => rq[t].op = "detach"
        PROVE  /\ Moving(t) /\ \A u \in Dispatchers : at'[u] = IF u = t THEN l ELSE at[u]
               /\ \A u \in Dispatchers \ {t} : Place(u)' = Place(u)
    <2>1. \A u \in Threads \ {t} : at'[u] = at[u] /\ rq'[u] = rq[u]
      BY <1>1, <1>2
    <2>2. at'[t] = l
      BY <1>1, <1>2
    <2> QED BY <1>1, <1>2, <2>1, <2>2 DEF Moving, Stays, Threads, OrderInv, Detaching, Place
  <1>3. ASSUME at[t] \in Executing, NEW l \in Executing \cup After(t), at' = [at EXCEPT ![t] = l],
               rq' = rq, KeepTokens, shutdown' = shutdown
        PROVE  OrderInv'
    <2>1. Moving(t) /\ at'[t] = l
      BY <1>2, <1>3
    <2>2. Place(t) \in Executing /\ Place(t)' \in Executing \cup After(t)
      BY <1>3, <2>1 DEF Place, Executing, After
    <2> QED BY <1>1, <1>3, <2>1, <2>2, OrderGoesOn
  <1>4. ASSUME Place(Main) \in Executing
        PROVE  ~shutdown /\ Home(Main) = "user" /\ Raised(Main) = "user"
    BY <1>4 DEF OrderInv, CloseInv, Executing, Closing, Home, Raised
  <1>5. Home(Event) = "after" /\ Raised(Event) = "dead"
    BY DEF Home, Raised
  <1>6. ASSUME at[t] \in Executing
        PROVE  Home(t) \in After(t) /\ StepReturn(t) \in Executing \cup After(t)
    BY <1>1, <1>4, <1>5, <1>6
       DEF Place, After, Executing, StepReturn, IsMain, TypeOK, TargetType
  <1>7. CASE Continue(t)
    BY <1>3, <1>7 DEF Continue, Go, Executing, KeepTokens
  <1>8. CASE ContinueLock(t)
    BY <1>3, <1>8 DEF ContinueLock, Go, Executing, KeepTokens
  <1>9. CASE StepGuard(t)
    BY <1>3, <1>6, <1>9 DEF StepGuard, Go, Executing, KeepTokens
  <1>10. CASE StepDispatch(t)
    BY <1>3, <1>10 DEF StepDispatch, Go, Executing, KeepTokens
  <1>11. CASE StepClear(t)
    BY <1>3, <1>11 DEF StepClear, Go, Executing, KeepTokens
  <1>12. CASE StepEnd(t)
    BY <1>3, <1>6, <1>12 DEF StepEnd, Go, Executing, KeepTokens
  <1>13. CASE StepSaved(t)
    <2>1. CASE savedBp = NoAddr
      BY <1>3, <1>13, <2>1 DEF StepSaved, Go, Executing, KeepTokens
    <2>2. CASE savedBp # NoAddr
      <3>1. /\ at[t] = "stepSaved" /\ KeepTokens /\ shutdown' = shutdown
            /\ at' = [at EXCEPT ![t] = "send"]
            /\ rq' = [rq EXCEPT ![t] = [op |-> "set", addr |-> savedBp, back |-> "stepClear"]]
        BY <1>13, <2>2 DEF StepSaved, Ask, Go, KeepTokens
      <3>2. (\A u \in Threads \ {t} : rq'[u] = rq[u]) /\ rq'[t].op # "detach"
            /\ rq'[t].back = "stepClear"
        BY <1>1, <3>1
      <3>3. Moving(t) /\ at'[t] = "send"
        BY <1>1, <1>2, <3>1, <3>2
      <3>4. Place(t) \in Executing /\ Place(t)' \in Executing
        BY <1>1, <3>1, <3>2, <3>3 DEF Place, Executing
      <3> QED BY <1>1, <3>1, <3>3, <3>4, OrderGoesOn
    <2> QED BY <2>1, <2>2
  <1>14. CASE StepWait(t) \/ StepTimeout(t)
    <2>1. /\ at[t] = "stepWait" /\ at' = [at EXCEPT ![t] = "send"]
          /\ rq' = [rq EXCEPT ![t] = [op |-> "pc", addr |-> NoAddr, back |-> "stepDisp"]]
          /\ shutdown' = shutdown
      BY <1>14 DEF StepWait, StepTimeout, Ask, Go
    <2>2. /\ Moving(t) /\ at'[t] = "send" /\ Place(t) = "stepWait" /\ Place(t)' = "stepDisp"
          /\ \A u \in Dispatchers \ {t} : Place(u)' = Place(u) /\ at'[u] = at[u]
      <3>1. /\ \A u \in Threads \ {t} : rq'[u] = rq[u]
            /\ rq'[t].op # "detach" /\ rq'[t].back = "stepDisp"
        BY <1>1, <2>1
      <3>2. Moving(t) /\ (\A u \in Dispatchers : at'[u] = IF u = t THEN "send" ELSE at[u])
            /\ (\A u \in Dispatchers \ {t} : Place(u)' = Place(u))
        BY <1>2, <2>1, <3>1
      <3> QED BY <2>1, <3>1, <3>2 DEF Place
    <2>3. ~Over => Calm' /\ OneStop' /\ Asked' = {}
      <3> SUFFICES ASSUME ~Over PROVE Calm' /\ OneStop' /\ Asked' = {}
        OBVIOUS
      <3>1. CASE StepWait(t)
        BY <1>1, <3>1, StopTaken DEF StepWait, OrderInv, Order
      <3>2. CASE StepTimeout(t)
        <4>1. /\ toStub = <<>> /\ fromStub = <<>> /\ stopQ = <<>> /\ stub.run # "stepping"
              /\ stub' = stub /\ toStub' = toStub /\ fromStub' = fromStub /\ stopQ' = stopQ
          BY <3>2 DEF StepTimeout, TimeIsUp
        <4>2. stub.run # "running" /\ OneStop
          BY <2>1, <3>2 DEF OrderInv, Order, StepHalted, StepTimeout
        <4>3. ~Moves
          BY <1>1, <4>1, <4>2 DEF Moves, TypeOK, StubType, Guests
        <4>4. DOMAIN <<>> = {}
          OBVIOUS
        <4>5. Asked = {} /\ Told = {}
          BY <4>1, <4>4 DEF Asked, Told, Marked
        <4>6. Calm
          BY <4>1, <4>3, <4>5 DEF Calm, Queued
        <4> QED BY <4>1, <4>2, <4>5, <4>6 DEF Calm, OneStop, Asked, Told, Moves, Queued
      <3> QED BY <1>14, <3>1, <3>2
    <2>4. toStub' = toStub
      BY <1>14 DEF StepWait, StepTimeout
    <2>5. t = Main => at[Event] \in AtEase
      BY <1>1, <2>2, EventLockSeparates DEF MainHeld
    <2>6. CloseInv' /\ (Over => Over')
      BY <2>1, <2>2 DEF OrderInv, CloseInv, Over, Closing
    <2>7. Detaching'
      BY <2>2, <2>4, <2>6, DetachKept DEF OrderInv
    <2>8. ~Over => EventCalm' /\ MainCalm'
      BY <2>2, <2>3, <2>5 DEF EventCalm, MainCalm, Executing, OrderInv, Order, AtEase, Place
    <2>9. ~Over => WhyHalted' /\ StepHalted'
      BY <2>3 DEF WhyHalted, StepHalted, Calm, Moves
    <2> QED BY <2>3, <2>6, <2>7, <2>8, <2>9 DEF OrderInv, Order
  <1>15. CASE ContinueSend(t) \/ StepSend(t)
    <2> DEFINE op == IF at[t] = "contSend" THEN "cont" ELSE "step"
    <2> DEFINE l == IF at[t] = "contSend" THEN Home(t) ELSE "stepWait"
    <2>1. /\ at[t] \in {"contSend", "stepSend"} /\ at' = [at EXCEPT ![t] = l] /\ rq' = rq
          /\ toStub' = Append(toStub, Packet(op, NoAddr, t))
          /\ stub' = stub /\ fromStub' = fromStub /\ stopQ' = stopQ /\ shutdown' = shutdown
      BY <1>15 DEF ContinueSend, StepSend, Go
    <2>2. Packet(op, NoAddr, t) \in Stirring /\ Packet(op, NoAddr, t).op = op
      BY <1>1 DEF Packet, Packets, Stirring, Ops, ExecOps
    <2>3. /\ Moving(t) /\ at'[t] = l /\ Place(t) = at[t] /\ Place(t)' = l
          /\ \A u \in Dispatchers \ {t} : Place(u)' = Place(u) /\ at'[u] = at[u]
      BY <1>1, <1>2, <2>1 DEF Place, Home
    <2>4. ~Over
      BY <2>1, <2>3 DEF Over, OrderInv, CloseInv, Closing
    <2>5. CASE t = Main
      <3>1. Calm /\ at[Event] \in AtEase /\ ~shutdown /\ Home(Main) = "user"
        BY <1>4, <2>1, <2>3, <2>4, <2>5 DEF OrderInv, Order, MainCalm, Executing
      <3>2. Place(Event)' = Place(Event) /\ at'[Event] = at[Event] /\ Place(Event) = at[Event]
        BY <2>3, <2>5, <3>1, PlaceOf
      <3>3. CloseInv'
        BY <2>1, <2>3, <2>5, <3>1 DEF CloseInv, Closing
      <3>4. Place(Main)' \notin Executing /\ ~Handling(Place(Event)')
        BY <2>3, <2>5, <3>1, <3>2 DEF Executing, Handling, AtEase
      <3> QED BY <1>1, <2>1, <2>2, <2>3, <2>4, <2>5, <3>1, <3>2, <3>3, <3>4, OrderStirs DEF AtEase
    <2>6. CASE t = Event
      <3>1. Calm
        BY <2>1, <2>3, <2>4, <2>6 DEF OrderInv, Order, EventCalm, AtEase
      <3>2. at[Event] \notin AtEase /\ Place(Main) \notin Executing /\ Place(Main) # "stepWait"
        BY <1>1, <2>1, <2>4, <2>6, EventLockSeparates
           DEF OrderInv, Order, MainCalm, AtEase, MainHeld
      <3>3. CloseInv'
        BY <2>1, <2>3, <2>4, <2>6 DEF OrderInv, CloseInv
      <3>4. Place(Main)' \notin Executing /\ ~Handling(Place(Event)')
            /\ at'[Main] # "stepWait" /\ at'[Event] # "whyWait"
            /\ (at'[Event] = "stepWait" => op = "step")
        BY <1>5, <2>3, <2>6, <3>2, PlaceOf DEF Handling
      <3> QED BY <1>1, <2>1, <2>2, <2>3, <2>4, <2>6, <3>1, <3>3, <3>4, OrderStirs
    <2> QED BY <2>5, <2>6
  <1> QED BY <1>7, <1>8, <1>9, <1>10, <1>11, <1>12, <1>13, <1>14, <1>15 DEF ExecStep

LEMMA OrderDispatch ==
    ASSUME Inv, OrderInv, NEW t \in Dispatchers, OfHooks(DispatchStep(t))
    PROVE  OrderInv'
  <1> USE DEF OfHooks, Unmoved, queueVars, flagVars, localVars
  <1>1. /\ at \in [Threads -> Labels] /\ rq \in [Threads -> Requests] /\ TypeOK
        /\ t \in Threads /\ Cb(t) \in Threads /\ Cb(t) \notin Dispatchers
    BY DEF Inv, TypeOK, TargetType, Threads, Cb
  <1>2. KeepTokens /\ shutdown' = shutdown
    BY DEF DispatchStep, Dispatch, StartCallback, JoinCallback, CallbacksDone, Rearm, RearmSkip,
       RearmDone, RearmRaises, KeepTokens
  <1>3. at[t] \in {"disp", "callbacks", "join", "rearm"}
    BY DEF DispatchStep, Dispatch, StartCallback, JoinCallback, CallbacksDone, Rearm, RearmSkip,
       RearmDone, RearmRaises
  <1>4. Place(t) = at[t] /\ Place(t) \in Executing
    BY <1>3 DEF Place, Executing
  <1>5. /\ Raised(t) \in After(t) /\ DispReturn(t) \in Executing \cup After(t)
    BY <1>1, <1>4 DEF OrderInv, CloseInv, Executing, Closing, Raised, Home, After, DispReturn,
       IsMain, TypeOK, TargetType
  <1>6. ASSUME NEW l \in Executing \cup After(t), at'[t] = l, rq' = rq,
               \A u \in Dispatchers \ {t} : at'[u] = at[u]
        PROVE  OrderInv'
    <2>1. Moving(t)
      BY <1>1, <1>6 DEF Moving, Stays, Threads, OrderInv, Detaching
    <2>2. Place(t)' \in Executing \cup After(t)
      BY <1>6 DEF Place, Executing, After
    <2> QED BY <1>1, <1>2, <1>4, <2>1, <2>2, OrderGoesOn
  <1>7. ASSUME NEW l, Go(t, l)
        PROVE  at'[t] = l /\ \A u \in Dispatchers \ {t} : at'[u] = at[u]
    BY <1>1, <1>7 DEF Go, Threads
  <1>8. CASE Dispatch(t)
    BY <1>6, <1>7, <1>8 DEF Dispatch, Executing
  <1>9. CASE StartCallback(t)
    <2>1. at'[t] = "join" /\ \A u \in Dispatchers \ {t} : at'[u] = at[u]
      BY <1>1, <1>9 DEF StartCallback, Threads
    <2> QED BY <1>6, <1>9, <2>1 DEF StartCallback, Executing
  <1>10. CASE JoinCallback(t)
    <2>1. at'[t] = "callbacks" /\ \A u \in Dispatchers \ {t} : at'[u] = at[u]
      BY <1>1, <1>10 DEF JoinCallback, Threads
    <2> QED BY <1>6, <1>10, <2>1 DEF JoinCallback, Executing
  <1>11. CASE CallbacksDone(t)
    BY <1>6, <1>7, <1>11 DEF CallbacksDone, Executing
  <1>12. CASE Rearm(t)
    <2>1. PICK a \in todo[t] \cap hooks : Ask(t, "set", a, "rearm")
      BY <1>12 DEF Rearm
    <2>2. /\ at'[t] = "send" /\ rq'[t].op = "set" /\ rq'[t].back = "rearm"
          /\ \A u \in Threads \ {t} : at'[u] = at[u] /\ rq'[u] = rq[u]
      BY <1>1, <2>1 DEF Ask, Go
    <2>3. Moving(t) /\ Place(t)' \in Executing
      BY <1>1, <2>2 DEF Moving, Stays, Threads, OrderInv, Detaching, Place, Executing
    <2> QED BY <1>1, <1>2, <1>4, <2>3, OrderGoesOn
  <1>13. CASE RearmDone(t)
    BY <1>5, <1>6, <1>7, <1>13 DEF RearmDone
  <1>14. CASE RearmRaises(t)
    BY <1>5, <1>6, <1>7, <1>14 DEF RearmRaises
  <1>15. CASE RearmSkip(t)
    BY <1>6, <1>7, <1>15 DEF RearmSkip, Executing
  <1> QED BY <1>8, <1>9, <1>10, <1>11, <1>12, <1>13, <1>14, <1>15 DEF DispatchStep

LEMMA OrderEvent ==
    ASSUME Inv, OrderInv, OfTarget(EventStep)
    PROVE  OrderInv'
  <1> USE DEF OfTarget, queueVars, flagVars, localVars
  <1>1. /\ at \in [Threads -> Labels] /\ rq \in [Threads -> Requests] /\ TypeOK
        /\ Event \in Threads /\ LockInv
    BY DEF Inv, TypeOK, TargetType, Threads
  <1>2. ASSUME NEW l, at' = [at EXCEPT ![Event] = l],
               \A u \in Threads \ {Event} : rq'[u] = rq[u],
               rq'[Event].op = "detach" => rq[Event].op = "detach"
        PROVE  /\ Moving(Event) /\ at'[Event] = l /\ at'[Main] = at[Main]
               /\ Place(Main)' = Place(Main)
    <2>1. /\ \A u \in Threads \ {Event} : at'[u] = at[u] /\ rq'[u] = rq[u]
          /\ at'[Event] = l
      BY <1>1, <1>2
    <2> QED BY <1>1, <1>2, <2>1 DEF Moving, Stays, Threads, OrderInv, Detaching, Place
  <1>3. ASSUME NEW k, NEW l, at[Event] = k, at' = [at EXCEPT ![Event] = l], rq' = rq,
               k \notin {"done", "dead", "send", "recv"},
               l \notin {"stepWait", "whyWait", "send", "recv"}, Handling(l) => Handling(k),
               k \in AtEase => l \in AtEase, KeepTokens, shutdown' = shutdown
        PROVE  OrderInv'
    <2>1. Moving(Event) /\ at'[Event] = l
      BY <1>2, <1>3
    <2>2. Place(Event) = k /\ Place(Event)' = l
      BY <1>3, <2>1 DEF Place
    <2> QED BY <1>1, <1>3, <2>1, <2>2, OrderByEvent
  <1> USE DEF Handling, AtEase, KeepTokens
  <1>4. CASE EventTop
    BY <1>3, <1>4 DEF EventTop, Go
  <1>5. CASE EventAcquire
    BY <1>3, <1>5 DEF EventAcquire, Go
  <1>6. CASE EventIdle
    BY <1>3, <1>6 DEF EventIdle, Go
  <1>7. CASE EventDispatch
    BY <1>3, <1>7 DEF EventDispatch, Go
  <1>8. CASE EventSave
    BY <1>3, <1>8 DEF EventSave, Go
  <1>9. CASE EventResume
    BY <1>3, <1>9 DEF EventResume, Go, Home
  <1>10. CASE EventRelease
    BY <1>3, <1>10 DEF EventRelease, Go
  <1>11. CASE EventUnset
    <2>1. /\ at[Event] = "unset" /\ at' = [at EXCEPT ![Event] = "send"]
          /\ \A u \in Threads \ {Event} : rq'[u] = rq[u]
          /\ rq'[Event].op = "clear" /\ rq'[Event].back = "eventDisp"
          /\ KeepTokens /\ shutdown' = shutdown
      BY <1>1, <1>11 DEF EventUnset, Ask, Go
    <2>2. Moving(Event) /\ at'[Event] = "send"
      BY <1>2, <2>1
    <2>3. Place(Event) = "unset" /\ Place(Event)' = "eventDisp"
      BY <2>1, <2>2 DEF Place
    <2> QED BY <1>1, <2>1, <2>2, <2>3, OrderByEvent
  <1> HIDE DEF Handling, AtEase, KeepTokens
  (* the stop packet is taken *)
  <1>12. ASSUME at[Event] \in {"poll", "whyWait"}, stopQ # <<>>, stopQ' = Tail(stopQ),
                UNCHANGED <<stub, fromStub, toStub>>, shutdown' = shutdown,
                Moving(Event), at'[Main] = at[Main], Place(Main)' = Place(Main),
                at'[Event] \notin {"stepWait", "whyWait"}
         PROVE  OrderInv'
    <2>1. ~Over /\ Place(Event) = at[Event]
      BY <1>12 DEF Over, Place
    <2>2. Calm' /\ OneStop' /\ Asked' = {}
      BY <1>1, <1>12, <2>1, StopTaken DEF OrderInv, Order
    <2>3. CloseInv' /\ Detaching'
      BY <1>12, <2>1, DetachKept DEF OrderInv, CloseInv
    <2>4. Place(Main) \notin Executing
      BY <1>12, <2>1 DEF OrderInv, Order, MainCalm, Calm, Queued, AtEase
    <2>5. EventCalm' /\ MainCalm' /\ WhyHalted' /\ StepHalted'
      BY <1>12, <2>2, <2>4 DEF EventCalm, MainCalm, WhyHalted, StepHalted, Calm, Moves
    <2> QED BY <2>2, <2>3, <2>5 DEF OrderInv, Order
  <1>13. CASE EventPoll
    <2>1. Moving(Event) /\ at'[Event] \in {"why", "resume"} /\ at'[Main] = at[Main]
          /\ Place(Main)' = Place(Main)
      BY <1>2, <1>13 DEF EventPoll, Go
    <2> QED BY <1>12, <1>13, <2>1 DEF EventPoll
  <1>14. CASE EventWhy
    <2>1. Moving(Event) /\ at'[Event] \in {"send", "resume"} /\ at'[Main] = at[Main]
          /\ Place(Main)' = Place(Main)
      <3>1. \E l \in {"send", "resume"} : at' = [at EXCEPT ![Event] = l]
        BY <1>14 DEF EventWhy, Ask, Go
      <3>2. /\ \A u \in Threads \ {Event} : rq'[u] = rq[u]
            /\ rq'[Event].op = "detach" => rq[Event].op = "detach"
        BY <1>1, <1>14 DEF EventWhy, Ask
      <3> QED BY <1>2, <3>1, <3>2
    <2> QED BY <1>12, <1>14, <2>1 DEF EventWhy
  <1>15. CASE EventAskWhy
    <2> DEFINE m == Packet("why", NoAddr, Event)
    <2>1. /\ at[Event] = "why" /\ at' = [at EXCEPT ![Event] = "whyWait"] /\ rq' = rq
          /\ toStub' = Append(toStub, m)
          /\ stub' = stub /\ fromStub' = fromStub /\ stopQ' = stopQ /\ shutdown' = shutdown
      BY <1>15 DEF EventAskWhy, Go
    <2>2. m \in Stirring /\ m.op = "why"
      BY <1>1 DEF Packet, Packets, Stirring, Ops
    <2>3. Moving(Event) /\ at'[Event] = "whyWait" /\ at'[Main] = at[Main]
          /\ Place(Main)' = Place(Main)
      BY <1>2, <2>1
    <2>4. ~Over /\ Place(Event) = "why" /\ Place(Event)' = "whyWait"
      BY <2>1, <2>3 DEF Over, Place
    <2>5. Calm
      BY <2>4 DEF OrderInv, Order, EventCalm, AtEase
    <2>6. Place(Main) \notin Executing /\ at'[Main] # "stepWait"
      <3>1. at[Event] \notin AtEase
        BY <2>1 DEF AtEase
      <3> QED BY <1>1, <2>3, <2>4, <3>1, EventLockSeparates, PlaceOf
              DEF OrderInv, Order, MainCalm, MainHeld
    <2>7. CloseInv' /\ Place(Main)' \notin Executing /\ ~Handling(Place(Event)')
      BY <2>1, <2>3, <2>4, <2>6 DEF OrderInv, CloseInv, Handling
    <2> HIDE DEF m
    <2> QED BY <1>1, <2>1, <2>2, <2>3, <2>4, <2>5, <2>6, <2>7, OrderStirs
  <1> QED BY <1>4, <1>5, <1>6, <1>7, <1>8, <1>9, <1>10, <1>11, <1>13, <1>14, <1>15 DEF EventStep

LEMMA OrderMain ==
    ASSUME Inv, OrderInv, OfTarget(MainStep)
    PROVE  OrderInv'
  <1> USE DEF OfTarget, queueVars, flagVars, localVars
  <1>1. /\ at \in [Threads -> Labels] /\ rq \in [Threads -> Requests] /\ TypeOK
        /\ Main \in Threads /\ Event \in Threads
    BY DEF Inv, TypeOK, TargetType, Threads
  <1>2. KeepTokens /\ shutdown' = shutdown
    BY DEF MainStep, StepLock, CloseStop, CloseDetach, CloseTimeout, KeepTokens
  <1>3. Stays(Event)
    BY <1>1 DEF MainStep, StepLock, CloseStop, CloseDetach, CloseTimeout, Go, Ask, Stays
  <1>4. CASE StepLock(Main)
    <2>1. at[Main] = "stepLock" /\ at'[Main] = "stepSend" /\ rq' = rq
      BY <1>1, <1>4 DEF StepLock, Go
    <2>2. Moving(Main) /\ Place(Main) \in Executing /\ Place(Main)' \in Executing
      BY <1>3, <2>1 DEF Moving, OrderInv, Detaching, Place, Executing
    <2> QED BY <1>1, <1>2, <2>2, OrderGoesOn
  <1>5. ASSUME Moving(Main), CloseInv', at'[Main] \notin {"stepWait", "whyWait"},
               Place(Main)' \notin Executing
        PROVE  OrderInv'
    BY <1>1, <1>2, <1>5, OrderByMain
  <1>6. CASE CloseStop
    <2>1. at[Main] = "closeJoin" /\ at'[Main] = "stop" /\ rq' = rq /\ at[Event] \in {"done", "dead"}
      BY <1>1, <1>6 DEF CloseStop, Go
    <2>2. Moving(Main) /\ CloseInv'
      BY <1>2, <1>3, <2>1 DEF Moving, OrderInv, Detaching, CloseInv, Place, Closing, Over, Stays
    <2> QED BY <1>5, <2>1, <2>2 DEF Place, Executing
  <1>7. CASE CloseDetach
    <2>1. /\ at[Main] = "detach" /\ at'[Main] = "send" /\ rq'[Main].back = "closed"
          /\ \A u \in Threads \ {Main} : rq'[u] = rq[u]
      BY <1>1, <1>7 DEF CloseDetach, Ask, Go
    <2>2. shutdown /\ Over
      BY <2>1 DEF OrderInv, CloseInv, Place
    <2>3. Moving(Main) /\ CloseInv'
      BY <1>2, <1>3, <2>1, <2>2 DEF Moving, OrderInv, Detaching, CloseInv, Place, Closing, Over, Stays
    <2> QED BY <1>5, <2>1, <2>3 DEF Place, Executing
  <1>8. CASE CloseTimeout
    <2>1. /\ rq[Main].op = "detach" /\ at'[Main] = "closed" /\ rq'[Main] = NoRequest
          /\ \A u \in Threads \ {Main} : rq'[u] = rq[u]
      BY <1>1, <1>8 DEF CloseTimeout, Go
    <2>2. shutdown /\ Over
      BY <1>1, <2>1 DEF OrderInv, Detaching, Over
    <2>3. Moving(Main) /\ CloseInv'
      BY <1>2, <1>3, <2>1, <2>2 DEF Moving, OrderInv, Detaching, CloseInv, Place, Closing, Over, Stays
    <2> QED BY <1>5, <2>1, <2>3 DEF Place, Executing
  <1> QED BY <1>4, <1>6, <1>7, <1>8 DEF MainStep

LEMMA OrderEndCallback ==
    ASSUME Inv, OrderInv, NEW c \in Cbs, OfHooks(EndCallback(c))
    PROVE  OrderInv'
  <1>1. at \in [Threads -> Labels] /\ TypeOK /\ c \in Threads
    BY DEF Inv, TypeOK, TargetType, Threads
  <1>2. KeepTokens /\ shutdown' = shutdown /\ rq' = rq /\ at' = [at EXCEPT ![c] = "end"]
    BY DEF OfHooks, EndCallback, Unmoved, Go, KeepTokens, queueVars, flagVars, localVars
  <1>3. \A u \in Dispatchers : at'[u] = at[u] /\ Place(u)' = Place(u)
    BY <1>1, <1>2 DEF Threads, Place
  <1>4. Moving(c) /\ Lingers
    BY <1>2, <1>3 DEF Moving, Stays, Lingers, OrderInv, Detaching
  <1> QED BY <1>1, <1>2, <1>3, <1>4, OrderByOther

LEMMA OrderInit == Init => OrderInv
  <1> SUFFICES ASSUME Init PROVE OrderInv
    OBVIOUS
  <1>1. /\ at[Main] = "user" /\ at[Event] = "loop" /\ ~shutdown
        /\ toStub = <<>> /\ fromStub = <<>> /\ stub.run = "stopped"
        /\ \A t \in Threads : rq[t].op = "none"
    BY UsersAssumption DEF Init, StubInit, Threads, NoRequest
  <1>2. DOMAIN <<>> = {}
    OBVIOUS
  <1>3. Asked = {} /\ Told = {} /\ Len(stopQ) <= 1
    <2>1. Asked = {} /\ Told = {}
      BY <1>1, <1>2 DEF Asked, Told, Marked
    <2>2. stopQ = <<>> \/ stopQ = <<"SIGINT">>
      BY DEF Init
    <2>3. Len(<<>>) <= 1 /\ Len(<<"SIGINT">>) <= 1
      OBVIOUS
    <2> QED BY <2>1, <2>2, <2>3
  <1>4. OneStop
    BY <1>1, <1>3 DEF OneStop, Single, Moves
  <1>5. CloseInv /\ Detaching
    BY <1>1, <1>2 DEF CloseInv, Detaching, Place
  <1>6. EventCalm /\ MainCalm /\ WhyHalted /\ StepHalted
    BY <1>1 DEF EventCalm, MainCalm, WhyHalted, StepHalted, Place, AtEase, Executing
  <1> QED BY <1>4, <1>5, <1>6 DEF OrderInv, Order

LEMMA OrderNext ==
    ASSUME Orderly
    PROVE  Inv /\ OrderInv /\ [Next]_vars => OrderInv'
  <1> SUFFICES ASSUME Inv, OrderInv, [Next]_vars PROVE OrderInv'
    OBVIOUS
  <1>1. TypeOK
    BY DEF Inv
  <1>2. CASE OfStub(StubNext)
    <2>1. /\ at' = at /\ rq' = rq /\ shutdown' = shutdown
          /\ \A u \in Threads : Place(u)' = Place(u)
      BY <1>2 DEF OfStub, targetVars, localVars, flagVars, Place
    <2>2. CloseInv' /\ (Over' <=> Over)
      BY <2>1 DEF OrderInv, CloseInv, Over, Threads
    <2>3. CASE Over
      BY <2>1, <2>2, <2>3 DEF OrderInv, Detaching
    <2>4. CASE ~Over
      <3>1. /\ OneStop' /\ (Calm => Calm') /\ Detaching' /\ WhyHalted' /\ StepHalted'
        BY <1>1, <1>2, <2>4, StubOrder DEF OrderInv, Order
      <3>2. EventCalm' /\ MainCalm'
        BY <2>1, <2>4, <3>1 DEF OrderInv, Order, EventCalm, MainCalm, Threads
      <3> QED BY <2>2, <3>1, <3>2 DEF OrderInv, Order
    <2> QED BY <2>3, <2>4
  <1>3. CASE OfTarget(Reader)
    <2>1. /\ at' = at /\ rq' = rq /\ shutdown' = shutdown /\ toStub' = toStub /\ stub' = stub
          /\ \A u \in Threads : Place(u)' = Place(u)
      BY <1>3 DEF OfTarget, Reader, localVars, flagVars, Place
    <2>2. CloseInv' /\ (Over' <=> Over) /\ Detaching'
      BY <2>1 DEF OrderInv, CloseInv, Over, Threads, Detaching
    <2>3. ~Over => OneStop' /\ (Calm => Calm') /\ Asked' = Asked
      BY <1>1, <1>3, ReaderOrder DEF OrderInv, Order
    <2>4. ~Over => EventCalm' /\ MainCalm' /\ WhyHalted' /\ StepHalted'
      BY <2>1, <2>3 DEF OrderInv, Order, EventCalm, MainCalm, Threads, WhyHalted, StepHalted, Moves
    <2> QED BY <2>2, <2>3, <2>4 DEF OrderInv, Order
  <1>4. CASE \E t \in Callers : Call(t)
    BY <1>4, OrderCall DEF Orderly
  <1>5. ASSUME NEW t \in Threads, ThreadStep(t)
        PROVE  OrderInv'
    BY <1>5, OrderSend, OrderReceive, OrderCaller, OrderExec, OrderDispatch, OrderEvent,
       OrderMain, OrderEndCallback DEF ThreadStep, Orderly
  <1>6. CASE UNCHANGED vars
    <2>1. /\ at' = at /\ rq' = rq /\ shutdown' = shutdown /\ toStub' = toStub /\ stub' = stub
          /\ fromStub' = fromStub /\ stopQ' = stopQ
      BY <1>6 DEF vars, stubVars, targetVars, queueVars, flagVars, localVars
    <2>2. KeepTokens /\ Moving(Main) /\ Lingers
      BY <2>1 DEF KeepTokens, Moving, Stays, Lingers, OrderInv, Detaching
    <2> QED BY <1>1, <2>1, <2>2, OrderByOther DEF Place
  <1> QED BY <1>2, <1>3, <1>4, <1>5, <1>6 DEF Next

(* One stop at a time: the order holds in every state. *)
LEMMA OrderInvariant ==
    ASSUME Orderly
    PROVE  Spec => [](Inv /\ OrderInv)
  BY InvInit, InvNext, OrderInit, OrderNext, PTL DEF Spec

----------------------------------------------------------------------------
(* The guest is halted while a stop is handled and while callbacks run. *)

(* For programs whose main is careful, and on a line where nothing is      *)
(* later than a timeout, the guest does not run while the event thread     *)
(* handles a stop.                                                         *)
THEOREM StopsHandledWhileHalted ==
    ASSUME Orderly
    PROVE  Spec => []HandledWhileHalted
  <1>1. Inv /\ OrderInv => HandledWhileHalted
    <2> SUFFICES ASSUME Inv, OrderInv, EventHandling
                 PROVE  stub.run # "running"
      BY DEF HandledWhileHalted
    <2>1. Place(Event) \notin AtEase \cup {"after", "stepWait"}
      BY DEF EventHandling, AtEase
    <2>2. ~Over
      BY <2>1, PlaceOf DEF Over, AtEase
    <2>3. CASE Place(Event) # "whyWait"
      BY <2>1, <2>2, <2>3 DEF OrderInv, Order, EventCalm, Calm, Moves
    <2>4. CASE Place(Event) = "whyWait"
      <3>1. rq[Event].back \in Returns
        BY DEF Inv, TypeOK, TargetType, Requests, Threads
      <3>2. at[Event] = "whyWait"
        BY <2>4, <3>1 DEF Place, Returns
      <3> QED BY <2>2, <3>2 DEF OrderInv, Order, WhyHalted, Moves
    <2> QED BY <2>3, <2>4
  <1> QED BY <1>1, OrderInvariant, PTL

(* While a callback is live the guest is halted. *)
LEMMA CallbackIsCalm ==
    ASSUME Inv, OrderInv, NEW c \in Cbs, Live(c)
    PROVE  ~Over /\ Calm
  <1>1. at[Boss(c)] = "join" /\ Place(Boss(c)) = "join" /\ Boss(c) \in Dispatchers
    BY JoinsInsideLock DEF Inv, Place, Boss
  <1>2. ~Over
    BY <1>1 DEF OrderInv, CloseInv, Closing, Over
  <1> QED BY <1>1, <1>2 DEF OrderInv, Order, EventCalm, MainCalm, AtEase, Executing

(* So it is when a dispatcher starts one, and then none is live. *)
LEMMA StarterIsCalm ==
    ASSUME Inv, OrderInv, NEW t \in Dispatchers, at[t] = "callbacks"
    PROVE  Calm /\ \A c \in Cbs : ~Live(c)
  <1>1. Place(t) = "callbacks"
    BY DEF Place
  <1>2. ~Over
    BY <1>1 DEF OrderInv, CloseInv, Closing, Over
  <1>3. Calm
    BY <1>1, <1>2 DEF OrderInv, Order, EventCalm, MainCalm, AtEase, Executing
  <1>4. InEventLock(t) /\ t \in Threads
    BY <1>1 DEF InEventLock, MainHeld, EventFree, Threads
  <1>5. ASSUME NEW c \in Cbs, Live(c) PROVE FALSE
    <2>1. at[Boss(c)] = "join" /\ eventLock = Boss(c)
      BY <1>5, JoinsInsideLock DEF Inv
    <2> QED BY <1>4, <2>1 DEF Inv, LockInv, EventLockHeld
  <1> QED BY <1>3, <1>5

Visits == {Boss(c) : c \in {d \in Cbs : at[d] \notin {"off", "end"}}}
GuestStep ==
    Guest!Next \/ (UNCHANGED Visits /\ (Moves' <=> Moves))

LEMMA GuestStub ==
    ASSUME Inv, OrderInv, OfStub(StubNext)
    PROVE  GuestStep
  <1>1. at' = at /\ Visits' = Visits
    BY DEF OfStub, targetVars, Visits
  <1>2. CASE Moves
    BY <1>1, <1>2 DEF GuestStep, Guest!Next, Guest!Halt, Moves, Visits
  <1>3. CASE ~Moves /\ Visits = {}
    BY <1>1, <1>3 DEF GuestStep, Guest!Next, Guest!Resume, Moves, Visits
  <1>4. CASE ~Moves /\ Visits # {}
    <2>1. PICK c \in Cbs : Live(c)
      BY <1>4 DEF Visits, Live
    <2>2. ~Over /\ Calm
      BY <2>1, CallbackIsCalm
    <2>3. Calm'
      BY <2>2, StubOrder DEF Inv, OrderInv, Order
    <2> QED BY <1>1, <1>4, <2>3 DEF GuestStep, Calm
  <1> QED BY <1>2, <1>3, <1>4

(* A callback's thread moves, and perhaps ends. *)
LEMMA GuestCallback ==
    ASSUME Inv, NEW c \in Cbs, at[c] \notin {"off", "end"}, at'[c] # "off",
           \A d \in Cbs \ {c} : at'[d] = at[d], stub' = stub
    PROVE  GuestStep
  <1>1. \A d \in Cbs : d # c => at[d] = "off"
    <2>1. \A d \in Cbs : Live(d) => d = c
      BY JoinsInsideLock DEF Inv, Live, Boss
    <2> QED BY <2>1 DEF Live
  <1>2. Visits = {Boss(c)}
    BY <1>1 DEF Visits
  <1>3. CASE at'[c] # "end"
    <2>1. Visits' = {Boss(c)}
      BY <1>1, <1>3 DEF Visits
    <2> QED BY <1>2, <2>1 DEF GuestStep, Moves
  <1>4. CASE at'[c] = "end"
    <2>1. Visits' = {}
      BY <1>1, <1>4 DEF Visits
    <2>2. Boss(c) \in Dispatchers /\ (Moves' <=> Moves)
      BY DEF Boss, Moves
    <2> QED BY <1>2, <2>1, <2>2 DEF GuestStep, Guest!Next, Guest!Leave, Visits, Moves
  <1> QED BY <1>3, <1>4

(* No callback's thread moves. *)
LEMMA GuestOther ==
    ASSUME \A c \in Cbs : at'[c] = at[c], stub' = stub
    PROVE  GuestStep
  BY DEF GuestStep, Visits, Moves

LEMMA GuestNext ==
    ASSUME Inv, OrderInv, [Next]_vars
    PROVE  GuestStep
  <1>1. at \in [Threads -> Labels] /\ rq \in [Threads -> Requests] /\ TypeOK
    BY DEF Inv, TypeOK, TargetType
  <1>2. CASE OfStub(StubNext)
    BY <1>2, GuestStub
  <1>3. CASE OfTarget(Reader)
    BY <1>3, GuestOther DEF OfTarget, Reader
  <1>4. ASSUME NEW t \in Threads, stub' = stub, \A u \in Threads \ {t} : at'[u] = at[u],
               t \in Cbs => at[t] \notin {"off", "end"} /\ at'[t] # "off"
        PROVE  GuestStep
    <2>1. CASE t \in Cbs
      BY <1>4, <2>1, GuestCallback DEF Threads
    <2>2. CASE t \notin Cbs
      BY <1>4, <2>2, GuestOther DEF Threads
    <2> QED BY <2>1, <2>2
  <1>5. ASSUME NEW t, t \in Cbs
        PROVE  Home(t) = "cb" /\ Raised(t) = "end"
    BY <1>5 DEF Home, Raised
  <1>6. ASSUME NEW t \in Callers, Call(t)
        PROVE  GuestStep
    <2>1. /\ stub' = stub /\ t \in Threads /\ at[t] = Home(t)
          /\ MakesRequest(t) \/ Jumps(t)
      BY <1>1, <1>6, CallShape DEF Call, OfTarget, OfHooks, CallRead, CallRun, CallStep,
         CallStop, CallClose, CallAdd, CallRemove, CallRemoveGone, CanCall, Callers, Threads
    <2>2. /\ \A u \in Threads \ {t} : at'[u] = at[u]
          /\ t \in Cbs => at'[t] # "off"
      <3>1. CASE MakesRequest(t)
        BY <1>1, <2>1, <3>1 DEF MakesRequest, Ask, Go
      <3>2. CASE Jumps(t)
        BY <1>1, <1>5, <2>1, <3>2 DEF Jumps, Go
      <3> QED BY <2>1, <3>1, <3>2
    <2> QED BY <1>4, <1>5, <2>1, <2>2
  <1>7. ASSUME NEW t \in Threads, ThreadStep(t)
        PROVE  GuestStep
    <2>1. CASE OfTarget(Send(t))
      BY <1>1, <1>4, <2>1 DEF OfTarget, Send, Go
    <2>2. CASE OfTarget(Receive(t))
      <3>1. /\ stub' = stub /\ at[t] = "recv"
            /\ \E l \in {rq[t].back, Raised(t)} : at' = [at EXCEPT ![t] = l]
        BY <2>2 DEF OfTarget, Receive, Go
      <3>2. rq[t].back # "off"
        BY <1>1 DEF Requests, Returns
      <3> QED BY <1>1, <1>4, <1>5, <3>1, <3>2
    <2>3. CASE t \in Callers /\ OfTarget(CallerStep(t))
      <3>1. /\ stub' = stub /\ \A u \in Threads \ {t} : at'[u] = at[u]
            /\ at[t] \in {"stop", "stopLock", "stopSend", "unsetPc", "unsetCmp"}
            /\ at'[t] \in {Home(t), "stopLock", "stopSend", "send"}
        BY <1>1, <2>3 DEF OfTarget, CallerStep, StopCheck, StopLock, StopSend, UnsetReadPc,
           UnsetCompare, Ask, Go
      <3> QED BY <1>4, <1>5, <3>1
    <2>4. ASSUME NEW d \in Dispatchers, stub' = stub, \E l : Go(d, l)
          PROVE  GuestStep
      BY <1>1, <2>4, GuestOther DEF Go, Threads
    <2>5. CASE t \in Dispatchers /\ OfTarget(ExecStep(t))
      BY <2>4, <2>5 DEF OfTarget, ExecStep, Continue, ContinueLock, ContinueSend, StepGuard, StepSend,
         StepWait, StepTimeout, StepDispatch, StepSaved, StepClear, StepEnd, Ask
    <2>6. CASE t \in Dispatchers /\ OfHooks(DispatchStep(t))
      <3>1. CASE StartCallback(t)
        <4>1. /\ at[t] = "callbacks" /\ at' = [at EXCEPT ![t] = "join", ![Cb(t)] = "cb"]
              /\ stub' = stub
          BY <2>6, <3>1 DEF OfHooks, StartCallback
        <4>2. Calm /\ \A c \in Cbs : at[c] = "off"
          BY <2>6, <4>1, StarterIsCalm DEF Live
        <4>3. Visits = {}
          BY <4>2 DEF Visits
        <4>4. Cb(t) \in Cbs /\ t \notin Cbs /\ Boss(Cb(t)) = t
          BY <2>6 DEF Cb, Boss
        <4>5. at'[Cb(t)] = "cb" /\ \A c \in Cbs \ {Cb(t)} : at'[c] = "off"
          BY <1>1, <4>1, <4>2, <4>4 DEF Threads
        <4>6. Visits' = {t}
          BY <4>4, <4>5 DEF Visits
        <4> QED BY <2>6, <4>1, <4>2, <4>3, <4>6
                DEF GuestStep, Guest!Next, Guest!Enter, Visits, Calm, Moves
      <3>2. CASE JoinCallback(t)
        <4>1. /\ at[Cb(t)] = "end" /\ at' = [at EXCEPT ![t] = "callbacks", ![Cb(t)] = "off"]
              /\ stub' = stub
          BY <2>6, <3>2 DEF OfHooks, JoinCallback
        <4>2. \A c \in Cbs : at'[c] \notin {"off", "end"} <=> at[c] \notin {"off", "end"}
          BY <1>1, <2>6, <4>1 DEF Threads, Cb
        <4>3. Visits' = Visits
          BY <4>2 DEF Visits
        <4> QED BY <4>1, <4>3 DEF GuestStep, Moves
      <3> QED
        BY <2>4, <2>6, <3>1, <3>2 DEF OfHooks, DispatchStep, Dispatch, CallbacksDone, Rearm,
           RearmSkip, RearmDone, RearmRaises, Ask
    <2>7. CASE t = Event /\ OfTarget(EventStep)
      BY <2>4, <2>7 DEF OfTarget, EventStep, EventTop, EventAcquire, EventIdle, EventPoll,
         EventAskWhy, EventWhy, EventUnset, EventDispatch, EventSave, EventResume, EventRelease, Ask
    <2>8. CASE t = Main /\ OfTarget(MainStep)
      BY <2>4, <2>8 DEF OfTarget, MainStep, StepLock, CloseStop, CloseDetach, CloseTimeout, Ask
    <2>9. CASE t \in Cbs /\ OfHooks(EndCallback(t))
      BY <1>1, <1>4, <2>9 DEF OfHooks, EndCallback, Go
    <2> QED BY <1>7, <2>1, <2>2, <2>3, <2>5, <2>6, <2>7, <2>8, <2>9 DEF ThreadStep
  <1>8. CASE UNCHANGED vars
    BY <1>8, GuestOther DEF vars, stubVars, targetVars
  <1> QED BY <1>2, <1>3, <1>6, <1>7, <1>8 DEF Next

(* For such programs Monk keeps its promise to the authors of callbacks:   *)
(* the guest is halted from the start of a callback to its end, one        *)
(* dispatcher's callback runs at a time, and the guest resumes only when   *)
(* none runs.                                                              *)
THEOREM GuestIsHeld ==
    ASSUME Orderly
    PROVE  Spec => GuestSpec
  <1>1. Init => Guest!Init
    <2> SUFFICES ASSUME Init PROVE Guest!Init
      OBVIOUS
    <2>1. stub.run = "stopped" /\ \A c \in Cbs : at[c] = "off"
      BY DEF Init, StubInit, Threads
    <2> QED BY <2>1 DEF Guest!Init
  <1>2. Inv /\ OrderInv /\ [Next]_vars
          => [Guest!Next]_<<stub.run # "stopped",
                            {Boss(c) : c \in {d \in Cbs : at[d] \notin {"off", "end"}}}>>
    BY GuestNext DEF GuestStep, Visits, Moves
  <1> QED BY <1>1, <1>2, OrderInvariant, PTL DEF Spec, GuestSpec, Guest!Spec

----------------------------------------------------------------------------
(* Programs that stop the guest from callbacks only, if at all, where      *)
(* cmd_stop sends nothing, and do not close the target                     *)

NobodyStops == \A t \in {Main} \cup Users : MayCall[t] \cap {"stop", "close"} = {}
Disciplined == Orderly /\ NobodyStops

NoCtrlC ==
    /\ ~shutdown
    /\ \A t \in Threads : at[t] \notin {"stopLock", "stopSend", "closeJoin"}
                          /\ (at[t] = "stop" => t \in Cbs)
    /\ \A i \in DOMAIN toStub : toStub[i].op # "ctrlC"

(* target_is_stopped tells what the guest does, but for a stop packet that *)
(* is on its way. *)
Going == stub.run = "running" \/ \E i \in Asked : toStub[i].op = "cont"
Stepping == stub.run = "stepping" \/ \E i \in Asked : toStub[i].op = "step"
StatusInv ==
    /\ Calm => stopped
    /\ Going => ~stopped
    /\ \A t \in Dispatchers : at[t] \in {"stepWait", "whyWait"} => stopped
    /\ Stepping => \E t \in Dispatchers : at[t] = "stepWait"
    /\ at[Main] # "whyWait"

(* One request for data, or its reply, is on its way, and its thread waits.*)
Requesting == {m \in Packets(Threads) : m.op \in DataOps}
AskedData == Marked(toStub, Requesting)
ToldData == Marked(fromStub, DataReplies(Threads))
FitsAsk(m) ==
    at[m.by] = "recv" /\ rq[m.by].op = m.op /\ rq[m.by].addr = m.addr
Fits(r) ==
    /\ r.to \in Threads /\ at[r.to] = "recv"
    /\ rq[r.to].op = "pc" => r.body \in Addr
    /\ rq[r.to].op = "set" => r.body = IF rq[r.to].addr \in Refused THEN "E" ELSE "OK"
ReplyInv ==
    /\ Single(AskedData) /\ Single(ToldData) /\ Len(readQ) <= 1
    /\ AskedData # {} => ToldData = {} /\ readQ = <<>>
    /\ ToldData # {} => readQ = <<>>
    /\ \A i \in AskedData : FitsAsk(toStub[i])
    /\ \A i \in ToldData : Fits(fromStub[i])
    /\ \A i \in DOMAIN readQ : Fits(readQ[i])

DisciplineInv == NoCtrlC /\ StatusInv /\ ReplyInv

LEMMA NotOver ==
    ASSUME OrderInv, NoCtrlC
    PROVE  Order /\ ~shutdown /\ ~Over /\ \A t \in Threads : rq[t].op # "detach"
  BY DEF OrderInv, NoCtrlC, Over, Detaching

(* A step that sends, takes and learns nothing: no thread that waits for   *)
(* the stub moves, and none begins to.                                     *)
Waits == {"stepWait", "whyWait"}
Ending == {"stopLock", "stopSend", "closeJoin"}
Light ==
    /\ UNCHANGED <<stub, toStub, fromStub, stopQ, readQ, stopped, shutdown>>
    /\ \A u \in Threads : at[u] \in {"recv", "stepWait"} => Stays(u)
    /\ \A u \in Threads :
          at'[u] # at[u] =>
             at'[u] \notin Waits \cup Ending /\ (at'[u] = "stop" => u \in Cbs)

LEMMA ReplyKept ==
    ASSUME ReplyInv, \A u \in Threads : at[u] = "recv" => Stays(u), readQ' = readQ,
           ToldData' = ToldData, AskedData' = AskedData,
           \A i \in AskedData : toStub'[i] = toStub[i] /\ toStub[i].by \in Threads,
           \A i \in ToldData : fromStub'[i] = fromStub[i]
    PROVE  ReplyInv'
  <1>1. \A i \in AskedData' : FitsAsk(toStub[i])'
    BY DEF ReplyInv, FitsAsk, Stays
  <1>2. \A i \in ToldData' : Fits(fromStub[i])'
    BY DEF ReplyInv, Fits, Stays
  <1>3. \A i \in DOMAIN readQ' : Fits(readQ[i])'
    BY DEF ReplyInv, Fits, Stays
  <1> QED BY <1>1, <1>2, <1>3 DEF ReplyInv

LEMMA AskedBy ==
    ASSUME TypeOK
    PROVE  \A i \in AskedData : toStub[i] \in Packets(Threads) /\ toStub[i].by \in Threads
  BY DEF AskedData, Marked, Requesting, Packets

LEMMA LightStep ==
    ASSUME TypeOK, DisciplineInv, Light
    PROVE  DisciplineInv'
  <1>1. KeepTokens
    BY DEF Light, KeepTokens
  <1>2. NoCtrlC'
    BY DEF DisciplineInv, NoCtrlC, Light, Ending
  <1>3. StatusInv'
    <2>1. (Calm' <=> Calm) /\ (Going' <=> Going) /\ (Stepping' <=> Stepping)
      BY <1>1, Kept DEF Going, Stepping, Light
    <2>2. \A t \in Dispatchers : /\ at'[t] \in {"stepWait", "whyWait"} => at'[t] = at[t]
                                 /\ at[t] = "stepWait" => at'[t] = at[t]
      BY DEF Light, Waits, Threads, Stays
    <2> QED BY <2>1, <2>2 DEF DisciplineInv, StatusInv, Light
  <1>4. ReplyInv'
    <2>1. ToldData' = ToldData /\ AskedData' = AskedData
      BY DEF Light, ToldData, AskedData
    <2> QED BY <2>1, ReplyKept, AskedBy DEF DisciplineInv, Light
  <1> QED BY <1>2, <1>3, <1>4 DEF DisciplineInv

(* Most steps are light. *)
LEMMA HomeIsPlain ==
    ASSUME NEW t
    PROVE  /\ Home(t) \notin Waits \cup Ending \cup {"stop", "send", "recv"}
           /\ Raised(t) \notin Waits \cup Ending \cup {"stop", "send", "recv"}
  BY DEF Home, Raised, Waits, Ending

LEMMA LightBy ==
    ASSUME TypeOK, NEW t \in Threads, at[t] \notin {"recv", "stepWait"},
           UNCHANGED <<stub, toStub, fromStub, stopQ, readQ, stopped, shutdown>>,
           \A u \in Threads \ {t} : at'[u] = at[u] /\ rq'[u] = rq[u],
           at'[t] \notin Waits \cup Ending, at'[t] = "stop" => t \in Cbs
    PROVE  Light
  BY DEF Light, Stays

LEMMA LightCall ==
    ASSUME Inv, NobodyStops, NEW t \in Callers, Call(t)
    PROVE  Light
  <1>1. /\ at \in [Threads -> Labels] /\ rq \in [Threads -> Requests] /\ TypeOK
        /\ t \in Threads
    BY DEF Inv, TypeOK, TargetType, Threads, Callers
  <1>2. at[t] = Home(t) /\ (MakesRequest(t) \/ Jumps(t))
    BY <1>1, CallShape DEF Call, OfTarget, OfHooks, CallRead, CallRun, CallStep,
       CallStop, CallClose, CallAdd, CallRemove, CallRemoveGone, CanCall
  <1>3. UNCHANGED <<stub, toStub, fromStub, stopQ, readQ, stopped>>
    BY DEF Call, OfTarget, OfHooks, CallRead, CallRun, CallStep, CallStop, CallClose, CallAdd,
       CallRemove, CallRemoveGone, Unmoved, queueVars, flagVars
  <1>4. CASE MakesRequest(t)
    BY <1>1, <1>2, <1>3, <1>4, HomeIsPlain, LightBy DEF MakesRequest, Ask, Go, Waits, Ending
  <1>5. CASE Jumps(t)
    <2>1. ASSUME NEW name \in {"stop", "close"}, CanCall(t, name)
          PROVE  t \in Cbs
      BY <2>1 DEF NobodyStops, CanCall, Callers
    <2>2. PICK l : Go(t, l) /\ l \notin Waits \cup Ending /\ (l = "stop" => t \in Cbs)
                   /\ shutdown' = shutdown
      BY <1>5, <2>1, HomeIsPlain DEF Jumps, Waits, Ending
    <2>3. at'[t] = l /\ rq' = rq /\ \A u \in Threads \ {t} : at'[u] = at[u]
      BY <1>1, <1>5, <2>2 DEF Jumps, Go
    <2> QED BY <1>1, <1>2, <1>3, <2>2, <2>3, HomeIsPlain, LightBy DEF Waits
  <1> QED BY <1>2, <1>4, <1>5

LEMMA LightCaller ==
    ASSUME Inv, OrderInv, DisciplineInv, NEW t \in Callers, OfTarget(CallerStep(t))
    PROVE  Light
  <1>1. /\ at \in [Threads -> Labels] /\ rq \in [Threads -> Requests] /\ TypeOK
        /\ t \in Threads
    BY DEF Inv, TypeOK, TargetType, Threads, Callers
  <1> USE DEF OfTarget, queueVars, flagVars, localVars
  <1>2. CASE StopCheck(t)
    <2>1. at[t] = "stop" /\ t \in Cbs
      BY <1>1, <1>2 DEF StopCheck, DisciplineInv, NoCtrlC
    <2>2. stopped
      BY <2>1, CallbackIsCalm DEF Live, DisciplineInv, StatusInv
    <2>3. at' = [at EXCEPT ![t] = Home(t)] /\ rq' = rq
      BY <1>2, <2>2 DEF StopCheck, Go
    <2> QED BY <1>1, <1>2, <2>1, <2>3, HomeIsPlain, LightBy DEF StopCheck
  <1>3. CASE StopLock(t) \/ StopSend(t)
    BY <1>1, <1>3 DEF StopLock, StopSend, DisciplineInv, NoCtrlC
  <1>4. CASE UnsetReadPc(t)
    BY <1>1, <1>4, LightBy DEF UnsetReadPc, Ask, Go, Waits, Ending
  <1>5. CASE UnsetCompare(t)
    BY <1>1, <1>5, LightBy, HomeIsPlain DEF UnsetCompare, Go
  <1> QED BY <1>2, <1>3, <1>4, <1>5 DEF CallerStep

LEMMA LightExec ==
    ASSUME Inv, NEW t \in Dispatchers, OfTarget(ExecStep(t)),
           ~ContinueSend(t), ~StepSend(t), ~StepWait(t), ~StepTimeout(t)
    PROVE  Light
  <1>1. /\ at \in [Threads -> Labels] /\ rq \in [Threads -> Requests] /\ TypeOK
        /\ t \in Threads
    BY DEF Inv, TypeOK, TargetType, Threads
  <1> USE DEF OfTarget, queueVars, flagVars, localVars
  <1>2. UNCHANGED <<stub, toStub, fromStub, stopQ, readQ, stopped, shutdown>>
    BY DEF ExecStep, Continue, ContinueLock, StepGuard, StepDispatch, StepSaved, StepClear, StepEnd
  <1>3. /\ at[t] \notin {"recv", "stepWait"}
        /\ \A u \in Threads \ {t} : rq'[u] = rq[u]
    BY <1>1 DEF ExecStep, Continue, ContinueLock, StepGuard, StepDispatch, StepSaved, StepClear,
       StepEnd, Ask
  <1>4. StepReturn(t) \notin Waits \cup Ending \cup {"stop"}
    BY <1>1 DEF StepReturn, TypeOK, TargetType, Waits, Ending
  <1>5. PICK l : Go(t, l) /\ l \notin Waits \cup Ending \cup {"stop"}
    BY <1>4 DEF ExecStep, Continue, ContinueLock, StepGuard, StepDispatch, StepSaved, StepClear,
       StepEnd, Ask, Waits, Ending
  <1>6. at'[t] = l /\ \A u \in Threads \ {t} : at'[u] = at[u]
    BY <1>1, <1>5 DEF Go
  <1> QED BY <1>1, <1>2, <1>3, <1>5, <1>6, LightBy

LEMMA LightDispatch ==
    ASSUME Inv, NEW t \in Dispatchers, OfHooks(DispatchStep(t))
    PROVE  Light
  <1>1. /\ at \in [Threads -> Labels] /\ rq \in [Threads -> Requests] /\ TypeOK
        /\ t \in Threads /\ LockInv
    BY DEF Inv, TypeOK, TargetType, Threads
  <1> USE DEF OfHooks, Unmoved, queueVars, flagVars, localVars
  <1>2. UNCHANGED <<stub, toStub, fromStub, stopQ, readQ, stopped, shutdown>>
    BY DEF DispatchStep, Dispatch, StartCallback, JoinCallback, CallbacksDone, Rearm, RearmSkip,
       RearmDone, RearmRaises
  <1>3. CASE StartCallback(t)
    <2>1. at[Cb(t)] = "off" \/ at[Boss(Cb(t))] = "join"
      BY <1>1 DEF LockInv, DispatcherJoins, Live, Cb
    <2>2. at[t] = "callbacks" /\ at[Cb(t)] = "off"
      BY <1>3, <2>1 DEF StartCallback, Cb, Boss
    <2> QED BY <1>1, <1>2, <1>3, <2>2 DEF StartCallback, Light, Stays, Waits, Ending
  <1>4. CASE JoinCallback(t)
    BY <1>1, <1>2, <1>4 DEF JoinCallback, Light, Stays, Waits, Ending
  <1>5. CASE ~StartCallback(t) /\ ~JoinCallback(t)
    <2>1. /\ at[t] \notin {"recv", "stepWait"}
          /\ \A u \in Threads \ {t} : rq'[u] = rq[u]
      BY <1>1, <1>5 DEF DispatchStep, Dispatch, CallbacksDone, Rearm, RearmSkip, RearmDone,
         RearmRaises, Ask
    <2>2. DispReturn(t) \notin Waits \cup Ending \cup {"stop"}
      BY <1>1 DEF DispReturn, TypeOK, TargetType, Waits, Ending
    <2>3. PICK l : Go(t, l) /\ l \notin Waits \cup Ending \cup {"stop"}
      BY <1>5, <2>2, HomeIsPlain DEF DispatchStep, Dispatch, CallbacksDone, Rearm, RearmSkip,
         RearmDone, RearmRaises, Ask, Waits, Ending
    <2>4. at'[t] = l /\ \A u \in Threads \ {t} : at'[u] = at[u]
      BY <1>1, <2>3 DEF Go
    <2> QED BY <1>1, <1>2, <2>1, <2>3, <2>4, LightBy
  <1> QED BY <1>3, <1>4, <1>5

LEMMA LightEvent ==
    ASSUME Inv, OfTarget(EventStep), ~EventPoll, ~EventAskWhy, ~EventWhy
    PROVE  Light
  <1>1. /\ at \in [Threads -> Labels] /\ rq \in [Threads -> Requests] /\ TypeOK
        /\ Event \in Threads
    BY DEF Inv, TypeOK, TargetType, Threads
  <1> USE DEF OfTarget, queueVars, flagVars, localVars
  <1>2. UNCHANGED <<stub, toStub, fromStub, stopQ, readQ, stopped, shutdown>>
    BY DEF EventStep, EventTop, EventAcquire, EventIdle, EventUnset, EventDispatch, EventSave,
       EventResume, EventRelease
  <1>3. /\ at[Event] \notin {"recv", "stepWait"}
        /\ \A u \in Threads \ {Event} : rq'[u] = rq[u]
    BY <1>1 DEF EventStep, EventTop, EventAcquire, EventIdle, EventUnset, EventDispatch, EventSave,
       EventResume, EventRelease, Ask
  <1>4. PICK l : Go(Event, l) /\ l \notin Waits \cup Ending \cup {"stop"}
    BY HomeIsPlain DEF EventStep, EventTop, EventAcquire, EventIdle, EventUnset, EventDispatch,
       EventSave, EventResume, EventRelease, Ask, Waits, Ending
  <1>5. at'[Event] = l /\ \A u \in Threads \ {Event} : at'[u] = at[u]
    BY <1>1, <1>4 DEF Go
  <1> QED BY <1>1, <1>2, <1>3, <1>4, <1>5, LightBy

LEMMA LightMain ==
    ASSUME Inv, OrderInv, DisciplineInv, OfTarget(MainStep)
    PROVE  Light
  <1>1. /\ at \in [Threads -> Labels] /\ rq \in [Threads -> Requests] /\ TypeOK
        /\ Main \in Threads
    BY DEF Inv, TypeOK, TargetType, Threads
  <1> USE DEF OfTarget, queueVars, flagVars, localVars
  <1>2. CASE StepLock(Main)
    BY <1>1, <1>2, LightBy DEF StepLock, Go, Waits, Ending
  <1>3. CASE CloseStop
    BY <1>1, <1>3 DEF CloseStop, DisciplineInv, NoCtrlC
  <1>4. CASE CloseDetach
    BY <1>4 DEF CloseDetach, Place, OrderInv, CloseInv, DisciplineInv, NoCtrlC
  <1>5. CASE CloseTimeout
    BY <1>1, <1>5, NotOver DEF CloseTimeout, DisciplineInv
  <1> QED BY <1>2, <1>3, <1>4, <1>5 DEF MainStep

LEMMA LightEndCallback ==
    ASSUME Inv, NEW c \in Cbs, OfHooks(EndCallback(c))
    PROVE  Light
  <1>1. /\ at \in [Threads -> Labels] /\ rq \in [Threads -> Requests] /\ TypeOK
        /\ c \in Threads
    BY DEF Inv, TypeOK, TargetType, Threads
  <1> QED BY <1>1, LightBy DEF OfHooks, EndCallback, Unmoved, Go, queueVars, flagVars, localVars,
             Waits, Ending

----------------------------------------------------------------------------
(* The other steps preserve the discipline too. *)

(* While a thread waits for _rsp_lock nothing is asked and nothing told. *)
LEMMA NothingAsked ==
    ASSUME Inv, ReplyInv, rspLock = NoThread
    PROVE  AskedData = {} /\ ToldData = {} /\ readQ = <<>>
  <1>1. \A u \in Threads : at[u] # "recv"
    BY NoThreadIsNone DEF Inv, LockInv, RspLockHeld
  <1>2. AskedData = {}
    BY <1>1, AskedBy DEF ReplyInv, FitsAsk, Inv
  <1>3. ToldData = {}
    BY <1>1 DEF ReplyInv, Fits
  <1>4. \A i \in DOMAIN readQ : FALSE
    BY <1>1 DEF ReplyInv, Fits
  <1>5. readQ \in Seq(DataReplies(Threads))
    BY DEF Inv, TypeOK, TargetType
  <1>6. readQ = <<>>
    <2>1. Len(readQ) \in Nat /\ DOMAIN readQ = 1..Len(readQ)
      BY <1>5, LenProperties
    <2>2. Len(readQ) = 0
      BY <1>4, <2>1
    <2> QED BY <1>5, <2>2, EmptySeq
  <1> QED BY <1>2, <1>3, <1>6

LEMMA DisciplineSend ==
    ASSUME Inv, OrderInv, DisciplineInv, NEW t \in Threads, OfTarget(Send(t))
    PROVE  DisciplineInv'
  <1> DEFINE m == Packet(rq[t].op, rq[t].addr, t)
  <1>1. /\ at[t] = "send" /\ at' = [at EXCEPT ![t] = "recv"] /\ rq' = rq /\ rspLock = NoThread
        /\ toStub' = Append(toStub, m) /\ stub' = stub /\ fromStub' = fromStub
        /\ stopQ' = stopQ /\ readQ' = readQ /\ shutdown' = shutdown /\ stopped' = stopped
    BY DEF OfTarget, Send, Go, queueVars, flagVars, localVars
  <1>2. at \in [Threads -> Labels] /\ rq \in [Threads -> Requests] /\ TypeOK
    BY DEF Inv, TypeOK, TargetType
  <1>3. m \in Requesting /\ m.op \in DataOps /\ m.op # "detach"
        /\ m.by = t /\ m.op = rq[t].op /\ m.addr = rq[t].addr
    <2>1. rq[t].op \in DataOps /\ rq[t].op # "detach" /\ rq[t].addr \in Addrs
      BY <1>2, SendIsData, NotOver DEF OfTarget, DisciplineInv, Requests, Addrs
    <2> QED BY <2>1 DEF Packet, Packets, Requesting, Ops, Addrs
  <1>4. m \in Packets(Threads) \ Stirring
    BY <1>3 DEF Stirring, Requesting, DataOps
  <1>5. KeepTokens
    BY <1>1, <1>3, <1>4 DEF KeepTokens
  <1>6. \A u \in Threads : at'[u] = IF u = t THEN "recv" ELSE at[u]
    BY <1>1, <1>2
  <1> HIDE DEF m
  <1>7. /\ AskedData' = AskedData \cup {Len(toStub) + 1}
        /\ \A i \in DOMAIN toStub : toStub'[i] = toStub[i]
        /\ toStub'[Len(toStub) + 1] = m
        /\ DOMAIN toStub' = DOMAIN toStub \cup {Len(toStub) + 1}
    BY <1>1, <1>2, <1>3, <1>4, QueueTypes, MarkedAppend DEF AskedData
  <1>8. NoCtrlC'
    BY <1>1, <1>3, <1>6, <1>7 DEF DisciplineInv, NoCtrlC, DataOps
  <1>9. StatusInv'
    <2>1. (Calm' <=> Calm) /\ (Going' <=> Going) /\ (Stepping' <=> Stepping)
      BY <1>1, <1>2, <1>5, Kept DEF Going, Stepping
    <2> QED BY <1>1, <1>6, <2>1 DEF DisciplineInv, StatusInv, Threads
  <1>10. ReplyInv'
    <2>1. AskedData = {} /\ ToldData = {} /\ readQ = <<>>
      BY <1>1, NothingAsked DEF DisciplineInv
    <2>2. ToldData' = {} /\ readQ' = <<>> /\ AskedData' = {Len(toStub) + 1} /\ DOMAIN readQ' = {}
          /\ Len(readQ') <= 1
      BY <1>1, <1>7, <2>1 DEF ToldData
    <2>3. at'[m.by] = "recv" /\ rq'[m.by].op = m.op /\ rq'[m.by].addr = m.addr
      BY <1>1, <1>3, <1>6
    <2> QED BY <1>7, <2>2, <2>3 DEF ReplyInv, FitsAsk, Single
  <1> QED BY <1>8, <1>9, <1>10 DEF DisciplineInv

LEMMA DisciplineReceive ==
    ASSUME Inv, OrderInv, DisciplineInv, NEW t \in Threads, OfTarget(Receive(t))
    PROVE  DisciplineInv'
  <1>1. at \in [Threads -> Labels] /\ rq \in [Threads -> Requests] /\ TypeOK
        /\ readQ \in Seq(DataReplies(Threads))
    BY DEF Inv, TypeOK, TargetType
  <1>2. /\ at[t] = "recv" /\ rq' = [rq EXCEPT ![t] = NoRequest]
        /\ \E l \in {rq[t].back, Raised(t)} : at' = [at EXCEPT ![t] = l]
        /\ KeepTokens /\ shutdown' = shutdown /\ stopped' = stopped
        /\ readQ # <<>> /\ readQ' = Tail(readQ) /\ toStub' = toStub /\ stub' = stub
        /\ fromStub' = fromStub
    BY DEF OfTarget, Receive, Go, KeepTokens, flagVars
  <1>3. /\ \A u \in Threads \ {t} : at'[u] = at[u]
        /\ at'[t] \notin {"stepWait", "whyWait", "stopLock", "stopSend", "closeJoin", "stop"}
    <2>1. rq[t].back \in Returns
      BY <1>1 DEF Requests
    <2> QED BY <1>1, <1>2, <2>1, HomeIsPlain DEF Returns, Waits, Ending
  <1>4. NoCtrlC'
    BY <1>2, <1>3 DEF DisciplineInv, NoCtrlC
  <1>5. StatusInv'
    <2>1. (Calm' <=> Calm) /\ (Going' <=> Going) /\ (Stepping' <=> Stepping)
      BY <1>1, <1>2, Kept DEF Going, Stepping
    <2> QED BY <1>2, <1>3, <2>1 DEF DisciplineInv, StatusInv, Threads
  <1>6. ReplyInv'
    <2>1. ToldData = {} /\ AskedData = {} /\ Len(readQ) <= 1
      BY <1>2 DEF DisciplineInv, ReplyInv
    <2>2. readQ' = <<>> /\ Len(readQ') = 0
      BY <1>1, <1>2, <2>1, TailOfOne
    <2>3. ToldData' = {} /\ AskedData' = {} /\ DOMAIN readQ' = {}
      BY <1>2, <2>1, <2>2 DEF ToldData, AskedData
    <2> QED BY <2>2, <2>3 DEF ReplyInv, Single
  <1> QED BY <1>4, <1>5, <1>6 DEF DisciplineInv

(* The stub serves a request for data. *)
LEMMA AnswerFits ==
    ASSUME TypeOK, NEW m \in Packets(Threads), m.op \in DataOps, FitsAsk(m)
    PROVE  Fits(DataReply(Answer(m), m.by))
  <1> DEFINE r == DataReply(Answer(m), m.by)
  <1>1. r.to = m.by /\ r.body = Answer(m) /\ m.by \in Threads
    BY DEF DataReply, Packets
  <1>2. m.op = "pc" => Answer(m) \in Addr
    BY DEF Answer, TypeOK, StubType, Guests
  <1>3. m.op = "set" => Answer(m) = IF m.addr \in Refused THEN "E" ELSE "OK"
    BY DEF Answer
  <1> HIDE DEF r
  <1>4. Fits(r)
    BY <1>1, <1>2, <1>3 DEF Fits, FitsAsk
  <1> QED BY <1>4 DEF r

LEMMA DisciplineStub ==
    ASSUME Inv, OrderInv, DisciplineInv, OfStub(StubNext)
    PROVE  DisciplineInv'
  <1> DEFINE m == Head(toStub)
  <1>1. /\ at' = at /\ rq' = rq /\ stopQ' = stopQ /\ shutdown' = shutdown /\ readQ' = readQ
        /\ stopped' = stopped /\ (Queued' <=> Queued) /\ TypeOK
    BY DEF OfStub, targetVars, queueVars, flagVars, localVars, Queued, Inv
  <1>2. ~Over /\ OneStop /\ Order
    BY NotOver DEF DisciplineInv, Order
  <1>3. ASSUME Take
        PROVE  /\ m \in Packets(Threads) /\ m = toStub[1] /\ m.op # "ctrlC"
               /\ \A i \in DOMAIN toStub' : i + 1 \in DOMAIN toStub /\ toStub'[i] = toStub[i + 1]
               /\ 1 \in DOMAIN toStub
               /\ \A i \in Asked' : i + 1 \in Asked /\ toStub'[i] = toStub[i + 1]
               /\ (Going' => Going) \/ stub'.run = "running"
               /\ (Stepping' => Stepping) \/ stub'.run = "stepping"
               /\ m \in Stirring => 1 \in Asked /\ Asked' = {}
               /\ Asked = {} => Asked' = {}
               /\ \A i \in AskedData' : i + 1 \in AskedData
               /\ Single(AskedData')
               /\ m \in Requesting => 1 \in AskedData /\ AskedData' = {}
               /\ AskedData = {} => AskedData' = {}
    <2> DEFINE tl == Tail(toStub)
    <2>1. toStub # <<>> /\ toStub' = tl /\ toStub \in Seq(Packets(Threads))
      BY <1>1, <1>3, QueueTypes DEF Take
    <2>2. /\ m = toStub[1] /\ 1 \in DOMAIN toStub
          /\ \A i \in DOMAIN tl : i + 1 \in DOMAIN toStub /\ tl[i] = toStub[i + 1]
          /\ \A i \in Marked(tl, Stirring) : i + 1 \in Marked(toStub, Stirring)
          /\ m \in Stirring => 1 \in Marked(toStub, Stirring)
          /\ \A i \in Marked(tl, Requesting) : i + 1 \in Marked(toStub, Requesting)
          /\ m \in Requesting => 1 \in Marked(toStub, Requesting)
      BY ONLY <2>1, MarkedTail
    <2>3. /\ Single(Marked(toStub, Stirring)) /\ Single(Marked(toStub, Requesting))
      BY <1>2 DEF OneStop, DisciplineInv, ReplyInv, Asked, AskedData
    <2>4. /\ m \in Stirring => Marked(tl, Stirring) = {}
          /\ Marked(toStub, Stirring) = {} => Marked(tl, Stirring) = {}
          /\ Single(Marked(tl, Requesting))
          /\ m \in Requesting => Marked(tl, Requesting) = {}
          /\ Marked(toStub, Requesting) = {} => Marked(tl, Requesting) = {}
      BY ONLY <2>1, <2>3, SingleTail
    <2>5. m.op # "ctrlC" /\ m \in Packets(Threads)
      BY <2>1, <2>2, ElementOfSeq DEF DisciplineInv, NoCtrlC
    <2>6. \A i \in Asked' : i + 1 \in Asked /\ toStub'[i] = toStub[i + 1]
      BY <2>1, <2>2 DEF Asked, Marked
    <2>7. /\ (Going' => Going) \/ stub'.run = "running"
          /\ (Stepping' => Stepping) \/ stub'.run = "stepping"
      BY <2>6 DEF Going, Stepping
    <2> HIDE DEF tl
    <2> QED BY <2>1, <2>2, <2>4, <2>5, <2>6, <2>7 DEF Asked, AskedData
  <1>4. NoCtrlC'
    <2>1. toStub' = toStub \/ Take
      BY DEF OfStub, StubNext, StubReads, StubServe, StubWhy, StubResume, StubStrayCtrlC,
         StubCtrlC, StubIgnore, StubBreak, StubStepped
    <2>2. \A i \in DOMAIN toStub' : toStub'[i].op # "ctrlC"
      BY <1>3, <2>1 DEF DisciplineInv, NoCtrlC
    <2> QED BY <1>1, <2>2 DEF DisciplineInv, NoCtrlC
  <1>5. ASSUME Going' => Going, Stepping' => Stepping, Calm' => stopped
        PROVE  StatusInv'
    BY <1>1, <1>5 DEF DisciplineInv, StatusInv
  <1>6. Calm => stopped
    BY DEF DisciplineInv, StatusInv
  <1>7. ASSUME UNCHANGED fromStub, Take, m \notin Requesting \/ Moves
        PROVE  ReplyInv'
    <2>1. ToldData' = ToldData /\ \A i \in AskedData' : toStub'[i] = toStub[i + 1] /\ i + 1 \in AskedData
      BY <1>3, <1>7 DEF ToldData, AskedData, Marked
    <2>2. AskedData' # {} => AskedData # {}
      BY <1>3, <1>7
    <2> QED BY <1>1, <1>3, <1>7, <2>1, <2>2 DEF DisciplineInv, ReplyInv, FitsAsk, Fits
  <1>8. ASSUME NEW sig \in Signals, fromStub' = Append(fromStub, StopReply(sig))
        PROVE  /\ ToldData' = ToldData /\ \A i \in ToldData : fromStub'[i] = fromStub[i]
               /\ Told' # {}
    <2>1. StopReply(sig) \in Replies(Threads) /\ StopReply(sig) \in Stops
          /\ StopReply(sig) \notin DataReplies(Threads)
      BY DEF StopReply, Replies, Stops, DataReplies
    <2>2. /\ ToldData' = ToldData /\ \A i \in DOMAIN fromStub : fromStub'[i] = fromStub[i]
          /\ Told' = Told \cup {Len(fromStub) + 1}
      BY <1>1, <1>8, <2>1, QueueTypes, MarkedAppend DEF Told, ToldData
    <2> QED BY <2>2 DEF ToldData, Marked
  <1>9. CASE StubServe
    <2>1. /\ Take /\ ~Moves /\ m.op \in DataOps
          /\ fromStub' = Append(fromStub, DataReply(Answer(m), m.by))
          /\ stub' = [stub EXCEPT !.bps = BpsAfter(m),
                                  !.run = IF m.op = "detach" THEN "running" ELSE @]
      BY <1>9 DEF StubServe, Moves
    <2>2. m \in Packets(Threads) /\ m \notin Stirring /\ m \in Requesting
      BY <1>3, <2>1 DEF Stirring, Requesting, DataOps
    <2>3. m.op # "detach"
      BY <1>2, <1>3, <2>1 DEF OrderInv, Detaching
    <2>4. stub'.run = stub.run
      BY <1>1, <2>1, <2>3 DEF TypeOK, StubType, Guests
    <2>5. 1 \in AskedData /\ AskedData' = {} /\ FitsAsk(m)
      BY <1>3, <2>1, <2>2 DEF DisciplineInv, ReplyInv
    <2>6. ToldData = {} /\ readQ = <<>>
      BY <2>5 DEF DisciplineInv, ReplyInv
    <2> DEFINE r == DataReply(Answer(m), m.by)
    <2>7. r \in DataReplies(Threads) /\ Fits(r)
      <3>1. r \in DataReplies(Threads)
        BY <1>1, <2>2 DEF DataReply, Answer, DataReplies, Packets, TypeOK, StubType, Guests
      <3> QED BY <1>1, <2>1, <2>2, <2>5, <3>1, AnswerFits
    <2>8. ToldData' = {Len(fromStub) + 1} /\ fromStub'[Len(fromStub) + 1] = r /\ Told' = Told
      <3> HIDE DEF r
      <3>1. fromStub' = Append(fromStub, r) /\ r \in Replies(Threads) /\ r \notin Stops
        BY <2>1, <2>7, StopKinds DEF r, Replies
      <3> QED BY <1>1, <2>6, <2>7, <3>1, QueueTypes, MarkedAppend DEF Told, ToldData
    <2>9. ReplyInv'
      <3> HIDE DEF r
      <3>1. \A i \in ToldData' : fromStub'[i] = r
        BY <2>8
      <3>2. Fits(fromStub'[Len(fromStub) + 1])
        BY <2>7, <2>8
      <3>3. DOMAIN readQ' = {} /\ Len(readQ') <= 1
        BY <1>1, <2>6
      <3>4. \A i \in ToldData' : Fits(fromStub[i])'
        BY <1>1, <2>7, <3>1 DEF Fits
      <3> QED BY <1>1, <2>5, <2>6, <2>8, <3>3, <3>4 DEF ReplyInv, Single
    <2>10. StatusInv'
      <3>1. (Going' => Going) /\ (Stepping' => Stepping)
        BY <1>3, <2>1, <2>4 DEF Going, Stepping
      <3>2. Calm' => Calm
        <4>1. Asked' = {} => Asked = {}
          BY <1>1, <1>2, <2>1, <2>2, SingleTail, QueueTypes DEF Take, Asked, OneStop
        <4> QED BY <1>1, <2>4, <2>8, <4>1 DEF Calm, Moves
      <3> QED BY <1>5, <1>6, <3>1, <3>2
    <2> QED BY <1>4, <2>9, <2>10 DEF DisciplineInv
  <1>10. CASE StubWhy
    <2>1. Take /\ stub' = stub /\ m.op = "why" /\ stub.sig \in Signals
          /\ fromStub' = Append(fromStub, StopReply(stub.sig))
      BY <1>1, <1>10 DEF StubWhy, TypeOK, StubType, Guests
    <2>2. m \notin Requesting
      BY <2>1 DEF Requesting, DataOps
    <2>3. /\ ToldData' = ToldData /\ (\A i \in ToldData : fromStub'[i] = fromStub[i]) /\ Told' # {}
      BY <1>8, <2>1
    <2>4. ReplyInv'
      <3>1. \A i \in AskedData' : toStub'[i] = toStub[i + 1] /\ i + 1 \in AskedData
        BY <1>3, <2>1 DEF AskedData, Marked
      <3>2. AskedData' # {} => AskedData # {}
        BY <3>1
      <3>3. Single(AskedData')
        BY <1>3, <2>1
      <3> QED BY <1>1, <2>3, <3>1, <3>2, <3>3 DEF DisciplineInv, ReplyInv, FitsAsk, Fits
    <2>5. (Going' => Going) /\ (Stepping' => Stepping)
      BY <1>3, <2>1 DEF Going, Stepping
    <2>6. ~Calm'
      BY <2>3 DEF Calm
    <2> QED BY <1>4, <1>5, <2>4, <2>5, <2>6 DEF DisciplineInv
  <1>11. CASE StubResume
    <2>1. Take /\ ~Moves /\ m.op \in {"cont", "step"} /\ fromStub' = fromStub
          /\ stub' = [stub EXCEPT !.run = IF m.op = "cont" THEN "running" ELSE "stepping"]
      BY <1>11 DEF StubResume, Moves
    <2>2. m \in Stirring /\ m \notin Requesting
      BY <1>3, <2>1 DEF Stirring, Requesting, DataOps
    <2>3. 1 \in Asked /\ Asked' = {} /\ m = toStub[1]
      BY <1>3, <2>1, <2>2
    <2>4. stub'.run = (IF m.op = "cont" THEN "running" ELSE "stepping")
      BY <1>1, <2>1 DEF TypeOK, StubType, Guests
    <2>5. (Going' => Going) /\ (Stepping' => Stepping) /\ ~Calm'
      BY <2>1, <2>3, <2>4 DEF Going, Stepping, Calm, Moves
    <2> QED BY <1>4, <1>5, <1>7, <2>1, <2>2, <2>5 DEF DisciplineInv
  <1>12. CASE StubStrayCtrlC \/ StubCtrlC
    BY <1>3, <1>12 DEF StubStrayCtrlC, StubCtrlC
  <1>13. CASE StubIgnore
    <2>1. Take /\ Moves /\ stub' = stub /\ fromStub' = fromStub
      BY <1>13 DEF StubIgnore, Moves
    <2>2. (Going' => Going) /\ (Stepping' => Stepping) /\ ~Calm'
      BY <1>3, <2>1 DEF Going, Stepping, Calm, Moves
    <2> QED BY <1>4, <1>5, <1>7, <2>1, <2>2 DEF DisciplineInv
  <1>14. CASE StubBreak \/ StubStepped
    <2>1. PICK a : Halt("SIGTRAP", a)
      BY <1>14 DEF StubBreak, StubStepped
    <2> DEFINE sig == "SIGTRAP"
    <2>2. /\ toStub' = toStub /\ fromStub' = Append(fromStub, StopReply(sig))
          /\ stub'.run = "stopped" /\ Moves
      BY <1>14, <2>1 DEF StubBreak, StubStepped, Halt, Moves
    <2>3. /\ ToldData' = ToldData /\ (\A i \in ToldData : fromStub'[i] = fromStub[i]) /\ Told' # {}
      BY <1>8, <2>2 DEF Signals
    <2>4. ReplyInv'
      <3>1. AskedData' = AskedData /\ \A i \in AskedData : toStub'[i] = toStub[i]
        BY <2>2 DEF AskedData
      <3> QED BY <1>1, <2>3, <3>1, AskedBy, ReplyKept DEF DisciplineInv, Stays
    <2>5. Asked' = {} /\ ~Going' /\ ~Stepping' /\ ~Calm'
      BY <1>2, <2>2, <2>3 DEF OneStop, Asked, Going, Stepping, Calm
    <2> QED BY <1>4, <1>5, <2>4, <2>5 DEF DisciplineInv
  <1> QED BY <1>9, <1>10, <1>11, <1>12, <1>13, <1>14 DEF OfStub, StubNext, StubReads

LEMMA DisciplineReader ==
    ASSUME Inv, OrderInv, DisciplineInv, OfTarget(Reader)
    PROVE  DisciplineInv'
  <1> DEFINE r == Head(fromStub)
  <1>1. /\ toStub' = toStub /\ stub' = stub /\ at' = at /\ rq' = rq /\ shutdown' = shutdown
        /\ stopped' = stopped /\ Asked' = Asked /\ TypeOK
        /\ fromStub # <<>> /\ fromStub' = Tail(fromStub)
        /\ r.kind = "stop" => stopQ' = Append(stopQ, r.body) /\ readQ' = readQ
        /\ r.kind # "stop" => stopQ' = stopQ /\ readQ' = Append(readQ, r)
    BY DEF OfTarget, Reader, flagVars, localVars, Asked, Inv
  <1>2. /\ fromStub \in Seq(Replies(Threads)) /\ readQ \in Seq(DataReplies(Threads))
        /\ stopQ \in Seq(Signals)
    BY <1>1, QueueTypes DEF TypeOK, TargetType
  <1>3. r \in Replies(Threads) /\ Order
    BY <1>1, <1>2, NotOver DEF DisciplineInv
  <1>4. NoCtrlC'
    BY <1>1 DEF DisciplineInv, NoCtrlC
  <1>5. StatusInv'
    <2>1. CASE r.kind = "stop"
      <3>1. r.body \in Signals
        BY <1>3, <2>1 DEF Replies, DataReplies
      <3>2. stopQ' # <<>>
        BY <1>1, <1>2, <2>1, <3>1
      <3>3. ~Calm'
        BY <3>2 DEF Calm, Queued
      <3> QED BY <1>1, <3>3 DEF DisciplineInv, StatusInv, Going, Stepping
    <2>2. CASE r.kind # "stop"
      <3>1. Told # {} => Told' # {}
        <4>1. r \notin Stops
          BY <2>2 DEF Stops
        <4>2. Marked(fromStub, Stops) # {} => Marked(Tail(fromStub), Stops) # {}
          BY ONLY <1>1, <1>2, <4>1, MarkedTail
        <4> QED BY <1>1, <4>2 DEF Told
      <3>2. Calm' => Calm
        BY <1>1, <2>2, <3>1 DEF Calm, Moves, Queued
      <3> QED BY <1>1, <3>2 DEF DisciplineInv, StatusInv, Going, Stepping
    <2> QED BY <2>1, <2>2
  <1>6. /\ r = fromStub[1] /\ Single(ToldData')
        /\ \A i \in ToldData' : i + 1 \in ToldData /\ fromStub'[i] = fromStub[i + 1]
        /\ r \in DataReplies(Threads) => ToldData' = {} /\ 1 \in ToldData
    <2> DEFINE tl == Tail(fromStub)
    <2>1. /\ r = fromStub[1]
          /\ \A i \in DOMAIN tl : tl[i] = fromStub[i + 1]
          /\ \A i \in Marked(tl, DataReplies(Threads)) :
                i + 1 \in Marked(fromStub, DataReplies(Threads))
          /\ r \in DataReplies(Threads) => 1 \in Marked(fromStub, DataReplies(Threads))
      BY ONLY <1>1, <1>2, MarkedTail
    <2>2. Single(Marked(fromStub, DataReplies(Threads)))
      BY DEF DisciplineInv, ReplyInv, ToldData
    <2>3. /\ Single(Marked(tl, DataReplies(Threads)))
          /\ r \in DataReplies(Threads) => Marked(tl, DataReplies(Threads)) = {}
      BY ONLY <1>1, <1>2, <2>2, SingleTail
    <2> HIDE DEF tl
    <2>4. fromStub' = tl
      BY <1>1 DEF tl
    <2>5. \A i \in Marked(tl, DataReplies(Threads)) : i \in DOMAIN tl
      BY DEF Marked
    <2> QED BY <2>1, <2>3, <2>4, <2>5 DEF ToldData
  <1>7. AskedData' = AskedData /\ \A i \in AskedData : FitsAsk(toStub[i])'
    BY <1>1 DEF DisciplineInv, ReplyInv, AskedData, FitsAsk
  <1>8. ReplyInv'
    <2>1. CASE r.kind = "stop"
      <3>2. \A i \in ToldData' : Fits(fromStub[i])'
        <4>1. \A i \in ToldData : Fits(fromStub[i])
          BY DEF DisciplineInv, ReplyInv
        <4>2. UNCHANGED <<at, rq>>
          BY <1>1
        <4> QED BY ONLY <1>6, <4>1, <4>2 DEF Fits
      <3>3. \A i \in DOMAIN readQ' : Fits(readQ[i])'
        BY <1>1, <2>1 DEF DisciplineInv, ReplyInv, Fits
      <3>4. readQ' = readQ /\ (ToldData' # {} => ToldData # {})
        BY <1>1, <1>6, <2>1
      <3> QED BY <1>6, <1>7, <3>2, <3>3, <3>4 DEF DisciplineInv, ReplyInv
    <2>2. CASE r.kind # "stop"
      <3>1. r \in DataReplies(Threads)
        BY <1>3, <2>2 DEF Replies
      <3>2. ToldData' = {} /\ AskedData = {} /\ readQ = <<>> /\ Fits(r)
        BY <1>6, <3>1 DEF DisciplineInv, ReplyInv
      <3>3. readQ' = <<r>>
        BY <1>1, <2>2, <3>2
      <3>4. Len(readQ') = 1 /\ \A i \in DOMAIN readQ' : readQ'[i] = r
        BY <3>3
      <3> HIDE DEF r
      <3>5. \A i \in DOMAIN readQ' : Fits(readQ[i])'
        BY <1>1, <3>2, <3>4 DEF Fits
      <3> QED BY <1>6, <1>7, <3>2, <3>4, <3>5 DEF ReplyInv
    <2> QED BY <2>1, <2>2
  <1> QED BY <1>4, <1>5, <1>8 DEF DisciplineInv

(* A dispatcher sends a packet that stirs the guest. *)
LEMMA DisciplineStirs ==
    ASSUME TypeOK, DisciplineInv, Calm, NEW t \in Dispatchers, at[t] # "recv",
           UNCHANGED <<stub, fromStub, stopQ, readQ, shutdown>>,
           NEW m \in Stirring, toStub' = Append(toStub, m),
           \A u \in Threads \ {t} : Stays(u), at'[t] \notin Ending \cup {"stop"},
           t = Main => at'[t] # "whyWait", stopped' <=> m.op # "cont",
           m.op = "step" => at'[t] = "stepWait",
           \A u \in Dispatchers : at'[u] \in {"stepWait", "whyWait"} => m.op # "cont"
    PROVE  DisciplineInv'
  <1>1. m \in Packets(Threads) /\ m.op \in {"cont", "step", "why"} /\ m \notin Requesting
    BY DEF Stirring, Requesting, DataOps
  <1>2. /\ Marked(toStub', Stirring) = Marked(toStub, Stirring) \cup {Len(toStub) + 1}
        /\ Marked(toStub', Requesting) = Marked(toStub, Requesting)
        /\ \A i \in DOMAIN toStub : toStub'[i] = toStub[i]
        /\ toStub'[Len(toStub) + 1] = m
        /\ DOMAIN toStub' = DOMAIN toStub \cup {Len(toStub) + 1}
    BY <1>1, QueueTypes, MarkedAppend
  <1>3. Asked' = {Len(toStub) + 1} /\ ~Moves'
    BY <1>2 DEF Asked, Moves, Calm
  <1>4. NoCtrlC'
    BY <1>1, <1>2 DEF DisciplineInv, NoCtrlC, Stays, Ending
  <1>5. StatusInv'
    <2>1. ~Calm'
      BY <1>3 DEF Calm
    <2>2. (Going' <=> m.op = "cont") /\ (Stepping' <=> m.op = "step")
      BY <1>2, <1>3 DEF Going, Stepping, Moves
    <2>3. at'[Main] # "whyWait"
      BY DEF DisciplineInv, StatusInv, Stays, Threads
    <2> QED BY <2>1, <2>2, <2>3 DEF StatusInv
  <1>6. ReplyInv'
    <2>1. AskedData' = AskedData /\ ToldData' = ToldData
          /\ \A i \in AskedData : toStub'[i] = toStub[i]
      BY <1>2 DEF AskedData, ToldData, Marked
    <2> QED BY <2>1, AskedBy, ReplyKept DEF DisciplineInv, Stays, Threads
  <1> QED BY <1>4, <1>5, <1>6 DEF DisciplineInv

(* A dispatcher finds the guest calm after what it waited for. *)
LEMMA DisciplineCalms ==
    ASSUME TypeOK, DisciplineInv, Calm', Asked' = {}, NEW t \in Dispatchers, at[t] # "recv",
           UNCHANGED <<stub, fromStub, toStub, readQ, shutdown>>, stopped',
           \A u \in Threads \ {t} : Stays(u), at'[t] \notin Ending \cup {"stop"},
           t = Main => at'[t] # "whyWait"
    PROVE  DisciplineInv'
  <1>1. NoCtrlC'
    BY DEF DisciplineInv, NoCtrlC, Stays, Ending
  <1>2. StatusInv'
    BY DEF DisciplineInv, StatusInv, Going, Stepping, Calm, Moves, Stays, Threads
  <1>3. ReplyInv'
    <2>1. AskedData' = AskedData /\ ToldData' = ToldData
      BY DEF AskedData, ToldData
    <2> QED BY <2>1, AskedBy, ReplyKept DEF DisciplineInv, Stays, Threads
  <1> QED BY <1>1, <1>2, <1>3 DEF DisciplineInv

(* The stop of a step has come when the thread that waits for it goes on.  *)
LEMMA StepAnswered ==
    ASSUME Inv, Order, Patient, NEW t \in Dispatchers, stub' = stub,
           StepWait(t) \/ StepTimeout(t)
    PROVE  Calm' /\ Asked' = {}
  <1> USE DEF queueVars
  <1>1. TypeOK /\ at[t] = "stepWait"
    BY DEF Inv, StepWait, StepTimeout
  <1>2. CASE StepWait(t)
    BY <1>1, <1>2, StopTaken DEF StepWait, Order
  <1>3. CASE StepTimeout(t)
    <2>1. toStub' = <<>> /\ fromStub' = <<>> /\ stopQ' = <<>> /\ ~Moves
      BY <1>1, <1>3 DEF StepTimeout, TimeIsUp, Order, StepHalted, Moves, TypeOK, StubType, Guests
    <2>2. ~Moves' /\ DOMAIN <<>> = {}
      BY <2>1 DEF Moves
    <2> QED BY <2>1, <2>2 DEF Calm, Asked, Told, Queued, Marked
  <1> QED BY <1>2, <1>3

LEMMA DisciplineExec ==
    ASSUME Inv, OrderInv, DisciplineInv, Patient, NEW t \in Dispatchers, OfTarget(ExecStep(t))
    PROVE  DisciplineInv'
  <1>1. /\ at \in [Threads -> Labels] /\ rq \in [Threads -> Requests] /\ TypeOK
        /\ t \in Threads /\ t \notin Cbs /\ LockInv
    BY DEF Inv, TypeOK, TargetType, Threads
  <1>2. Order /\ ~shutdown
    BY NotOver DEF DisciplineInv
  <1> USE DEF OfTarget, queueVars, flagVars, localVars
  <1>3. CASE ContinueSend(t)
    <2> DEFINE m == Packet("cont", NoAddr, t)
    <2>1. /\ at[t] = "contSend" /\ at' = [at EXCEPT ![t] = Home(t)] /\ rq' = rq
          /\ toStub' = Append(toStub, m) /\ stopped' = FALSE
          /\ UNCHANGED <<stub, fromStub, stopQ, readQ, shutdown>>
      BY <1>3 DEF ContinueSend, Go
    <2>2. m \in Stirring /\ m.op = "cont"
      BY <1>1 DEF Packet, Packets, Stirring, Ops, ExecOps
    <2> HIDE DEF m
    <2>3. Calm /\ \A u \in Dispatchers : at[u] \notin {"stepWait", "whyWait"}
      <3>1. Place(t) = "contSend" /\ Calm
        BY <1>2, <2>1 DEF Order, MainCalm, EventCalm, Executing, AtEase, Place
      <3>2. at[Main] \in {"contSend", "stepWait", "whyWait"} => Place(Main) = at[Main]
        BY DEF Place
      <3>3. at[Main] \in {"contSend", "stepWait"} => at[Event] \in EventFree
        BY <1>1, <3>2, EventLockSeparates DEF MainHeld
      <3>4. at[Main] # "whyWait"
        BY DEF DisciplineInv, StatusInv
      <3> QED BY <2>1, <3>1, <3>3, <3>4 DEF EventFree
    <2>4. /\ \A u \in Threads \ {t} : Stays(u)
          /\ at'[t] \notin Ending \cup {"stop", "stepWait", "whyWait"}
      BY <1>1, <2>1, HomeIsPlain DEF Stays, Waits
    <2>5. \A u \in Dispatchers : at'[u] \notin {"stepWait", "whyWait"}
      BY <2>3, <2>4 DEF Stays, Threads
    <2> QED BY <1>1, <2>1, <2>2, <2>3, <2>4, <2>5, DisciplineStirs
  <1>4. CASE StepSend(t)
    <2> DEFINE m == Packet("step", NoAddr, t)
    <2>1. /\ at[t] = "stepSend" /\ at' = [at EXCEPT ![t] = "stepWait"] /\ rq' = rq
          /\ toStub' = Append(toStub, m) /\ stopped' = stopped
          /\ UNCHANGED <<stub, fromStub, stopQ, readQ, shutdown>>
      BY <1>4 DEF StepSend, Go
    <2>2. m \in Stirring /\ m.op = "step"
      BY <1>1 DEF Packet, Packets, Stirring, Ops, ExecOps
    <2> HIDE DEF m
    <2>3. Calm /\ stopped
      BY <1>2, <2>1 DEF Order, MainCalm, EventCalm, Executing, AtEase, Place, DisciplineInv, StatusInv
    <2>4. /\ \A u \in Threads \ {t} : Stays(u)
          /\ at'[t] = "stepWait"
      BY <1>1, <2>1 DEF Stays
    <2> QED BY <1>1, <2>1, <2>2, <2>3, <2>4, DisciplineStirs DEF Ending
  <1>5. CASE StepWait(t) \/ StepTimeout(t)
    <2>1. /\ at[t] = "stepWait" /\ stopped' = stopped
          /\ Ask(t, "pc", NoAddr, "stepDisp")
          /\ UNCHANGED <<stub, fromStub, toStub, readQ, shutdown>>
      BY <1>5 DEF StepWait, StepTimeout
    <2>2. /\ \A u \in Threads \ {t} : Stays(u)
          /\ at'[t] = "send" /\ stopped'
      BY <1>1, <2>1 DEF Stays, Ask, Go, DisciplineInv, StatusInv
    <2>3. Calm' /\ Asked' = {}
      BY <1>2, <1>5, <2>1, StepAnswered
    <2> QED BY <1>1, <2>1, <2>2, <2>3, DisciplineCalms DEF Ending
  <1>6. CASE ~ContinueSend(t) /\ ~StepSend(t) /\ ~StepWait(t) /\ ~StepTimeout(t)
    BY <1>1, <1>6, LightExec, LightStep
  <1> QED BY <1>3, <1>4, <1>5, <1>6

LEMMA DisciplineEvent ==
    ASSUME Inv, OrderInv, DisciplineInv, OfTarget(EventStep)
    PROVE  DisciplineInv'
  <1>1. /\ at \in [Threads -> Labels] /\ rq \in [Threads -> Requests] /\ TypeOK
        /\ Event \in Threads /\ Event \notin Cbs /\ LockInv
    BY DEF Inv, TypeOK, TargetType, Threads
  <1>2. Order /\ ~shutdown
    BY NotOver DEF DisciplineInv
  <1> USE DEF OfTarget, queueVars, flagVars, localVars
  <1>3. CASE EventPoll
    <2>1. /\ at[Event] = "poll" /\ stopped' /\ stopQ # <<>> /\ stopQ' = Tail(stopQ) /\ rq' = rq
          /\ \E l \in {"why", "resume"} : at' = [at EXCEPT ![Event] = l]
          /\ UNCHANGED <<stub, fromStub, toStub, readQ, shutdown>>
      BY <1>3 DEF EventPoll, Go
    <2>2. /\ \A u \in Threads \ {Event} : Stays(u)
          /\ at'[Event] \in {"why", "resume"}
      BY <1>1, <2>1 DEF Stays
    <2>3. Calm' /\ Asked' = {}
      BY <1>1, <1>2, <2>1, StopTaken DEF Order
    <2> QED BY <1>1, <2>1, <2>2, <2>3, DisciplineCalms DEF Ending
  <1>4. CASE EventAskWhy
    <2> DEFINE m == Packet("why", NoAddr, Event)
    <2>1. /\ at[Event] = "why" /\ at' = [at EXCEPT ![Event] = "whyWait"] /\ rq' = rq
          /\ toStub' = Append(toStub, m) /\ stopped' = stopped
          /\ UNCHANGED <<stub, fromStub, stopQ, readQ, shutdown>>
      BY <1>4 DEF EventAskWhy, Go
    <2>2. m \in Stirring /\ m.op = "why"
      BY <1>1 DEF Packet, Packets, Stirring, Ops
    <2> HIDE DEF m
    <2>3. Calm /\ stopped
      BY <1>2, <2>1 DEF Order, EventCalm, AtEase, Place, DisciplineInv, StatusInv
    <2>4. /\ \A u \in Threads \ {Event} : Stays(u)
          /\ at'[Event] = "whyWait"
      BY <1>1, <2>1 DEF Stays
    <2> QED BY <1>1, <2>1, <2>2, <2>3, <2>4, DisciplineStirs DEF Ending
  <1>5. CASE EventWhy
    <2>1. /\ at[Event] = "whyWait" /\ stopped' = stopped /\ stopQ # <<>> /\ stopQ' = Tail(stopQ)
          /\ \/ Ask(Event, "pc", NoAddr, "unset")
             \/ Go(Event, "resume") /\ rq' = rq
          /\ UNCHANGED <<stub, fromStub, toStub, readQ, shutdown>>
      BY <1>5 DEF EventWhy
    <2>2. /\ \A u \in Threads \ {Event} : Stays(u)
          /\ at'[Event] \in {"send", "resume"} /\ stopped'
      BY <1>1, <2>1 DEF Stays, Ask, Go, DisciplineInv, StatusInv
    <2>3. Calm' /\ Asked' = {}
      BY <1>1, <1>2, <2>1, StopTaken DEF Order
    <2> QED BY <1>1, <2>1, <2>2, <2>3, DisciplineCalms DEF Ending
  <1>6. CASE ~EventPoll /\ ~EventAskWhy /\ ~EventWhy
    BY <1>1, <1>6, LightEvent, LightStep
  <1> QED BY <1>3, <1>4, <1>5, <1>6

LEMMA DisciplineInit == Init => DisciplineInv
  <1> SUFFICES ASSUME Init PROVE DisciplineInv
    OBVIOUS
  <1>1. /\ \A t \in Threads : at[t] \in {"user", "loop", "off"}
        /\ toStub = <<>> /\ fromStub = <<>> /\ readQ = <<>> /\ DOMAIN <<>> = {} /\ Len(<<>>) = 0
        /\ stopped /\ ~shutdown /\ stub.run = "stopped"
    BY DEF Init, StubInit
  <1>2. Asked = {} /\ AskedData = {} /\ ToldData = {} /\ DOMAIN readQ = {}
    BY <1>1 DEF Asked, AskedData, ToldData, Marked
  <1>3. NoCtrlC
    BY <1>1 DEF NoCtrlC
  <1>4. StatusInv
    BY <1>1, <1>2 DEF StatusInv, Going, Stepping, Threads
  <1>5. ReplyInv
    BY <1>1, <1>2 DEF ReplyInv, Single
  <1> QED BY <1>3, <1>4, <1>5 DEF DisciplineInv

LEMMA DisciplineNext ==
    ASSUME Disciplined
    PROVE  Inv /\ OrderInv /\ DisciplineInv /\ [Next]_vars => DisciplineInv'
  <1> SUFFICES ASSUME Inv, OrderInv, DisciplineInv, [Next]_vars PROVE DisciplineInv'
    OBVIOUS
  <1>1. TypeOK /\ NobodyStops /\ Patient
    BY DEF Inv, Disciplined, Orderly
  <1>2. CASE OfStub(StubNext)
    BY <1>2, DisciplineStub
  <1>3. CASE OfTarget(Reader)
    BY <1>3, DisciplineReader
  <1>4. CASE \E t \in Callers : Call(t)
    BY <1>1, <1>4, LightCall, LightStep
  <1>5. ASSUME NEW t \in Threads, ThreadStep(t)
        PROVE  DisciplineInv'
    <2>1. CASE t \in Callers /\ OfTarget(CallerStep(t))
      BY <1>1, <2>1, LightCaller, LightStep
    <2>2. CASE t \in Dispatchers /\ OfHooks(DispatchStep(t))
      BY <1>1, <2>2, LightDispatch, LightStep
    <2>3. CASE OfTarget(MainStep)
      BY <1>1, <2>3, LightMain, LightStep
    <2>4. CASE t \in Cbs /\ OfHooks(EndCallback(t))
      BY <1>1, <2>4, LightEndCallback, LightStep
    <2> QED BY <1>1, <1>5, <2>1, <2>2, <2>3, <2>4, DisciplineSend, DisciplineReceive,
               DisciplineExec, DisciplineEvent DEF ThreadStep
  <1>6. CASE UNCHANGED vars
    <2>1. Light
      BY <1>6 DEF vars, stubVars, targetVars, queueVars, flagVars, localVars, Light, Stays
    <2> QED BY <1>1, <2>1, LightStep
  <1> QED BY <1>2, <1>3, <1>4, <1>5, <1>6 DEF Next

(* The discipline holds in every state. *)
LEMMA DisciplineInvariant ==
    ASSUME Disciplined
    PROVE  Spec => [](Inv /\ OrderInv /\ DisciplineInv)
  <1>1. Orderly
    BY DEF Disciplined
  <1> QED BY <1>1, InvInit, InvNext, OrderInit, OrderNext, DisciplineInit, DisciplineNext, PTL DEF Spec

(* A thread that waits for a reply reads the reply to its own request, and *)
(* no other: what is in the read queue was asked for by the one thread     *)
(* that waits.                                                             *)
THEOREM EachReadsItsReply ==
    ASSUME Disciplined
    PROVE  Spec => []RepliesMatch
  <1>1. Inv /\ DisciplineInv => RepliesMatch
    <2> SUFFICES ASSUME Inv, DisciplineInv, NEW t \in Threads, at[t] = "recv", readQ # <<>>
                 PROVE  Head(readQ).to = t
      BY DEF RepliesMatch
    <2>1. readQ \in Seq(DataReplies(Threads))
      BY DEF Inv, TypeOK, TargetType
    <2>2. 1 \in DOMAIN readQ /\ Head(readQ) = readQ[1]
      BY <2>1, EmptySeq
    <2>3. readQ[1].to \in Threads /\ at[readQ[1].to] = "recv"
      BY <2>2 DEF DisciplineInv, ReplyInv, Fits
    <2>4. rspLock = t /\ rspLock = readQ[1].to
      BY <2>3 DEF Inv, LockInv, RspLockHeld
    <2> QED BY <2>2, <2>4
  <1> QED BY <1>1, DisciplineInvariant, PTL

(* When nothing is under way, no reply is left for a later request. *)
THEOREM NoReplyLeft ==
    ASSUME Disciplined
    PROVE  Spec => []NothingLeftOver
  <1>1. Inv /\ DisciplineInv => NothingLeftOver
    <2> SUFFICES ASSUME Inv, DisciplineInv, Idle
                 PROVE  readQ = <<>>
      BY DEF NothingLeftOver, Settled
    <2>1. \A t \in Threads : at[t] # "recv"
      BY DEF Idle
    <2>2. \A i \in DOMAIN readQ : FALSE
      BY <2>1 DEF DisciplineInv, ReplyInv, Fits
    <2>3. readQ \in Seq(DataReplies(Threads))
      BY DEF Inv, TypeOK, TargetType
    <2>4. readQ # <<>> => 1 \in DOMAIN readQ
      BY <2>3, EmptySeq
    <2> QED BY <2>2, <2>4
  <1> QED BY <1>1, DisciplineInvariant, PTL

(* ... and target_is_running tells what the guest does. *)
THEOREM StatusIsAccurate ==
    ASSUME Disciplined
    PROVE  Spec => []StatusAccurate
  <1>1. Inv /\ DisciplineInv => StatusAccurate
    <2> SUFFICES ASSUME Inv, DisciplineInv, Settled
                 PROVE  stopped <=> stub.run = "stopped"
      BY DEF StatusAccurate
    <2>1. Asked = {} /\ Told = {} /\ ~Queued
      <3>1. DOMAIN <<>> = {}
        OBVIOUS
      <3> QED BY <3>1 DEF Settled, Asked, Told, Queued, Marked
    <2>2. stub.run = "stopped" => stopped
      BY <2>1 DEF Calm, Moves, DisciplineInv, StatusInv
    <2>3. \A t \in Dispatchers : at[t] # "stepWait"
      BY DEF Settled, Idle, Threads
    <2>4. stub.run # "stepping" /\ (stub.run = "running" => ~stopped)
      BY <2>3 DEF DisciplineInv, StatusInv, Going, Stepping
    <2>5. stub.run \in {"running", "stepping", "stopped"}
      BY DEF Inv, TypeOK, StubType, Guests
    <2> QED BY <2>2, <2>4, <2>5
  <1> QED BY <1>1, DisciplineInvariant, PTL
=============================================================================

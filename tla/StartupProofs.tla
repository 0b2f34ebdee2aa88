---------------------------- MODULE StartupProofs ---------------------------
(***************************************************************************)
(* Proofs about Startup, for any register files and any packets that an    *)
(* earlier session left over, empty ones apart.                            *)
(***************************************************************************)
EXTENDS Startup, SequenceTheorems, TLAPS

----------------------------------------------------------------------------
(* What is on its way to the reader thread: the replies that the stub of a *)
(* stopped guest has sent, and those it will send to the requests it has   *)
(* not read. *)

Answers(requests) == [i \in DOMAIN requests |-> Reply(requests[i])]
Stream == fromStub \o Answers(toStub)

IsSeq(s) == Len(s) \in Nat /\ s = [i \in 1..Len(s) |-> s[i]]

(* No empty packet is left over: one would end _clear_rsp too early.       *)
Bodies == UNION {{s[i].body : i \in DOMAIN s} : s \in Leftovers}
Left == [kind : {"stop", "data"}, body : Bodies]
NoEmptyLeft == Leftovers \subseteq Seq(Left) /\ "empty" \notin Bodies

why == Ask("why")
ctrlC == Ask("ctrlC")
features == Ask("features")
Sigint == Stop("SIGINT")
StopTold == Stop(guest.sig)
Empty == Data("empty")
Features == Data("features")
Target == IF wellFormed THEN "target" ELSE "garbage"

Halted == guest.run = "stopped"
Drying == toStub = <<>> /\ fromStub = <<>>
Silent == fromStub = <<>> /\ stopQ = <<>> /\ readQ = <<>>

(* The stop that vCtrlC causes has come, if any was caused.                *)
StopRead == stopQ = <<>> \/ (stopQ = <<"SIGINT">> /\ guest.sig = "SIGINT")
StopComes == stopQ = <<>> /\ guest.sig = "SIGINT"


(* The connection at each label, when no wait has ended too early          *)
OnTime ==
    /\ at = "clear" => /\ toStub = <<>> /\ fromStub \in Seq(Left)
                       /\ readQ \in Seq(Bodies) /\ stopQ \in Seq(Bodies)
    /\ at = "clearStops" => Drying /\ readQ = <<>> /\ stopQ \in Seq(Bodies)
    /\ at = "ask" => Drying /\ readQ = <<>> /\ stopQ = <<>>
    /\ at = "isStopped" =>
          IF Halted THEN /\ readQ = <<>>
                         /\ \/ Stream = <<StopTold>> /\ stopQ = <<>>
                            \/ Drying /\ stopQ = <<guest.sig>>
                    ELSE Silent /\ toStub \in {<<why>>, <<>>}
    /\ at = "stop" =>
          IF Halted THEN stopped /\ Drying /\ readQ = <<>> /\ stopQ = <<>>
                    ELSE ~stopped /\ Silent /\ toStub \in {<<why>>, <<>>}
    /\ at = "features" =>
          IF Halted THEN /\ readQ = <<>>
                         /\ \/ Drying /\ StopRead
                            \/ Stream = <<Sigint>> /\ StopComes
                    ELSE Silent /\ toStub \in {<<why, ctrlC>>, <<ctrlC>>}
    /\ at = "supported" =>
          IF Halted THEN \/ Stream = <<Sigint, Features>> /\ readQ = <<>> /\ StopComes
                         \/ Stream = <<Features>> /\ readQ = <<>> /\ StopRead
                         \/ Drying /\ readQ = <<"features">> /\ StopRead
                    ELSE Silent /\ toStub \in {<<why, ctrlC, features>>, <<ctrlC, features>>}
    /\ at = "target" =>
          /\ Halted /\ StopRead
          /\ \/ Stream = <<Data(Target)>> /\ readQ = <<>>
             \/ Drying /\ readQ = <<Target>>
    /\ at = "contents" =>
          /\ Halted /\ StopRead
          /\ \/ Len(Stream) = 1 /\ Stream[1].kind = "data" /\ readQ = <<>>
             \/ Drying /\ Len(readQ) = 1 /\ readQ = <<readQ[1]>>
    /\ at \in {"file", "ready"} => Halted /\ StopRead /\ Drying /\ readQ = <<>>
    /\ at = "raised" => ~wellFormed

(* ... and when the answer to `?' came too late: the stub answers vCtrlC   *)
(* with an empty packet, and each reply is taken for the one before it.    *)
TooLate ==
    /\ at \in {"stop", "features", "supported", "target", "raised"}
    /\ Halted
    /\ at = "stop" => ~stopped /\ readQ = <<>> /\ Stream \in {<<StopTold>>, <<>>}
    /\ at = "features" =>
          \/ readQ = <<>> /\ Stream \in {<<StopTold, Empty>>, <<Empty>>}
          \/ readQ = <<"empty">> /\ Stream = <<>>
    /\ at = "supported" =>
          \/ readQ = <<>> /\ Stream \in {<<StopTold, Empty, Features>>, <<Empty, Features>>}
          \/ readQ = <<"empty">> /\ Stream = <<Features>>
          \/ readQ = <<"empty", "features">> /\ Stream = <<>>
    /\ at = "target" =>
          \/ readQ = <<>> /\ Stream = <<Features, Data(Target)>>
          \/ readQ = <<"features">> /\ Stream = <<Data(Target)>>
          \/ readQ = <<"features", Target>> /\ Stream = <<>>

Labels ==
    {"clear", "clearStops", "ask", "isStopped", "stop", "features", "supported", "target",
     "file", "contents", "ready", "raised"}

Types ==
    /\ IsSeq(toStub) /\ IsSeq(fromStub)
    /\ at \in Labels
    /\ late \subseteq {"clear", "clearStops", "isStopped"}
    /\ guest \in [run : {"running", "stopped"}, sig : {"SIGINT", "SIGTRAP"}]
    /\ stopped \in BOOLEAN
    /\ at \notin {"clear", "clearStops", "ask", "isStopped", "stop"} => stopped /\ userStopped
    /\ at \in {"clear", "clearStops", "ask", "isStopped"} => "isStopped" \notin late

ConnectionInv ==
    /\ late = {} => OnTime
    /\ late = {"isStopped"} => TooLate

Inv == Types /\ ConnectionInv

----------------------------------------------------------------------------
(* Sequences *)

LEMMA ASeq ==
    ASSUME NEW s, IsSeq(s)
    PROVE  s \in Seq({s[i] : i \in 1..Len(s)})
  <1> DEFINE T == {s[i] : i \in 1..Len(s)}
  <1>1. Len(s) \in Nat /\ s = [i \in 1..Len(s) |-> s[i]]
    BY DEF IsSeq
  <1>2. \A i \in 1..Len(s) : s[i] \in T
    OBVIOUS
  <1> HIDE DEF T
  <1>3. s \in [1..Len(s) -> T]
    BY <1>1, <1>2
  <1>4. s \in Seq(T)
    BY <1>1, <1>3, SeqDef
  <1> QED BY <1>4 DEF T

LEMMA SeqIs ==
    ASSUME NEW T, NEW s \in Seq(T)
    PROVE  IsSeq(s)
  <1>1. Len(s) \in Nat /\ s \in [1..Len(s) -> T]
    BY LenProperties
  <1> QED BY <1>1 DEF IsSeq

LEMMA AppendTwo ==
    ASSUME NEW a, NEW b
    PROVE  Append(<<a>>, b) = <<a, b>>
  <1> DEFINE T == {a, b}
             s == Append(<<a>>, b)
  <1>1. <<a>> \in Seq(T) /\ <<a, b>> \in Seq(T)
    OBVIOUS
  <1>2. s \in Seq(T) /\ Len(s) = 2 /\ s[1] = a /\ s[2] = b
    BY <1>1, AppendProperties
  <1> HIDE DEF s, T
  <1>3. Len(<<a, b>>) = 2 /\ \A i \in 1..Len(s) : s[i] = <<a, b>>[i]
    BY ONLY <1>2
  <1>4. s = <<a, b>>
    BY ONLY <1>1, <1>2, <1>3, SeqEqual
  <1> QED BY <1>4 DEF s

LEMMA AppendThree ==
    ASSUME NEW a, NEW b, NEW c
    PROVE  Append(<<a, b>>, c) = <<a, b, c>>
  <1> DEFINE T == {a, b, c}
             s == Append(<<a, b>>, c)
  <1>1. <<a, b>> \in Seq(T) /\ <<a, b, c>> \in Seq(T)
    OBVIOUS
  <1>2. s \in Seq(T) /\ Len(s) = 3 /\ s[1] = a /\ s[2] = b /\ s[3] = c
    BY <1>1, AppendProperties
  <1> HIDE DEF s, T
  <1>3. Len(<<a, b, c>>) = 3 /\ \A i \in 1..Len(s) : s[i] = <<a, b, c>>[i]
    BY ONLY <1>2
  <1>4. s = <<a, b, c>>
    BY ONLY <1>1, <1>2, <1>3, SeqEqual
  <1> QED BY <1>4 DEF s

LEMMA AppendOne ==
    ASSUME NEW a
    PROVE  Append(<<>>, a) = <<a>>
  <1> DEFINE T == {a}
             s == Append(<<>>, a)
  <1>1. <<>> \in Seq(T) /\ <<a>> \in Seq(T)
    OBVIOUS
  <1>2. s \in Seq(T) /\ Len(s) = 1 /\ s[1] = a
    BY <1>1, AppendProperties
  <1> HIDE DEF s, T
  <1>3. Len(<<a>>) = 1 /\ \A i \in 1..Len(s) : s[i] = <<a>>[i]
    BY ONLY <1>2
  <1>4. s = <<a>>
    BY ONLY <1>1, <1>2, <1>3, SeqEqual
  <1> QED BY <1>4 DEF s

LEMMA Tuples ==
    ASSUME NEW a, NEW b, NEW c
    PROVE  /\ Head(<<a>>) = a /\ Head(<<a, b>>) = a /\ Head(<<a, b, c>>) = a
           /\ Tail(<<a>>) = <<>> /\ Tail(<<a, b>>) = <<b>> /\ Tail(<<a, b, c>>) = <<b, c>>
           /\ <<a>> # <<>> /\ <<a, b>> # <<>> /\ <<a, b, c>> # <<>>
           /\ IsSeq(<<>>) /\ IsSeq(<<a>>) /\ IsSeq(<<a, b>>) /\ IsSeq(<<a, b, c>>)
  <1> DEFINE T == {a, b, c}
  <1>1. <<>> \in Seq(T) /\ <<a>> \in Seq(T) /\ <<a, b>> \in Seq(T) /\ <<a, b, c>> \in Seq(T)
    OBVIOUS
  <1>2. IsSeq(<<>>) /\ IsSeq(<<a>>) /\ IsSeq(<<a, b>>) /\ IsSeq(<<a, b, c>>)
    BY <1>1, SeqIs
  <1>3. /\ Head(<<a>>) = a /\ Head(<<a, b>>) = a /\ Head(<<a, b, c>>) = a
        /\ Tail(<<a>>) = <<>> /\ Tail(<<a, b>>) = <<b>> /\ Tail(<<a, b, c>>) = <<b, c>>
    OBVIOUS
  <1> QED BY <1>2, <1>3

----------------------------------------------------------------------------
(* The stream *)

Queues == IsSeq(toStub) /\ IsSeq(fromStub)

(* First what has been sent, then what will be *)
StreamParts ==
    /\ Len(toStub) \in Nat /\ Len(fromStub) \in Nat
    /\ IsSeq(Stream) /\ Len(Stream) = Len(fromStub) + Len(toStub)
    /\ \A i \in 1..Len(fromStub) : Stream[i] = fromStub[i]
    /\ \A i \in 1..Len(toStub) : Stream[Len(fromStub) + i] = Reply(toStub[i])

LEMMA StreamIs == Queues => StreamParts
  <1> SUFFICES ASSUME Queues
               PROVE  StreamParts
    OBVIOUS
  <1> DEFINE B == {fromStub[i] : i \in 1..Len(fromStub)}
             R == {Reply(toStub[i]) : i \in 1..Len(toStub)}
             T == B \cup R
             f == fromStub
             r == Answers(toStub)
  <1>1. Len(toStub) \in Nat /\ Len(f) \in Nat /\ DOMAIN toStub = 1..Len(toStub)
    BY ASeq, LenProperties DEF Queues
  <1>2. r \in [1..Len(toStub) -> T] /\ \A i \in 1..Len(toStub) : r[i] = Reply(toStub[i])
    BY <1>1 DEF Answers
  <1>3. f \in Seq(T)
    <2>1. f \in Seq(B)
      BY ASeq DEF Queues
    <2> QED BY <2>1, SeqMonotonic
  <1> HIDE DEF T, f, r
  <1>4. r \in Seq(T) /\ Len(r) = Len(toStub)
    <2>1. r \in Seq(T)
      BY <1>1, <1>2, SeqDef
    <2>2. 1..Len(r) = 1..Len(toStub) /\ Len(r) \in Nat /\ Len(toStub) \in Nat
      BY <1>1, <1>2, <2>1, LenProperties
    <2>3. Len(r) = Len(toStub)
      BY ONLY <2>2
    <2> QED BY <2>1, <2>3
  <1>5. /\ f \o r \in Seq(T) /\ Len(f \o r) = Len(f) + Len(r)
        /\ \A i \in 1..Len(f) + Len(r) :
              (f \o r)[i] = IF i <= Len(f) THEN f[i] ELSE r[i - Len(f)]
    BY <1>3, <1>4, ConcatProperties
  <1>6. \A i \in 1..Len(f) : (f \o r)[i] = f[i]
    <2> SUFFICES ASSUME NEW i \in 1..Len(f)
                 PROVE  (f \o r)[i] = f[i]
      OBVIOUS
    <2>1. i \in 1..Len(f) + Len(r) /\ i <= Len(f)
      BY <1>1, <1>4
    <2> QED BY <1>5, <2>1
  <1>7. \A i \in 1..Len(toStub) : (f \o r)[Len(f) + i] = Reply(toStub[i])
    <2> SUFFICES ASSUME NEW i \in 1..Len(toStub)
                 PROVE  (f \o r)[Len(f) + i] = Reply(toStub[i])
      OBVIOUS
    <2>1. /\ Len(f) + i \in 1..Len(f) + Len(r) /\ ~(Len(f) + i <= Len(f))
          /\ Len(f) + i - Len(f) = i
      BY <1>1, <1>4
    <2> QED BY <1>2, <1>5, <2>1
  <1>8. Stream = f \o r /\ f = fromStub
    BY DEF Stream, f, r
  <1>9. IsSeq(f \o r)
    BY <1>5, SeqIs
  <1> QED BY <1>1, <1>4, <1>5, <1>6, <1>7, <1>8, <1>9 DEF StreamParts

LEMMA SameSeq ==
    ASSUME NEW s, NEW t, IsSeq(s), IsSeq(t), Len(s) = Len(t), \A i \in 1..Len(s) : s[i] = t[i]
    PROVE  s = t
  BY DEF IsSeq

EmptyIsDry == Stream = <<>> <=> Drying

LEMMA StreamEmpty == Queues => EmptyIsDry
  <1> SUFFICES ASSUME Queues
               PROVE  Stream = <<>> <=> Drying
    BY DEF EmptyIsDry
  <1>1. \A s : IsSeq(s) => (s = <<>> <=> Len(s) = 0)
    BY ASeq, EmptySeq
  <1>2. (Stream = <<>> <=> Len(Stream) = 0) /\ Len(Stream) = Len(fromStub) + Len(toStub)
    BY <1>1, StreamIs DEF StreamParts
  <1>3. /\ fromStub = <<>> <=> Len(fromStub) = 0
        /\ toStub = <<>> <=> Len(toStub) = 0
    BY <1>1 DEF Queues
  <1> QED BY <1>2, <1>3, StreamIs DEF Drying, StreamParts

LEMMA AppendSeq ==
    ASSUME NEW s, NEW e, IsSeq(s)
    PROVE  /\ IsSeq(Append(s, e)) /\ Append(s, e) # <<>> /\ Len(Append(s, e)) = Len(s) + 1
           /\ \A i \in 1..Len(s) : Append(s, e)[i] = s[i]
           /\ Append(s, e)[Len(s) + 1] = e
           /\ Len(s) \in Nat
  <1> DEFINE T == {s[i] : i \in 1..Len(s)}
             U == T \cup {e}
  <1>1. s \in Seq(T)
    BY ASeq
  <1>2. s \in Seq(U) /\ e \in U
    BY <1>1, SeqMonotonic
  <1> HIDE DEF T, U
  <1>3. /\ Append(s, e) \in Seq(U) /\ Append(s, e) # <<>> /\ Len(Append(s, e)) = Len(s) + 1
        /\ \A i \in 1..Len(s) : Append(s, e)[i] = s[i]
        /\ Append(s, e)[Len(s) + 1] = e
    BY <1>2, AppendProperties
  <1> QED BY <1>3, SeqIs DEF IsSeq

LEMMA TailSeq ==
    ASSUME NEW s, IsSeq(s), s # <<>>
    PROVE  /\ IsSeq(Tail(s)) /\ Len(Tail(s)) = Len(s) - 1 /\ Len(s) \in Nat \ {0}
           /\ \A i \in 1..(Len(s) - 1) : Tail(s)[i] = s[i + 1]
           /\ Head(s) = s[1]
  <1> DEFINE T == {s[i] : i \in 1..Len(s)}
  <1>1. s \in Seq(T)
    BY ASeq
  <1> HIDE DEF T
  <1>2. /\ Tail(s) \in Seq(T) /\ Len(Tail(s)) = Len(s) - 1 /\ Len(s) \in Nat \ {0}
        /\ \A i \in 1..(Len(s) - 1) : Tail(s)[i] = s[i + 1]
    BY <1>1, HeadTailProperties, EmptySeq
  <1>3. Head(s) = s[1]
    BY <1>1
  <1> QED BY <1>2, <1>3, SeqIs

(* The replies of a stopped guest's stub do not depend on when it answers. *)
LEMMA ReplyKept ==
    ASSUME UNCHANGED stubVars
    PROVE  \A m : Reply(m)' = Reply(m)
  BY DEF stubVars, Reply, Piece, Data, Stop

LEMMA StreamAnswered ==
    ASSUME Queues, StubAnswers
    PROVE  Queues' /\ Stream' = Stream
  <1> DEFINE k == Len(fromStub)
             n == Len(toStub)
             h == Head(toStub)
  <1>1. /\ toStub # <<>> /\ toStub' = Tail(toStub)
        /\ fromStub' = Append(fromStub, Reply(h)) /\ UNCHANGED stubVars
    BY DEF StubAnswers
  <1>2. /\ IsSeq(toStub') /\ Len(toStub') = n - 1 /\ n \in Nat \ {0}
        /\ \A i \in 1..(n - 1) : toStub'[i] = toStub[i + 1]
        /\ h = toStub[1]
    BY <1>1, TailSeq DEF Queues
  <1>3. /\ IsSeq(fromStub') /\ Len(fromStub') = k + 1 /\ k \in Nat
        /\ \A i \in 1..k : fromStub'[i] = fromStub[i]
        /\ fromStub'[k + 1] = Reply(h)
    BY <1>1, AppendSeq DEF Queues
  <1>4. Queues'
    BY <1>2, <1>3 DEF Queues
  <1>5. StreamParts /\ StreamParts'
    BY <1>4, StreamIs, PTL
  <1>6. \A m : Reply(m)' = Reply(m)
    BY <1>1, ReplyKept
  <1> HIDE DEF k, n, h
  <1>7. /\ Len(Stream) = k + n /\ IsSeq(Stream)
        /\ \A i \in 1..k : Stream[i] = fromStub[i]
        /\ \A i \in 1..n : Stream[k + i] = Reply(toStub[i])
    BY <1>5 DEF StreamParts, k, n
  <1>8. /\ Len(Stream') = k + n /\ IsSeq(Stream')
        /\ \A i \in 1..(k + 1) : Stream'[i] = fromStub'[i]
        /\ \A i \in 1..(n - 1) : Stream'[k + 1 + i] = Reply(toStub'[i])
    <2>1. /\ Len(Stream') = Len(fromStub') + Len(toStub') /\ IsSeq(Stream')
          /\ \A i \in 1..Len(fromStub') : Stream'[i] = fromStub'[i]
          /\ \A i \in 1..Len(toStub') : Stream'[Len(fromStub') + i] = Reply(toStub'[i])
      BY <1>5, <1>6 DEF StreamParts, IsSeq
    <2>2. (k + 1) + (n - 1) = k + n
      BY <1>2, <1>3
    <2> QED BY ONLY <1>2, <1>3, <2>1, <2>2
  <1>9. \A i \in 1..(k + n) : Stream'[i] = Stream[i]
    <2> SUFFICES ASSUME NEW i \in 1..(k + n)
                 PROVE  Stream'[i] = Stream[i]
      OBVIOUS
    <2>1. i \in 1..k \/ i = k + 1 \/ (i - k - 1 \in 1..(n - 1) /\ i = k + 1 + (i - k - 1)
                                   /\ i - k \in 1..n /\ i = k + (i - k)
                                   /\ i - k - 1 + 1 = i - k)
      BY <1>2, <1>3
    <2>2. CASE i \in 1..k
      BY <1>3, <1>7, <1>8, <2>2
    <2>3. CASE i = k + 1
      BY <1>2, <1>3, <1>7, <1>8, <2>3
    <2>4. CASE /\ i - k - 1 \in 1..(n - 1) /\ i = k + 1 + (i - k - 1)
               /\ i - k \in 1..n /\ i = k + (i - k) /\ i - k - 1 + 1 = i - k
      <3>1. Stream'[i] = Reply(toStub'[i - k - 1])
        BY <1>8, <2>4
      <3>2. Stream[i] = Reply(toStub[i - k])
        BY <1>7, <2>4
      <3>3. toStub'[i - k - 1] = toStub[i - k]
        BY <1>2, <2>4
      <3> QED BY <3>1, <3>2, <3>3
    <2> QED BY <2>1, <2>2, <2>3, <2>4
  <1> QED BY <1>4, <1>7, <1>8, <1>9, SameSeq

LEMMA StreamSent ==
    ASSUME Queues, NEW m, toStub' = Append(toStub, m), UNCHANGED <<fromStub, stubVars>>
    PROVE  Queues' /\ Stream' = Append(Stream, Reply(m))
  <1> DEFINE k == Len(fromStub)
             n == Len(toStub)
             r == Append(Stream, Reply(m))
  <1>1. /\ IsSeq(toStub') /\ Len(toStub') = n + 1 /\ n \in Nat
        /\ \A i \in 1..n : toStub'[i] = toStub[i]
        /\ toStub'[n + 1] = m
    BY AppendSeq DEF Queues
  <1>2. Queues'
    BY <1>1 DEF Queues, IsSeq
  <1>3. StreamParts /\ StreamParts'
    BY <1>2, StreamIs, PTL
  <1>4. \A x : Reply(x)' = Reply(x)
    BY ReplyKept
  <1> HIDE DEF k, n, r
  <1>5. /\ Len(Stream) = k + n /\ IsSeq(Stream) /\ k \in Nat
        /\ \A i \in 1..k : Stream[i] = fromStub[i]
        /\ \A i \in 1..n : Stream[k + i] = Reply(toStub[i])
    BY <1>3 DEF StreamParts, k, n
  <1>6. /\ Len(Stream') = k + (n + 1) /\ IsSeq(Stream')
        /\ \A i \in 1..k : Stream'[i] = fromStub[i]
        /\ \A i \in 1..(n + 1) : Stream'[k + i] = Reply(toStub'[i])
    BY <1>1, <1>3, <1>4 DEF StreamParts, IsSeq, k
  <1>7. /\ IsSeq(r) /\ Len(r) = k + n + 1
        /\ \A i \in 1..(k + n) : r[i] = Stream[i]
        /\ r[k + n + 1] = Reply(m)
    BY <1>5, AppendSeq DEF r
  <1>8. \A i \in 1..(k + n + 1) : Stream'[i] = r[i]
    <2> SUFFICES ASSUME NEW i \in 1..(k + n + 1)
                 PROVE  Stream'[i] = r[i]
      OBVIOUS
    <2>1. i \in 1..k \/ (i - k \in 1..n /\ i = k + (i - k)) \/ i = k + n + 1
      BY <1>1, <1>5
    <2>2. CASE i \in 1..k
      BY <1>1, <1>5, <1>6, <1>7, <2>2
    <2>3. CASE i - k \in 1..n /\ i = k + (i - k)
      <3>1. Stream'[i] = Reply(toStub'[i - k]) /\ Stream[i] = Reply(toStub[i - k])
        BY <1>1, <1>5, <1>6, <2>3
      <3>2. toStub'[i - k] = toStub[i - k] /\ i \in 1..(k + n)
        BY <1>1, <1>5, <2>3
      <3> QED BY <1>7, <3>1, <3>2
    <2>4. CASE i = k + n + 1
      <3>1. n + 1 \in 1..(n + 1) /\ k + (n + 1) = k + n + 1
        BY <1>1, <1>5
      <3> QED BY <1>1, <1>6, <1>7, <2>4, <3>1
    <2> QED BY <2>1, <2>2, <2>3, <2>4
  <1>9. Len(Stream') = Len(r)
    BY <1>1, <1>5, <1>6, <1>7
  <1>10. Stream' = r
    BY <1>1, <1>5, <1>6, <1>7, <1>8, <1>9, SameSeq
  <1> QED BY <1>2, <1>10 DEF r

LEMMA StreamRead ==
    ASSUME Queues, fromStub # <<>>, fromStub' = Tail(fromStub), UNCHANGED <<toStub, stubVars>>
    PROVE  /\ Queues' /\ Stream # <<>>
           /\ Head(Stream) = Head(fromStub) /\ Stream' = Tail(Stream)
  <1> DEFINE k == Len(fromStub)
             n == Len(toStub)
             r == Tail(Stream)
  <1>1. /\ IsSeq(fromStub') /\ Len(fromStub') = k - 1 /\ k \in Nat \ {0}
        /\ \A i \in 1..(k - 1) : fromStub'[i] = fromStub[i + 1]
        /\ Head(fromStub) = fromStub[1]
    BY TailSeq DEF Queues
  <1>2. Queues'
    BY <1>1 DEF Queues, IsSeq
  <1>3. StreamParts /\ StreamParts'
    BY <1>2, StreamIs, PTL
  <1>4. \A x : Reply(x)' = Reply(x)
    BY ReplyKept
  <1>5. Stream # <<>>
    BY StreamEmpty DEF EmptyIsDry, Drying
  <1> HIDE DEF k, n, r
  <1>6. /\ Len(Stream) = k + n /\ IsSeq(Stream) /\ n \in Nat
        /\ \A i \in 1..k : Stream[i] = fromStub[i]
        /\ \A i \in 1..n : Stream[k + i] = Reply(toStub[i])
    BY <1>3 DEF StreamParts, k, n
  <1>7. /\ Len(Stream') = (k - 1) + n /\ IsSeq(Stream')
        /\ \A i \in 1..(k - 1) : Stream'[i] = fromStub'[i]
        /\ \A i \in 1..n : Stream'[k - 1 + i] = Reply(toStub[i])
    BY <1>1, <1>3, <1>4 DEF StreamParts, IsSeq, n
  <1>8. /\ IsSeq(r) /\ Len(r) = k + n - 1
        /\ \A i \in 1..(k + n - 1) : r[i] = Stream[i + 1]
        /\ Head(Stream) = Stream[1]
    <2>1. /\ IsSeq(r) /\ Len(r) = Len(Stream) - 1
          /\ \A i \in 1..(Len(Stream) - 1) : r[i] = Stream[i + 1]
          /\ Head(Stream) = Stream[1]
      BY <1>5, <1>6, TailSeq DEF r
    <2> DEFINE l == Len(Stream)
    <2>2. l = k + n /\ k \in Nat /\ n \in Nat
      BY <1>1, <1>6
    <2>3. Len(r) = l - 1 /\ \A i \in 1..(l - 1) : r[i] = Stream[i + 1]
      BY <2>1
    <2> HIDE DEF l
    <2>4. l - 1 = k + n - 1
      BY ONLY <2>2
    <2>5. Len(r) = k + n - 1 /\ \A i \in 1..(k + n - 1) : r[i] = Stream[i + 1]
      BY ONLY <2>3, <2>4
    <2> QED BY ONLY <2>1, <2>5
  <1>9. \A i \in 1..(k + n - 1) : Stream'[i] = r[i]
    <2> SUFFICES ASSUME NEW i \in 1..(k + n - 1)
                 PROVE  Stream'[i] = r[i]
      OBVIOUS
    <2>1. \/ i \in 1..(k - 1) /\ i + 1 \in 1..k
          \/ i - k + 1 \in 1..n /\ i = k - 1 + (i - k + 1) /\ i + 1 = k + (i - k + 1)
      BY <1>1, <1>6
    <2>2. CASE i \in 1..(k - 1) /\ i + 1 \in 1..k
      BY <1>1, <1>6, <1>7, <1>8, <2>2
    <2>3. CASE i - k + 1 \in 1..n /\ i = k - 1 + (i - k + 1) /\ i + 1 = k + (i - k + 1)
      <3>1. Stream'[i] = Reply(toStub[i - k + 1])
        BY <1>7, <2>3
      <3>2. Stream[i + 1] = Reply(toStub[i - k + 1])
        BY <1>6, <2>3
      <3> QED BY <1>8, <3>1, <3>2
    <2> QED BY <2>1, <2>2, <2>3
  <1>10. Len(Stream') = Len(r) /\ Len(Stream') = k + n - 1
    BY <1>1, <1>6, <1>7, <1>8
  <1>11. Stream' = r
    BY <1>7, <1>8, <1>9, <1>10, SameSeq
  <1>12. Head(Stream) = Head(fromStub)
    BY <1>1, <1>6, <1>8
  <1> QED BY <1>2, <1>5, <1>11, <1>12 DEF r

LEMMA StreamStays ==
    ASSUME Queues, UNCHANGED <<toStub, fromStub, stubVars>>
    PROVE  Queues' /\ Stream' = Stream /\ (Drying' <=> Drying)
  <1>1. \A m : Reply(m)' = Reply(m)
    BY ReplyKept
  <1>2. Answers(toStub)' = Answers(toStub)
    BY <1>1 DEF Answers
  <1> QED BY <1>2 DEF Queues, IsSeq, Stream, Drying

----------------------------------------------------------------------------
(* The stub and the reader thread *)

LEMMA InvStubAnswers ==
    ASSUME Inv, StubAnswers
    PROVE  Inv'
  <1>1. Queues
    BY DEF Inv, Types, Queues
  <1>2. Queues' /\ Stream' = Stream /\ (Stream = <<>> <=> Drying) /\ ~Drying
    BY <1>1, StreamAnswered, StreamEmpty DEF EmptyIsDry, StubAnswers, Drying
  <1>3. /\ UNCHANGED <<guest, layout, wellFormed, stopQ, readQ, at, stopped, userStopped, late>>
        /\ Halted /\ toStub # <<>>
    BY DEF StubAnswers, stubVars, flagVars, Halted
  <1>4. Types'
    BY <1>2, <1>3 DEF Inv, Types, Queues
  <1>5. OnTime => OnTime'
    BY <1>2, <1>3 DEF OnTime, Halted, Silent, StopRead, StopComes, StopTold, Target
  <1>6. TooLate => TooLate'
    BY <1>2, <1>3 DEF TooLate, Halted, StopTold, Target
  <1> QED BY <1>3, <1>4, <1>5, <1>6 DEF Inv, ConnectionInv

LEMMA InvStubRuns ==
    ASSUME Inv, StubRuns
    PROVE  Inv'
  <1>1. /\ UNCHANGED <<layout, wellFormed, stopQ, readQ, at, stopped, userStopped, late>>
        /\ ~Halted /\ toStub # <<>> /\ toStub' = Tail(toStub)
        /\ IF Head(toStub).op = "ctrlC"
              THEN /\ guest' = [run |-> "stopped", sig |-> "SIGINT"]
                   /\ fromStub' = Append(fromStub, Sigint)
              ELSE UNCHANGED <<guest, fromStub>>
    BY DEF StubRuns, flagVars, Halted, Sigint
  <1>2. IsSeq(toStub') /\ IsSeq(fromStub')
    <2>1. IsSeq(toStub) /\ IsSeq(fromStub)
      BY DEF Inv, Types
    <2>2. IsSeq(toStub')
      BY <1>1, <2>1, TailSeq
    <2>3. CASE Head(toStub).op = "ctrlC"
      BY <1>1, <2>1, <2>2, <2>3, AppendSeq
    <2>4. CASE Head(toStub).op # "ctrlC"
      BY <1>1, <2>1, <2>2, <2>4
    <2> QED BY <2>3, <2>4
  <1>3. Types'
    BY <1>1, <1>2 DEF Inv, Types
  <1>4. ~TooLate
    BY <1>1 DEF TooLate
  <1>5. why.op = "why" /\ ctrlC.op = "ctrlC" /\ features.op = "features"
    BY DEF why, ctrlC, features, Ask, Request
  <1>6. ASSUME OnTime
        PROVE  OnTime'
    <2>1. at \in {"isStopped", "stop", "features", "supported", "raised"}
      BY <1>1, <1>6 DEF OnTime, Drying, Inv, Types, Labels
    <2>2. CASE at = "isStopped" \/ at = "stop"
      <3>1. toStub = <<why>> /\ Silent /\ (at = "stop" => ~stopped)
        BY <1>1, <1>6, <2>2 DEF OnTime
      <3>2. toStub' = <<>> /\ UNCHANGED <<guest, fromStub>>
        BY <1>1, <1>5, <3>1, Tuples
      <3>3. Silent' /\ ~Halted'
        BY <1>1, <3>1, <3>2 DEF Silent, Halted
      <3> QED BY <1>1, <2>2, <3>1, <3>2, <3>3 DEF OnTime
    <2>3. CASE \/ at = "features" /\ toStub = <<why, ctrlC>>
               \/ at = "supported" /\ toStub = <<why, ctrlC, features>>
      <3>1. Silent
        BY <1>1, <1>6, <2>3 DEF OnTime
      <3>2. /\ toStub' = IF at = "features" THEN <<ctrlC>> ELSE <<ctrlC, features>>
            /\ UNCHANGED <<guest, fromStub>>
        <4>1. CASE at = "features"
          <5>1. toStub = <<why, ctrlC>>
            BY <2>3, <4>1
          <5>2. Head(toStub) = why /\ Tail(toStub) = <<ctrlC>>
            BY ONLY <5>1, Tuples
          <5> QED BY ONLY <1>1, <1>5, <4>1, <5>2
        <4>2. CASE at = "supported"
          <5>1. toStub = <<why, ctrlC, features>>
            BY <2>3, <4>2
          <5>2. Head(toStub) = why /\ Tail(toStub) = <<ctrlC, features>>
            BY ONLY <5>1, Tuples
          <5> QED BY ONLY <1>1, <1>5, <4>2, <5>2
        <4> QED BY <2>3, <4>1, <4>2
      <3>3. Silent' /\ ~Halted'
        BY <1>1, <3>1, <3>2 DEF Silent, Halted
      <3> QED BY <1>1, <2>3, <3>2, <3>3 DEF OnTime, ctrlC, features, why
    <2>4. CASE \/ at = "features" /\ toStub = <<ctrlC>>
               \/ at = "supported" /\ toStub = <<ctrlC, features>>
      <3>1. Silent
        BY <1>1, <1>6, <2>4 DEF OnTime
      <3>2. /\ toStub' = IF at = "features" THEN <<>> ELSE <<features>>
            /\ guest' = [run |-> "stopped", sig |-> "SIGINT"]
            /\ fromStub' = <<Sigint>>
        <4>1. fromStub = <<>> /\ Append(fromStub, Sigint) = <<Sigint>>
          BY <3>1, AppendOne DEF Silent
        <4>2. CASE at = "features"
          <5>1. toStub = <<ctrlC>>
            BY <2>4, <4>2
          <5>2. Head(toStub) = ctrlC /\ Tail(toStub) = <<>>
            BY ONLY <5>1, Tuples
          <5> QED BY ONLY <1>1, <1>5, <4>1, <4>2, <5>2
        <4>3. CASE at = "supported"
          <5>1. toStub = <<ctrlC, features>>
            BY <2>4, <4>3
          <5>2. Head(toStub) = ctrlC /\ Tail(toStub) = <<features>>
            BY ONLY <5>1, Tuples
          <5> QED BY ONLY <1>1, <1>5, <4>1, <4>3, <5>2
        <4> QED BY <2>4, <4>2, <4>3
      <3>3. Halted' /\ StopComes' /\ readQ' = <<>>
        BY <1>1, <3>1, <3>2 DEF Silent, Halted, StopComes
      <3>4. Stream' = IF at = "features" THEN <<Sigint>> ELSE <<Sigint, Features>>
        <4>1. Reply(features)' = Features
          BY <1>5 DEF Reply, Features
        <4>2. CASE at = "features"
          BY <3>2, <4>2 DEF Stream, Answers
        <4>3. CASE at # "features"
          <5>1. Queues' /\ fromStub' = <<Sigint>> /\ toStub' = <<features>>
            BY <1>2, <3>2, <4>3 DEF Queues
          <5>2. StreamParts'
            BY <5>1, StreamIs, PTL
          <5>3. /\ IsSeq(Stream') /\ Len(Stream') = 2
                /\ Stream'[1] = Sigint /\ Stream'[2] = Features
            BY <4>1, <5>1, <5>2 DEF StreamParts, IsSeq
          <5>4. Stream' = <<Sigint, Features>>
            <6> DEFINE u == <<Sigint, Features>>
            <6>1. IsSeq(u)
              BY ONLY Tuples
            <6>2. Len(u) = 2 /\ u[1] = Sigint /\ u[2] = Features
              OBVIOUS
            <6> HIDE DEF u
            <6>3. Len(Stream') = Len(u) /\ \A i \in 1..Len(Stream') : Stream'[i] = u[i]
              BY ONLY <5>3, <6>2
            <6>4. Stream' = u
              BY ONLY <5>3, <6>1, <6>3, SameSeq
            <6> QED BY <6>4 DEF u
          <5> QED BY <4>3, <5>4
        <4> QED BY <4>2, <4>3
      <3> QED BY <1>1, <2>4, <3>3, <3>4 DEF OnTime, Features, Sigint
    <2>5. CASE at = "raised"
      BY <1>1, <1>6, <2>5 DEF OnTime
    <2> QED BY <1>1, <1>6, <2>1, <2>2, <2>3, <2>4, <2>5 DEF OnTime
  <1> QED BY <1>1, <1>3, <1>4, <1>6 DEF Inv, ConnectionInv

LEMMA InvReader ==
    ASSUME Inv, Reader, NoEmptyLeft
    PROVE  Inv'
  <1> DEFINE r == Head(fromStub)
  <1>1. /\ UNCHANGED <<toStub, stubVars, guest, layout, wellFormed, at, stopped, userStopped, late>>
        /\ fromStub # <<>> /\ fromStub' = Tail(fromStub)
        /\ r.kind = "stop" => stopQ' = Append(stopQ, r.body) /\ readQ' = readQ
        /\ r.kind # "stop" => readQ' = Append(readQ, r.body) /\ stopQ' = stopQ
    BY DEF Reader, stubVars, flagVars
  <1> HIDE DEF r
  <1>2. Queues
    BY DEF Inv, Types, Queues
  <1>3. Queues' /\ Stream # <<>> /\ Head(Stream) = r /\ Stream' = Tail(Stream)
    BY <1>1, <1>2, StreamRead DEF r
  <1>4. Types'
    BY <1>1, <1>3 DEF Inv, Types, Queues
  <1>5. /\ Stream' = <<>> <=> Drying'
        /\ Halted' = Halted /\ ~Drying /\ ~Silent
        /\ Sigint.kind = "stop" /\ Sigint.body = "SIGINT"
        /\ StopTold.kind = "stop" /\ StopTold.body = guest.sig
        /\ Empty.kind = "data" /\ Empty.body = "empty"
        /\ Features.kind = "data" /\ Features.body = "features"
        /\ Data(Target).kind = "data" /\ Data(Target).body = Target
    <2>1. Stream' = <<>> <=> Drying'
      <3>1. EmptyIsDry'
        BY <1>3, StreamEmpty, PTL
      <3> QED BY <3>1 DEF EmptyIsDry
    <2>2. Halted' = Halted /\ ~Drying /\ ~Silent
      BY <1>1 DEF Halted, Drying, Silent
    <2>3. /\ Sigint.kind = "stop" /\ Sigint.body = "SIGINT"
          /\ StopTold.kind = "stop" /\ StopTold.body = guest.sig
          /\ Empty.kind = "data" /\ Empty.body = "empty"
          /\ Features.kind = "data" /\ Features.body = "features"
          /\ Data(Target).kind = "data" /\ Data(Target).body = Target
      BY DEF Sigint, StopTold, Empty, Features, Data, Stop
    <2> QED BY <2>1, <2>2, <2>3
  <1>6. /\ \A a : Stream = <<a>> => r = a /\ Stream' = <<>>
        /\ \A a, b : Stream = <<a, b>> => r = a /\ Stream' = <<b>>
        /\ \A a, b, c : Stream = <<a, b, c>> => r = a /\ Stream' = <<b, c>>
    <2>1. \A a : Stream = <<a>> => r = a /\ Stream' = <<>>
      BY ONLY <1>3, Tuples
    <2>2. ASSUME NEW a, NEW b, Stream = <<a, b>>
          PROVE  r = a /\ Stream' = <<b>>
      <3>1. Head(<<a, b>>) = a /\ Tail(<<a, b>>) = <<b>>
        BY ONLY Tuples
      <3> QED BY ONLY <1>3, <2>2, <3>1
    <2>3. ASSUME NEW a, NEW b, NEW c, Stream = <<a, b, c>>
          PROVE  r = a /\ Stream' = <<b, c>>
      <3>1. Head(<<a, b, c>>) = a /\ Tail(<<a, b, c>>) = <<b, c>>
        BY ONLY Tuples
      <3> QED BY ONLY <1>3, <2>3, <3>1
    <2> QED BY <2>1, <2>2, <2>3
  <1>7. /\ readQ = <<>> /\ r.kind # "stop" => readQ' = <<r.body>> /\ stopQ' = stopQ
        /\ \A a : readQ = <<a>> /\ r.kind # "stop" => readQ' = <<a, r.body>> /\ stopQ' = stopQ
        /\ stopQ = <<>> /\ r.kind = "stop" => stopQ' = <<r.body>> /\ readQ' = readQ
    <2>1. readQ = <<>> /\ r.kind # "stop" => readQ' = <<r.body>> /\ stopQ' = stopQ
      BY ONLY <1>1, AppendOne
    <2>2. ASSUME NEW a, readQ = <<a>>, r.kind # "stop"
          PROVE  readQ' = <<a, r.body>> /\ stopQ' = stopQ
      <3> DEFINE e == r.body
      <3> HIDE DEF e
      <3>1. Append(<<a>>, e) = <<a, e>>
        BY ONLY AppendTwo
      <3>2. readQ' = Append(<<a>>, e) /\ stopQ' = stopQ
        BY <1>1, <2>2 DEF e
      <3> QED BY <3>1, <3>2 DEF e
    <2>3. stopQ = <<>> /\ r.kind = "stop" => stopQ' = <<r.body>> /\ readQ' = readQ
      BY ONLY <1>1, AppendOne
    <2> QED BY <2>1, <2>2, <2>3
  <1>8. UNCHANGED <<guest, StopTold, Target, Data(Target), Features, Empty, Sigint>>
    BY <1>1 DEF StopTold, Target, Features, Empty, Sigint
  <1>9. ASSUME OnTime
        PROVE  OnTime'
    <2>1. CASE at = "clear"
      <3>1. /\ toStub = <<>> /\ fromStub \in Seq(Left)
            /\ readQ \in Seq(Bodies) /\ stopQ \in Seq(Bodies)
        BY <1>9, <2>1 DEF OnTime
      <3>2. r \in Left /\ fromStub' \in Seq(Left)
        BY <1>1, <3>1, HeadTailProperties DEF r
      <3>3. r.body \in Bodies
        BY <3>2 DEF Left
      <3>4. readQ' \in Seq(Bodies) /\ stopQ' \in Seq(Bodies)
        <4>1. r.body \in Bodies /\ readQ \in Seq(Bodies) /\ stopQ \in Seq(Bodies)
          BY <3>1, <3>3
        <4>2. \A s \in Seq(Bodies) : Append(s, r.body) \in Seq(Bodies)
          BY ONLY <4>1, AppendProperties
        <4> QED BY ONLY <1>1, <4>1, <4>2
      <3> QED BY <1>1, <2>1, <3>1, <3>2, <3>4 DEF OnTime
    <2>2. CASE at = "isStopped"
      <3>1. Halted /\ Stream = <<StopTold>> /\ stopQ = <<>> /\ readQ = <<>>
        BY <1>5, <1>9, <2>2 DEF OnTime
      <3>2. Stream' = <<>> /\ stopQ' = <<guest.sig>> /\ readQ' = <<>>
        BY <1>5, <1>6, <1>7, <3>1
      <3> QED BY <1>1, <1>5, <1>8, <2>2, <3>1, <3>2 DEF OnTime
    <2>3. CASE at = "features"
      <3>1. Halted /\ Stream = <<Sigint>> /\ StopComes /\ readQ = <<>>
        BY <1>5, <1>9, <2>3 DEF OnTime
      <3>2. Stream' = <<>> /\ stopQ' = <<"SIGINT">> /\ readQ' = <<>>
        BY <1>5, <1>6, <1>7, <3>1 DEF StopComes
      <3>3. StopRead'
        BY <1>1, <3>1, <3>2 DEF StopRead, StopComes
      <3> QED BY <1>1, <1>5, <1>8, <2>3, <3>1, <3>2, <3>3 DEF OnTime
    <2>4. CASE at = "supported"
      <3>1. CASE Halted /\ Stream = <<Sigint, Features>> /\ StopComes /\ readQ = <<>>
        <4>1. Stream' = <<Features>> /\ stopQ' = <<"SIGINT">> /\ readQ' = <<>>
          BY <1>5, <1>6, <1>7, <3>1 DEF StopComes
        <4>2. StopRead'
          BY <1>1, <3>1, <4>1 DEF StopRead, StopComes
        <4> QED BY <1>1, <1>5, <1>8, <2>4, <3>1, <4>1, <4>2 DEF OnTime
      <3>2. CASE Halted /\ Stream = <<Features>> /\ StopRead /\ readQ = <<>>
        <4>1. Stream' = <<>> /\ stopQ' = stopQ /\ readQ' = <<"features">>
          BY <1>5, <1>6, <1>7, <3>2
        <4>2. StopRead'
          BY <1>1, <3>2, <4>1 DEF StopRead
        <4> QED BY <1>1, <1>5, <1>8, <2>4, <3>2, <4>1, <4>2 DEF OnTime
      <3> QED BY <1>5, <1>9, <2>4, <3>1, <3>2 DEF OnTime
    <2>5. CASE at = "target"
      <3>1. Halted /\ Stream = <<Data(Target)>> /\ StopRead /\ readQ = <<>>
        BY <1>5, <1>9, <2>5 DEF OnTime
      <3>2. Stream' = <<>> /\ stopQ' = stopQ /\ readQ' = <<Target>>
        BY <1>5, <1>6, <1>7, <3>1
      <3>3. StopRead'
        BY <1>1, <3>1, <3>2 DEF StopRead
      <3> QED BY <1>1, <1>5, <1>8, <2>5, <3>1, <3>2, <3>3 DEF OnTime
    <2>6. CASE at = "contents"
      <3>1. Halted /\ Len(Stream) = 1 /\ Stream[1].kind = "data" /\ StopRead /\ readQ = <<>>
        BY <1>5, <1>9, <2>6 DEF OnTime
      <3>2. Stream' = <<>> /\ r = Stream[1]
        <4>1. IsSeq(Stream) /\ Stream = [i \in 1..Len(Stream) |-> Stream[i]]
          BY <1>2, StreamIs DEF StreamParts, IsSeq
        <4>2. Stream = <<Stream[1]>>
          BY <3>1, <4>1
        <4> QED BY <1>6, <4>2
      <3>3. stopQ' = stopQ /\ Len(readQ') = 1 /\ readQ' = <<readQ'[1]>>
        BY <1>7, <3>1, <3>2
      <3>4. StopRead'
        BY <1>1, <3>1, <3>3 DEF StopRead
      <3> QED BY <1>1, <1>5, <2>6, <3>1, <3>2, <3>3, <3>4 DEF OnTime
    <2>7. CASE at = "raised"
      BY <1>1, <1>9, <2>7 DEF OnTime
    <2>8. at \notin {"clearStops", "ask", "stop", "file", "ready"}
      BY <1>5, <1>9 DEF OnTime
    <2> QED BY <2>1, <2>2, <2>3, <2>4, <2>5, <2>6, <2>7, <2>8 DEF Inv, Types, Labels
  <1>10. ASSUME TooLate
         PROVE  TooLate'
    <2>1. at = "stop" => Stream' = <<>> /\ readQ' = <<>> /\ ~stopped
      <3> HAVE at = "stop"
      <3>1. Stream = <<StopTold>> /\ readQ = <<>> /\ ~stopped
        BY <1>3, <1>10 DEF TooLate
      <3>2. r = StopTold /\ Stream' = <<>>
        BY <1>6, <3>1
      <3> QED BY <1>1, <1>5, <3>1, <3>2
    <2>2. at = "features" =>
             \/ readQ' = <<>> /\ Stream' = <<Empty>>
             \/ readQ' = <<"empty">> /\ Stream' = <<>>
      BY <1>1, <1>3, <1>5, <1>6, <1>7, <1>10 DEF TooLate
    <2>3. at = "supported" =>
             \/ readQ' = <<>> /\ Stream' = <<Empty, Features>>
             \/ readQ' = <<"empty">> /\ Stream' = <<Features>>
             \/ readQ' = <<"empty", "features">> /\ Stream' = <<>>
      BY <1>1, <1>3, <1>5, <1>6, <1>7, <1>10 DEF TooLate
    <2>4. at = "target" =>
             \/ readQ' = <<"features">> /\ Stream' = <<Data(Target)>>
             \/ readQ' = <<"features", Target>> /\ Stream' = <<>>
      BY <1>1, <1>3, <1>5, <1>6, <1>7, <1>10 DEF TooLate
    <2> QED BY <1>1, <1>5, <1>8, <1>10, <2>1, <2>2, <2>3, <2>4 DEF TooLate
  <1> QED BY <1>1, <1>4, <1>9, <1>10 DEF Inv, ConnectionInv

----------------------------------------------------------------------------
(* The constructor.  Its own steps leave the stub, and what it has sent,   *)
(* alone.                                                                  *)

LEMMA OwnFacts ==
    ASSUME Inv, Own
    PROVE  /\ UNCHANGED <<fromStub, guest, layout, wellFormed, stubVars>>
           /\ Halted' = Halted /\ Queues
           /\ (Stream = <<>> <=> Drying)
           /\ toStub' = toStub => Queues' /\ Stream' = Stream /\ (Drying' <=> Drying)
  <1>1. Queues /\ UNCHANGED <<fromStub, guest, layout, wellFormed, stubVars>>
    BY DEF Own, stubVars, Inv, Types, Queues
  <1>2. toStub' = toStub => Queues' /\ Stream' = Stream /\ (Drying' <=> Drying)
    BY <1>1, StreamStays
  <1>3. Stream = <<>> <=> Drying
    BY <1>1, StreamEmpty DEF EmptyIsDry
  <1> QED BY <1>1, <1>2, <1>3 DEF Halted

LEMMA InvClear ==
    ASSUME Inv, Clear, NoEmptyLeft
    PROVE  Inv'
  <1>1. /\ at = "clear" /\ Own
        /\ UNCHANGED <<toStub, stopQ, stopped, userStopped>>
    BY DEF Clear, flagVars
  <1>2. /\ UNCHANGED <<fromStub, guest>>
        /\ Queues' /\ (Drying' <=> Drying)
    BY <1>1, OwnFacts
  <1>3. \/ TimesOut(readQ, "clearStops") /\ readQ' = readQ
        \/ /\ readQ # <<>> /\ readQ' = Tail(readQ) /\ late' = late
           /\ at' = IF Head(readQ) = "empty" THEN "clearStops" ELSE "clear"
    BY DEF Clear
  <1>4. ~TooLate /\ "isStopped" \notin late
    BY <1>1 DEF TooLate, Inv, Types
  <1>5. late' \in {late, late \cup {"clear"}} /\ at' \in {"clear", "clearStops"}
    BY <1>1, <1>3 DEF TimesOut
  <1>6. Types'
    BY <1>1, <1>2, <1>4, <1>5 DEF Inv, Types, Queues, Labels
  <1>7. ASSUME late' = {}
        PROVE  OnTime'
    <2>1. /\ toStub = <<>> /\ fromStub \in Seq(Left)
          /\ readQ \in Seq(Bodies) /\ stopQ \in Seq(Bodies)
      BY <1>1, <1>5, <1>7 DEF OnTime, Inv, ConnectionInv
    <2>2. CASE TimesOut(readQ, "clearStops") /\ readQ' = readQ
      <3>1. at' = "clearStops" /\ readQ = <<>> /\ ~UnderWay
        BY <1>1, <1>7, <2>2 DEF TimesOut
      <3>2. Drying
        BY <2>1, <3>1 DEF UnderWay, Drying
      <3> QED BY <1>1, <1>2, <2>1, <2>2, <3>1, <3>2 DEF OnTime
    <2>3. CASE /\ readQ # <<>> /\ readQ' = Tail(readQ) /\ late' = late
               /\ at' = IF Head(readQ) = "empty" THEN "clearStops" ELSE "clear"
      <3>1. Head(readQ) \in Bodies /\ Tail(readQ) \in Seq(Bodies)
        BY <2>1, <2>3, HeadTailProperties
      <3>2. at' = "clear"
        BY <2>3, <3>1 DEF NoEmptyLeft
      <3> QED BY <1>1, <1>2, <2>1, <2>3, <3>1, <3>2 DEF OnTime
    <2> QED BY <1>3, <2>2, <2>3
  <1>8. late' # {"isStopped"}
    BY <1>4, <1>5
  <1> QED BY <1>6, <1>7, <1>8 DEF Inv, ConnectionInv

LEMMA InvClearStops ==
    ASSUME Inv, ClearStops
    PROVE  Inv'
  <1>1. /\ at = "clearStops" /\ Own
        /\ UNCHANGED <<toStub, readQ, stopped, userStopped>>
    BY DEF ClearStops, flagVars
  <1>2. /\ UNCHANGED <<fromStub, guest>>
        /\ Queues' /\ (Drying' <=> Drying)
    BY <1>1, OwnFacts
  <1>3. \/ TimesOut(stopQ, "ask") /\ stopQ' = stopQ
        \/ stopQ # <<>> /\ stopQ' = Tail(stopQ) /\ UNCHANGED <<at, late>>
    BY DEF ClearStops
  <1>4. "isStopped" \notin late
    BY <1>1 DEF Inv, Types
  <1>5. late' \in {late, late \cup {"clearStops"}} /\ at' \in {"clearStops", "ask"}
    BY <1>1, <1>3 DEF TimesOut
  <1>6. Types'
    BY <1>1, <1>2, <1>4, <1>5 DEF Inv, Types, Queues, Labels
  <1>7. ASSUME late' = {}
        PROVE  OnTime'
    <2>1. Drying /\ readQ = <<>> /\ stopQ \in Seq(Bodies)
      BY <1>1, <1>5, <1>7 DEF OnTime, Inv, ConnectionInv
    <2>2. CASE TimesOut(stopQ, "ask") /\ stopQ' = stopQ
      BY <1>1, <1>2, <2>1, <2>2 DEF TimesOut, OnTime
    <2>3. CASE stopQ # <<>> /\ stopQ' = Tail(stopQ) /\ UNCHANGED <<at, late>>
      <3>1. Tail(stopQ) \in Seq(Bodies)
        BY <2>1, <2>3, HeadTailProperties
      <3> QED BY <1>1, <1>2, <2>1, <2>3, <3>1 DEF OnTime
    <2> QED BY <1>3, <2>2, <2>3
  <1>8. late' # {"isStopped"}
    BY <1>4, <1>5
  <1> QED BY <1>6, <1>7, <1>8 DEF Inv, ConnectionInv

(* A request of the constructor is answered by a stopped guest's stub.     *)
LEMMA SentFacts ==
    ASSUME Inv, Own, NEW m, toStub' = Append(toStub, m)
    PROVE  /\ UNCHANGED <<fromStub, guest, layout, wellFormed>>
           /\ Halted' = Halted /\ Queues' /\ Stream' = Append(Stream, Reply(m))
           /\ (Stream = <<>> <=> Drying)
  <1>1. /\ UNCHANGED <<fromStub, guest, layout, wellFormed, stubVars>>
        /\ Halted' = Halted /\ Queues /\ (Stream = <<>> <=> Drying)
    BY OwnFacts
  <1> QED BY <1>1, StreamSent

LEMMA Replies ==
    /\ Reply(why) = StopTold /\ Reply(ctrlC) = Empty /\ Reply(features) = Features
    /\ Reply(Ask("target")) = Data(Target)
    /\ \A file, offset : Reply(Request("file", file, offset)) = Data(Piece(file, offset))
  <1> USE DEF Reply, Ask, Request
  <1>1. Reply(why) = StopTold
    BY DEF why, StopTold
  <1>2. Reply(ctrlC) = Empty
    BY DEF ctrlC, Empty
  <1>3. Reply(features) = Features
    BY DEF features, Features
  <1>4. Reply(Ask("target")) = Data(Target)
    BY DEF Target
  <1>5. \A file, offset : Reply(Request("file", file, offset)) = Data(Piece(file, offset))
    OBVIOUS
  <1> QED BY <1>1, <1>2, <1>3, <1>4, <1>5

LEMMA InvAskWhy ==
    ASSUME Inv, AskWhy
    PROVE  Inv'
  <1>1. /\ at = "ask" /\ at' = "isStopped" /\ Own /\ toStub' = Append(toStub, why)
        /\ UNCHANGED <<stopQ, readQ, stopped, userStopped, late>>
    BY DEF AskWhy, Sends, flagVars, why
  <1>2. /\ UNCHANGED <<fromStub, guest>> /\ Queues' /\ Halted' = Halted
        /\ Stream' = Append(Stream, StopTold) /\ (Stream = <<>> <=> Drying)
    BY <1>1, SentFacts, Replies
  <1>3. Types' /\ "isStopped" \notin late
    BY <1>1, <1>2 DEF Inv, Types, Queues, Labels
  <1>4. ASSUME OnTime
        PROVE  OnTime'
    <2>1. Drying /\ readQ = <<>> /\ stopQ = <<>> /\ Stream = <<>> /\ toStub = <<>>
      BY <1>1, <1>2, <1>4 DEF OnTime, Drying
    <2>2. Stream' = <<StopTold>> /\ toStub' = <<why>>
      BY <1>1, <1>2, <2>1, AppendOne
    <2>3. ~Halted => Silent'
      BY <1>1, <1>2, <2>1 DEF Silent, Drying
    <2>4. StopTold' = StopTold /\ why' = why
      BY <1>2 DEF StopTold, why
    <2> QED BY <1>1, <1>2, <2>1, <2>2, <2>3, <2>4 DEF OnTime
  <1> QED BY <1>1, <1>3, <1>4 DEF Inv, ConnectionInv

LEMMA InvIsStopped ==
    ASSUME Inv, IsStopped
    PROVE  Inv'
  <1>1. /\ at = "isStopped" /\ Own
        /\ UNCHANGED <<toStub, readQ, userStopped>>
    BY DEF IsStopped
  <1>2. /\ UNCHANGED <<fromStub, guest>> /\ Halted' = Halted
        /\ Queues' /\ Stream' = Stream /\ (Drying' <=> Drying) /\ (Stream = <<>> <=> Drying)
    BY <1>1, OwnFacts
  <1>3. \/ TimesOut(stopQ, "stop") /\ stopped' = FALSE /\ stopQ' = stopQ
        \/ /\ stopQ # <<>> /\ stopQ' = Tail(stopQ) /\ stopped' = TRUE /\ at' = "stop"
           /\ late' = late
    BY DEF IsStopped
  <1>4. "isStopped" \notin late
    BY <1>1 DEF Inv, Types
  <1>5. late' \in {late, late \cup {"isStopped"}} /\ at' = "stop" /\ stopped' \in BOOLEAN
    BY <1>1, <1>3 DEF TimesOut
  <1>6. Types'
    BY <1>1, <1>2, <1>4, <1>5 DEF Inv, Types, Queues, Labels
  <1>7. ASSUME late = {}
        PROVE  IF Halted THEN /\ readQ = <<>>
                              /\ \/ Stream = <<StopTold>> /\ stopQ = <<>> /\ ~Drying
                                 \/ Drying /\ stopQ = <<guest.sig>>
                         ELSE Silent /\ toStub \in {<<why>>, <<>>}
    <2>1. OnTime /\ <<StopTold>> # <<>>
      BY <1>7 DEF Inv, ConnectionInv
    <2> QED BY <1>1, <1>2, <2>1 DEF OnTime
  <1>8. StopTold' = StopTold /\ why' = why /\ (Silent /\ stopQ' = stopQ => Silent')
    BY <1>1, <1>2 DEF StopTold, why, Silent
  <1>9. CASE TimesOut(stopQ, "stop") /\ stopped' = FALSE /\ stopQ' = stopQ
    <2>1. stopQ = <<>> /\ late' = IF UnderWay THEN late \cup {at} ELSE late
      BY <1>9 DEF TimesOut
    <2>2. ASSUME late' = {}
          PROVE  OnTime'
      <3>1. late = {} /\ ~UnderWay
        BY <1>1, <2>1, <2>2
      <3>2. ~Halted
        <4>1. Halted => Drying
          BY <3>1 DEF UnderWay, Halted, Drying
        <4>2. <<guest.sig>> # <<>>
          OBVIOUS
        <4> QED BY <1>7, <2>1, <3>1, <4>1, <4>2
      <3> QED BY <1>1, <1>2, <1>5, <1>7, <1>8, <1>9, <3>1, <3>2 DEF OnTime
    <2>3. ASSUME late' = {"isStopped"}
          PROVE  TooLate'
      <3>1. late = {} /\ UnderWay
        BY <1>1, <1>4, <2>1, <2>3
      <3>2. Halted
        BY <1>7, <3>1 DEF UnderWay, Halted, Silent
      <3>3. readQ = <<>> /\ Stream = <<StopTold>>
        <4>1. <<guest.sig>> # <<>>
          OBVIOUS
        <4> QED BY <1>7, <2>1, <3>1, <3>2, <4>1
      <3> QED BY <1>1, <1>2, <1>5, <1>8, <1>9, <3>2, <3>3 DEF TooLate
    <2> QED BY <1>6, <2>2, <2>3 DEF Inv, ConnectionInv
  <1>10. CASE /\ stopQ # <<>> /\ stopQ' = Tail(stopQ) /\ stopped' = TRUE /\ at' = "stop"
              /\ late' = late
    <2>1. ASSUME late' = {}
          PROVE  OnTime'
      <3>1. Halted /\ Drying /\ stopQ = <<guest.sig>> /\ readQ = <<>>
        BY <1>7, <1>10, <2>1 DEF Silent
      <3>2. stopQ' = <<>>
        BY <1>10, <3>1, Tuples
      <3> QED BY <1>1, <1>2, <1>10, <3>1, <3>2 DEF OnTime
    <2> QED BY <1>4, <1>6, <1>10, <2>1 DEF Inv, ConnectionInv
  <1> QED BY <1>3, <1>9, <1>10

LEMMA InvStopGuest ==
    ASSUME Inv, StopGuest
    PROVE  Inv'
  <1>1. /\ at = "stop" /\ at' = "features" /\ Own /\ userStopped' = TRUE /\ stopped' = TRUE
        /\ UNCHANGED <<stopQ, readQ, late>>
        /\ stopped => toStub' = toStub
        /\ ~stopped => toStub' = Append(toStub, ctrlC)
    BY DEF StopGuest, Sends, ctrlC, Inv, Types
  <1>2. /\ UNCHANGED <<fromStub, guest>> /\ Halted' = Halted /\ Queues'
        /\ (Stream = <<>> <=> Drying)
        /\ stopped => Stream' = Stream /\ (Drying' <=> Drying)
        /\ ~stopped => Stream' = Append(Stream, Empty)
    <2>1. CASE stopped
      BY <1>1, <2>1, OwnFacts
    <2>2. CASE ~stopped
      BY <1>1, <2>2, SentFacts, Replies
    <2> QED BY <2>1, <2>2
  <1>3. Types'
    BY <1>1, <1>2 DEF Inv, Types, Queues, Labels
  <1>4. UNCHANGED <<StopTold, Empty, why, ctrlC>>
    BY <1>2 DEF StopTold, Empty, why, ctrlC
  <1>5. ASSUME OnTime
        PROVE  OnTime'
    <2>1. CASE Halted
      <3>1. stopped /\ Drying /\ readQ = <<>> /\ stopQ = <<>>
        BY <1>1, <1>5, <2>1 DEF OnTime
      <3>2. StopRead'
        BY <1>1, <3>1 DEF StopRead
      <3> QED BY <1>1, <1>2, <2>1, <3>1, <3>2 DEF OnTime
    <2>2. CASE ~Halted
      <3>1. ~stopped /\ Silent /\ toStub \in {<<why>>, <<>>}
        BY <1>1, <1>5, <2>2 DEF OnTime
      <3>2. toStub' \in {<<why, ctrlC>>, <<ctrlC>>}
        <4>1. CASE toStub = <<why>>
          BY <1>1, <3>1, <4>1, AppendTwo
        <4>2. CASE toStub = <<>>
          BY <1>1, <3>1, <4>2, AppendOne
        <4> QED BY <3>1, <4>1, <4>2
      <3>3. Silent'
        BY <1>1, <1>2, <3>1 DEF Silent
      <3> QED BY <1>1, <1>2, <1>4, <2>2, <3>2, <3>3 DEF OnTime
    <2> QED BY <2>1, <2>2
  <1>6. ASSUME TooLate
        PROVE  TooLate'
    <2>1. Halted /\ ~stopped /\ readQ = <<>> /\ Stream \in {<<StopTold>>, <<>>}
      BY <1>1, <1>6 DEF TooLate
    <2>2. Stream' \in {<<StopTold, Empty>>, <<Empty>>}
      <3>1. CASE Stream = <<StopTold>>
        BY <1>2, <2>1, <3>1, AppendTwo
      <3>2. CASE Stream = <<>>
        BY <1>2, <2>1, <3>2, AppendOne
      <3> QED BY <2>1, <3>1, <3>2
    <2> QED BY <1>1, <1>2, <1>4, <2>1, <2>2 DEF TooLate
  <1> QED BY <1>1, <1>3, <1>5, <1>6 DEF Inv, ConnectionInv

LEMMA InvAskFeatures ==
    ASSUME Inv, AskFeatures
    PROVE  Inv'
  <1>1. /\ at = "features" /\ at' = "supported" /\ Own /\ toStub' = Append(toStub, features)
        /\ UNCHANGED <<stopQ, readQ, stopped, userStopped, late>>
    BY DEF AskFeatures, Sends, flagVars, features
  <1>2. /\ UNCHANGED <<fromStub, guest>> /\ Halted' = Halted /\ Queues'
        /\ Stream' = Append(Stream, Features) /\ (Stream = <<>> <=> Drying)
    BY <1>1, SentFacts, Replies
  <1>3. Types'
    BY <1>1, <1>2 DEF Inv, Types, Queues, Labels
  <1>4. /\ UNCHANGED <<StopTold, Empty, Features, Sigint, why, ctrlC, features>>
        /\ StopRead' = StopRead /\ StopComes' = StopComes
    BY <1>1, <1>2
       DEF StopTold, Empty, Features, Sigint, why, ctrlC, features, StopRead, StopComes
  <1>5. /\ Stream = <<>> => Stream' = <<Features>>
        /\ Stream = <<Sigint>> => Stream' = <<Sigint, Features>>
        /\ Stream = <<StopTold, Empty>> => Stream' = <<StopTold, Empty, Features>>
        /\ Stream = <<Empty>> => Stream' = <<Empty, Features>>
    BY <1>2, AppendOne, AppendTwo, AppendThree
  <1>6. ASSUME OnTime
        PROVE  OnTime'
    <2>1. CASE Halted
      <3>1. /\ readQ = <<>>
            /\ \/ Stream = <<>> /\ StopRead
               \/ Stream = <<Sigint>> /\ StopComes
        BY <1>1, <1>2, <1>6, <2>1 DEF OnTime
      <3> QED BY <1>1, <1>2, <1>4, <1>5, <2>1, <3>1 DEF OnTime
    <2>2. CASE ~Halted
      <3>1. Silent /\ toStub \in {<<why, ctrlC>>, <<ctrlC>>}
        BY <1>1, <1>6, <2>2 DEF OnTime
      <3>2. toStub' \in {<<why, ctrlC, features>>, <<ctrlC, features>>}
        <4>1. CASE toStub = <<why, ctrlC>>
          BY <1>1, <4>1, AppendThree
        <4>2. CASE toStub = <<ctrlC>>
          BY <1>1, <4>2, AppendTwo
        <4> QED BY <3>1, <4>1, <4>2
      <3>3. Silent'
        BY <1>1, <1>2, <3>1 DEF Silent
      <3> QED BY <1>1, <1>2, <1>4, <2>2, <3>2, <3>3 DEF OnTime
    <2> QED BY <2>1, <2>2
  <1>7. ASSUME TooLate
        PROVE  TooLate'
    <2>1. /\ Halted
          /\ \/ readQ = <<>> /\ Stream \in {<<StopTold, Empty>>, <<Empty>>}
             \/ readQ = <<"empty">> /\ Stream = <<>>
      BY <1>1, <1>7 DEF TooLate
    <2> QED BY <1>1, <1>2, <1>4, <1>5, <2>1 DEF TooLate
  <1> QED BY <1>1, <1>3, <1>6, <1>7 DEF Inv, ConnectionInv

LEMMA InvSupported ==
    ASSUME Inv, Supported
    PROVE  Inv'
  <1>1. /\ at = "supported" /\ at' = "target" /\ Own /\ toStub' = Append(toStub, Ask("target"))
        /\ readQ # <<>> /\ readQ' = Tail(readQ)
        /\ UNCHANGED <<stopQ, stopped, userStopped, late>>
    BY DEF Supported, Sends, Receives, flagVars
  <1>2. /\ UNCHANGED <<fromStub, guest, wellFormed>> /\ Halted' = Halted /\ Queues'
        /\ Stream' = Append(Stream, Data(Target)) /\ (Stream = <<>> <=> Drying)
    BY <1>1, SentFacts, Replies
  <1>3. Types'
    BY <1>1, <1>2 DEF Inv, Types, Queues, Labels
  <1>4. UNCHANGED <<Features, Target, Data(Target)>> /\ StopRead' = StopRead
    BY <1>1, <1>2 DEF Features, Target, StopRead
  <1>5. /\ Stream = <<>> => Stream' = <<Data(Target)>>
        /\ Stream = <<Features>> => Stream' = <<Features, Data(Target)>>
    BY <1>2, AppendOne, AppendTwo
  <1>6. \A a, b : /\ readQ = <<a>> => readQ' = <<>>
                  /\ readQ = <<a, b>> => readQ' = <<b>>
    <2>1. \A a, b : Tail(<<a>>) = <<>> /\ Tail(<<a, b>>) = <<b>>
      BY ONLY Tuples
    <2> QED BY ONLY <1>1, <2>1
  <1>7. ASSUME OnTime
        PROVE  OnTime'
    <2>1. Halted /\ Stream = <<>> /\ readQ = <<"features">> /\ StopRead
      BY <1>1, <1>2, <1>7 DEF OnTime, Silent
    <2> QED BY <1>1, <1>2, <1>4, <1>5, <1>6, <2>1 DEF OnTime
  <1>8. ASSUME TooLate
        PROVE  TooLate'
    <2>1. /\ Halted
          /\ \/ readQ = <<"empty">> /\ Stream = <<Features>>
             \/ readQ = <<"empty", "features">> /\ Stream = <<>>
      BY <1>1, <1>8 DEF TooLate
    <2> QED BY <1>1, <1>2, <1>4, <1>5, <1>6, <2>1 DEF TooLate
  <1> QED BY <1>1, <1>3, <1>7, <1>8 DEF Inv, ConnectionInv

LEMMA InvParseTarget ==
    ASSUME Inv, ParseTarget
    PROVE  Inv'
  <1>1. /\ at = "target" /\ Own /\ readQ # <<>> /\ readQ' = Tail(readQ)
        /\ UNCHANGED <<toStub, stopQ, stopped, userStopped, late>>
        /\ at' = IF Head(readQ) = "target" THEN "file" ELSE "raised"
    BY DEF ParseTarget, Receives, flagVars
  <1>2. /\ UNCHANGED <<fromStub, guest, wellFormed>> /\ Halted' = Halted /\ Queues'
        /\ Stream' = Stream /\ (Drying' <=> Drying) /\ (Stream = <<>> <=> Drying)
    BY <1>1, OwnFacts
  <1>3. Types'
    BY <1>1, <1>2 DEF Inv, Types, Queues, Labels
  <1>4. StopRead' = StopRead
    BY <1>1, <1>2 DEF StopRead
  <1>5. \A a, b : /\ readQ = <<a>> => Head(readQ) = a /\ readQ' = <<>>
                  /\ readQ = <<a, b>> => Head(readQ) = a
    <2>1. \A a, b : Head(<<a>>) = a /\ Tail(<<a>>) = <<>> /\ Head(<<a, b>>) = a
      BY ONLY Tuples
    <2> QED BY ONLY <1>1, <2>1
  <1>6. ASSUME OnTime
        PROVE  OnTime'
    <2>1. Halted /\ Drying /\ readQ = <<Target>> /\ StopRead
      BY <1>1, <1>6 DEF OnTime
    <2>2. Head(readQ) = Target /\ readQ' = <<>>
      BY <1>5, <2>1
    <2>3. CASE wellFormed
      <3>1. at' = "file"
        BY <1>1, <2>2, <2>3 DEF Target
      <3> QED BY <1>2, <1>4, <2>1, <2>2, <3>1 DEF OnTime
    <2>4. CASE ~wellFormed
      <3>1. at' = "raised"
        BY <1>1, <2>2, <2>4 DEF Target
      <3> QED BY <1>2, <2>4, <3>1 DEF OnTime
    <2> QED BY <2>3, <2>4
  <1>7. ASSUME TooLate
        PROVE  TooLate'
    <2>1. Halted /\ (readQ = <<"features">> \/ readQ = <<"features", Target>>)
      BY <1>1, <1>7 DEF TooLate
    <2>2. Head(readQ) = "features"
      BY <1>5, <2>1
    <2>3. at' = "raised"
      BY <1>1, <2>2
    <2> QED BY <1>2, <2>1, <2>3 DEF TooLate
  <1> QED BY <1>1, <1>3, <1>6, <1>7 DEF Inv, ConnectionInv

LEMMA InvRequestFile ==
    ASSUME Inv, RequestFile
    PROVE  Inv'
  <1> DEFINE offset == Len(Last(files))
             m == Request("file", Reading, offset)
  <1>1. /\ at = "file" /\ at' = "contents" /\ Own /\ toStub' = Append(toStub, m)
        /\ UNCHANGED <<stopQ, readQ, stopped, userStopped, late>>
    BY DEF RequestFile, Sends, flagVars
  <1>2. Reply(m).kind = "data"
    BY Replies DEF Data
  <1> HIDE DEF m
  <1>3. /\ UNCHANGED <<fromStub, guest>> /\ Halted' = Halted /\ Queues'
        /\ Stream' = Append(Stream, Reply(m)) /\ (Stream = <<>> <=> Drying)
    BY <1>1, SentFacts
  <1>4. Types'
    BY <1>1, <1>3 DEF Inv, Types, Queues, Labels
  <1>5. StopRead' = StopRead
    BY <1>1, <1>3 DEF StopRead
  <1>6. ASSUME OnTime
        PROVE  OnTime'
    <2>1. Halted /\ StopRead /\ Stream = <<>> /\ readQ = <<>>
      BY <1>1, <1>3, <1>6 DEF OnTime
    <2>2. Stream' = <<Reply(m)>>
      BY <1>3, <2>1, AppendOne
    <2>3. Len(Stream') = 1 /\ Stream'[1].kind = "data"
      BY <1>2, <2>2
    <2> QED BY <1>1, <1>3, <1>5, <2>1, <2>3 DEF OnTime
  <1>7. ~TooLate
    BY <1>1 DEF TooLate
  <1> QED BY <1>1, <1>4, <1>6, <1>7 DEF Inv, ConnectionInv

LEMMA InvContents ==
    ASSUME Inv, Contents
    PROVE  Inv'
  <1>1. /\ at = "contents" /\ at' = "file" /\ Own /\ readQ # <<>> /\ readQ' = Tail(readQ)
        /\ UNCHANGED <<toStub, stopQ, stopped, userStopped, late>>
    BY DEF Contents, Receives, flagVars
  <1>2. /\ UNCHANGED <<fromStub, guest>> /\ Halted' = Halted /\ Queues'
        /\ Stream' = Stream /\ (Drying' <=> Drying)
    BY <1>1, OwnFacts
  <1>3. Types'
    BY <1>1, <1>2 DEF Inv, Types, Queues, Labels
  <1>4. ASSUME OnTime
        PROVE  OnTime'
    <2>1. Halted /\ StopRead /\ Drying /\ readQ = <<readQ[1]>>
      BY <1>1, <1>4 DEF OnTime
    <2>2. readQ' = <<>>
      BY <1>1, <2>1, Tuples
    <2>3. StopRead'
      BY <1>1, <1>2, <2>1 DEF StopRead
    <2> QED BY <1>1, <1>2, <2>1, <2>2, <2>3 DEF OnTime
  <1>5. ~TooLate
    BY <1>1 DEF TooLate
  <1> QED BY <1>1, <1>3, <1>4, <1>5 DEF Inv, ConnectionInv

LEMMA InvFileDone ==
    ASSUME Inv, NextFile \/ Finish
    PROVE  Inv'
  <1>1. /\ at = "file" /\ at' \in {"file", "ready"} /\ Own
        /\ UNCHANGED <<toStub, stopQ, readQ, stopped, userStopped, late>>
    BY DEF NextFile, Finish, flagVars
  <1>2. /\ UNCHANGED <<fromStub, guest>> /\ Halted' = Halted /\ Queues'
        /\ (Drying' <=> Drying)
    BY <1>1, OwnFacts
  <1>3. Types'
    BY <1>1, <1>2 DEF Inv, Types, Queues, Labels
  <1>4. ASSUME OnTime
        PROVE  OnTime'
    <2>1. Halted /\ StopRead /\ Drying /\ readQ = <<>>
      BY <1>1, <1>4 DEF OnTime
    <2>2. StopRead'
      BY <1>1, <1>2, <2>1 DEF StopRead
    <2> QED BY <1>1, <1>2, <2>1, <2>2 DEF OnTime
  <1>5. ~TooLate
    BY <1>1 DEF TooLate
  <1> QED BY <1>1, <1>3, <1>4, <1>5 DEF Inv, ConnectionInv

----------------------------------------------------------------------------
(* The theorems *)

LEMMA InvInit ==
    ASSUME Init, NoEmptyLeft
    PROVE  Inv
  <1>1. fromStub \in Seq(Left)
    BY DEF Init, NoEmptyLeft
  <1>2. IsSeq(toStub) /\ IsSeq(fromStub)
    BY <1>1, SeqIs, Tuples DEF Init
  <1>3. Types
    BY <1>2 DEF Init, Types, Labels
  <1>4. OnTime
    BY <1>1, EmptySeq DEF Init, OnTime
  <1> QED BY <1>3, <1>4 DEF Inv, ConnectionInv, Init

LEMMA InvStutter ==
    ASSUME Inv, UNCHANGED vars
    PROVE  Inv'
  <1>1. /\ UNCHANGED <<toStub, fromStub, guest, layout, wellFormed, stubVars, stopQ, readQ>>
        /\ UNCHANGED <<at, stopped, userStopped, late>>
    BY DEF vars, stubVars, flagVars
  <1>2. Queues' /\ Stream' = Stream /\ (Drying' <=> Drying)
    BY <1>1, StreamStays DEF Inv, Types, Queues
  <1>3. Types'
    BY <1>1, <1>2 DEF Inv, Types, Queues
  <1>4. OnTime => OnTime'
    BY <1>1, <1>2 DEF OnTime, Halted, Silent, StopRead, StopComes, StopTold, Target
  <1>5. TooLate => TooLate'
    BY <1>1, <1>2 DEF TooLate, Halted, StopTold, Target
  <1> QED BY <1>1, <1>3, <1>4, <1>5 DEF Inv, ConnectionInv

LEMMA InvAlways ==
    ASSUME NoEmptyLeft
    PROVE  Spec => []Inv
  <1>1. Init => Inv
    BY InvInit
  <1>2. Inv /\ [Next]_vars => Inv'
    <2> SUFFICES ASSUME Inv, [Next]_vars
                 PROVE  Inv'
      OBVIOUS
    <2>1. CASE Stub
      BY <2>1, InvStubAnswers, InvStubRuns DEF Stub
    <2>2. CASE Reader
      BY <2>2, InvReader
    <2>3. CASE Constructor
      BY <2>3, InvClear, InvClearStops, InvAskWhy, InvIsStopped, InvStopGuest, InvAskFeatures,
         InvSupported, InvParseTarget, InvRequestFile, InvContents, InvFileDone
         DEF Constructor
    <2>4. CASE UNCHANGED vars
      BY <2>4, InvStutter
    <2> QED BY <2>1, <2>2, <2>3, <2>4 DEF Next
  <1> QED BY <1>1, <1>2, PTL DEF Spec

(* The constructor fails only on a target.xml that cannot be parsed, or    *)
(* when an answer came after its wait had ended (rsp_target.py:112-124),   *)
(* whatever the register files and whatever non-empty packets were left.   *)
THEOREM RaisesOnlyForCause ==
    ASSUME NoEmptyLeft
    PROVE  Spec => []RaisesForCause
  <1>1. Inv => RaisesForCause
    BY DEF Inv, ConnectionInv, OnTime, RaisesForCause
  <1> QED BY <1>1, InvAlways, PTL

(* What a constructor that returns leaves is a state Monk starts in        *)
(* (rsp_target.py:93-128): the guest is stopped and known to be, no reply  *)
(* is left over, and nobody holds a lock.                                  *)
THEOREM StartupEndsInMonk ==
    ASSUME NoEmptyLeft
    PROVE  Spec => []StartsMonk
  <1>1. ASSUME Inv, at = "ready", Drained
        PROVE  Program!Init
    <2>1. late = {}
      <3>1. late = {} \/ late = {"isStopped"}
        BY <1>1 DEF Drained
      <3> QED BY <1>1, <3>1 DEF Inv, ConnectionInv, TooLate
    <2>2. Halted /\ StopRead /\ Drying /\ readQ = <<>> /\ stopped = TRUE /\ userStopped = TRUE
      BY <1>1, <2>1 DEF Inv, ConnectionInv, OnTime, Types
    <2>3. Types
      BY <1>1 DEF Inv
    <2>4. /\ Program!Threads = {"main", "event", "cbMain", "cbEvent"}
          /\ Program!Callers = {"main", "cbMain", "cbEvent"}
          /\ Program!Dispatchers = {"main", "event"}
      BY DEF Program!Threads, Program!Callers, Program!Dispatchers, Program!Main, Program!Event,
             Program!Cbs
    <2>5. Program!StubInit
      <3>1. guest.sig \in Program!Signals /\ guest.run = "stopped"
        BY <2>2, <2>3 DEF Types, Halted, Program!Signals
      <3> QED BY <2>2, <3>1 DEF Program!StubInit, Drying
    <2>6. Program!HooksInit
      BY <2>4 DEF Program!HooksInit
    <2>7. stopQ \in {<<>>, <<"SIGINT">>} /\ (stopQ # <<>> => guest.sig = "SIGINT")
      BY <2>2 DEF StopRead
    <2>8. [t \in {"main", "event", "cbMain", "cbEvent"} |->
              CASE t = "main" -> "user" [] t = "event" -> "loop" [] OTHER -> "off"]
          = [t \in Program!Threads |->
                CASE t = Program!Event -> "loop" [] t \in Program!Cbs -> "off" [] OTHER -> "user"]
      BY ONLY <2>4 DEF Program!Event, Program!Cbs
    <2>9. [t \in {"main", "event", "cbMain", "cbEvent"} |->
              [op |-> "none", addr |-> "zero", back |-> "user"]]
          = [t \in Program!Threads |-> Program!NoRequest]
      BY ONLY <2>4 DEF Program!NoRequest
    <2>10. /\ [t \in {"main", "event", "cbMain", "cbEvent"} |-> "zero"]
              = [t \in Program!Threads |-> "zero"]
           /\ [t \in {"main", "cbMain", "cbEvent"} |-> 0] = [t \in Program!Callers |-> 0]
      BY ONLY <2>4
    <2> QED BY <2>2, <2>5, <2>6, <2>7, <2>8, <2>9, <2>10 DEF Program!Init, Program!NoThread
  <1>2. Inv => StartsMonk
    BY <1>1 DEF StartsMonk
  <1> QED BY <1>2, InvAlways, PTL
=============================================================================

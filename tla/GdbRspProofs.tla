---------------------------- MODULE GdbRspProofs ----------------------------
(***************************************************************************)
(* Proofs about GdbRsp for any number of requests and packets, any end of  *)
(* the connection and any interleaving of the two threads, the program and *)
(* the peer.                                                               *)
(***************************************************************************)
EXTENDS GdbRsp, MinLemmas, SequenceTheorems, TLAPS

----------------------------------------------------------------------------
(* Types and the lock *)

TokensOf(n) == {Plus} \cup [part : {"head", "tail"}, id : 1..n]
Tokens == TokensOf(Len(packets))

(* A head is never the last token, and a tail comes next. *)
InPairs(s) == \A p \in Heads(s) : p + 1 \in Tails(s)

(* ... in what the peer writes; in a piece of it a head may be the last.   *)
Types ==
    /\ TypeOK
    /\ buf \in Seq(Tokens) /\ wire \in Seq(Tokens) /\ out \in Seq(Tokens)
    /\ InPairs(out)

(* _sock_lock is held from its acquisition to its release, and the writer  *)
(* has a packet from get() to send().                                      *)
LockInv ==
    /\ sockLock = "reader" <=> reader = "read"
    /\ sockLock = "writer" <=> writer = "send"
    /\ packet = "none" <=> writer \notin {"lock", "send"}

(* Tokens of the packets so far are tokens of the packets with one more,   *)
(* and tokens are what TypeOK says they are.                               *)
LEMMA TokensGrow ==
    ASSUME NEW n \in Nat, NEW s \in Seq(TokensOf(n))
    PROVE  /\ s \in Seq(TokensOf(n + 1))
           /\ s \in Seq([part : Parts, id : 0..n])
  <1>1. TokensOf(n) \subseteq TokensOf(n + 1)
    BY DEF TokensOf
  <1>2. TokensOf(n) \subseteq [part : Parts, id : 0..n]
    BY DEF TokensOf, Plus, Token, Parts
  <1>3. s \in Seq(TokensOf(n + 1))
    BY <1>1, SeqMonotonic
  <1>4. s \in Seq([part : Parts, id : 0..n])
    BY <1>2, SeqMonotonic
  <1> QED BY <1>3, <1>4

(* Another packet behind the tokens o, and maybe an acknowledgement first  *)
MaybeAck(w) == w = <<>> \/ w = <<Plus>>
Extended(o, w, n) == o \o w \o Wrapped(n + 1)

LEMMA AppendPacket ==
    ASSUME NEW n \in Nat, NEW o \in Seq(TokensOf(n)), NEW w, MaybeAck(w)
    PROVE  LET r == Extended(o, w, n)
           IN  /\ r \in Seq(TokensOf(n + 1)) /\ Len(r) = Len(o) + Len(w) + 2
               /\ \A p \in 1..Len(o) : r[p] = o[p]
               /\ r[Len(r) - 1] = Token("head", n + 1)
               /\ Heads(r) = Heads(o) \cup {Len(r) - 1}
               /\ Tails(r) = Tails(o) \cup {Len(r)}
  <1> DEFINE T == TokensOf(n + 1)
             r == Extended(o, w, n)
             u == o \o w
             v == Wrapped(n + 1)
  <1>1. w \in Seq(T) /\ Len(w) \in {0, 1} /\ \A p \in 1..Len(w) : w[p] = Plus
    <2>1. Plus \in T
      BY DEF TokensOf
    <2> HIDE DEF T
    <2>2. CASE w = <<>>
      BY <2>2
    <2>3. CASE w = <<Plus>>
      BY <2>1, <2>3
    <2> QED BY <2>2, <2>3 DEF MaybeAck
  <1>2. o \in Seq(T) /\ Len(o) \in Nat /\ \A p \in 1..Len(o) : o[p] \in TokensOf(n)
    BY TokensGrow, LenProperties, ElementOfSeq
  <1>3. /\ v \in Seq(T) /\ Len(v) = 2
        /\ v[1] = Token("head", n + 1) /\ v[2] = Token("tail", n + 1)
    BY DEF Wrapped, Token, TokensOf
  <1> HIDE DEF T, v
  <1>4. /\ u \in Seq(T) /\ Len(u) = Len(o) + Len(w)
        /\ \A p \in 1..Len(u) : u[p] = IF p <= Len(o) THEN o[p] ELSE w[p - Len(o)]
    BY <1>1, <1>2, ConcatProperties
  <1>5. r = u \o v
    BY DEF v, Extended
  <1> HIDE DEF r, u
  <1>6. /\ r \in Seq(T) /\ Len(r) = Len(u) + 2 /\ DOMAIN r = 1..(Len(u) + 2)
        /\ \A p \in 1..(Len(u) + 2) : r[p] = IF p <= Len(u) THEN u[p] ELSE v[p - Len(u)]
    <2>1. /\ u \o v \in Seq(T) /\ Len(u \o v) = Len(u) + 2
          /\ \A p \in 1..(Len(u) + 2) : (u \o v)[p] = IF p <= Len(u) THEN u[p] ELSE v[p - Len(u)]
      <3>1. u \in Seq(T) /\ v \in Seq(T) /\ Len(v) = 2
        BY <1>3, <1>4
      <3>2. /\ u \o v \in Seq(T) /\ Len(u \o v) = Len(u) + Len(v)
            /\ \A p \in 1..(Len(u) + Len(v)) :
                  (u \o v)[p] = IF p <= Len(u) THEN u[p] ELSE v[p - Len(u)]
        BY ONLY <3>1, ConcatProperties
      <3> QED BY <3>1, <3>2
    <2> QED BY <1>5, <2>1, LenProperties
  <1>7. \A p \in 1..Len(o) : r[p] = o[p]
    BY <1>1, <1>2, <1>4, <1>6
  <1>8. ASSUME NEW p \in 1..Len(u), p > Len(o)
        PROVE  r[p] = Plus
    <2>1. Len(u) \in Nat /\ p \in 1..(Len(u) + 2) /\ p <= Len(u)
      BY <1>1, <1>2, <1>4
    <2>2. p - Len(o) \in 1..Len(w) /\ ~(p <= Len(o))
      BY <1>1, <1>2, <1>4, <1>8
    <2> QED BY <1>1, <1>4, <1>6, <2>1, <2>2
  <1>9. r[Len(u) + 1] = v[1] /\ r[Len(u) + 2] = v[2]
    <2>1. Len(u) \in Nat
      BY <1>1, <1>2, <1>4
    <2>2. /\ Len(u) + 1 \in 1..(Len(u) + 2) /\ ~(Len(u) + 1 <= Len(u)) /\ Len(u) + 1 - Len(u) = 1
          /\ Len(u) + 2 \in 1..(Len(u) + 2) /\ ~(Len(u) + 2 <= Len(u)) /\ Len(u) + 2 - Len(u) = 2
      BY <2>1
    <2> QED BY <1>6, <2>2
  <1>10. \A p \in 1..(Len(u) + 2) :
            p <= Len(o) \/ (p > Len(o) /\ p <= Len(u)) \/ p = Len(u) + 1 \/ p = Len(u) + 2
    <2>1. Len(o) \in Nat /\ Len(u) \in Nat
      BY <1>1, <1>2, <1>4
    <2> QED BY ONLY <2>1
  <1>11. DOMAIN o = 1..Len(o) /\ Len(o) <= Len(u) /\ Len(u) \in Nat
    BY <1>1, <1>2, <1>4
  <1>12. /\ Heads(r) = Heads(o) \cup {Len(u) + 1}
         /\ Tails(r) = Tails(o) \cup {Len(u) + 2}
    <2>1. Plus.part = "ack" /\ v[1].part = "head" /\ v[2].part = "tail"
      BY <1>3 DEF Plus, Token
    <2> QED BY <1>6, <1>7, <1>8, <1>9, <1>10, <1>11, <2>1 DEF Heads, Tails
  <1>13. Len(r) - 1 = Len(u) + 1 /\ Len(r) = Len(u) + 2 /\ Len(r) = Len(o) + Len(w) + 2
    BY <1>1, <1>2, <1>4, <1>6
  <1>14. r[Len(r) - 1] = Token("head", n + 1)
    BY <1>3, <1>9, <1>13
  <1> QED BY <1>6, <1>7, <1>12, <1>13, <1>14 DEF T, r

(* The tokens after the first k *)
Rest(s, k) == SubSeq(s, k + 1, Len(s))

LEMMA Cut ==
    ASSUME NEW T, NEW s \in Seq(T), NEW k \in 0..Len(s)
    PROVE  LET r == Rest(s, k)
           IN  /\ r \in Seq(T) /\ Len(r) = Len(s) - k
               /\ \A p \in 1..Len(r) : r[p] = s[p + k]
               /\ \A p \in Nat \ {0} : /\ p \in Heads(r) <=> p + k \in Heads(s)
                                       /\ p \in Tails(r) <=> p + k \in Tails(s)
  <1> DEFINE r == Rest(s, k)
  <1>1. Len(s) \in Nat /\ DOMAIN s = 1..Len(s) /\ \A p \in 1..Len(s) : s[p] \in T
    BY LenProperties, ElementOfSeq
  <1>2. \A p \in (k + 1)..Len(s) : s[p] \in T
    BY <1>1
  <1>3. /\ r \in Seq(T)
        /\ Len(r) = IF k + 1 <= Len(s) THEN Len(s) - (k + 1) + 1 ELSE 0
        /\ \A p \in 1..(Len(s) - (k + 1) + 1) : r[p] = s[k + 1 + p - 1]
    BY <1>1, <1>2, SubSeqProperties DEF Rest
  <1> HIDE DEF r
  <1>4. Len(r) = Len(s) - k
    <2>1. Len(r) = IF k + 1 <= Len(s) THEN Len(s) - (k + 1) + 1 ELSE 0
      BY <1>3
    <2>2. Len(s) \in Nat /\ k \in Nat /\ k <= Len(s)
      BY <1>1
    <2> QED BY <2>1, <2>2
  <1>5. ASSUME NEW p \in 1..Len(r)
        PROVE  r[p] = s[p + k]
    <2>1. Len(s) \in Nat /\ k \in Nat /\ p \in Nat
      BY <1>1, <1>4
    <2>2. p \in 1..(Len(s) - (k + 1) + 1) /\ k + 1 + p - 1 = p + k
      BY <1>4, <2>1
    <2> QED BY <1>3, <2>2
  <1>6. DOMAIN r = 1..Len(r)
    BY <1>3, LenProperties
  <1>7. \A p \in Nat \ {0} : p \in DOMAIN r <=> p + k \in DOMAIN s
    BY <1>1, <1>4, <1>6
  <1>8. \A p \in DOMAIN r : r[p] = s[p + k]
    BY <1>5, <1>6
  <1> QED BY <1>3, <1>4, <1>5, <1>6, <1>7, <1>8 DEF Heads, Tails, r

LEMMA TypesInit == Init => Types /\ LockInv
  <1> SUFFICES ASSUME Init
               PROVE  Types /\ LockInv
    OBVIOUS
  <1>1. TypeOK
    <2>1. \A S : <<>> \in Seq(S)
      OBVIOUS
    <2>2. {buf, wire, out} = {<<>>} /\ 0 \in 0..MaxRequests
      BY BoundsAssumption DEF Init
    <2> QED BY <2>1, <2>2 DEF Init, TypeOK
  <1>2. InPairs(out)
    BY DEF Init, InPairs, Heads
  <1> QED BY <1>1, <1>2 DEF Init, Types, LockInv

(* What a step that leaves the packets and their tokens alone has to show  *)
LEMMA TypesKept ==
    ASSUME Types, UNCHANGED <<packets, stopQ, readQ, buf, wire, out, habit>>,
           shutdown' \in BOOLEAN, sockLock' \in {"free", "reader", "writer"},
           sendQ' \in Seq({"request", "ack"}), toPeer' \in Seq({"request", "ack"}),
           reader' \in {"top", "select", "lock", "read", "parse", "done"},
           writer' \in {"top", "get", "lock", "send", "done"},
           packet' \in {"none", "request", "ack"},
           user' \in {"open", "joinWriter", "joinReader", "closed"},
           asked' \in 0..MaxRequests, unacked' \in BOOLEAN,
           peer' \in {"open", "closed", "reset"}
    PROVE  Types'
  BY DEF Types, TypeOK, Tokens, InPairs, Heads, Tails

(* _get_first_packet_indices finds what it looks for. *)
LEMMA FirstIn ==
    ASSUME NEW S, NEW b \in Seq(S), HasPacket(b)
    PROVE  /\ FirstHead(b) \in Heads(b) /\ \A p \in Heads(b) : FirstHead(b) <= p
           /\ Min(TailsAfter(b)) \in TailsAfter(b)
  <1>1. Heads(b) \in SUBSET Nat /\ Heads(b) # {}
    BY DEF Heads, HasPacket
  <1>2. TailsAfter(b) \in SUBSET Nat /\ TailsAfter(b) # {}
    BY DEF TailsAfter, Tails, HasPacket
  <1> QED BY <1>1, <1>2, MinIn DEF FirstHead

(* What the peer writes at once: a tail comes with its head, if both do.   *)
LEMMA PieceOf ==
    ASSUME NEW T, NEW o \in Seq(T), InPairs(o), o # <<>>, NEW n \in 1..2,
           n = 2 => Head(o).part = "head"
    PROVE  /\ n \in 0..Len(o) /\ SubSeq(o, 1, n) \in Seq(T)
           /\ Rest(o, n) \in Seq(T) /\ InPairs(Rest(o, n))
  <1>1. Len(o) \in Nat /\ Len(o) >= 1 /\ DOMAIN o = 1..Len(o) /\ Head(o) = o[1]
    OBVIOUS
  <1>2. n = 2 => 1 \in Heads(o)
    BY <1>1 DEF Heads
  <1>3. n \in 0..Len(o)
    BY <1>1, <1>2 DEF InPairs, Tails
  <1>4. \A p \in 1..n : o[p] \in T
    BY <1>1, <1>3
  <1>5. SubSeq(o, 1, n) \in Seq(T)
    BY <1>4, SubSeqProperties
  <1> DEFINE r == Rest(o, n)
  <1>6. /\ r \in Seq(T)
        /\ \A p \in Nat \ {0} : /\ p \in Heads(r) <=> p + n \in Heads(o)
                                /\ p \in Tails(r) <=> p + n \in Tails(o)
    BY <1>3, Cut
  <1> HIDE DEF r
  <1>7. ASSUME NEW p \in Heads(r)
        PROVE  p + 1 \in Tails(r)
    <2>1. p \in Nat \ {0} /\ n \in Nat
      BY <1>6 DEF Heads
    <2>2. p + n \in Heads(o)
      BY <1>6, <1>7, <2>1
    <2>4. (p + n) + 1 \in Tails(o)
      BY <2>2 DEF InPairs
    <2>3. (p + 1) + n = (p + n) + 1 /\ p + 1 \in Nat \ {0}
      BY <2>1
    <2> QED BY <1>6, <2>3, <2>4
  <1> QED BY <1>3, <1>5, <1>6, <1>7 DEF r, InPairs

LEMMA TypesAppended ==
    ASSUME Types, NEW w, MaybeAck(w), NEW kind \in {"stop", "data"},
           packets' = Append(packets, kind), out' = out \o w \o Wrapped(NextId),
           UNCHANGED <<connVars, queueVars, readerVars, writerVars, userVars, wire, habit,
                       unacked, peer>>,
           toPeer' \in Seq({"request", "ack"})
    PROVE  Types'
  <1> DEFINE n == Len(packets)
  <1>1. /\ n \in Nat /\ Len(packets') = n + 1 /\ packets' \in Seq({"stop", "data"})
        /\ NextId = n + 1 /\ DOMAIN packets = 1..n /\ DOMAIN packets' = 1..(n + 1)
    BY AppendProperties DEF Types, TypeOK, NextId
  <1> HIDE DEF n
  <1>2. /\ out' \in Seq(TokensOf(n + 1)) /\ Len(out') = Len(out) + Len(w) + 2
        /\ Heads(out') = Heads(out) \cup {Len(out') - 1}
        /\ Tails(out') = Tails(out) \cup {Len(out')}
    <2>1. out' = Extended(out, w, n)
      BY <1>1 DEF Extended
    <2>2. n \in Nat /\ out \in Seq(TokensOf(n))
      BY <1>1 DEF Types, Tokens, n
    <2> QED BY ONLY <2>1, <2>2, MaybeAck(w), AppendPacket
  <1>3. buf' \in Seq(TokensOf(n + 1)) /\ wire' \in Seq(TokensOf(n + 1))
    BY <1>1, TokensGrow DEF Types, Tokens, n, readerVars
  <1>4. {buf', wire', out'} \subseteq Seq([part : Parts, id : 0..Len(packets')])
    <2>1. \A s \in {buf', wire', out'} : s \in Seq(TokensOf(n + 1))
      BY <1>2, <1>3
    <2>2. n + 1 \in Nat
      BY <1>1
    <2> QED BY <1>1, <2>1, <2>2, TokensGrow
  <1>5. stopQ' \in Seq(1..(n + 1)) /\ readQ' \in Seq(1..(n + 1))
    <2>1. 1..n \subseteq 1..(n + 1)
      BY <1>1
    <2> QED BY <1>1, <2>1, SeqMonotonic DEF Types, TypeOK, queueVars
  <1>6. \A p \in Heads(out') : p + 1 \in Tails(out')
    <2>1. Len(out') \in Nat
      BY <1>2
    <2> QED BY <1>2, <2>1 DEF Types, InPairs
  <1>7. TypeOK'
    BY <1>1, <1>4, <1>5 DEF Types, TypeOK, connVars, readerVars, writerVars, userVars
  <1> QED BY <1>1, <1>2, <1>3, <1>6, <1>7 DEF Types, Tokens, InPairs, Heads, Tails

LEMMA TypesNext == Types /\ LockInv /\ [Next]_vars => Types' /\ LockInv'
  <1> SUFFICES ASSUME Types, LockInv, [Next]_vars
               PROVE  Types' /\ LockInv'
    OBVIOUS
  <1> USE DEF connVars, queueVars, readerVars, writerVars, userVars, peerVars
  <1>0. /\ shutdown \in BOOLEAN /\ sockLock \in {"free", "reader", "writer"}
        /\ sendQ \in Seq({"request", "ack"}) /\ toPeer \in Seq({"request", "ack"})
        /\ reader \in {"top", "select", "lock", "read", "parse", "done"}
        /\ writer \in {"top", "get", "lock", "send", "done"}
        /\ packet \in {"none", "request", "ack"}
        /\ user \in {"open", "joinWriter", "joinReader", "closed"}
        /\ asked \in 0..MaxRequests /\ unacked \in BOOLEAN
        /\ peer \in {"open", "closed", "reset"}
    BY DEF Types, TypeOK
  <1>1. CASE UserSend \/ UserClose \/ UserJoin
    <2>1. asked' \in 0..MaxRequests
      BY <1>0, <1>1, BoundsAssumption DEF UserSend, UserClose, UserJoin
    <2>2. CASE UserSend
      BY <1>0, <2>1, <2>2, TypesKept DEF LockInv, UserSend
    <2>3. CASE UserClose
      BY <1>0, <2>1, <2>3, TypesKept DEF LockInv, UserClose
    <2>4. CASE UserJoin
      BY <1>0, <2>1, <2>4, TypesKept DEF LockInv, UserJoin
    <2> QED BY <1>1, <2>2, <2>3, <2>4
  <1>2. CASE Writer
    <2> USE DEF WriterUnchanged
    <2>1. CASE WriterTop \/ WriterLock
      BY <1>0, <2>1, TypesKept DEF LockInv, WriterTop, WriterLock
    <2>2. CASE WriterGet
      <3>1. CASE sendQ = <<>>
        BY <1>0, <2>2, <3>1, TypesKept DEF LockInv, WriterGet
      <3>2. CASE sendQ # <<>>
        <4>1. Head(sendQ) \in {"request", "ack"} /\ Tail(sendQ) \in Seq({"request", "ack"})
          BY <1>0, <3>2
        <4> QED BY <1>0, <2>2, <3>2, <4>1, TypesKept DEF LockInv, WriterGet
      <3> QED BY <3>1, <3>2
    <2>3. CASE WriterSend
      <3>1. toPeer' \in Seq({"request", "ack"})
        <4>1. packet \in {"request", "ack"}
          BY <1>0, <2>3 DEF WriterSend, LockInv
        <4> QED BY <1>0, <2>3, <4>1 DEF WriterSend
      <3> QED BY <1>0, <2>3, <3>1, TypesKept DEF LockInv, WriterSend
    <2>4. CASE WriterReset
      BY <1>0, <2>4, TypesKept DEF LockInv, WriterReset, PeerGone
    <2> QED BY <1>2, <2>1, <2>2, <2>3, <2>4 DEF Writer
  <1>3. CASE Reader
    <2> USE DEF ReaderUnchanged
    <2>1. CASE ReaderTop \/ ReaderSelect \/ ReaderLock \/ ReaderReset \/ ReaderRelease
      BY <1>0, <2>1, TypesKept
         DEF LockInv, ReaderTop, ReaderSelect, ReaderLock, ReaderReset, ReaderRelease, PeerGone
    <2>2. CASE ReaderRecv
      <3>1. /\ buf' \in Seq(Tokens) /\ wire' \in Seq(Tokens) /\ out' \in Seq(Tokens)
            /\ packets' = packets
        BY <2>2, ConcatProperties DEF ReaderRecv, Types
      <3>2. {buf', wire', out'} \subseteq Seq([part : Parts, id : 0..Len(packets)])
        <4>1. Len(packets) \in Nat
          BY DEF Types, TypeOK
        <4>2. \A s \in {buf', wire', out'} : s \in Seq(TokensOf(Len(packets)))
          BY <3>1 DEF Types, Tokens
        <4> QED BY <4>1, <4>2, TokensGrow
      <3>3. Types'
        BY <1>0, <2>2, <3>1, <3>2 DEF Types, TypeOK, ReaderRecv, Tokens, InPairs, Heads, Tails
      <3>4. LockInv'
        BY <2>2 DEF LockInv, ReaderRecv
      <3> QED BY <3>3, <3>4
    <2>3. CASE ReaderDrop
      <3>1. buf' = <<>> /\ UNCHANGED <<packets, wire, out>>
        BY <2>3 DEF ReaderDrop
      <3>2. Types'
        BY <1>0, <2>3, <3>1 DEF Types, TypeOK, ReaderDrop, Tokens, InPairs, Heads, Tails
      <3>4. LockInv'
        BY <2>3 DEF LockInv, ReaderDrop
      <3> QED BY <3>2, <3>4
    <2>4. CASE ReaderDeliver
      <3> DEFINE i == FirstHead(buf)
                 j == Min(TailsAfter(buf))
      <3>1. i \in Heads(buf) /\ j \in TailsAfter(buf)
        BY <2>4, FirstIn DEF ReaderDeliver, Types
      <3>2. i \in 1..Len(buf) /\ buf[i] \in Tokens /\ buf[i].part = "head" /\ j \in 1..Len(buf)
        BY <3>1, ElementOfSeq DEF Heads, TailsAfter, Tails, Types
      <3> HIDE DEF i, j
      <3>3. buf[i].id \in DOMAIN packets
        BY <3>2 DEF Tokens, TokensOf, Plus, Token, Types, TypeOK
      <3>4. UNCHANGED <<packets, wire, out>> /\ buf' = SubSeq(buf, j, Len(buf)) /\ Queue(buf[i].id)
        BY <2>4 DEF ReaderDeliver, i, j
      <3>5. buf' \in Seq(Tokens)
        <4>1. \A k \in j..Len(buf) : buf[k] \in Tokens
          BY <3>2, ElementOfSeq DEF Types
        <4> QED BY <3>2, <3>4, <4>1, SubSeqProperties DEF Types
      <3>6. stopQ' \in Seq(DOMAIN packets) /\ readQ' \in Seq(DOMAIN packets)
        <4>1. stopQ \in Seq(DOMAIN packets) /\ readQ \in Seq(DOMAIN packets)
          BY DEF Types, TypeOK
        <4>2. \A q \in Seq(DOMAIN packets) : Append(q, buf[i].id) \in Seq(DOMAIN packets)
          BY <3>3, AppendProperties
        <4> QED BY <3>4, <4>1, <4>2 DEF Queue
      <3>7. {buf', wire', out'} \subseteq Seq([part : Parts, id : 0..Len(packets)])
        <4>1. Len(packets) \in Nat
          BY DEF Types, TypeOK
        <4>2. \A s \in {buf', wire', out'} : s \in Seq(TokensOf(Len(packets)))
          BY <3>4, <3>5 DEF Types, Tokens
        <4> QED BY <4>1, <4>2, TokensGrow
      <3>8. Types'
        <4>1. TypeOK'
          BY <1>0, <2>4, <3>4, <3>6, <3>7 DEF Types, TypeOK, ReaderDeliver
        <4> QED BY <3>4, <3>5, <4>1 DEF Types, Tokens, InPairs, Heads, Tails
      <3> QED BY <2>4, <3>8 DEF LockInv, ReaderDeliver
    <2> QED BY <1>3, <2>1, <2>2, <2>3, <2>4 DEF Reader
  <1>4. CASE Peer
    <2> USE DEF PeerUnchanged
    <2>1. CASE PeerHangsUp
      BY <1>0, <2>1, TypesKept, PeerAssumption DEF LockInv, PeerHangsUp
    <2>2. CASE PeerWrites
      <3>1. PICK n \in 1..2 : /\ wire' = wire \o SubSeq(out, 1, n)
                              /\ out' = SubSeq(out, n + 1, Len(out))
                              /\ n = 2 => Head(out).part = "head"
        <4> DEFINE m == IF habit = "whole" /\ Head(out).part = "head" THEN 2 ELSE 1
        <4>1. wire' = wire \o SubSeq(out, 1, m) /\ out' = SubSeq(out, m + 1, Len(out))
          BY ONLY <2>2 DEF PeerWrites
        <4>2. m \in 1..2 /\ (m = 2 => Head(out).part = "head")
          OBVIOUS
        <4> HIDE DEF m
        <4> QED BY ONLY <4>1, <4>2
      <3>2. UNCHANGED <<packets, buf>> /\ out # <<>> /\ unacked' \in BOOLEAN
        BY <2>2 DEF PeerWrites
      <3>3. /\ SubSeq(out, 1, n) \in Seq(Tokens) /\ n \in 0..Len(out)
            /\ wire' \in Seq(Tokens) /\ out' \in Seq(Tokens) /\ InPairs(out')
        <4>1. out \in Seq(Tokens) /\ wire \in Seq(Tokens) /\ InPairs(out)
          BY DEF Types
        <4>2. /\ SubSeq(out, 1, n) \in Seq(Tokens) /\ n \in 0..Len(out)
              /\ Rest(out, n) \in Seq(Tokens) /\ InPairs(Rest(out, n))
          BY <3>1, <3>2, <4>1, PieceOf
        <4>3. out' = Rest(out, n)
          BY <3>1 DEF Rest
        <4>4. InPairs(out')
          BY <4>2, <4>3 DEF InPairs, Heads, Tails
        <4> QED BY <3>1, <4>1, <4>2, <4>3, <4>4, ConcatProperties
      <3>4. {buf', wire', out'} \subseteq Seq([part : Parts, id : 0..Len(packets)])
        <4>1. Len(packets) \in Nat
          BY DEF Types, TypeOK
        <4>2. \A s \in {buf', wire', out'} : s \in Seq(TokensOf(Len(packets)))
          BY <3>2, <3>3 DEF Types, Tokens
        <4> QED BY <4>1, <4>2, TokensGrow
      <3>5. Types'
        <4>1. TypeOK'
          BY <1>0, <2>2, <3>2, <3>4 DEF Types, TypeOK, PeerWrites
        <4>2. buf' \in Seq(Tokens') /\ wire' \in Seq(Tokens') /\ out' \in Seq(Tokens')
          BY <3>2, <3>3 DEF Types, Tokens
        <4> QED BY <3>3, <4>1, <4>2 DEF Types, InPairs, Heads, Tails
      <3> QED BY <2>2, <3>5 DEF LockInv, PeerWrites
    <2>3. CASE PeerReads
      <3>1. Head(toPeer) \in {"request", "ack"} /\ Tail(toPeer) \in Seq({"request", "ack"})
        BY <1>0, <2>3 DEF PeerReads
      <3>2. CASE Head(toPeer) = "ack"
        BY <1>0, <2>3, <3>1, <3>2, TypesKept DEF LockInv, PeerReads
      <3>3. CASE Head(toPeer) # "ack"
        <4>1. Types'
          BY <1>0, <2>3, <3>1, <3>3, TypesAppended DEF PeerReads, MaybeAck
        <4> QED BY <2>3, <3>3, <4>1 DEF LockInv, PeerReads
      <3> QED BY <3>2, <3>3
    <2>4. CASE PeerStops
      <3>1. out \o <<>> = out
        BY ConcatEmptySeq DEF Types
      <3>2. Types'
        BY <1>0, <2>4, <3>1, TypesAppended DEF PeerStops, MaybeAck
      <3> QED BY <2>4, <3>2 DEF LockInv, PeerStops
    <2> QED BY <1>4, <2>1, <2>2, <2>3, <2>4 DEF Peer
  <1>5. CASE UNCHANGED vars
    BY <1>0, <1>5, TypesKept DEF vars, LockInv
  <1> QED BY <1>1, <1>2, <1>3, <1>4, <1>5 DEF Next

(* The attributes have the values their code gives them (gdbrsp.py), for   *)
(* any peer, also one whose packets come in pieces.                        *)
THEOREM TypeCorrect == Spec => []TypeOK
  <1>1. Types /\ LockInv => TypeOK
    BY DEF Types
  <1> QED BY <1>1, TypesInit, TypesNext, PTL DEF Spec

(* The reader and the writer never use the socket at the same time         *)
(* (gdbrsp.py:137-159, _sock_lock).                                        *)
THEOREM OneOnSocket == Spec => []~(reader = "read" /\ writer = "send")
  <1>1. Types /\ LockInv => ~(reader = "read" /\ writer = "send")
    BY DEF LockInv
  <1> QED BY <1>1, TypesInit, TypesNext, PTL DEF Spec

----------------------------------------------------------------------------
(* What is under way.  The steps only move the boundaries of buf, wire and *)
(* out within Transit, put a packet behind it, or take tokens off its      *)
(* front.                                                                  *)

(* A tail that the reader has not got comes behind its head.               *)
Preceded == \A q \in Tails(Transit) : q > Len(buf) => q - 1 \in Heads(Transit)

(* The packets that have arrived are the first ones; the heads under way   *)
(* are those of the others, in order.                                      *)
Arrived == Len(stopQ) + Len(readQ)
FirstArrived ==
    /\ Arrived <= Len(packets)
    /\ \A i \in DOMAIN packets : Delivered(i) <=> i <= Arrived
    /\ \A i \in DOMAIN packets : UnderWay(i) <=> i > Arrived
    /\ \A p, q \in Heads(Transit) : p < q => Transit[p].id < Transit[q].id

Sorted ==
    /\ \A i \in ToSet(stopQ) : packets[i] = "stop"
    /\ \A i \in ToSet(readQ) : packets[i] = "data"
    /\ IsRising(stopQ) /\ IsRising(readQ)

Order == InPairs(Transit) /\ Preceded /\ FirstArrived /\ Sorted

LEMMA ToSetType ==
    ASSUME NEW T, NEW s \in Seq(T)
    PROVE  ToSet(s) \subseteq T
  BY ElementOfSeq, LenProperties DEF ToSet

(* A packet behind o is behind what o is the end of. *)
LEMMA ExtendedJoined ==
    ASSUME NEW n \in Nat, NEW a \in Seq(TokensOf(n)), NEW o \in Seq(TokensOf(n)),
           NEW w, MaybeAck(w)
    PROVE  LET s == a \o o
               r == a \o Extended(o, w, n)
           IN  /\ Len(r) = Len(s) + Len(w) + 2
               /\ \A p \in 1..Len(s) : r[p] = s[p]
               /\ r[Len(r) - 1] = Token("head", n + 1)
               /\ Heads(r) = Heads(s) \cup {Len(r) - 1}
               /\ Tails(r) = Tails(s) \cup {Len(r)}
  <1> DEFINE X == TokensOf(n + 1)
             e == Extended(o, w, n)
             s == a \o o
             r == a \o e
  <1>1. /\ e \in Seq(X) /\ Len(e) = Len(o) + Len(w) + 2
        /\ \A p \in 1..Len(o) : e[p] = o[p]
        /\ e[Len(e) - 1] = Token("head", n + 1)
        /\ Heads(e) = Heads(o) \cup {Len(e) - 1}
        /\ Tails(e) = Tails(o) \cup {Len(e)}
    BY AppendPacket
  <1>2. a \in Seq(X) /\ o \in Seq(X)
    BY TokensGrow
  <1> HIDE DEF X, e
  <1>3. /\ s \in Seq(X) /\ Len(s) = Len(a) + Len(o)
        /\ \A p \in 1..(Len(a) + Len(o)) : s[p] = IF p <= Len(a) THEN a[p] ELSE o[p - Len(a)]
    BY <1>2, ConcatProperties
  <1>4. /\ r \in Seq(X) /\ Len(r) = Len(a) + Len(e)
        /\ \A p \in 1..(Len(a) + Len(e)) : r[p] = IF p <= Len(a) THEN a[p] ELSE e[p - Len(a)]
    BY <1>1, <1>2, ConcatProperties
  <1> HIDE DEF s, r
  <1>5. /\ Len(a) \in Nat /\ Len(o) \in Nat /\ Len(e) \in Nat /\ Len(w) \in {0, 1}
        /\ DOMAIN s = 1..Len(s) /\ DOMAIN r = 1..Len(r) /\ DOMAIN o = 1..Len(o)
        /\ DOMAIN e = 1..Len(e)
    <2>1. Len(w) \in {0, 1}
      BY DEF MaybeAck
    <2> QED BY <1>1, <1>3, <1>4, <2>1, LenProperties
  <1>6. Len(r) = Len(s) + Len(w) + 2 /\ Len(r) - 1 = Len(a) + (Len(e) - 1)
    BY <1>1, <1>3, <1>4, <1>5
  <1>7. ASSUME NEW p \in 1..Len(s)
        PROVE  r[p] = s[p]
    <2>1. p \in 1..(Len(a) + Len(o)) /\ p \in 1..(Len(a) + Len(e))
      BY <1>1, <1>3, <1>5
    <2>2. CASE p <= Len(a)
      BY <1>3, <1>4, <2>1, <2>2
    <2>3. CASE ~(p <= Len(a))
      <3>1. p - Len(a) \in 1..Len(o)
        BY <1>5, <2>1, <2>3
      <3> QED BY <1>1, <1>3, <1>4, <2>1, <2>3, <3>1
    <2> QED BY <2>2, <2>3
  <1>8. ASSUME NEW p \in 1..Len(r), p > Len(s)
        PROVE  p - Len(a) \in 1..Len(e) /\ p - Len(a) > Len(o) /\ r[p] = e[p - Len(a)]
    <2>1. p \in 1..(Len(a) + Len(e)) /\ ~(p <= Len(a)) /\ p - Len(a) > Len(o)
      BY <1>3, <1>4, <1>5, <1>8
    <2>2. p - Len(a) \in 1..Len(e)
      BY <1>5, <2>1
    <2> QED BY <1>4, <2>1, <2>2
  <1>9. \A p \in 1..Len(e) : p > Len(o) =>
            /\ e[p].part = "head" <=> p = Len(e) - 1
            /\ e[p].part = "tail" <=> p = Len(e)
    <2>1. Heads(o) \subseteq 1..Len(o) /\ Tails(o) \subseteq 1..Len(o)
      BY <1>5 DEF Heads, Tails
    <2>2. \A p \in 1..Len(e) : /\ p \in Heads(e) <=> e[p].part = "head"
                               /\ p \in Tails(e) <=> e[p].part = "tail"
      BY <1>5 DEF Heads, Tails
    <2> QED BY <1>1, <1>5, <2>1, <2>2
  <1>10. r[Len(r) - 1] = Token("head", n + 1)
    <2>1. Len(r) - 1 \in 1..Len(r) /\ Len(r) - 1 > Len(s) /\ Len(r) - 1 - Len(a) = Len(e) - 1
      BY <1>1, <1>3, <1>4, <1>5
    <2> QED BY <1>1, <1>8, <2>1
  <1>11. \A p \in 1..Len(r) : p > Len(s) =>
            /\ r[p].part = "head" <=> p = Len(r) - 1
            /\ r[p].part = "tail" <=> p = Len(r)
    <2> SUFFICES ASSUME NEW p \in 1..Len(r), p > Len(s)
                 PROVE  /\ r[p].part = "head" <=> p = Len(r) - 1
                        /\ r[p].part = "tail" <=> p = Len(r)
      OBVIOUS
    <2>1. p - Len(a) \in 1..Len(e) /\ p - Len(a) > Len(o) /\ r[p] = e[p - Len(a)]
      BY <1>8
    <2>2. (p - Len(a) = Len(e) - 1 <=> p = Len(r) - 1) /\ (p - Len(a) = Len(e) <=> p = Len(r))
      <3>1. Len(a) \in Nat /\ Len(e) \in Nat /\ Len(r) = Len(a) + Len(e) /\ p \in Nat
        BY <1>4, <1>5
      <3> QED BY ONLY <3>1
    <2> QED BY <1>9, <2>1, <2>2
  <1>12. \A p \in 1..Len(r) : p \in 1..Len(s) \/ p > Len(s)
    BY <1>3, <1>5
  <1>13. /\ 1..Len(s) \subseteq 1..Len(r) /\ Len(r) \in 1..Len(r) /\ Len(r) - 1 \in 1..Len(r)
         /\ Len(r) > Len(s) /\ Len(r) - 1 > Len(s)
    BY <1>3, <1>5, <1>6
  <1>14. Heads(r) = Heads(s) \cup {Len(r) - 1} /\ Tails(r) = Tails(s) \cup {Len(r)}
    <2>1. Heads(r) = Heads(s) \cup {Len(r) - 1}
      BY ONLY <1>5, <1>7, <1>11, <1>12, <1>13 DEF Heads
    <2>2. Tails(r) = Tails(s) \cup {Len(r)}
      BY ONLY <1>5, <1>7, <1>11, <1>12, <1>13 DEF Tails
    <2> QED BY <2>1, <2>2
  <1> QED BY <1>6, <1>7, <1>10, <1>14 DEF s, r, e

(* Taking k tokens off a takes them off what a is the beginning of. *)
LEMMA CutJoined ==
    ASSUME NEW T, NEW a \in Seq(T), NEW c \in Seq(T), NEW k \in 0..Len(a)
    PROVE  LET s == a \o c
               t == Rest(a, k) \o c
           IN  /\ Len(t) = Len(s) - k
               /\ \A p \in 1..Len(t) : t[p] = s[p + k]
               /\ \A p \in Nat \ {0} : /\ p \in Heads(t) <=> p + k \in Heads(s)
                                       /\ p \in Tails(t) <=> p + k \in Tails(s)
               /\ Heads(t) \subseteq 1..Len(t) /\ Tails(t) \subseteq 1..Len(t)
  <1> DEFINE s == a \o c
             b == Rest(a, k)
             t == b \o c
  <1>1. b \in Seq(T) /\ Len(b) = Len(a) - k /\ \A p \in 1..Len(b) : b[p] = a[p + k]
    BY Cut
  <1>2. /\ s \in Seq(T) /\ Len(s) = Len(a) + Len(c)
        /\ \A p \in 1..(Len(a) + Len(c)) : s[p] = IF p <= Len(a) THEN a[p] ELSE c[p - Len(a)]
    BY ConcatProperties
  <1> HIDE DEF b
  <1>3. /\ t \in Seq(T) /\ Len(t) = Len(b) + Len(c)
        /\ \A p \in 1..(Len(b) + Len(c)) : t[p] = IF p <= Len(b) THEN b[p] ELSE c[p - Len(b)]
    BY <1>1, ConcatProperties
  <1> HIDE DEF s, t
  <1>4. Len(a) \in Nat /\ Len(c) \in Nat /\ Len(b) \in Nat /\ k \in Nat /\ k <= Len(a)
    BY <1>1, LenProperties
  <1>5. Len(t) = Len(s) - k
    BY <1>1, <1>2, <1>3, <1>4
  <1>6. ASSUME NEW p \in 1..Len(t)
        PROVE  t[p] = s[p + k]
    <2>1. p \in Nat /\ p >= 1 /\ p <= Len(b) + Len(c)
      BY <1>3, <1>4
    <2>2. p \in 1..(Len(b) + Len(c)) /\ p + k \in 1..(Len(a) + Len(c))
      BY <1>1, <1>4, <2>1
    <2>3. CASE p <= Len(b)
      <3>1. p \in 1..Len(b) /\ p + k <= Len(a)
        BY <1>1, <1>4, <2>1, <2>3
      <3> QED BY <1>1, <1>2, <1>3, <2>2, <2>3, <3>1
    <2>4. CASE ~(p <= Len(b))
      <3>1. ~(p + k <= Len(a)) /\ p - Len(b) = p + k - Len(a)
        BY <1>1, <1>4, <2>1, <2>4
      <3> QED BY <1>2, <1>3, <2>2, <2>4, <3>1
    <2> QED BY <2>3, <2>4
  <1>7. DOMAIN t = 1..Len(t) /\ DOMAIN s = 1..Len(s)
    BY <1>2, <1>3, LenProperties
  <1>8. \A p \in Nat \ {0} : p \in DOMAIN t <=> p + k \in DOMAIN s
    BY <1>2, <1>4, <1>5, <1>7
  <1>9. \A p \in DOMAIN t : t[p] = s[p + k]
    BY <1>6, <1>7
  <1> QED BY <1>5, <1>6, <1>7, <1>8, <1>9 DEF Heads, Tails, s, t, b

(* The parts of a sequence of three *)
LEMMA Joined ==
    ASSUME NEW T, NEW a \in Seq(T), NEW b \in Seq(T), NEW c \in Seq(T)
    PROVE  /\ a \o b \o c \in Seq(T) /\ Len(a \o b \o c) = Len(a) + Len(b) + Len(c)
           /\ a \o b \o c = a \o (b \o c)
           /\ \A p \in 1..Len(a) : (a \o b \o c)[p] = a[p]
  <1>1. a \o b \in Seq(T) /\ b \o c \in Seq(T) /\ Len(a \o b) = Len(a) + Len(b)
    BY ConcatProperties
  <1>2. a \o b \o c \in Seq(T) /\ Len(a \o b \o c) = Len(a) + Len(b) + Len(c)
    BY <1>1, ConcatProperties
  <1>3. a \o b \o c = a \o (b \o c)
    BY ConcatAssociative
  <1>4. Len(b \o c) = Len(b) + Len(c)
    BY ConcatProperties
  <1>5. \A p \in 1..(Len(a) + Len(b \o c)) :
            (a \o (b \o c))[p] = IF p <= Len(a) THEN a[p] ELSE (b \o c)[p - Len(a)]
    BY <1>1, ConcatProperties
  <1>6. Len(a) \in Nat /\ Len(b) \in Nat /\ Len(c) \in Nat
    BY LenProperties
  <1>7. ASSUME NEW p \in 1..Len(a)
        PROVE  (a \o (b \o c))[p] = a[p]
    <2>1. p \in 1..(Len(a) + Len(b \o c)) /\ p <= Len(a)
      BY <1>4, <1>6
    <2> QED BY <1>5, <2>1
  <1> QED BY <1>2, <1>3, <1>7

(* What Transit is: the reader's buffer is its beginning.                  *)
LEMMA TransitIs ==
    ASSUME Types
    PROVE  /\ Transit \in Seq(Tokens) /\ Len(Transit) = Len(buf) + Len(wire) + Len(out)
           /\ Len(buf) \in Nat /\ Len(wire) \in Nat /\ Len(out) \in Nat
           /\ Heads(Transit) \subseteq 1..Len(Transit) /\ Tails(Transit) \subseteq 1..Len(Transit)
           /\ \A p \in 1..Len(buf) : Transit[p] = buf[p]
           /\ \A p \in 1..Len(buf) : /\ p \in Heads(buf) <=> p \in Heads(Transit)
                                     /\ p \in Tails(buf) <=> p \in Tails(Transit)
           /\ Heads(buf) \subseteq 1..Len(buf) /\ Tails(buf) \subseteq 1..Len(buf)
           /\ \A p \in Heads(Transit) : Transit[p].id \in DOMAIN packets
  <1>1. buf \in Seq(Tokens) /\ wire \in Seq(Tokens) /\ out \in Seq(Tokens)
    BY DEF Types
  <1>2. /\ Transit \in Seq(Tokens) /\ Len(Transit) = Len(buf) + Len(wire) + Len(out)
        /\ \A p \in 1..Len(buf) : Transit[p] = buf[p]
    BY <1>1, Joined DEF Transit
  <1>3. Len(buf) \in Nat /\ Len(wire) \in Nat /\ Len(out) \in Nat
    BY <1>1, LenProperties
  <1>4. DOMAIN Transit = 1..Len(Transit) /\ DOMAIN buf = 1..Len(buf)
    BY <1>1, <1>2, LenProperties
  <1>5. \A p \in 1..Len(buf) : p \in DOMAIN Transit
    BY <1>2, <1>3, <1>4
  <1>6. ASSUME NEW p \in Heads(Transit)
        PROVE  Transit[p].id \in DOMAIN packets
    <2>1. Transit[p] \in Tokens /\ Transit[p].part = "head"
      BY <1>2, <1>4, <1>6, ElementOfSeq DEF Heads
    <2> QED BY <2>1 DEF Tokens, TokensOf, Plus, Token, Types, TypeOK
  <1> QED BY <1>2, <1>3, <1>4, <1>5, <1>6 DEF Heads, Tails

BufferBegins ==
    /\ Heads(buf) \subseteq 1..Len(buf) /\ Tails(buf) \subseteq 1..Len(buf)
    /\ \A p \in 1..Len(buf) : /\ p \in Heads(buf) <=> p \in Heads(Transit)
                              /\ p \in Tails(buf) <=> p \in Tails(Transit)

LEMMA TransitBegins == Types => BufferBegins
  BY TransitIs DEF BufferBegins

(* The reader's buffer grows at the expense of the rest, or nothing moves. *)
LEMMA OrderMoved ==
    ASSUME Types, Types', Order, Transit' = Transit, Len(buf') >= Len(buf),
           UNCHANGED <<packets, stopQ, readQ>>
    PROVE  Order'
  <1>1. Len(buf) \in Nat /\ Len(buf') \in Nat
    BY LenProperties DEF Types
  <1>2. InPairs(Transit)'
    BY DEF Order, InPairs, Heads, Tails
  <1>3. Preceded'
    <2> SUFFICES ASSUME NEW q \in Tails(Transit), q > Len(buf')
                 PROVE  q - 1 \in Heads(Transit)
      BY DEF Preceded, Heads, Tails
    <2>1. q \in Nat
      BY TransitIs
    <2>2. q > Len(buf)
      BY <1>1, <2>1
    <2> QED BY <2>2 DEF Order, Preceded
  <1>4. FirstArrived' /\ Sorted'
    BY DEF Order, FirstArrived, Sorted, Arrived, Delivered, UnderWay, Heads, IsRising, ToSet
  <1> QED BY <1>2, <1>3, <1>4 DEF Order

(* The peer has another packet to write. *)
LEMMA OrderAppended ==
    ASSUME Types, Types', Order, NEW kind \in {"stop", "data"}, NEW w, MaybeAck(w),
           packets' = Append(packets, kind), out' = out \o w \o Wrapped(NextId),
           UNCHANGED <<buf, wire, stopQ, readQ>>
    PROVE  /\ Order'
           /\ \A p \in Heads(Transit') : p \in Heads(Transit) \/ p > Len(Transit)
  <1> DEFINE num == Len(packets)
             old == Transit
             new == Transit'
  <1>1. /\ num \in Nat /\ Len(packets') = num + 1 /\ DOMAIN packets = 1..num
        /\ DOMAIN packets' = 1..(num + 1) /\ \A i \in 1..num : packets'[i] = packets[i]
    BY AppendProperties DEF Types, TypeOK
  <1>2. /\ old \in Seq(TokensOf(num))
        /\ Heads(old) \subseteq 1..Len(old) /\ Tails(old) \subseteq 1..Len(old)
        /\ \A p \in Heads(old) : old[p].id \in 1..num
        /\ Len(old) \in Nat
    BY <1>1, TransitIs DEF Tokens
  <1>3. new = (buf \o wire) \o Extended(out, w, num)
    BY DEF Transit, Extended, NextId
  <1>4. /\ Len(new) = Len(old) + Len(w) + 2
        /\ \A p \in 1..Len(old) : new[p] = old[p]
        /\ new[Len(new) - 1] = Token("head", num + 1)
        /\ Heads(new) = Heads(old) \cup {Len(new) - 1}
        /\ Tails(new) = Tails(old) \cup {Len(new)}
    <2> DEFINE bw == buf \o wire
    <2>1. bw \in Seq(TokensOf(num)) /\ out \in Seq(TokensOf(num))
      BY ConcatProperties DEF Types, Tokens
    <2>2. old = bw \o out /\ new = bw \o Extended(out, w, num)
      BY <1>3 DEF Transit
    <2> HIDE DEF num, old, new, bw
    <2> DEFINE os == bw \o out
               nr == bw \o Extended(out, w, num)
    <2>3. /\ Len(nr) = Len(os) + Len(w) + 2
          /\ \A p \in 1..Len(os) : nr[p] = os[p]
          /\ nr[Len(nr) - 1] = Token("head", num + 1)
          /\ Heads(nr) = Heads(os) \cup {Len(nr) - 1}
          /\ Tails(nr) = Tails(os) \cup {Len(nr)}
      <3>1. MaybeAck(w)
        OBVIOUS
      <3>2. num \in Nat
        BY <1>1
      <3> QED BY ONLY <2>1, <3>1, <3>2, ExtendedJoined, SMTT(30)
    <2>4. old = os /\ new = nr
      BY <2>2
    <2> HIDE DEF os, nr
    <2> QED BY <2>3, <2>4
  <1>5. Len(new) \in Nat /\ Len(new) - 1 > Len(old)
    <2>1. Len(w) \in {0, 1}
      BY DEF MaybeAck
    <2> QED BY <1>2, <1>4, <2>1
  <1>15. new = Transit'
    OBVIOUS
  <1> HIDE DEF num, old, new
  <1>6. /\ InPairs(old)
        /\ \A q \in Tails(old) : q > Len(buf) => q - 1 \in Heads(old)
    BY DEF Order, Preceded, old
  <1>7. InPairs(Transit)'
    <2>1. \A p \in Heads(new) : p + 1 \in Tails(new)
      BY <1>4, <1>5, <1>6 DEF InPairs
    <2> QED BY <1>15, <2>1 DEF InPairs, Heads, Tails
  <1>8. Preceded'
    <2>1. \A q \in Tails(new) : q > Len(buf) => q - 1 \in Heads(new)
      BY <1>4, <1>6
    <2> QED BY <1>15, <2>1 DEF Preceded, Heads, Tails
  <1>9. FirstArrived'
    <2>1. \A p \in Heads(old) : new[p] = old[p] /\ new[p].id \in 1..num
      BY <1>2, <1>4
    <2>2. new[Len(new) - 1].id = num + 1
      BY <1>4 DEF Token
    <2>3. \A p, q \in Heads(new) : p < q => new[p].id < new[q].id
      <3>1. \A p, q \in Heads(old) : p < q => old[p].id < old[q].id
        BY DEF Order, FirstArrived, old
      <3>2. \A p \in Heads(old) : p < Len(new) - 1 /\ ~(Len(new) - 1 < p)
        BY <1>2, <1>5
      <3>3. \A p \in Heads(old) : new[p].id < num + 1
        BY <1>1, <2>1
      <3>4. ~(Len(new) - 1 < Len(new) - 1)
        BY <1>5
      <3> QED BY <1>4, <2>1, <2>2, <3>1, <3>2, <3>3, <3>4
    <2>4. Arrived' = Arrived /\ Arrived <= num /\ Arrived \in Nat
      BY LenProperties DEF Arrived, Order, FirstArrived, num, Types, TypeOK
    <2>5. \A i : Delivered(i)' <=> Delivered(i)
      BY DEF Delivered
    <2>6. ~Delivered(num + 1)
      <3>1. stopQ \in Seq(1..num) /\ readQ \in Seq(1..num)
        BY <1>1 DEF Types, TypeOK
      <3>2. ToSet(stopQ) \subseteq 1..num /\ ToSet(readQ) \subseteq 1..num
        BY <3>1, ToSetType
      <3> QED BY <1>1, <3>2 DEF Delivered
    <2>7. ASSUME NEW i \in 1..(num + 1)
          PROVE  (\E p \in Heads(new) : new[p].id = i) <=> i > Arrived
      <3>1. CASE i = num + 1
        BY <1>1, <1>4, <2>2, <2>4, <3>1
      <3>2. CASE i \in 1..num
        <4>1. (\E p \in Heads(old) : old[p].id = i) <=> i > Arrived
          BY <1>1, <3>2 DEF Order, FirstArrived, UnderWay, old
        <4>2. i # num + 1
          BY <1>1, <3>2
        <4> QED BY <1>4, <2>1, <2>2, <4>1, <4>2
      <3> QED BY <1>1, <3>1, <3>2
    <2>8. \A i \in 1..(num + 1) : Delivered(i)' <=> i <= Arrived
      <3>1. \A i \in 1..num : Delivered(i) <=> i <= Arrived
        BY <1>1 DEF Order, FirstArrived
      <3>2. ~(num + 1 <= Arrived)
        BY <1>1, <2>4
      <3>3. \A i \in 1..(num + 1) : i \in 1..num \/ i = num + 1
        BY <1>1
      <3> QED BY <2>5, <2>6, <3>1, <3>2, <3>3
    <2>9. \A i \in 1..(num + 1) : UnderWay(i)' <=> i > Arrived
      BY <1>15, <2>7 DEF UnderWay, Heads
    <2>10. Arrived' <= Len(packets')
      BY <1>1, <2>4
    <2>11. \A p, q \in Heads(Transit)' : p < q => Transit'[p].id < Transit'[q].id
      BY <1>15, <2>3 DEF Heads
    <2> QED BY <1>1, <2>4, <2>8, <2>9, <2>10, <2>11 DEF FirstArrived
  <1>10. Sorted'
    <2>1. ToSet(stopQ) \subseteq 1..num /\ ToSet(readQ) \subseteq 1..num
      <3>1. stopQ \in Seq(1..num) /\ readQ \in Seq(1..num)
      BY <1>1 DEF Types, TypeOK
    <3> QED BY <3>1, ToSetType
    <2> QED BY <1>1, <2>1 DEF Order, Sorted, IsRising, ToSet
  <1>11. \A p \in Heads(Transit') : p \in Heads(Transit) \/ p > Len(Transit)
    BY <1>15, <1>4, <1>5 DEF old
  <1> QED BY <1>7, <1>8, <1>9, <1>10, <1>11 DEF Order

(* The reader takes k tokens off its buffer. *)
LEMMA TransitCut ==
    ASSUME Types, NEW k \in 0..Len(buf), buf' = Rest(buf, k), UNCHANGED <<wire, out>>
    PROVE  /\ Len(buf') = Len(buf) - k /\ Len(Transit') = Len(Transit) - k
           /\ \A p \in 1..Len(Transit') : Transit'[p] = Transit[p + k]
           /\ \A p \in Nat \ {0} : /\ p \in Heads(Transit') <=> p + k \in Heads(Transit)
                                   /\ p \in Tails(Transit') <=> p + k \in Tails(Transit)
           /\ Heads(Transit') \subseteq 1..Len(Transit') /\ Tails(Transit') \subseteq 1..Len(Transit')
  <1> DEFINE rest == wire \o out
  <1>1. buf \in Seq(Tokens) /\ rest \in Seq(Tokens) /\ wire \in Seq(Tokens) /\ out \in Seq(Tokens)
    BY ConcatProperties DEF Types
  <1>2. Rest(buf, k) \in Seq(Tokens) /\ Len(Rest(buf, k)) = Len(buf) - k
        /\ \A p \in 1..Len(Rest(buf, k)) : Rest(buf, k)[p] = buf[p + k]
    BY <1>1, Cut
  <1> HIDE DEF rest
  <1>3. Transit = buf \o rest
    BY <1>1, Joined DEF Transit, rest
  <1>4. Transit' = Rest(buf, k) \o rest
    <2> DEFINE b == Rest(buf, k)
    <2>1. b \in Seq(Tokens)
      BY <1>2
    <2> HIDE DEF b
    <2>2. b \o wire \o out = b \o (wire \o out)
      BY ONLY <1>1, <2>1, Joined, SMTT(30)
    <2> QED BY <2>2 DEF Transit, rest, b
  <1>5. Len(buf') = Len(buf) - k
    BY <1>2
  <1> DEFINE s == buf \o rest
             t == Rest(buf, k) \o rest
  <1>6. /\ Len(t) = Len(s) - k
        /\ \A p \in 1..Len(t) : t[p] = s[p + k]
        /\ \A p \in Nat \ {0} : /\ p \in Heads(t) <=> p + k \in Heads(s)
                                /\ p \in Tails(t) <=> p + k \in Tails(s)
        /\ Heads(t) \subseteq 1..Len(t) /\ Tails(t) \subseteq 1..Len(t)
    BY <1>1, CutJoined
  <1>7. Transit = s /\ Transit' = t
    BY <1>3, <1>4
  <1> HIDE DEF s, t
  <1> QED BY <1>5, <1>6, <1>7

(* The reader drops what it has got, and no head is in it. *)
LEMMA OrderDropped ==
    ASSUME Types, Types', Order, Heads(buf) = {}, buf' = <<>>,
           UNCHANGED <<wire, out, packets, stopQ, readQ>>
    PROVE  /\ Order'
           /\ \A p \in Heads(Transit') : p + Len(buf) \in Heads(Transit) /\ p \in Nat
  <1> DEFINE k == Len(buf)
             old == Transit
             new == Transit'
  <1>1. k \in 0..Len(buf) /\ buf' = Rest(buf, k) /\ k \in Nat
    <2>1. k \in Nat
      BY TransitIs
    <2> QED BY <2>1, SubSeqEmpty DEF Rest
  <1>2. /\ Len(buf') = 0
        /\ \A p \in 1..Len(new) : new[p] = old[p + k]
        /\ \A p \in Nat \ {0} : /\ p \in Heads(new) <=> p + k \in Heads(old)
                                /\ p \in Tails(new) <=> p + k \in Tails(old)
        /\ Heads(new) \subseteq 1..Len(new) /\ Tails(new) \subseteq 1..Len(new)
    BY <1>1, TransitCut
  <1>3. /\ Heads(old) \subseteq Nat /\ Heads(new) \subseteq Nat \ {0} /\ Tails(new) \subseteq Nat \ {0}
        /\ \A p \in Heads(old) : p > k /\ p - k \in Nat \ {0} /\ p - k + k = p
    <2>1. \A p \in 1..k : p \notin Heads(old)
      <3>1. \A p \in 1..Len(buf) : p \in Heads(buf) <=> p \in Heads(Transit)
        BY ONLY Types, TransitIs
      <3> QED BY <3>1
    <2>2. Heads(old) \subseteq 1..Len(old) /\ Len(old) \in Nat
      <3>1. Heads(old) \subseteq 1..Len(old) /\ old \in Seq(Tokens)
        BY ONLY Types, TransitIs
      <3> QED BY <3>1, LenProperties
    <2>3. Heads(new) \subseteq Nat \ {0} /\ Tails(new) \subseteq Nat \ {0}
      <3>1. Len(new) \in Nat
        BY TransitIs
      <3> QED BY ONLY <1>2, <3>1
    <2>4. ASSUME NEW p \in Heads(old)
          PROVE  p \in Nat /\ p > k /\ p - k \in Nat \ {0} /\ p - k + k = p
      <3> HIDE DEF k, old, new
      <3>1. p \in Nat \ {0}
        BY ONLY <2>2, <2>4
      <3>2. ~(p \in 1..k)
        BY ONLY <2>1, <2>4
      <3> QED BY ONLY <1>1, <3>1, <3>2
    <2> HIDE DEF k, old, new
    <2> QED BY ONLY <2>3, <2>4
  <1>4. /\ InPairs(old) /\ FirstArrived /\ Sorted
        /\ \A q \in Tails(old) : q > k => q - 1 \in Heads(old)
    BY DEF Order, Preceded
  <1>5. new = Transit' /\ old = Transit
    OBVIOUS
  <1> HIDE DEF k, old, new
  <1>6. ASSUME NEW p \in Heads(new)
        PROVE  p + k \in Heads(old) /\ new[p] = old[p + k] /\ p \in Nat \ {0}
    BY <1>2, <1>3
  <1>7. InPairs(Transit)'
    <2> SUFFICES ASSUME NEW p \in Heads(new)
                 PROVE  p + 1 \in Tails(new)
      BY <1>5 DEF InPairs, Heads, Tails
    <2>1. p \in Nat \ {0} /\ p + k + 1 \in Tails(old)
      BY <1>4, <1>6 DEF InPairs
    <2>2. p + k + 1 = (p + 1) + k /\ p + 1 \in Nat \ {0}
      BY <1>1, <2>1
    <2> QED BY <1>2, <2>1, <2>2
  <1>8. Preceded'
    <2> SUFFICES ASSUME NEW q \in Tails(new)
                 PROVE  q - 1 \in Heads(new)
      BY <1>5 DEF Preceded, Heads, Tails
    <2>1. q \in Nat \ {0} /\ q + k \in Tails(old)
      BY <1>2, <1>3
    <2>2. q + k > k
      BY <1>1, <2>1
    <2>3. (q + k) - 1 \in Heads(old)
      BY <1>4, <2>1, <2>2
    <2>4. q - 1 \in Nat \ {0} /\ (q - 1) + k = (q + k) - 1
      BY <1>1, <1>3, <2>1, <2>3
    <2> QED BY <1>2, <2>3, <2>4
  <1>9. FirstArrived'
    <2>1. ASSUME NEW i
          PROVE  UnderWay(i)' <=> UnderWay(i)
      <3>1. ASSUME NEW p \in Heads(old), old[p].id = i
            PROVE  \E q \in Heads(new) : new[q].id = i
        <4>1. p - k \in Heads(new)
          BY <1>2, <1>3
        <4>2. new[p - k] = old[p - k + k]
          BY <1>6, <4>1
        <4> QED BY <1>3, <3>1, <4>1, <4>2
      <3>2. (\E p \in Heads(new) : new[p].id = i) <=> (\E p \in Heads(old) : old[p].id = i)
        BY <1>6, <3>1
      <3> QED BY <1>5, <3>2 DEF UnderWay, Heads
    <2>2. ASSUME NEW p \in Heads(new), NEW q \in Heads(new), p < q
          PROVE  new[p].id < new[q].id
      <3>1. p + k < q + k
        BY <1>1, <1>3, <2>2
      <3>2. old[p + k].id < old[q + k].id
        BY <1>4, <1>5, <1>6, <3>1 DEF FirstArrived
      <3> QED BY <1>6, <3>2
    <2>3. \A p, q \in Heads(Transit)' : p < q => Transit'[p].id < Transit'[q].id
      BY <1>5, <2>2 DEF Heads
    <2>4. Arrived' = Arrived /\ \A i : Delivered(i)' <=> Delivered(i)
      BY DEF Arrived, Delivered
    <2> QED BY <1>4, <2>1, <2>3, <2>4 DEF FirstArrived
  <1>10. Sorted'
    BY <1>4 DEF Sorted, IsRising, ToSet
  <1>11. \A p \in Heads(Transit') : p + Len(buf) \in Heads(Transit) /\ p \in Nat
    BY <1>5, <1>6 DEF k
  <1> QED BY <1>7, <1>8, <1>9, <1>10, <1>11 DEF Order

(* A queue of rising numbers up to m gets m + 1. *)
LEMMA RisingAppend ==
    ASSUME NEW m \in Nat, NEW ids \in Seq(Nat), IsRising(ids), \A i \in ToSet(ids) : i <= m
    PROVE  /\ IsRising(Append(ids, m + 1)) /\ Len(Append(ids, m + 1)) = Len(ids) + 1
           /\ ToSet(Append(ids, m + 1)) = ToSet(ids) \cup {m + 1}
  <1> DEFINE new == Append(ids, m + 1)
  <1>1. /\ new \in Seq(Nat) /\ Len(new) = Len(ids) + 1
        /\ \A i \in 1..Len(ids) : new[i] = ids[i]
        /\ new[Len(ids) + 1] = m + 1
    BY AppendProperties
  <1>2. /\ Len(ids) \in Nat /\ DOMAIN ids = 1..Len(ids) /\ DOMAIN new = 1..(Len(ids) + 1)
        /\ \A i \in 1..Len(ids) : ids[i] \in Nat /\ ids[i] \in ToSet(ids)
    BY <1>1, LenProperties, ElementOfSeq DEF ToSet
  <1> HIDE DEF new
  <1>3. \A i \in 1..(Len(ids) + 1) : i \in 1..Len(ids) \/ i = Len(ids) + 1
    BY <1>2
  <1>4. \A i \in 1..Len(ids) : new[i] < m + 1
    BY <1>1, <1>2
  <1>5. IsRising(new)
    <2> SUFFICES ASSUME NEW i \in DOMAIN new, NEW j \in DOMAIN new, i < j
                 PROVE  new[i] < new[j]
      BY DEF IsRising
    <2>1. i \in 1..Len(ids)
      BY <1>2
    <2>2. CASE j \in 1..Len(ids)
      BY <1>1, <1>2, <2>1, <2>2 DEF IsRising
    <2>3. CASE j = Len(ids) + 1
      BY <1>1, <1>4, <2>1, <2>3
    <2> QED BY <1>2, <1>3, <2>2, <2>3
  <1>6. ToSet(new) = ToSet(ids) \cup {m + 1}
    <2>1. 1..(Len(ids) + 1) = 1..Len(ids) \cup {Len(ids) + 1}
      BY <1>2
    <2> QED BY <1>1, <1>2, <2>1 DEF ToSet
  <1> QED BY <1>1, <1>5, <1>6 DEF new

(* The reader takes the first packet, which is the next one. *)
LEMMA OrderDelivered ==
    ASSUME Types, Types', Order, HasPacket(buf),
           buf' = SubSeq(buf, Min(TailsAfter(buf)), Len(buf)),
           Queue(buf[FirstHead(buf)].id), UNCHANGED <<wire, out, packets>>
    PROVE  /\ Order'
           /\ buf[FirstHead(buf)].id = Arrived + 1 /\ Arrived + 1 \in DOMAIN packets
           /\ FirstHead(buf) \in 0..Len(buf) /\ buf' = Rest(buf, FirstHead(buf))
           /\ \A p \in Heads(Transit') : p \in Nat /\ p + FirstHead(buf) \in Heads(Transit)
           /\ FirstHead(buf) \in Heads(Transit)
  <1> DEFINE k == FirstHead(buf)
             old == Transit
             new == Transit'
             num == Len(packets)
             m == Arrived
  <1>1. /\ k \in Heads(buf) /\ \A p \in Heads(buf) : k <= p
        /\ Min(TailsAfter(buf)) \in TailsAfter(buf)
    BY FirstIn DEF Types
  <1>2. /\ k \in 1..Len(buf) /\ Len(buf) \in Nat /\ k \in Heads(old) /\ old[k] = buf[k]
        /\ Heads(old) \subseteq 1..Len(old) /\ Tails(old) \subseteq 1..Len(old) /\ Len(old) \in Nat
    <2>1. k \in 1..Len(buf) /\ Len(buf) \in Nat /\ k \in Heads(old) /\ old[k] = buf[k]
      BY <1>1, TransitIs
    <2>2. Heads(old) \subseteq 1..Len(old) /\ Tails(old) \subseteq 1..Len(old) /\ Len(old) \in Nat
      <3>1. /\ Heads(old) \subseteq 1..Len(old) /\ Tails(old) \subseteq 1..Len(old)
            /\ old \in Seq(Tokens)
        BY ONLY Types, TransitIs
      <3> QED BY <3>1, LenProperties
    <2> QED BY <2>1, <2>2
  <1>3. ASSUME NEW p \in Heads(old)
        PROVE  k <= p
    <2>1. p \in Nat \ {0}
      BY <1>2
    <2>2. CASE p <= Len(buf)
      <3>1. p \in 1..Len(buf)
        BY <1>2, <2>1, <2>2
      <3>2. p \in Heads(buf)
        BY <3>1, TransitIs
      <3> QED BY <1>1, <3>2
    <2>3. CASE ~(p <= Len(buf))
      BY <1>2, <2>1, <2>3
    <2> QED BY <2>2, <2>3
  <1>4. k + 1 \in Tails(old)
    BY <1>2 DEF Order, InPairs
  <1>5. k + 1 \in Tails(buf) /\ k + 1 <= Len(buf)
    <2>1. PICK t \in Tails(buf) : t > k
      BY <1>1 DEF TailsAfter
    <2>2. t \in 1..Len(buf)
      BY TransitIs
    <2>3. k + 1 \in 1..Len(buf)
      BY <1>2, <2>1, <2>2
    <2> QED BY <1>4, <2>3, TransitIs
  <1>6. buf' = Rest(buf, k)
    <2>1. TailsAfter(buf) \in SUBSET Nat
      BY DEF TailsAfter, Tails, Types
    <2>2. k + 1 \in TailsAfter(buf) /\ \A y \in TailsAfter(buf) : k + 1 <= y
      BY <1>2, <1>5, <2>1 DEF TailsAfter
    <2>3. Min(TailsAfter(buf)) = k + 1
      BY <2>1, <2>2, MinIs
    <2> QED BY <2>3 DEF Rest
  <1>7. /\ Len(buf') = Len(buf) - k
        /\ \A p \in 1..Len(new) : new[p] = old[p + k]
        /\ \A p \in Nat \ {0} : /\ p \in Heads(new) <=> p + k \in Heads(old)
                                /\ p \in Tails(new) <=> p + k \in Tails(old)
        /\ Heads(new) \subseteq 1..Len(new) /\ Tails(new) \subseteq 1..Len(new)
    <2>1. k \in 0..Len(buf)
      BY <1>2
    <2> HIDE DEF k
    <2> QED BY <1>6, <2>1, TransitCut
  <1>8. /\ InPairs(old) /\ FirstArrived /\ Sorted
        /\ \A q \in Tails(old) : q > Len(buf) => q - 1 \in Heads(old)
    BY DEF Order, Preceded
  <1>9. /\ m \in Nat /\ m <= num /\ num \in Nat /\ DOMAIN packets = 1..num
        /\ \A p \in Heads(old) : old[p].id \in 1..num
    <2>1. Len(stopQ) \in Nat /\ Len(readQ) \in Nat /\ num \in Nat /\ DOMAIN packets = 1..num
      BY LenProperties DEF Types, TypeOK
    <2>2. m \in Nat /\ m <= num
      BY <2>1 DEF Arrived, Order, FirstArrived
    <2>3. \A p \in Heads(Transit) : Transit[p].id \in DOMAIN packets
      BY TransitIs
    <2> QED BY <2>1, <2>2, <2>3
  <1>10. /\ \A i \in 1..num : Delivered(i) <=> i <= m
         /\ \A i \in 1..num : (\E p \in Heads(old) : old[p].id = i) <=> i > m
         /\ \A p, q \in Heads(old) : p < q => old[p].id < old[q].id
    BY <1>8, <1>9 DEF FirstArrived, UnderWay
  <1>11. Queue(old[k].id)
    BY <1>2
  <1>12. new = Transit' /\ old = Transit
    OBVIOUS
  <1> HIDE DEF k, old, new, num, m
  <1>13. k \in Nat /\ Heads(new) \subseteq Nat \ {0} /\ Tails(new) \subseteq Nat \ {0}
    <2>1. \A a \in Nat : 1..a \subseteq Nat \ {0}
      OBVIOUS
    <2>2. \A S : \A a : S \subseteq 1..a => S \subseteq Nat \ {0}
      OBVIOUS
    <2> QED BY <1>2, <1>7, <2>2
  <1>14. ASSUME NEW p \in Heads(new)
         PROVE  p \in Nat \ {0} /\ p + k \in Heads(old) /\ k < p + k /\ new[p] = old[p + k]
    <2>1. p \in Nat \ {0} /\ p \in 1..Len(new)
      BY <1>7, <1>13
    <2>2. p + k \in Heads(old) /\ new[p] = old[p + k]
      BY <1>7, <2>1
    <2>3. k < p + k
      BY <1>13, <2>1
    <2> QED BY <2>1, <2>2, <2>3
  <1>15. ASSUME NEW p \in Heads(old), p # k
         PROVE  p - k \in Heads(new) /\ new[p - k] = old[p]
    <2>1. p \in Nat /\ k <= p
      BY <1>2, <1>3
    <2>2. p - k \in Nat \ {0} /\ (p - k) + k = p
      BY <1>13, <1>15, <2>1
    <2>3. p - k \in Heads(new)
      BY <1>7, <2>2
    <2> QED BY <1>14, <2>2, <2>3
  <1>16. InPairs(Transit)'
    <2> SUFFICES ASSUME NEW p \in Heads(new)
                 PROVE  p + 1 \in Tails(new)
      BY <1>12 DEF InPairs, Heads, Tails
    <2>1. p \in Nat \ {0} /\ (p + k) + 1 \in Tails(old)
      BY <1>8, <1>14 DEF InPairs
    <2>2. (p + k) + 1 = (p + 1) + k /\ p + 1 \in Nat \ {0}
      BY <1>13, <2>1
    <2> QED BY <1>7, <2>1, <2>2
  <1>17. Preceded'
    <2> SUFFICES ASSUME NEW q \in Tails(new), q > Len(buf')
                 PROVE  q - 1 \in Heads(new)
      BY <1>12 DEF Preceded, Heads, Tails
    <2>1. q \in Nat \ {0} /\ q + k \in Tails(old)
      BY <1>7, <1>13
    <2>2. q + k > Len(buf)
      BY <1>2, <1>7, <1>13, <2>1
    <2>3. (q + k) - 1 \in Heads(old)
      BY <1>8, <2>1, <2>2
    <2>4. q - 1 \in Nat \ {0} /\ (q - 1) + k = (q + k) - 1
      <3>1. Len(buf') \in Nat
        BY LenProperties DEF Types
      <3>2. Len(buf) >= k + 1 /\ Len(buf') = Len(buf) - k /\ Len(buf) \in Nat /\ k \in Nat
        BY <1>2, <1>5, <1>7, <1>13
      <3>3. q > 1
        BY <2>1, <3>1, <3>2
      <3> QED BY <1>13, <2>1, <3>3
    <2> QED BY <1>7, <2>3, <2>4
  <1>18. old[k].id = m + 1 /\ m + 1 \in 1..num
    <2>1. old[k].id \in 1..num /\ old[k].id > m
      BY <1>2, <1>9, <1>10
    <2>2. m + 1 \in 1..num /\ m + 1 > m
      BY <1>9, <2>1
    <2>3. PICK p \in Heads(old) : old[p].id = m + 1
      BY <1>10, <2>2
    <2>4. ~(k < p)
      <3>1. ~(old[k].id < m + 1)
        BY <1>9, <2>1
      <3> QED BY <1>2, <1>10, <2>3, <3>1
    <2>5. p = k
      BY <1>2, <1>3, <2>4
    <2> QED BY <2>2, <2>3, <2>5
  <1>19. /\ IsRising(stopQ') /\ IsRising(readQ') /\ Arrived' = m + 1
         /\ \A i \in ToSet(stopQ') : packets[i] = "stop"
         /\ \A i \in ToSet(readQ') : packets[i] = "data"
         /\ \A i : Delivered(i)' <=> Delivered(i) \/ i = m + 1
    <2>1. /\ stopQ \in Seq(1..num) /\ readQ \in Seq(1..num)
          /\ stopQ \in Seq(Nat) /\ readQ \in Seq(Nat)
      <3>1. stopQ \in Seq(1..num) /\ readQ \in Seq(1..num) /\ 1..num \subseteq Nat
        BY <1>9 DEF Types, TypeOK
      <3> QED BY <3>1, SeqMonotonic
    <2>2. Len(stopQ) \in Nat /\ Len(readQ) \in Nat
      BY <2>1, LenProperties
    <2>3. /\ \A i \in ToSet(stopQ) : i <= m
          /\ \A i \in ToSet(readQ) : i <= m
      <3>1. ToSet(stopQ) \subseteq 1..num /\ ToSet(readQ) \subseteq 1..num
        BY <2>1, ToSetType
      <3> QED BY <1>10, <3>1 DEF Delivered
    <2>4. packets[m + 1] \in {"stop", "data"}
      BY <1>9, <1>18 DEF Types, TypeOK
    <2>5. IsRising(stopQ) /\ IsRising(readQ)
      BY <1>8 DEF Sorted
    <2>6. CASE packets[m + 1] = "stop"
      <3>1. stopQ' = Append(stopQ, m + 1) /\ readQ' = readQ
        BY <1>11, <1>18, <2>6 DEF Queue
      <3>2. /\ IsRising(stopQ') /\ Len(stopQ') = Len(stopQ) + 1
            /\ ToSet(stopQ') = ToSet(stopQ) \cup {m + 1}
        BY ONLY <1>9, <2>1, <2>3, <2>5, <3>1, RisingAppend
      <3>3. Len(stopQ') + Len(readQ') = m + 1
        BY <2>2, <3>1, <3>2 DEF m, Arrived
      <3> QED BY <1>8, <2>5, <2>6, <3>1, <3>2, <3>3 DEF Sorted, Delivered, Arrived
    <2>7. CASE packets[m + 1] = "data"
      <3>1. readQ' = Append(readQ, m + 1) /\ stopQ' = stopQ
        BY <1>11, <1>18, <2>7 DEF Queue
      <3>2. /\ IsRising(readQ') /\ Len(readQ') = Len(readQ) + 1
            /\ ToSet(readQ') = ToSet(readQ) \cup {m + 1}
        BY ONLY <1>9, <2>1, <2>3, <2>5, <3>1, RisingAppend
      <3>3. Len(stopQ') + Len(readQ') = m + 1
        BY <2>2, <3>1, <3>2 DEF m, Arrived
      <3> QED BY <1>8, <2>5, <2>7, <3>1, <3>2, <3>3 DEF Sorted, Delivered, Arrived
    <2> QED BY <2>4, <2>6, <2>7
  <1>20. FirstArrived'
    <2>1. ASSUME NEW i \in 1..num
          PROVE  (\E p \in Heads(new) : new[p].id = i) <=> i > m + 1
      <3>1. ASSUME NEW p \in Heads(new), new[p].id = i
            PROVE  i > m + 1
        <4>1. old[k].id < old[p + k].id
          BY <1>2, <1>10, <1>14
        <4> QED BY <1>9, <1>14, <1>18, <3>1, <4>1
      <3>2. ASSUME i > m + 1
            PROVE  \E p \in Heads(new) : new[p].id = i
        <4>1. i > m /\ i # m + 1
          BY <1>9, <3>2
        <4>2. PICK p \in Heads(old) : old[p].id = i
          BY <1>10, <4>1
        <4>3. p # k
          BY <1>18, <4>1, <4>2
        <4> QED BY <1>15, <4>2, <4>3
      <3> QED BY <3>1, <3>2
    <2>2. ASSUME NEW p \in Heads(new), NEW q \in Heads(new), p < q
          PROVE  new[p].id < new[q].id
      <3>1. p + k < q + k
        BY <1>13, <2>2
      <3> QED BY <1>10, <1>14, <3>1
    <2>3. \A i \in 1..num : Delivered(i)' <=> i <= m + 1
      <3>1. \A i \in 1..num : i <= m + 1 <=> i <= m \/ i = m + 1
        BY <1>9
      <3> QED BY <1>10, <1>19, <3>1
    <2>4. \A i \in 1..num : UnderWay(i)' <=> i > m + 1
      BY <1>12, <2>1 DEF UnderWay, Heads
    <2>5. m + 1 <= num
      BY <1>9, <1>18
    <2>6. \A p, q \in Heads(Transit)' : p < q => Transit'[p].id < Transit'[q].id
      BY <1>12, <2>2 DEF Heads
    <2>7. DOMAIN packets' = 1..num /\ Len(packets') = num
      BY <1>9 DEF num
    <2> QED BY <1>19, <2>3, <2>4, <2>5, <2>6, <2>7 DEF FirstArrived
  <1>21. Sorted'
    BY <1>19 DEF Sorted, IsRising, ToSet
  <1> QED BY <1>2, <1>6, <1>9, <1>12, <1>14, <1>16, <1>17, <1>18, <1>20, <1>21 DEF Order, k, m

(* What the peer writes moves from out to wire. *)
LEMMA TransitWritten ==
    ASSUME Types, NEW n \in 0..Len(out), SubSeq(out, 1, n) \in Seq(Tokens),
           Rest(out, n) \in Seq(Tokens), buf' = buf, wire' = wire \o SubSeq(out, 1, n),
           out' = Rest(out, n)
    PROVE  Transit' = Transit
  <1> DEFINE d == SubSeq(out, 1, n)
             e == Rest(out, n)
             T == Tokens
  <1>1. d \o e = out
    <2>1. Len(out) \in Nat /\ out \in Seq(Tokens)
      BY LenProperties DEF Types
    <2>2. 1 \in 1..Len(out) + 1 /\ n \in (1 - 1)..Len(out) /\ Len(out) \in n..Len(out)
      BY <2>1
    <2>3. SubSeq(out, 1, n) \o SubSeq(out, n + 1, Len(out)) = SubSeq(out, 1, Len(out))
      BY <2>1, <2>2, ConcatAdjacentSubSeq
    <2> QED BY <2>1, <2>3, SubSeqFull DEF Rest
  <1>2. d \in Seq(T) /\ e \in Seq(T) /\ buf \in Seq(T) /\ wire \in Seq(T) /\ out \in Seq(T)
    BY DEF Types
  <1>3. Transit' = buf \o (wire \o d) \o e
    BY DEF Transit
  <1> HIDE DEF d, e, T
  <1>4. \A x, y, z \in Seq(T) : x \o y \o z = x \o (y \o z)
    BY ONLY ConcatAssociative
  <1>5. (wire \o d) \o e = wire \o out
    <2>1. wire \o d \o e = wire \o (d \o e)
      BY ONLY <1>2, <1>4, ZenonT(40)
    <2> QED BY <1>1, <2>1
  <1>6. buf \o (wire \o d) \o e = buf \o ((wire \o d) \o e)
    <2> DEFINE f == wire \o d
    <2>1. f \in Seq(T)
      BY <1>2, ConcatProperties
    <2> HIDE DEF f
    <2>2. buf \o f \o e = buf \o (f \o e)
      BY ONLY <1>2, <1>4, <2>1, ZenonT(40)
    <2> QED BY <2>2 DEF f
  <1>7. buf \o wire \o out = buf \o (wire \o out)
    BY ONLY <1>2, <1>4, ZenonT(40)
  <1> QED BY <1>3, <1>5, <1>6, <1>7 DEF Transit

----------------------------------------------------------------------------
(* What the reader may drop.  Without the peer's care it drops the head of *)
(* a packet whose tail has not arrived.                                    *)

Parses == reader = "parse" => HasChecksum(buf) \/ buf = <<Plus>>

(* Packets in one piece: a head is not the last token of what has arrived. *)
Whole == \A p \in Heads(Transit) : p # Len(buf) /\ p # Len(buf) + Len(wire)

(* A peer that waits: at most one packet that is not acknowledged, ...     *)
HeadsRead == Heads(Transit) \cap 1..(Len(buf) + Len(wire))
OnePacket == \A p, q \in HeadsRead : p = q

(* ... at most one acknowledgement on its way, ...                         *)
HasAck(s) == \E i \in DOMAIN s : s[i] = "ack"
OneAckIn(s) == \A i, j \in DOMAIN s : s[i] = "ack" /\ s[j] = "ack" => i = j
NoAck == ~HasAck(toPeer) /\ packet # "ack" /\ ~HasAck(sendQ)
OneAck ==
    /\ OneAckIn(toPeer) /\ OneAckIn(sendQ)
    /\ ~(HasAck(toPeer) /\ packet = "ack")
    /\ ~(HasAck(toPeer) /\ HasAck(sendQ))
    /\ ~(packet = "ack" /\ HasAck(sendQ))

(* ... and never both.                                                     *)
NotBoth ==
    /\ ~unacked \/ ~NoAck => HeadsRead = {}
    /\ ~unacked => NoAck

(* No tail comes before a head in the reader's buffer.                     *)
TailLast == \A p \in Heads(buf), q \in Tails(buf) : p < q

Waits == OnePacket /\ OneAck /\ NotBoth /\ TailLast

Careful ==
    /\ habit \in {"waits", "whole"}
    /\ Parses
    /\ habit = "whole" => Whole
    /\ habit = "waits" => Waits

Inv == Types /\ LockInv /\ Order /\ Careful

LEMMA AckAppend ==
    ASSUME NEW s \in Seq({"request", "ack"}), NEW x \in {"request", "ack"}
    PROVE  /\ HasAck(Append(s, x)) <=> HasAck(s) \/ x = "ack"
           /\ OneAckIn(s) /\ ~(HasAck(s) /\ x = "ack") => OneAckIn(Append(s, x))
  <1> DEFINE t == Append(s, x)
  <1>1. /\ Len(s) \in Nat /\ DOMAIN s = 1..Len(s) /\ DOMAIN t = 1..(Len(s) + 1)
        /\ \A i \in 1..Len(s) : t[i] = s[i]
        /\ t[Len(s) + 1] = x
    BY AppendProperties, LenProperties
  <1> HIDE DEF t
  <1>2. DOMAIN t = DOMAIN s \cup {Len(s) + 1} /\ \A i \in DOMAIN s : t[i] = s[i]
    BY <1>1
  <1>3. HasAck(t) <=> HasAck(s) \/ x = "ack"
    BY <1>1, <1>2 DEF HasAck
  <1>4. OneAckIn(s) /\ ~(HasAck(s) /\ x = "ack") => OneAckIn(t)
    BY <1>1, <1>2 DEF HasAck, OneAckIn
  <1> QED BY <1>3, <1>4 DEF t

LEMMA AckTail ==
    ASSUME NEW s \in Seq({"request", "ack"}), s # <<>>
    PROVE  /\ HasAck(s) <=> Head(s) = "ack" \/ HasAck(Tail(s))
           /\ OneAckIn(s) => OneAckIn(Tail(s)) /\ ~(Head(s) = "ack" /\ HasAck(Tail(s)))
  <1> DEFINE t == Tail(s)
  <1>1. /\ Len(s) \in Nat /\ Len(s) >= 1 /\ DOMAIN s = 1..Len(s) /\ DOMAIN t = 1..(Len(s) - 1)
        /\ \A i \in 1..(Len(s) - 1) : t[i] = s[i + 1]
        /\ Head(s) = s[1]
    BY LenProperties, HeadTailProperties
  <1> HIDE DEF t
  <1>2. /\ \A i \in DOMAIN t : i + 1 \in DOMAIN s /\ t[i] = s[i + 1] /\ i + 1 # 1
        /\ \A i \in DOMAIN s : i = 1 \/ (i - 1 \in DOMAIN t /\ t[i - 1] = s[i])
        /\ 1 \in DOMAIN s
    <2>1. \A i \in DOMAIN t : i \in Nat /\ i >= 1 /\ i + 1 \in 1..Len(s)
      BY <1>1
    <2>2. \A i \in DOMAIN s : i = 1 \/ (i - 1 \in 1..(Len(s) - 1) /\ (i - 1) + 1 = i)
      BY <1>1
    <2> QED BY <1>1, <2>1, <2>2
  <1>3. HasAck(s) <=> Head(s) = "ack" \/ HasAck(t)
    BY <1>1, <1>2 DEF HasAck
  <1>4. OneAckIn(s) => ~(Head(s) = "ack" /\ HasAck(t))
    BY <1>1, <1>2 DEF HasAck, OneAckIn
  <1>5. ASSUME OneAckIn(s)
        PROVE  OneAckIn(t)
    <2> SUFFICES ASSUME NEW i \in DOMAIN t, NEW j \in DOMAIN t, t[i] = "ack", t[j] = "ack"
                 PROVE  i = j
      BY DEF OneAckIn
    <2>1. i + 1 = j + 1
      BY <1>2, <1>5 DEF OneAckIn
    <2>2. i \in Nat /\ j \in Nat
      BY <1>1
    <2> QED BY <2>1, <2>2
  <1> QED BY <1>3, <1>4, <1>5 DEF t

(* The reader drops no head. *)
LEMMA NoHeadDropped ==
    ASSUME Inv, reader = "parse", ~HasPacket(buf)
    PROVE  Heads(buf) = {}
  <1> SUFFICES ASSUME Heads(buf) # {}
               PROVE  FALSE
    OBVIOUS
  <1>1. Heads(buf) \in SUBSET Nat
    BY DEF Heads, Inv, Types
  <1>2. FirstHead(buf) \in Heads(buf)
    BY <1>1, MinIn DEF FirstHead
  <1>3. Tails(buf) # {}
    <2>1. buf = <<Plus>> => Heads(buf) = {}
      BY DEF Heads, Plus, Token
    <2> QED BY <2>1 DEF Inv, Careful, Parses, HasChecksum
  <1>4. CASE habit = "waits"
    <2>1. \A q \in Tails(buf) : q \in TailsAfter(buf)
      <3>1. \A q \in Tails(buf) : FirstHead(buf) < q
        BY <1>2, <1>4 DEF Inv, Careful, Waits, TailLast
      <3>2. Tails(buf) \subseteq Nat /\ FirstHead(buf) \in Nat
        BY <1>1, <1>2 DEF Tails, Inv, Types
      <3> QED BY <3>1, <3>2 DEF TailsAfter
    <2> QED BY <1>3, <2>1 DEF HasPacket
  <1>5. CASE habit = "whole"
    <2> DEFINE p == FirstHead(buf)
    <2>1. p \in 1..Len(buf) /\ p \in Heads(Transit) /\ Len(buf) \in Nat
      BY <1>2, TransitIs DEF Inv
    <2>2. p # Len(buf) /\ p + 1 \in Tails(Transit)
      BY <1>5, <2>1 DEF Inv, Order, Careful, Whole, InPairs
    <2> HIDE DEF p
    <2>3. p + 1 \in 1..Len(buf) /\ p + 1 > p
      BY <2>1, <2>2
    <2>4. p + 1 \in Tails(buf)
      BY <2>2, <2>3, TransitIs DEF Inv
    <2>5. p + 1 \in TailsAfter(buf)
      BY <2>3, <2>4 DEF TailsAfter, p
    <2> QED BY <2>5 DEF HasPacket
  <1> QED BY <1>4, <1>5 DEF Inv, Careful

(* Steps that move no token: the peer may put a packet behind the others.  *)
LEMMA CarefulKept ==
    ASSUME Types, Careful, UNCHANGED <<buf, wire, habit, unacked>>,
           \A p \in Heads(Transit') : p \in Heads(Transit) \/ p > Len(Transit),
           reader' = "parse" => reader = "parse" \/ HasChecksum(buf),
           NoAck => NoAck', OneAck => OneAck'
    PROVE  Careful'
  <1>1. Parses'
    BY DEF Careful, Parses, HasChecksum, Tails
  <1>2. /\ Len(buf) \in Nat /\ Len(wire) \in Nat /\ Len(out) \in Nat
        /\ Len(Transit) = Len(buf) + Len(wire) + Len(out)
    BY TransitIs
  <1>3. habit = "whole" => Whole'
    <2> SUFFICES ASSUME habit = "whole", NEW p \in Heads(Transit')
                 PROVE  p # Len(buf) /\ p # Len(buf) + Len(wire)
      BY DEF Whole, Heads
    <2>1. CASE p \in Heads(Transit)
      BY <2>1 DEF Careful, Whole
    <2>2. CASE p > Len(Transit)
      BY <1>2, <2>2
    <2> QED BY <2>1, <2>2
  <1>4. HeadsRead' \subseteq HeadsRead
    <2> SUFFICES ASSUME NEW p \in Heads(Transit'), p \in 1..(Len(buf) + Len(wire))
                 PROVE  p \in Heads(Transit)
      BY DEF HeadsRead, Heads
    <2>1. ~(p > Len(Transit))
      BY <1>2
    <2> QED BY <2>1
  <1>5. habit = "waits" => Waits'
    <2>1. TailLast => TailLast'
      BY DEF TailLast, Heads, Tails
    <2>2. OnePacket => OnePacket'
      BY <1>4 DEF OnePacket
    <2>3. NotBoth => NotBoth'
      BY <1>4 DEF NotBoth
    <2> QED BY <2>1, <2>2, <2>3 DEF Careful, Waits
  <1> QED BY <1>1, <1>3, <1>5 DEF Careful

(* recv moves what has arrived behind the buffer, which held no tail.      *)
LEMMA CarefulReceived ==
    ASSUME Types, Types', Order, Careful, Tails(buf) = {}, buf' = buf \o wire, wire' = <<>>,
           UNCHANGED <<out, habit, unacked, toPeer, packet, sendQ>>,
           reader' = "parse" => buf' = <<Plus>>
    PROVE  Careful'
  <1>1. Parses'
    BY DEF Parses
  <1>2. Transit' = Transit
    <2>1. buf' \o <<>> = buf'
      BY ConcatEmptySeq DEF Types
    <2> QED BY <2>1 DEF Transit
  <1>3. Len(buf') = Len(buf) + Len(wire) /\ Len(wire') = 0 /\ Len(buf) \in Nat /\ Len(wire) \in Nat
    BY ConcatProperties, LenProperties DEF Types
  <1>4. habit = "whole" => Whole'
    BY <1>2, <1>3 DEF Careful, Whole, Heads
  <1>5. HeadsRead' = HeadsRead
    BY <1>2, <1>3 DEF HeadsRead, Heads
  <1>6. OnePacket => TailLast'
    <2> SUFFICES ASSUME OnePacket, NEW p \in Heads(buf'), NEW q \in Tails(buf')
                 PROVE  p < q
      BY DEF TailLast, Heads, Tails
    <2>1. /\ Heads(buf') \subseteq 1..Len(buf') /\ Tails(buf') \subseteq 1..Len(buf')
          /\ \A x \in 1..Len(buf') : /\ x \in Heads(buf') <=> x \in Heads(Transit)
                                     /\ x \in Tails(buf') <=> x \in Tails(Transit)
      <3>1. BufferBegins'
        BY TransitBegins, PTL
      <3> QED BY <1>2, <3>1 DEF BufferBegins, Heads, Tails
    <2>2. p \in HeadsRead /\ q \in Tails(Transit) /\ q \in 1..(Len(buf) + Len(wire))
      BY <1>3, <2>1 DEF HeadsRead
    <2>3. q > Len(buf)
      <3>1. q \notin 1..Len(buf)
        <4>1. \A x \in 1..Len(buf) : x \in Tails(buf) <=> x \in Tails(Transit)
          BY TransitIs
        <4> QED BY <2>2, <4>1
      <3> QED BY <1>3, <2>2, <3>1
    <2>4. q - 1 \in Heads(Transit)
      BY <2>2, <2>3 DEF Order, Preceded
    <2>5. q - 1 \in HeadsRead
      <3>1. q - 1 \in 1..Len(Transit)
        BY <2>4, TransitIs
      <3>2. q - 1 \in 1..(Len(buf) + Len(wire))
        BY <1>3, <2>2, <3>1
      <3> QED BY <2>4, <3>2 DEF HeadsRead
    <2>6. p = q - 1
      BY <2>2, <2>5 DEF OnePacket
    <2> QED BY <1>3, <2>2, <2>6
  <1>7. habit = "waits" => Waits'
    <2>1. OneAck => OneAck'
      BY DEF OneAck, OneAckIn, HasAck
    <2>2. NoAck' <=> NoAck
      BY DEF NoAck, HasAck
    <2> QED BY <1>5, <1>6, <2>1, <2>2 DEF Careful, Waits, OnePacket, NotBoth
  <1> QED BY <1>1, <1>4, <1>7 DEF Careful

(* The reader takes k tokens off its buffer: all, with no head among them, *)
(* or a head with what is before it, and acknowledges the packet.          *)
LEMMA CarefulTaken ==
    ASSUME Types, Types', Order, Careful, NEW k \in 0..Len(buf), buf' = Rest(buf, k),
           UNCHANGED <<wire, out, habit, unacked, toPeer, packet>>,
           \/ k = Len(buf) /\ UNCHANGED sendQ
           \/ k \in Heads(Transit) /\ sendQ' = Append(sendQ, "ack"),
           reader' # "parse"
    PROVE  Careful'
  <1> DEFINE read == Len(buf) + Len(wire)
  <1>1. Parses'
    BY DEF Parses
  <1>2. Len(buf) \in Nat /\ Len(wire) \in Nat /\ k \in Nat /\ k <= Len(buf) /\ Len(wire') = Len(wire)
    BY LenProperties DEF Types
  <1>3. Len(buf') = Len(buf) - k
    BY TransitCut
  <1>4. ASSUME NEW p \in Heads(Transit')
        PROVE  p \in Nat \ {0} /\ p + k \in Heads(Transit)
    <2>1. /\ Heads(Transit') \subseteq 1..Len(Transit')
          /\ \A x \in Nat \ {0} : x \in Heads(Transit') <=> x + k \in Heads(Transit)
      BY TransitCut
    <2>2. p \in Nat \ {0}
      BY <2>1
    <2> QED BY <2>1, <2>2
  <1>5. habit = "whole" => Whole'
    <2> SUFFICES ASSUME habit = "whole", NEW p \in Heads(Transit')
                 PROVE  p # Len(buf') /\ p # Len(buf') + Len(wire)
      BY <1>2 DEF Whole, Heads
    <2>1. p + k # Len(buf) /\ p + k # Len(buf) + Len(wire)
      BY <1>4 DEF Careful, Whole
    <2>2. p \in Nat
      BY <1>4
    <2> QED BY <1>2, <1>3, <2>1, <2>2
  <1>6. ASSUME NEW p \in HeadsRead'
        PROVE  p \in Nat \ {0} /\ p + k \in HeadsRead
    <2>1. p \in Heads(Transit') /\ p \in 1..(Len(buf') + Len(wire))
      BY <1>2, <1>6 DEF HeadsRead, Heads
    <2>2. p \in Nat \ {0} /\ p + k \in Heads(Transit)
      BY <1>4, <2>1
    <2>3. p + k \in 1..(Len(buf) + Len(wire))
      BY <1>2, <1>3, <2>1, <2>2
    <2> QED BY <2>2, <2>3 DEF HeadsRead
  <1>7. ASSUME Waits, k = Len(buf), UNCHANGED sendQ
        PROVE  Waits'
    <2>1. OnePacket'
      <3> SUFFICES ASSUME NEW p \in HeadsRead', NEW q \in HeadsRead'
                   PROVE  p = q
        BY DEF OnePacket
      <3>1. p + k = q + k
        BY <1>6, <1>7 DEF Waits, OnePacket
      <3>2. p \in Nat /\ q \in Nat
        BY <1>6
      <3> QED BY <1>2, <3>1, <3>2
    <2>2. TailLast'
      <3>1. Len(buf') = 0
        BY <1>2, <1>3, <1>7
      <3>2. Heads(buf') = {}
        BY <3>1, EmptySeq DEF Heads, Types
      <3> QED BY <3>2 DEF TailLast, Heads, Tails
    <2>3. OneAck' /\ (NoAck' <=> NoAck)
      BY <1>7 DEF Waits, OneAck, OneAckIn, NoAck, HasAck
    <2> QED BY <1>6, <1>7, <2>1, <2>2, <2>3 DEF Waits, NotBoth
  <1>8. ASSUME Waits, k \in Heads(Transit), sendQ' = Append(sendQ, "ack")
        PROVE  Waits'
    <2>1. k \in HeadsRead
      <3>1. k \in 1..Len(Transit)
        BY <1>8, TransitIs
      <3>2. k \in 1..(Len(buf) + Len(wire))
        BY <1>2, <3>1
      <3> QED BY <1>8, <3>2 DEF HeadsRead
    <2>2. HeadsRead' = {}
      <3> SUFFICES ASSUME NEW p \in HeadsRead'
                   PROVE  FALSE
        OBVIOUS
      <3>1. p \in Nat \ {0} /\ p + k = k
        BY <1>6, <1>8, <2>1 DEF Waits, OnePacket
      <3> QED BY <1>2, <3>1
    <2>3. unacked /\ NoAck
      BY <1>8, <2>1 DEF Waits, NotBoth
    <2>4. HasAck(sendQ') /\ OneAckIn(sendQ')
      <3>1. sendQ \in Seq({"request", "ack"}) /\ OneAckIn(sendQ)
        BY <1>8 DEF Types, TypeOK, Waits, OneAck
      <3> QED BY <1>8, <2>3, <3>1, AckAppend DEF NoAck
    <2>5. OneAck'
      BY <1>8, <2>3, <2>4 DEF Waits, OneAck, OneAckIn, NoAck, HasAck
    <2>6. TailLast'
      <3> SUFFICES ASSUME NEW p \in Heads(buf')
                   PROVE  FALSE
        BY DEF TailLast, Heads, Tails
      <3>1. BufferBegins' /\ Len(buf') \in Nat /\ Len(wire') \in Nat
        <4>1. BufferBegins'
          BY TransitBegins, PTL
        <4> QED BY <4>1, LenProperties DEF Types
      <3>2. p \in HeadsRead'
        BY <3>1 DEF BufferBegins, HeadsRead, Heads
      <3> QED BY <2>2, <3>2
    <2> QED BY <2>2, <2>3, <2>5, <2>6 DEF Waits, OnePacket, NotBoth
  <1> QED BY <1>1, <1>5, <1>7, <1>8 DEF Careful

(* The peer writes the next token, or a head and its tail.                 *)
LEMMA CarefulWritten ==
    ASSUME Types, Types', Order, Careful, out # <<>>, NEW n \in 1..2,
           Head(out).part = "head" => ~(habit = "waits" /\ unacked),
           n = IF habit = "whole" /\ Head(out).part = "head" THEN 2 ELSE 1,
           wire' = wire \o SubSeq(out, 1, n), Transit' = Transit,
           unacked' = (unacked \/ Head(out).part = "head"),
           UNCHANGED <<buf, habit, toPeer, packet, sendQ, reader>>
    PROVE  Careful'
  <1> DEFINE read == Len(buf) + Len(wire)
  <1>1. Parses'
    BY DEF Careful, Parses, HasChecksum, Tails
  <1>2. Len(buf) \in Nat /\ Len(wire) \in Nat /\ Len(out) \in Nat /\ Len(out) >= 1 /\ read \in Nat
    BY EmptySeq, LenProperties DEF Types
  <1>3. (read + 1) \in Heads(Transit) <=> Head(out).part = "head"
    <2> DEFINE bw == buf \o wire
               t == bw \o out
    <2>1. bw \in Seq(Tokens) /\ out \in Seq(Tokens) /\ Len(bw) = read /\ Head(out) = out[1]
      BY <1>2, ConcatProperties DEF Types
    <2>2. Transit = t
      BY DEF Transit
    <2> HIDE DEF bw, read
    <2>3. /\ t \in Seq(Tokens) /\ Len(t) = Len(bw) + Len(out)
          /\ \A i \in 1..(Len(bw) + Len(out)) : t[i] = IF i <= Len(bw) THEN bw[i] ELSE out[i - Len(bw)]
      BY <2>1, ConcatProperties
    <2> HIDE DEF t
    <2>4. read + 1 \in 1..(Len(bw) + Len(out)) /\ ~(read + 1 <= Len(bw)) /\ read + 1 - Len(bw) = 1
      BY <1>2, <2>1
    <2>5. t[read + 1] = Head(out) /\ DOMAIN t = 1..(Len(bw) + Len(out))
      BY <2>1, <2>3, <2>4, LenProperties
    <2> QED BY <2>2, <2>4, <2>5 DEF Heads
  <1>4. Len(wire') = Len(wire) + n
    <2>1. n = 2 => Head(out).part = "head"
      OBVIOUS
    <2>2. n \in 0..Len(out) /\ SubSeq(out, 1, n) \in Seq(Tokens)
      BY <2>1, PieceOf DEF Types
    <2>3. Len(SubSeq(out, 1, n)) = n
      <3>1. \A i \in 1..n : out[i] \in Tokens
        <4>1. \A i \in 1..n : i \in 1..Len(out)
          BY <1>2, <2>2
        <4> QED BY <4>1, ElementOfSeq DEF Types
      <3>2. Len(SubSeq(out, 1, n)) = IF 1 <= n THEN (n - 1) + 1 ELSE 0
        BY <3>1, SubSeqProperties
      <3> QED BY <3>2
    <2> QED BY <2>2, <2>3, ConcatProperties DEF Types
  <1>5. Heads(Transit) \subseteq 1..Len(Transit) /\ Len(Transit) = read + Len(out)
    BY <1>2, TransitIs
  <1> HIDE DEF read
  <1>6. ASSUME habit = "whole"
        PROVE  Whole'
    <2> SUFFICES ASSUME NEW p \in Heads(Transit)
                 PROVE  p # Len(buf) /\ p # Len(buf) + (Len(wire) + n)
      BY <1>4 DEF Whole, Heads
    <2>1. p # Len(buf)
      BY <1>6 DEF Careful, Whole
    <2>2. read + n \notin Heads(Transit)
      <3>1. CASE n = 1
        BY <1>3, <1>6, <3>1
      <3>2. CASE n = 2
        <4>1. (read + 1) + 1 \in Tails(Transit)
          BY <1>3, <1>6, <3>2 DEF Order, InPairs
        <4>2. (read + 1) + 1 = read + 2
          BY <1>2
        <4> QED BY <3>2, <4>1, <4>2 DEF Heads, Tails
      <3> QED BY <3>1, <3>2
    <2>3. Len(buf) + (Len(wire) + n) = read + n
      BY <1>2 DEF read
    <2> QED BY <2>1, <2>2, <2>3
  <1>7. ASSUME habit = "waits"
        PROVE  Waits'
    <2>1. n = 1 /\ Len(buf') + Len(wire') = read + 1
      BY <1>2, <1>4, <1>7 DEF read
    <2>2. HeadsRead' = HeadsRead \cup (IF Head(out).part = "head" THEN {read + 1} ELSE {})
      <3>1. 1..(read + 1) = 1..read \cup {read + 1}
        BY <1>2
      <3>2. HeadsRead = Heads(Transit) \cap 1..read
        BY DEF HeadsRead, read
      <3>3. HeadsRead' = Heads(Transit) \cap 1..(read + 1)
        BY <2>1 DEF HeadsRead, Heads
      <3> QED BY <1>3, <3>1, <3>2, <3>3
    <2>3. Waits
      BY <1>7 DEF Careful
    <2>4. OneAck' /\ (NoAck' <=> NoAck) /\ TailLast'
      BY <2>3 DEF Waits, OneAck, OneAckIn, NoAck, HasAck, TailLast, Heads, Tails
    <2>5. CASE Head(out).part = "head"
      BY <1>7, <2>2, <2>3, <2>4, <2>5 DEF Waits, OnePacket, NotBoth
    <2>6. CASE Head(out).part # "head"
      BY <2>2, <2>3, <2>4, <2>6 DEF Waits, OnePacket, NotBoth
    <2> QED BY <2>5, <2>6
  <1> QED BY <1>1, <1>6, <1>7 DEF Careful

(* The peer reads the acknowledgement, of which there is but one.          *)
LEMMA CarefulAcknowledged ==
    ASSUME Types, Careful, toPeer # <<>>, Head(toPeer) = "ack", toPeer' = Tail(toPeer),
           unacked' = FALSE,
           UNCHANGED <<buf, wire, out, habit, packet, sendQ, reader>>
    PROVE  Careful'
  <1>1. Parses' /\ (Whole => Whole')
    BY DEF Careful, Parses, HasChecksum, Tails, Heads, Whole, Transit
  <1>2. ASSUME Waits
        PROVE  Waits'
    <2>1. toPeer \in Seq({"request", "ack"})
      BY DEF Types, TypeOK
    <2>2. /\ HasAck(toPeer) /\ OneAckIn(toPeer)
          /\ OneAckIn(toPeer') /\ ~HasAck(toPeer')
      BY <1>2, <2>1, AckTail DEF Waits, OneAck
    <2>3. OneAck' /\ NoAck'
      BY <1>2, <2>2 DEF Waits, OneAck, OneAckIn, NoAck, HasAck
    <2>4. HeadsRead = {}
      BY <1>2, <2>2 DEF Waits, NotBoth, NoAck
    <2>5. HeadsRead' = {} /\ TailLast'
      BY <1>2, <2>4 DEF Waits, HeadsRead, Heads, Tails, TailLast, Transit
    <2> QED BY <2>3, <2>5 DEF Waits, OnePacket, NotBoth
  <1> QED BY <1>1, <1>2 DEF Careful

----------------------------------------------------------------------------
(* The invariant *)

LEMMA InvInit ==
    ASSUME "neither" \notin Habits
    PROVE  Init => Inv
  <1> SUFFICES ASSUME Init
               PROVE  Inv
    OBVIOUS
  <1>1. Types /\ LockInv
    BY TypesInit
  <1>2. buf = <<>> /\ Transit = <<>> /\ packets = <<>> /\ stopQ = <<>> /\ readQ = <<>>
    <2>1. <<>> \o <<>> = <<>>
      BY ConcatEmptySeq, EmptySeq
    <2> QED BY <2>1 DEF Init, Transit
  <1>3. Heads(<<>>) = {} /\ Tails(<<>>) = {} /\ DOMAIN <<>> = {} /\ Len(<<>>) = 0
    BY DEF Heads, Tails
  <1>4. Order
    BY <1>2, <1>3 DEF Order, InPairs, Preceded, FirstArrived, Arrived, Sorted, IsRising, ToSet
  <1>5. habit \in {"waits", "whole"}
    BY PeerAssumption DEF Init
  <1>6. Careful
    <2>1. sendQ = <<>> /\ toPeer = <<>> /\ packet = "none" /\ reader = "top" /\ unacked = FALSE
      BY DEF Init
    <2> QED BY <1>2, <1>3, <1>5, <2>1
            DEF Careful, Parses, Whole, Waits, OnePacket, HeadsRead, OneAck, OneAckIn, NoAck, HasAck,
                NotBoth, TailLast
  <1> QED BY <1>1, <1>4, <1>6 DEF Inv

(* Steps of the program and the threads that move no token *)
LEMMA InvKept ==
    ASSUME Inv, Types', LockInv',
           UNCHANGED <<buf, wire, out, packets, stopQ, readQ, habit, unacked>>,
           reader' = "parse" => reader = "parse" \/ HasChecksum(buf),
           NoAck => NoAck', OneAck => OneAck'
    PROVE  Inv'
  <1>1. Transit' = Transit
    BY DEF Transit
  <1>2. Order'
    <2>1. Len(buf') >= Len(buf)
      BY LenProperties DEF Inv, Types
    <2> QED BY <1>1, <2>1, OrderMoved DEF Inv
  <1>3. \A p \in Heads(Transit') : p \in Heads(Transit) \/ p > Len(Transit)
    BY <1>1
  <1>4. Careful'
    BY <1>3, CarefulKept DEF Inv
  <1> QED BY <1>2, <1>4 DEF Inv

LEMMA InvAppended ==
    ASSUME Inv, Types', LockInv', NEW kind \in {"stop", "data"}, NEW w, MaybeAck(w),
           packets' = Append(packets, kind), out' = out \o w \o Wrapped(NextId),
           UNCHANGED <<buf, wire, stopQ, readQ, habit, unacked, reader>>,
           NoAck => NoAck', OneAck => OneAck'
    PROVE  Inv'
  <1>1. /\ Order'
        /\ \A p \in Heads(Transit') : p \in Heads(Transit) \/ p > Len(Transit)
    BY OrderAppended DEF Inv
  <1>2. Careful'
    BY <1>1, CarefulKept DEF Inv
  <1> QED BY <1>1, <1>2 DEF Inv

LEMMA InvNext == Inv /\ [Next]_vars => Inv'
  <1> SUFFICES ASSUME Inv, [Next]_vars
               PROVE  Inv'
    OBVIOUS
  <1> USE DEF connVars, queueVars, readerVars, writerVars, userVars, peerVars
  <1>0. Types' /\ LockInv'
    BY TypesNext DEF Inv
  <1>1. /\ sendQ \in Seq({"request", "ack"}) /\ toPeer \in Seq({"request", "ack"})
        /\ packet \in {"none", "request", "ack"}
    BY DEF Inv, Types, TypeOK
  <1>2. CASE UserSend
    <2>1. (HasAck(sendQ') <=> HasAck(sendQ)) /\ (OneAckIn(sendQ) => OneAckIn(sendQ'))
      BY <1>1, <1>2, AckAppend DEF UserSend
    <2>2. (NoAck => NoAck') /\ (OneAck => OneAck')
      BY <1>2, <2>1 DEF UserSend, NoAck, OneAck, HasAck, OneAckIn
    <2> QED BY <1>0, <1>2, <2>2, InvKept DEF UserSend
  <1>3. CASE UserClose \/ UserJoin \/ UNCHANGED vars
    <2>1. (NoAck => NoAck') /\ (OneAck => OneAck')
      BY <1>3 DEF UserClose, UserJoin, vars, NoAck, OneAck, HasAck, OneAckIn
    <2> QED BY <1>0, <1>3, <2>1, InvKept DEF UserClose, UserJoin, vars
  <1>4. CASE Writer
    <2> USE DEF WriterUnchanged
    <2>1. (NoAck => NoAck') /\ (OneAck => OneAck')
      <3>1. CASE WriterTop \/ WriterLock
        BY <3>1 DEF WriterTop, WriterLock, NoAck, OneAck, HasAck, OneAckIn
      <3>2. CASE WriterGet
        <4>1. CASE sendQ = <<>>
          BY <3>2, <4>1 DEF WriterGet, NoAck, OneAck, HasAck, OneAckIn
        <4>2. CASE sendQ # <<>>
          <5>1. /\ HasAck(sendQ) <=> packet' = "ack" \/ HasAck(sendQ')
                /\ OneAckIn(sendQ) => OneAckIn(sendQ') /\ ~(packet' = "ack" /\ HasAck(sendQ'))
            BY <1>1, <3>2, <4>2, AckTail DEF WriterGet
          <5> QED BY <3>2, <5>1 DEF WriterGet, NoAck, OneAck, HasAck, OneAckIn
        <4> QED BY <4>1, <4>2
      <3>3. CASE WriterSend
        <4>1. packet \in {"request", "ack"}
          BY <1>1, <3>3 DEF WriterSend, Inv, LockInv
        <4>2. CASE toPeer' = Append(toPeer, packet)
          <5>1. /\ HasAck(toPeer') <=> HasAck(toPeer) \/ packet = "ack"
                /\ OneAckIn(toPeer) /\ ~(HasAck(toPeer) /\ packet = "ack") => OneAckIn(toPeer')
            BY <1>1, <4>1, <4>2, AckAppend
          <5> QED BY <3>3, <5>1 DEF WriterSend, NoAck, OneAck, HasAck, OneAckIn
        <4>3. CASE UNCHANGED toPeer
          BY <3>3, <4>3 DEF WriterSend, NoAck, OneAck, HasAck, OneAckIn
        <4> QED BY <3>3, <4>2, <4>3 DEF WriterSend
      <3>4. CASE WriterReset
        BY <3>4 DEF WriterReset, PeerGone, NoAck, OneAck, HasAck, OneAckIn
      <3> QED BY <1>4, <3>1, <3>2, <3>3, <3>4 DEF Writer
    <2> QED BY <1>0, <1>4, <2>1, InvKept
            DEF Writer, WriterTop, WriterGet, WriterLock, WriterSend, WriterReset, PeerGone
  <1>5. CASE Reader
    <2> USE DEF ReaderUnchanged
    <2>1. CASE ReaderTop \/ ReaderSelect \/ ReaderLock \/ ReaderReset \/ ReaderRelease
      <3>1. (NoAck => NoAck') /\ (OneAck => OneAck')
        BY <2>1 DEF ReaderTop, ReaderSelect, ReaderLock, ReaderReset, ReaderRelease, PeerGone, NoAck,
                    OneAck, HasAck, OneAckIn
      <3> QED BY <1>0, <2>1, <3>1, InvKept
              DEF ReaderTop, ReaderSelect, ReaderLock, ReaderReset, ReaderRelease, PeerGone
    <2>2. CASE ReaderRecv
      <3>1. /\ Tails(buf) = {} /\ buf' = buf \o wire /\ wire' = <<>>
            /\ UNCHANGED <<out, habit, unacked, toPeer, packet, sendQ, packets, stopQ, readQ>>
            /\ reader' = "parse" => buf' = <<Plus>>
        BY <2>2 DEF ReaderRecv, HasChecksum
      <3>2. Careful'
        BY <1>0, <3>1, CarefulReceived DEF Inv
      <3>3. Transit' = Transit /\ Len(buf') >= Len(buf)
        <4>1. buf \in Seq(Tokens) /\ wire \in Seq(Tokens)
          BY DEF Inv, Types
        <4>2. (buf \o wire) \o <<>> = buf \o wire /\ Len(buf \o wire) = Len(buf) + Len(wire)
          BY <4>1, ConcatEmptySeq, ConcatProperties
        <4> QED BY <3>1, <4>1, <4>2, LenProperties DEF Transit
      <3>4. Order'
        BY <1>0, <3>1, <3>3, OrderMoved DEF Inv
      <3> QED BY <1>0, <3>2, <3>4 DEF Inv
    <2>3. CASE ReaderDrop
      <3>1. /\ buf' = <<>> /\ reader' # "parse"
            /\ UNCHANGED <<wire, out, habit, unacked, toPeer, packet, sendQ, packets, stopQ, readQ>>
        BY <2>3 DEF ReaderDrop
      <3>2. Heads(buf) = {}
        BY <2>3, NoHeadDropped DEF ReaderDrop
      <3>3. Order'
        BY <1>0, <3>1, <3>2, OrderDropped DEF Inv
      <3>4. Len(buf) \in 0..Len(buf) /\ buf' = Rest(buf, Len(buf))
        <4>1. Len(buf) \in Nat
          BY LenProperties DEF Inv, Types
        <4> QED BY <3>1, <4>1, SubSeqEmpty DEF Rest
      <3>5. Careful'
        BY <1>0, <3>1, <3>4, CarefulTaken DEF Inv
      <3> QED BY <1>0, <3>3, <3>5 DEF Inv
    <2>4. CASE ReaderDeliver
      <3>1. /\ HasPacket(buf) /\ buf' = SubSeq(buf, Min(TailsAfter(buf)), Len(buf))
            /\ Queue(buf[FirstHead(buf)].id) /\ sendQ' = Append(sendQ, "ack") /\ reader' # "parse"
            /\ UNCHANGED <<wire, out, habit, unacked, toPeer, packet, packets>>
        BY <2>4 DEF ReaderDeliver
      <3>2. /\ Order'
            /\ FirstHead(buf) \in 0..Len(buf) /\ buf' = Rest(buf, FirstHead(buf))
            /\ FirstHead(buf) \in Heads(Transit)
        BY <1>0, <3>1, OrderDelivered DEF Inv
      <3>3. Careful'
        BY <1>0, <3>1, <3>2, CarefulTaken DEF Inv
      <3> QED BY <1>0, <3>2, <3>3 DEF Inv
    <2> QED BY <1>5, <2>1, <2>2, <2>3, <2>4 DEF Reader
  <1>6. CASE Peer
    <2> USE DEF PeerUnchanged
    <2>1. CASE PeerHangsUp
      <3>1. (NoAck => NoAck') /\ (OneAck => OneAck')
        BY <2>1 DEF PeerHangsUp, NoAck, OneAck, HasAck, OneAckIn
      <3> QED BY <1>0, <2>1, <3>1, InvKept DEF PeerHangsUp
    <2>2. CASE PeerStops
      <3>1. (NoAck => NoAck') /\ (OneAck => OneAck')
        BY <2>2 DEF PeerStops, NoAck, OneAck, HasAck, OneAckIn
      <3>2. out \o <<>> = out
        BY ConcatEmptySeq DEF Inv, Types
      <3>3. MaybeAck(<<>>) /\ out' = out \o <<>> \o Wrapped(NextId)
        BY <2>2, <3>2 DEF PeerStops, MaybeAck
      <3> QED BY <1>0, <2>2, <3>1, <3>3, InvAppended DEF PeerStops
    <2>3. CASE PeerReads
      <3>1. /\ HasAck(toPeer) <=> Head(toPeer) = "ack" \/ HasAck(toPeer')
            /\ OneAckIn(toPeer) => OneAckIn(toPeer')
        BY <1>1, <2>3, AckTail DEF PeerReads
      <3>2. CASE Head(toPeer) = "ack"
        <4>1. Careful'
          BY <2>3, <3>2, CarefulAcknowledged DEF PeerReads, Inv
        <4>2. Transit' = Transit /\ Len(buf') >= Len(buf)
          BY <2>3, <3>2, LenProperties DEF PeerReads, Inv, Types, Transit
        <4>3. Order'
          BY <1>0, <2>3, <3>2, <4>2, OrderMoved DEF PeerReads, Inv
        <4> QED BY <1>0, <4>1, <4>3 DEF Inv
      <3>3. CASE Head(toPeer) # "ack"
        <4>1. (NoAck => NoAck') /\ (OneAck => OneAck')
          BY <2>3, <3>1, <3>3 DEF PeerReads, NoAck, OneAck, HasAck, OneAckIn
        <4>2. MaybeAck(<<Plus>>)
          BY DEF MaybeAck
        <4> QED BY <1>0, <2>3, <3>3, <4>1, <4>2, InvAppended DEF PeerReads
      <3> QED BY <3>2, <3>3
    <2>4. CASE PeerWrites
      <3> DEFINE n == IF habit = "whole" /\ Head(out).part = "head" THEN 2 ELSE 1
      <3>1. /\ out # <<>> /\ wire' = wire \o SubSeq(out, 1, n) /\ out' = Rest(out, n)
            /\ Head(out).part = "head" => ~(habit = "waits" /\ unacked)
            /\ unacked' = (unacked \/ Head(out).part = "head")
            /\ UNCHANGED <<buf, habit, toPeer, packet, sendQ, reader, packets, stopQ, readQ>>
        BY <2>4 DEF PeerWrites, Rest
      <3>2. n \in 1..2 /\ (n = 2 => Head(out).part = "head")
        OBVIOUS
      <3>3. n = IF habit = "whole" /\ Head(out).part = "head" THEN 2 ELSE 1
        OBVIOUS
      <3> HIDE DEF n
      <3>4. Transit' = Transit
        <4>1. buf \in Seq(Tokens) /\ wire \in Seq(Tokens) /\ out \in Seq(Tokens) /\ InPairs(out)
          BY DEF Inv, Types
        <4>2. /\ n \in 0..Len(out) /\ SubSeq(out, 1, n) \in Seq(Tokens)
              /\ Rest(out, n) \in Seq(Tokens)
          BY ONLY <3>1, <3>2, <4>1, PieceOf
        <4> QED BY <3>1, <4>2, TransitWritten DEF Inv
      <3>5. Order'
        <4>1. Len(buf') >= Len(buf)
          BY <3>1, LenProperties DEF Inv, Types
        <4> QED BY <1>0, <3>1, <3>4, <4>1, OrderMoved DEF Inv
      <3>6. Careful'
        BY <1>0, <3>1, <3>2, <3>3, <3>4, CarefulWritten DEF Inv
      <3> QED BY <1>0, <3>5, <3>6 DEF Inv
    <2> QED BY <1>6, <2>1, <2>2, <2>3, <2>4 DEF Peer
  <1> QED BY <1>2, <1>3, <1>4, <1>5, <1>6 DEF Next

(* What is promised of what is under way and what has arrived              *)
LEMMA InvNothingLost == Inv => NothingLost
  <1> SUFFICES ASSUME Inv
               PROVE  NothingLost
    OBVIOUS
  <1>1. Arrived \in Nat /\ DOMAIN packets \subseteq Nat
    BY LenProperties DEF Inv, Types, TypeOK, Arrived
  <1>2. /\ Sorted
        /\ \A i \in DOMAIN packets : Delivered(i) <=> i <= Arrived
        /\ \A i \in DOMAIN packets : UnderWay(i) <=> i > Arrived
        /\ \A p, q \in Heads(Transit) : p < q => Transit[p].id < Transit[q].id
    BY DEF Inv, Order, FirstArrived
  <1>3. \A i \in DOMAIN packets : Delivered(i) # UnderWay(i)
    <2> SUFFICES ASSUME NEW i \in DOMAIN packets
                 PROVE  Delivered(i) # UnderWay(i)
      OBVIOUS
    <2>1. i <= Arrived <=> ~(i > Arrived)
      BY <1>1
    <2>2. Delivered(i) <=> ~UnderWay(i)
      BY <1>2, <2>1
    <2>3. Delivered(i) \in BOOLEAN /\ UnderWay(i) \in BOOLEAN
      BY DEF Delivered, UnderWay
    <2>4. CASE Delivered(i)
      BY <2>2, <2>4
    <2>5. CASE ~Delivered(i)
      BY <2>2, <2>5
    <2> QED BY <2>4, <2>5
  <1>4. ASSUME NEW p \in Heads(Transit), NEW i \in DOMAIN packets, Delivered(i)
        PROVE  i < Transit[p].id
    <2>1. Transit[p].id \in DOMAIN packets
      BY TransitIs DEF Inv
    <2>2. Transit[p].id > Arrived /\ i <= Arrived
      BY <1>2, <1>4, <2>1 DEF UnderWay
    <2> QED BY <1>1, <2>1, <2>2
  <1> QED BY <1>2, <1>3, <1>4 DEF NothingLost, Sorted

(* A peer that waits for the acknowledgement of a packet, or whose packets *)
(* arrive in one piece, loses none, whatever the pieces in which the rest  *)
(* arrives and however the connection ends (gdbrsp.py:118-189).            *)
THEOREM NoPacketLost ==
    ASSUME "neither" \notin Habits
    PROVE  Spec => []NothingLost
  <1>1. Init => Inv
    BY InvInit
  <1> QED BY <1>1, InvNext, InvNothingLost, PTL DEF Spec

LEMMA InOrderStep ==
    ASSUME Inv, [Next]_vars
    PROVE  [InOrder!Next]_(InOrder!channelVars)
  <1> USE DEF connVars, queueVars, readerVars, writerVars, userVars, peerVars, InOrder!channelVars
  <1>1. CASE UserSend \/ UserClose \/ UserJoin \/ Writer \/ UNCHANGED vars
    BY <1>1 DEF UserSend, UserClose, UserJoin, Writer, WriterTop, WriterGet, WriterLock, WriterSend,
                WriterReset, PeerGone, WriterUnchanged, vars
  <1>2. CASE Reader
    <2> USE DEF ReaderUnchanged
    <2>1. CASE ReaderDeliver
      <3> DEFINE next == Arrived + 1
      <3>1. Types'
        BY TypesNext DEF Inv
      <3>2. buf[FirstHead(buf)].id = next /\ next \in DOMAIN packets
        BY <2>1, <3>1, OrderDelivered DEF ReaderDeliver, Inv
      <3>3. Queue(next) /\ UNCHANGED packets
        BY <2>1, <3>2 DEF ReaderDeliver
      <3>4. InOrder!Arriving = next
        BY DEF InOrder!Arriving, Arrived
      <3>5. packets[next] \in {"stop", "data"}
        BY <3>2 DEF Inv, Types, TypeOK
      <3> HIDE DEF next
      <3>6. InOrder!DeliverStop \/ InOrder!DeliverReply
        BY <3>2, <3>3, <3>4, <3>5 DEF InOrder!DeliverStop, InOrder!DeliverReply, Queue
      <3> QED BY <3>6 DEF InOrder!Next
    <2>2. CASE ReaderTop \/ ReaderSelect \/ ReaderLock \/ ReaderRecv \/ ReaderReset
               \/ ReaderRelease \/ ReaderDrop
      BY <2>2 DEF ReaderTop, ReaderSelect, ReaderLock, ReaderRecv, ReaderReset, ReaderRelease,
                  ReaderDrop, PeerGone
    <2> QED BY <1>2, <2>1, <2>2 DEF Reader
  <1>3. CASE Peer
    <2> USE DEF PeerUnchanged
    <2>1. CASE PeerReads
      BY <2>1 DEF PeerReads, InOrder!Next, InOrder!Send
    <2>2. CASE PeerStops
      BY <2>2 DEF PeerStops, InOrder!Next, InOrder!Send
    <2>3. CASE PeerWrites \/ PeerHangsUp
      BY <2>3 DEF PeerWrites, PeerHangsUp
    <2> QED BY <1>3, <2>1, <2>2, <2>3 DEF Peer
  <1> QED BY <1>1, <1>2, <1>3 DEF Next

(* To RspTarget, the transport of such a peer is the channel of Channel:   *)
(* each packet arrives once, in order, in the queue of its kind            *)
(* (gdbrsp.py:118-189).                                                    *)
THEOREM ImplementsChannel ==
    ASSUME "neither" \notin Habits
    PROVE  Spec => ChannelSpec
  <1>1. Init => Inv
    BY InvInit
  <1>2. Init => InOrder!Init
    BY DEF Init, InOrder!Init
  <1>3. Inv /\ [Next]_vars => [InOrder!Next]_(InOrder!channelVars)
    BY InOrderStep
  <1> QED BY <1>1, <1>2, <1>3, InvNext, PTL DEF Spec, ChannelSpec, InOrder!Spec
=============================================================================

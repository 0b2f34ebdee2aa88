------------------------------- MODULE GdbRsp -------------------------------
(***************************************************************************)
(* GdbRsp (src/monk/backends/rsp_helpers/gdbrsp.py): the RSP transport     *)
(* under RspTarget.  A reader and a writer thread share one blocking       *)
(* socket under _sock_lock; send() puts packets into _send_queue, and the  *)
(* reader sorts what arrives into stop_queue and read_queue.               *)
(*                                                                         *)
(* Bytes are abstracted to tokens: the "head" of a packet is its `$data',  *)
(* the "tail" its `#xx', and "ack" is a `+'.  recv(1024) returns every     *)
(* token that has arrived.  The peer (the stub) is not in the repository:  *)
(* it acknowledges and answers each request, and sends stop packets.       *)
(***************************************************************************)
EXTENDS Naturals, Sequences, FiniteSetsExt, SequencesExt

CONSTANTS
    MaxRequests,    \* bound: calls of send()
    MaxStops,       \* bound: stop packets
    Habits,         \* what the peer may do: "waits" for the `+' of a packet before
                    \* the next, sends packets in one piece ("whole"), or neither
    HangsUp,        \* how the peer may end the connection
    MayClose        \* TRUE: the program may call close()

ASSUME BoundsAssumption == MaxRequests \in Nat /\ MaxStops \in Nat
ASSUME PeerAssumption ==
    Habits \subseteq {"waits", "whole", "neither"} /\ HangsUp \subseteq {"closed", "reset"}
ASSUME MayCloseAssumption == MayClose \in BOOLEAN

VARIABLES
    shutdown,   \* _shutdown_flag
    sockLock,   \* _sock_lock: "free", "reader" or "writer"
    sendQ,      \* _send_queue
    stopQ,      \* every packet put into stop_queue
    readQ,      \* every packet put into read_queue
    reader,     \* control label of _read_thread
    buf,        \* recv_buf of the reader
    writer,     \* control label of _write_thread
    packet,     \* packet of the writer
    user,       \* control label of the program: "open", or where it is in close()
    asked,      \* calls of send() so far
    wire,       \* tokens in the socket's receive buffer
    toPeer,     \* what the peer has still to read
    habit,      \* of the peer
    out,        \* tokens the peer has still to write
    unacked,    \* the peer waits for the `+' of its last packet
    packets,    \* the peer's packets: the i-th one is a stop packet or data
    peer        \* "open", "closed" (recv returns b'') or "reset", which the next
                \* call of the socket reports, once

connVars == <<shutdown, sockLock, sendQ>>
queueVars == <<stopQ, readQ>>
readerVars == <<reader, buf>>
writerVars == <<writer, packet>>
userVars == <<user, asked>>
peerVars == <<habit, out, unacked, packets, peer>>
vars == <<connVars, queueVars, readerVars, writerVars, userVars, wire, toPeer, peerVars>>

Token(part, id) == [part |-> part, id |-> id]
Plus == Token("ack", 0)

Init ==
    /\ shutdown = FALSE
    /\ sockLock = "free"
    /\ sendQ = <<>>
    /\ stopQ = <<>> /\ readQ = <<>>
    /\ reader = "top" /\ buf = <<>>
    /\ writer = "top" /\ packet = "none"
    /\ user = "open" /\ asked = 0
    /\ wire = <<>> /\ toPeer = <<>>
    /\ habit \in Habits
    /\ out = <<>> /\ unacked = FALSE /\ packets = <<>> /\ peer = "open"

----------------------------------------------------------------------------
(* The program *)

UserSend ==
    /\ user = "open"
    /\ asked < MaxRequests
    /\ asked' = asked + 1
    /\ sendQ' = Append(sendQ, "request")
    /\ UNCHANGED <<shutdown, sockLock, queueVars, readerVars, writerVars, user, wire,
                   toPeer, peerVars>>

UserClose ==
    /\ MayClose
    /\ user = "open"
    /\ user' = "joinWriter"
    /\ shutdown' = TRUE
    /\ UNCHANGED <<sockLock, sendQ, queueVars, readerVars, writerVars, asked, wire, toPeer,
                   peerVars>>

UserJoin ==
    /\ \/ user = "joinWriter" /\ writer = "done" /\ user' = "joinReader"
       \/ user = "joinReader" /\ reader = "done" /\ user' = "closed"
    /\ UNCHANGED <<connVars, queueVars, readerVars, writerVars, asked, wire, toPeer, peerVars>>

----------------------------------------------------------------------------
(* _do_send *)

WriterUnchanged == UNCHANGED <<queueVars, readerVars, userVars, wire, peerVars>>

(* Defect: the loop does not look at _shutdown_flag. *)
WriterTopForever ==
    /\ writer = "top"
    /\ writer' = "get"
    /\ UNCHANGED <<connVars, packet, toPeer>>
    /\ WriterUnchanged

WriterTop ==
    /\ writer = "top"
    /\ writer' = IF shutdown THEN "done" ELSE "get"
    /\ UNCHANGED <<connVars, packet, toPeer>>
    /\ WriterUnchanged

(* get(timeout=1) *)
WriterGet ==
    /\ writer = "get"
    /\ IF sendQ = <<>>
          THEN writer' = "top" /\ UNCHANGED <<sendQ, packet>>
          ELSE writer' = "lock" /\ packet' = Head(sendQ) /\ sendQ' = Tail(sendQ)
    /\ UNCHANGED <<shutdown, sockLock, toPeer>>
    /\ WriterUnchanged

WriterLock ==
    /\ writer = "lock"
    /\ sockLock = "free"
    /\ sockLock' = "writer"
    /\ writer' = "send"
    /\ UNCHANGED <<shutdown, sendQ, packet, toPeer>>
    /\ WriterUnchanged

(* A send to a peer that has gone succeeds or raises BrokenPipeError. *)
WriterSend ==
    /\ writer = "send"
    /\ \/ UNCHANGED shutdown /\ toPeer' = Append(toPeer, packet)
       \/ peer # "open" /\ shutdown' = TRUE /\ UNCHANGED toPeer
    /\ sockLock' = "free"
    /\ packet' = "none"
    /\ writer' = "top"
    /\ UNCHANGED sendQ
    /\ WriterUnchanged

PeerGone == peer = "reset" /\ peer' = "closed" /\ UNCHANGED <<habit, out, unacked, packets>>

(* Nobody catches ConnectionResetError: the thread ends, the flag stays.   *)
WriterReset ==
    /\ writer = "send"
    /\ PeerGone
    /\ sockLock' = "free"
    /\ packet' = "none"
    /\ writer' = "done"
    /\ UNCHANGED <<shutdown, sendQ, queueVars, readerVars, userVars, wire, toPeer>>

----------------------------------------------------------------------------
(* _do_recv *)

ReaderUnchanged == UNCHANGED <<writerVars, userVars, toPeer, peerVars>>

Heads(b) == {i \in DOMAIN b : b[i].part = "head"}
Tails(b) == {i \in DOMAIN b : b[i].part = "tail"}
HasChecksum(b) == Tails(b) # {}
Readable == wire # <<>> \/ peer # "open"

ReaderTop ==
    /\ reader = "top"
    /\ reader' = IF shutdown THEN "done" ELSE "select"
    /\ UNCHANGED <<connVars, queueVars, buf, wire>>
    /\ ReaderUnchanged

(* select(timeout=1) *)
ReaderSelect ==
    /\ reader = "select"
    /\ reader' = IF Readable THEN "lock" ELSE "top"
    /\ UNCHANGED <<connVars, queueVars, buf, wire>>
    /\ ReaderUnchanged

ReaderLock ==
    /\ reader = "lock"
    /\ sockLock = "free"
    /\ sockLock' = "reader"
    /\ reader' = "read"
    /\ UNCHANGED <<shutdown, sendQ, queueVars, buf, wire>>
    /\ ReaderUnchanged

(* Defect: whatever begins with an acknowledgement is taken for one. *)
ReaderRecvPrefix ==
    /\ reader = "read"
    /\ ~HasChecksum(buf)
    /\ peer # "reset"
    /\ wire # <<>> \/ peer = "closed"
    /\ buf' = buf \o wire
    /\ wire' = <<>>
    /\ IF (buf' = <<>> \/ Head(buf') # Plus) /\ ~shutdown
          THEN UNCHANGED <<sockLock, reader>>
          ELSE /\ sockLock' = "free"
               /\ reader' = IF shutdown THEN "done" ELSE "parse"
    /\ UNCHANGED <<shutdown, sendQ, queueVars>>
    /\ ReaderUnchanged

(* recv(1024) blocks while nothing has arrived, and returns b'' once the   *)
(* peer has closed the connection.  The loop ends at a bare `+', or when   *)
(* the flag is set.                                                        *)
ReaderRecv ==
    /\ reader = "read"
    /\ ~HasChecksum(buf)
    /\ peer # "reset"
    /\ wire # <<>> \/ peer = "closed"
    /\ buf' = buf \o wire
    /\ wire' = <<>>
    /\ IF buf' # <<Plus>> /\ ~shutdown
          THEN UNCHANGED <<sockLock, reader>>
          ELSE /\ sockLock' = "free"
               /\ reader' = IF buf' = <<Plus>> THEN "parse" ELSE "done"
    /\ UNCHANGED <<shutdown, sendQ, queueVars>>
    /\ ReaderUnchanged

(* ConnectionResetError *)
ReaderReset ==
    /\ reader = "read"
    /\ ~HasChecksum(buf)
    /\ PeerGone
    /\ shutdown' = TRUE
    /\ sockLock' = "free"
    /\ reader' = "done"
    /\ UNCHANGED <<sendQ, queueVars, buf, writerVars, userVars, wire, toPeer>>

(* Defect: the lock is kept. *)
ReaderReleaseNot ==
    /\ reader = "read"
    /\ HasChecksum(buf)
    /\ reader' = "parse"
    /\ UNCHANGED <<connVars, queueVars, buf, wire>>
    /\ ReaderUnchanged

ReaderRelease ==
    /\ reader = "read"
    /\ HasChecksum(buf)
    /\ sockLock' = "free"
    /\ reader' = "parse"
    /\ UNCHANGED <<shutdown, sendQ, queueVars, buf, wire>>
    /\ ReaderUnchanged

(* _get_first_packet_indices: the first `$', and the first `#' after it *)
FirstHead(b) == Min(Heads(b))
TailsAfter(b) == {j \in Tails(b) : j > FirstHead(b)}
HasPacket(b) == Heads(b) # {} /\ TailsAfter(b) # {}

(* What is no packet is dropped. *)
ReaderDrop ==
    /\ reader = "parse"
    /\ ~HasPacket(buf)
    /\ buf' = <<>>
    /\ reader' = "top"
    /\ UNCHANGED <<connVars, queueVars, wire>>
    /\ ReaderUnchanged

(* Defect: the packet cut out of the buffer is the one before. *)
QueuePrevious(id) ==
    IF packets[id] = "stop"
       THEN stopQ' = Append(stopQ, id - 1) /\ UNCHANGED readQ
       ELSE readQ' = Append(readQ, id) /\ UNCHANGED stopQ

(* Defect: the last packet of the buffer is taken, not the first. *)
ReaderDeliverLast ==
    /\ reader = "parse"
    /\ HasPacket(buf)
    /\ buf' = SubSeq(buf, Min(TailsAfter(buf)), Len(buf))
    /\ sendQ' = Append(sendQ, "ack")
    /\ LET id == buf[Max(Heads(buf))].id
       IN  IF packets[id] = "stop"
              THEN stopQ' = Append(stopQ, id) /\ UNCHANGED readQ
              ELSE readQ' = Append(readQ, id) /\ UNCHANGED stopQ
    /\ reader' = "top"
    /\ UNCHANGED <<shutdown, sockLock, wire>>
    /\ ReaderUnchanged

(* _is_stop_packet looks at the first byte: that of a stop packet (S, T,   *)
(* ...) begins none of the other replies (lower-case hex, E.., l, m, QC).  *)
Queue(id) ==
    IF packets[id] = "stop"
       THEN stopQ' = Append(stopQ, id) /\ UNCHANGED readQ
       ELSE readQ' = Append(readQ, id) /\ UNCHANGED stopQ

(* Defect: the packet is not acknowledged. *)
ReaderDeliverUnacked ==
    /\ reader = "parse"
    /\ HasPacket(buf)
    /\ buf' = SubSeq(buf, Min(TailsAfter(buf)), Len(buf))
    /\ Queue(buf[FirstHead(buf)].id)
    /\ reader' = "top"
    /\ UNCHANGED <<connVars, wire>>
    /\ ReaderUnchanged

(* The packet's own `#xx' stays in the buffer.  Every packet is            *)
(* acknowledged: the condition of gdbrsp.py:180 is always true.            *)
ReaderDeliver ==
    /\ reader = "parse"
    /\ HasPacket(buf)
    /\ buf' = SubSeq(buf, Min(TailsAfter(buf)), Len(buf))
    /\ sendQ' = Append(sendQ, "ack")
    /\ Queue(buf[FirstHead(buf)].id)
    /\ reader' = "top"
    /\ UNCHANGED <<shutdown, sockLock, wire>>
    /\ ReaderUnchanged

----------------------------------------------------------------------------
(* The peer *)

PeerUnchanged == UNCHANGED <<connVars, queueVars, readerVars, writerVars, userVars>>

NextId == Len(packets) + 1
Wrapped(id) == <<Token("head", id), Token("tail", id)>>

PeerReads ==
    /\ peer = "open"
    /\ toPeer # <<>>
    /\ toPeer' = Tail(toPeer)
    /\ IF Head(toPeer) = "ack"
          THEN unacked' = FALSE /\ UNCHANGED <<out, packets>>
          ELSE /\ packets' = Append(packets, "data")
               /\ out' = out \o <<Plus>> \o Wrapped(NextId)
               /\ UNCHANGED unacked
    /\ UNCHANGED <<wire, habit, peer>>
    /\ PeerUnchanged

PeerStops ==
    /\ peer = "open"
    /\ Cardinality({i \in DOMAIN packets : packets[i] = "stop"}) < MaxStops
    /\ packets' = Append(packets, "stop")
    /\ out' = out \o Wrapped(NextId)
    /\ UNCHANGED <<wire, toPeer, habit, unacked, peer>>
    /\ PeerUnchanged

(* The next token reaches the socket, and the tail with its head if the    *)
(* peer's packets arrive in one piece.                                     *)
PeerWrites ==
    /\ peer = "open"
    /\ out # <<>>
    /\ Head(out).part = "head" => ~(habit = "waits" /\ unacked)
    /\ LET n == IF habit = "whole" /\ Head(out).part = "head" THEN 2 ELSE 1
       IN  wire' = wire \o SubSeq(out, 1, n) /\ out' = SubSeq(out, n + 1, Len(out))
    /\ unacked' = (unacked \/ Head(out).part = "head")
    /\ UNCHANGED <<toPeer, habit, packets, peer>>
    /\ PeerUnchanged

PeerHangsUp ==
    /\ peer = "open"
    /\ peer' \in HangsUp
    /\ UNCHANGED <<wire, toPeer, habit, out, unacked, packets>>
    /\ PeerUnchanged

----------------------------------------------------------------------------

Writer == WriterTop \/ WriterGet \/ WriterLock \/ WriterSend \/ WriterReset
Reader ==
    \/ ReaderTop \/ ReaderSelect \/ ReaderLock \/ ReaderRecv \/ ReaderReset
    \/ ReaderRelease \/ ReaderDrop \/ ReaderDeliver
Peer == PeerReads \/ PeerStops \/ PeerWrites \/ PeerHangsUp

Next == UserSend \/ UserClose \/ UserJoin \/ Writer \/ Reader \/ Peer

Spec == Init /\ [][Next]_vars

(* The threads run; the peer may hang at any point. *)
ThreadFairness == WF_vars(Writer) /\ WF_vars(Reader) /\ WF_vars(UserJoin)
ThreadSpec == Spec /\ ThreadFairness

(* ... and a peer that has not hung up reads and writes. *)
FairSpec == ThreadSpec /\ WF_vars(PeerReads) /\ WF_vars(PeerWrites)

----------------------------------------------------------------------------
(* Properties *)

Parts == {"head", "tail", "ack"}

(* Every variable has the values its Python attribute can take. *)
TypeOK ==
    /\ shutdown \in BOOLEAN
    /\ sockLock \in {"free", "reader", "writer"}
    /\ sendQ \in Seq({"request", "ack"}) /\ toPeer \in Seq({"request", "ack"})
    /\ stopQ \in Seq(DOMAIN packets) /\ readQ \in Seq(DOMAIN packets)
    /\ reader \in {"top", "select", "lock", "read", "parse", "done"}
    /\ writer \in {"top", "get", "lock", "send", "done"}
    /\ packet \in {"none", "request", "ack"}
    /\ user \in {"open", "joinWriter", "joinReader", "closed"}
    /\ asked \in 0..MaxRequests
    /\ packets \in Seq({"stop", "data"})
    /\ {buf, wire, out} \subseteq Seq([part : Parts, id : 0..Len(packets)])
    /\ unacked \in BOOLEAN /\ habit \in Habits
    /\ peer \in {"open", "closed", "reset"}

Delivered(i) == i \in ToSet(stopQ) \cup ToSet(readQ)

(* What is under way, in the order in which the reader gets to it *)
Transit == buf \o wire \o out
UnderWay(i) == \E p \in Heads(Transit) : Transit[p].id = i

IsRising(ids) == \A i, j \in DOMAIN ids : i < j => ids[i] < ids[j]

(* No packet is lost, duplicated, reordered or put into the wrong queue:   *)
(* every packet is in its queue or under way, not both, in the order in    *)
(* which the peer sent them, what is under way after what has arrived      *)
(* (gdbrsp.py:163-189; "in both cases, ignore it" is meant for             *)
(* acknowledgements and corrupt data only).                                *)
NothingLost ==
    /\ \A i \in ToSet(stopQ) : packets[i] = "stop"
    /\ \A i \in ToSet(readQ) : packets[i] = "data"
    /\ IsRising(stopQ) /\ IsRising(readQ)
    /\ \A i \in DOMAIN packets : Delivered(i) # UnderWay(i)
    /\ \A p, q \in Heads(Transit) : p < q => Transit[p].id < Transit[q].id
    /\ \A p \in Heads(Transit), i \in DOMAIN packets : Delivered(i) => i < Transit[p].id

(* The transport implements Channel: packets arrive in the order of the    *)
(* connection, across both queues, whatever the pieces they arrive in and  *)
(* whenever the connection ends (gdbrsp.py:118-189).                       *)
InOrder == INSTANCE Channel WITH sent <- packets, stops <- stopQ, replies <- readQ
ChannelSpec == InOrder!Spec

Ended == shutdown \/ peer # "open"

(* Every packet of a peer that waits gets to its queue, though its pieces  *)
(* may arrive together with the tail of the one before and the reader      *)
(* takes only the first packet of what it has read (gdbrsp.py:139-189),    *)
(* unless the connection is given up.                                      *)
EveryPacketDelivered ==
    \A i \in 1..(MaxRequests + MaxStops) :
        (habit = "waits" /\ i \in DOMAIN packets) ~> (Delivered(i) \/ Ended)

(* Every request is sent and the reply of such a peer arrives: the reader, *)
(* which waits in recv with _sock_lock held, does not keep the writer from *)
(* sending what the peer waits for (gdbrsp.py:137-159).                    *)
EveryRequestAnswered ==
    \A n \in 1..MaxRequests :
        (habit = "waits" /\ asked >= n) ~> (Len(readQ) >= n \/ Ended)

(* close() returns (gdbrsp.py:155-159, 191-195), unless the peer hangs.    *)
Closes == (user = "joinWriter") ~> (user = "closed")
=============================================================================

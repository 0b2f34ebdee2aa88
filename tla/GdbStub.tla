------------------------------ MODULE GdbStub ------------------------------
(***************************************************************************)
(* The GDB stub on the other side of the RSP connection, as the comments   *)
(* and the calls of src/monk/backends/rsp_helpers/rsp_target.py describe   *)
(* it.  The stub is not part of the repository: it is the environment.     *)
(*                                                                         *)
(*   - toStub carries the packets Monk has queued for sending, fromStub    *)
(*     the packets the stub has sent and Monk has not read.  Both are      *)
(*     FIFO, as the send queue, the socket and the read queue are.         *)
(*   - While the guest is not stopped the stub answers nothing and acts    *)
(*     only on vCtrlC (rsp_target.py:233, 397-398, 463-466).               *)
(*   - When the guest stops the stub drops every software breakpoint       *)
(*     (callback_manager.py:210-214).                                      *)
(***************************************************************************)
EXTENDS Naturals, Sequences

CONSTANTS
    Addr,       \* guest addresses the program counter can be at
    NoAddr,     \* the address 0 (and Python's None): false in a condition
    Refused,    \* addresses at which the stub refuses a software breakpoint
    MaxHits     \* bound: breakpoints the running guest may hit

ASSUME NoAddrAssumption == NoAddr \notin Addr
ASSUME RefusedAssumption == Refused \subseteq Addr
ASSUME MaxHitsAssumption == MaxHits \in Nat

VARIABLES
    toStub,     \* packets on their way to the stub
    fromStub,   \* packets on their way to Monk
    stub,       \* the guest: run, pc, breakpoints, signal of the last stop
    hits        \* breakpoints hit so far (only to bound the model)

stubVars == <<toStub, fromStub, stub, hits>>

Signals == {"SIGINT", "SIGTRAP"}
ExecOps == {"cont", "step", "ctrlC"}
DataOps == {"set", "clear", "pc", "data", "detach"}
Ops == ExecOps \cup DataOps \cup {"why"}

(* A packet of Monk: vCont;c, vCont;s, vCtrlC, ?, Z0, z0, p, a read or     *)
(* write of registers or memory, D.  `by' is the thread that sent it.      *)
Packet(op, a, t) == [op |-> op, addr |-> a, by |-> t]

(* A packet of the stub.  `to' is the thread whose request it answers,     *)
(* and "none" when it answers no request.                                  *)
StopReply(sig) == [kind |-> "stop", body |-> sig, to |-> "none"]
DataReply(body, t) == [kind |-> "data", body |-> body, to |-> t]

StubInit ==
    /\ toStub = <<>>
    /\ fromStub = <<>>
    /\ \E a \in Addr, sig \in Signals :
          stub = [run |-> "stopped", pc |-> a, bps |-> {}, sig |-> sig]
    /\ hits = 0

(* The guest stops at address a because of sig, and the stub says so. *)
Halt(sig, a) ==
    /\ stub' = [run |-> "stopped", pc |-> a, bps |-> {}, sig |-> sig]
    /\ fromStub' = Append(fromStub, StopReply(sig))

Take == toStub # <<>> /\ toStub' = Tail(toStub)

(* What a stopped stub answers to a request for data. *)
Answer(m) ==
    CASE m.op = "pc" -> stub.pc
      [] m.op = "set" -> IF m.addr \in Refused THEN "E" ELSE "OK"
      [] m.op = "data" -> "data"
      [] OTHER -> "OK"

BpsAfter(m) ==
    CASE m.op = "set" -> stub.bps \cup (({m.addr} \cap Addr) \ Refused)
      [] m.op = "clear" -> stub.bps \ {m.addr}
      [] OTHER -> stub.bps

StubServe ==
    /\ Take
    /\ stub.run = "stopped"
    /\ Head(toStub).op \in DataOps
    /\ fromStub' = Append(fromStub, DataReply(Answer(Head(toStub)), Head(toStub).by))
    /\ stub' = [stub EXCEPT !.bps = BpsAfter(Head(toStub)),
                            !.run = IF Head(toStub).op = "detach" THEN "running" ELSE @]
    /\ UNCHANGED hits

StubWhy ==
    /\ Take
    /\ stub.run = "stopped"
    /\ Head(toStub).op = "why"
    /\ fromStub' = Append(fromStub, StopReply(stub.sig))
    /\ UNCHANGED <<stub, hits>>

StubResume ==
    /\ Take
    /\ stub.run = "stopped"
    /\ Head(toStub).op \in {"cont", "step"}
    /\ stub' = [stub EXCEPT !.run = IF Head(toStub).op = "cont" THEN "running" ELSE "stepping"]
    /\ UNCHANGED <<fromStub, hits>>

(* "vCtrlC receives an empty packet as a reply from QEMU when the target   *)
(* is already stopped" (rsp_target.py:463): a reply nobody waits for.      *)
StubStrayCtrlC ==
    /\ Take
    /\ stub.run = "stopped"
    /\ Head(toStub).op = "ctrlC"
    /\ fromStub' = Append(fromStub, DataReply("empty", "none"))
    /\ UNCHANGED <<stub, hits>>

StubCtrlC ==
    /\ Take
    /\ stub.run # "stopped"
    /\ Head(toStub).op = "ctrlC"
    /\ \E a \in Addr : Halt("SIGINT", a)
    /\ UNCHANGED hits

StubIgnore ==
    /\ Take
    /\ stub.run # "stopped"
    /\ Head(toStub).op # "ctrlC"
    /\ UNCHANGED <<fromStub, stub, hits>>

(* The running guest reaches a breakpoint. *)
StubBreak ==
    /\ stub.run = "running"
    /\ hits < MaxHits
    /\ \E a \in stub.bps : Halt("SIGTRAP", a)
    /\ hits' = hits + 1
    /\ UNCHANGED toStub

(* A single step ends, at any address. *)
StubStepped ==
    /\ stub.run = "stepping"
    /\ \E a \in Addr : Halt("SIGTRAP", a)
    /\ UNCHANGED <<toStub, hits>>

(* The stub takes its next packet. *)
StubReads ==
    \/ StubServe \/ StubWhy \/ StubResume
    \/ StubStrayCtrlC \/ StubCtrlC \/ StubIgnore

StubNext == StubReads \/ StubBreak \/ StubStepped

Packets(Threads) == [op : Ops, addr : Addr \cup {NoAddr}, by : Threads]
DataReplies(Threads) ==
    [kind : {"data"}, body : Addr \cup {"OK", "E", "data", "empty"}, to : Threads \cup {"none"}]
Replies(Threads) ==
    [kind : {"stop"}, body : Signals, to : {"none"}] \cup DataReplies(Threads)
Guests == [run : {"running", "stepping", "stopped"}, pc : Addr,
           bps : SUBSET Addr, sig : Signals]
=============================================================================

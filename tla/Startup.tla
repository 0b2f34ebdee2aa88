------------------------------ MODULE Startup -------------------------------
(***************************************************************************)
(* RspTarget.__init__ (src/monk/backends/rsp_helpers/rsp_target.py:93-128) *)
(* and what it calls before the event thread starts: queues left over from *)
(* another session are emptied, the state of the guest is asked for and,   *)
(* if need be, made "stopped", and the register files are read piecewise.  *)
(* Waits without a result end after a second; `late' says which ended      *)
(* although what they wait for was under way.  The stub is external: a running one *)
(* reacts to vCtrlC only.  A register file is a sequence of parts, and the *)
(* stub sends up to Chunk of them for a request.                           *)
(***************************************************************************)
EXTENDS Integers, SequencesExt

CONSTANTS
    Names,      \* register names
    Chunk,      \* parts of a file that fit into one reply
    Layouts,    \* register files the stub may have: sequences of files
    Leftovers,  \* what an earlier session may have left in the connection
    PC          \* where the guest stops

ASSUME ChunkAssumption == Chunk \in Nat \ {0}

VARIABLES
    toStub, fromStub,   \* requests and replies under way
    guest,              \* the guest: run, and sig, the signal of its last stop
    stopQ, readQ,       \* the two queues of GdbRsp
    layout,             \* the register files of the stub
    wellFormed,         \* its target.xml can be parsed
    at,                 \* control label of the constructor
    stopped,            \* target_is_stopped
    userStopped,        \* _user_stopped
    files,              \* xml_contents; the last one is being read
    regMap,             \* _reg_map
    late                \* labels whose wait ended before what it waits for arrived

stubVars == <<guest, layout, wellFormed>>
flagVars == <<stopped, userStopped>>
resultVars == <<files, regMap>>
vars == <<toStub, fromStub, stubVars, stopQ, readQ, at, flagVars, resultVars, late>>

Register(name, num) == [part |-> "reg", name |-> name, regnum |-> num]
NoNumber == -1
EndTag == [part |-> "end"]      \* </feature>
Newline == [part |-> "newline"]

Stop(sig) == [kind |-> "stop", body |-> sig]
Data(body) == [kind |-> "data", body |-> body]
Request(op, file, offset) == [op |-> op, file |-> file, offset |-> offset]
Ask(op) == Request(op, 0, 0)

Init ==
    /\ toStub = <<>> /\ fromStub \in Leftovers
    /\ guest \in [run : {"running", "stopped"}, sig : {"SIGINT", "SIGTRAP"}]
    /\ stopQ = <<>> /\ readQ = <<>>
    /\ layout \in Layouts /\ wellFormed \in BOOLEAN
    /\ at = "clear"
    /\ stopped = FALSE /\ userStopped = FALSE
    /\ files = <<>> /\ regMap = <<>>
    /\ late = {}

----------------------------------------------------------------------------
(* The stub and GdbRsp's reader thread *)

(* qXfer:features:read:<file>:<offset>,ffb *)
Piece(file, offset) ==
    SubSeq(layout[file], offset + 1, IF offset + Chunk < Len(layout[file])
                                        THEN offset + Chunk ELSE Len(layout[file]))

Reply(m) ==
    CASE m.op = "features" -> Data("features")
      [] m.op = "target" -> Data(IF wellFormed THEN "target" ELSE "garbage")
      [] m.op = "file" -> Data(Piece(m.file, m.offset))
      [] m.op = "why" -> Stop(guest.sig)
      [] m.op = "ctrlC" -> Data("empty")

StubAnswers ==
    /\ toStub # <<>>
    /\ guest.run = "stopped"
    /\ toStub' = Tail(toStub)
    /\ fromStub' = Append(fromStub, Reply(Head(toStub)))
    /\ UNCHANGED <<stubVars, stopQ, readQ, at, flagVars, resultVars, late>>

StubRuns ==
    /\ toStub # <<>>
    /\ guest.run = "running"
    /\ toStub' = Tail(toStub)
    /\ IF Head(toStub).op = "ctrlC"
          THEN /\ guest' = [run |-> "stopped", sig |-> "SIGINT"]
               /\ fromStub' = Append(fromStub, Stop("SIGINT"))
          ELSE UNCHANGED <<guest, fromStub>>
    /\ UNCHANGED <<layout, wellFormed, stopQ, readQ, at, flagVars, resultVars, late>>

Reader ==
    /\ fromStub # <<>>
    /\ fromStub' = Tail(fromStub)
    /\ IF Head(fromStub).kind = "stop"
          THEN stopQ' = Append(stopQ, Head(fromStub).body) /\ UNCHANGED readQ
          ELSE readQ' = Append(readQ, Head(fromStub).body) /\ UNCHANGED stopQ
    /\ UNCHANGED <<toStub, stubVars, at, flagVars, resultVars, late>>

----------------------------------------------------------------------------
(* The constructor *)

Own == UNCHANGED <<fromStub, stubVars>>

UnderWay ==
    \/ fromStub # <<>>
    \/ guest.run = "stopped" /\ toStub # <<>>

(* The wait at a label ends without a result. *)
TimesOut(queue, next) ==
    /\ queue = <<>>
    /\ late' = IF UnderWay THEN late \cup {at} ELSE late
    /\ at' = next

(* _clear_rsp: an empty packet is false, and ends the loop as well.        *)
Clear ==
    /\ at = "clear"
    /\ \/ TimesOut(readQ, "clearStops") /\ UNCHANGED readQ
       \/ /\ readQ # <<>>
          /\ readQ' = Tail(readQ)
          /\ at' = IF Head(readQ) = "empty" THEN "clearStops" ELSE "clear"
          /\ UNCHANGED late
    /\ UNCHANGED <<toStub, stopQ, flagVars, resultVars>> /\ Own

(* Defect: the stop queue is not emptied. *)
ClearStopsNot ==
    /\ at = "clearStops"
    /\ at' = "ask"
    /\ UNCHANGED <<toStub, stopQ, readQ, flagVars, resultVars, late>> /\ Own

ClearStops ==
    /\ at = "clearStops"
    /\ \/ TimesOut(stopQ, "ask") /\ UNCHANGED stopQ
       \/ stopQ # <<>> /\ stopQ' = Tail(stopQ) /\ UNCHANGED <<at, late>>
    /\ UNCHANGED <<toStub, readQ, flagVars, resultVars>> /\ Own

Sends(request, next) == toStub' = Append(toStub, request) /\ at' = next

(* _is_target_stopped *)
AskWhy ==
    /\ at = "ask"
    /\ Sends(Ask("why"), "isStopped")
    /\ UNCHANGED <<stopQ, readQ, flagVars, resultVars, late>> /\ Own

(* Defect: a guest that does not answer is taken for a stopped one. *)
IsStoppedAnyhow ==
    /\ at = "isStopped"
    /\ \/ TimesOut(stopQ, "stop") /\ stopped' = TRUE /\ UNCHANGED stopQ
       \/ stopQ # <<>> /\ stopQ' = Tail(stopQ) /\ stopped' = TRUE /\ at' = "stop"
          /\ UNCHANGED late
    /\ UNCHANGED <<toStub, readQ, userStopped, resultVars>> /\ Own

IsStopped ==
    /\ at = "isStopped"
    /\ \/ TimesOut(stopQ, "stop") /\ stopped' = FALSE /\ UNCHANGED stopQ
       \/ stopQ # <<>> /\ stopQ' = Tail(stopQ) /\ stopped' = TRUE /\ at' = "stop"
          /\ UNCHANGED late
    /\ UNCHANGED <<toStub, readQ, userStopped, resultVars>> /\ Own

(* Defect: vCtrlC is sent whether or not the guest is stopped. *)
StopGuestAlways ==
    /\ at = "stop"
    /\ userStopped' = TRUE
    /\ Sends(Ask("ctrlC"), "features") /\ stopped' = TRUE
    /\ UNCHANGED <<stopQ, readQ, resultVars, late>> /\ Own

(* cmd_stop, with nobody to contend for its locks *)
StopGuest ==
    /\ at = "stop"
    /\ userStopped' = TRUE
    /\ IF stopped
          THEN at' = "features" /\ UNCHANGED <<toStub, stopped>>
          ELSE Sends(Ask("ctrlC"), "features") /\ stopped' = TRUE
    /\ UNCHANGED <<stopQ, readQ, resultVars, late>> /\ Own

(* _negotiate_features and the request of _get_reg_layout *)
AskFeatures ==
    /\ at = "features"
    /\ Sends(Ask("features"), "supported")
    /\ UNCHANGED <<stopQ, readQ, flagVars, resultVars, late>> /\ Own

Receives == readQ # <<>> /\ readQ' = Tail(readQ)

Supported ==
    /\ at = "supported"
    /\ Receives
    /\ Sends(Ask("target"), "target")
    /\ UNCHANGED <<stopQ, flagVars, resultVars, late>> /\ Own

(* _get_xml_file_names.  What is no target.xml cannot be parsed:           *)
(* _get_reg_layout returns None, and the constructor, which unpacks two    *)
(* values, raises a TypeError.                                             *)
ParseTarget ==
    /\ at = "target"
    /\ Receives
    /\ IF Head(readQ) = "target"
          THEN files' = <<<<>>>> /\ at' = "file"
          ELSE at' = "raised" /\ UNCHANGED files
    /\ UNCHANGED <<toStub, stopQ, flagVars, regMap, late>> /\ Own

(* _request_xml_files, a loop for each file *)
Reading == Len(files)
Complete(contents) ==
    \/ contents # <<>> /\ Last(contents) = EndTag
    \/ Len(contents) > 1 /\ SubSeq(contents, Len(contents) - 1, Len(contents)) = <<EndTag, Newline>>

RequestFile ==
    /\ at = "file"
    /\ Reading <= Len(layout) /\ ~Complete(Last(files))
    /\ Sends(Request("file", Reading, Len(Last(files))), "contents")
    /\ UNCHANGED <<stopQ, readQ, flagVars, resultVars, late>> /\ Own

NextFile ==
    /\ at = "file"
    /\ Reading <= Len(layout) /\ Complete(Last(files))
    /\ files' = Append(files, <<>>)
    /\ UNCHANGED <<toStub, stopQ, readQ, at, flagVars, regMap, late>> /\ Own

Contents ==
    /\ at = "contents"
    /\ Receives
    /\ files' = [files EXCEPT ![Reading] = @ \o Head(readQ)]
    /\ at' = "file"
    /\ UNCHANGED <<toStub, stopQ, flagVars, regMap, late>> /\ Own

(* Defect: the index does not go on from a register's own number. *)
IndexAfterCount(registers) ==
    [i \in DOMAIN registers |->
        IF registers[i].regnum # NoNumber THEN registers[i].regnum ELSE i - 1]

(* _get_register_info: index is the register's own number, or goes on from *)
(* the one before.                                                         *)
IndexAfter(registers) ==
    LET index[i \in 0..Len(registers)] ==
            IF i = 0 THEN -1
            ELSE IF registers[i].regnum # NoNumber THEN registers[i].regnum ELSE index[i - 1] + 1
    IN  [i \in DOMAIN registers |-> index[i]]

IsRegister(part) == part.part = "reg"
AllRegisters(contents) == SelectSeq(FlattenSeq(contents), IsRegister)

(* The last of several registers of one name counts. *)
RegisterInfo(contents) ==
    LET registers == AllRegisters(contents)
        lastOf(n) == CHOOSE i \in DOMAIN registers :
                        registers[i].name = n
                        /\ \A j \in DOMAIN registers : registers[j].name = n => j <= i
    IN  [n \in {registers[i].name : i \in DOMAIN registers} |->
            IndexAfter(registers)[lastOf(n)]]

(* The event thread starts. *)
Finish ==
    /\ at = "file"
    /\ Reading > Len(layout)
    /\ regMap' = RegisterInfo(Front(files))
    /\ files' = Front(files)
    /\ at' = "ready"
    /\ UNCHANGED <<toStub, stopQ, readQ, flagVars, late>> /\ Own

Constructor ==
    \/ Clear \/ ClearStops \/ AskWhy \/ IsStopped \/ StopGuest \/ AskFeatures \/ Supported
    \/ ParseTarget \/ RequestFile \/ NextFile \/ Contents \/ Finish

Stub == StubAnswers \/ StubRuns
Next == Stub \/ Reader \/ Constructor

Spec == Init /\ [][Next]_vars

(* Nothing else runs yet: each of the three goes on when it can. *)
FairSpec == Spec /\ WF_vars(Stub) /\ WF_vars(Reader) /\ WF_vars(Constructor)

----------------------------------------------------------------------------
(* Properties *)

Drained == late \subseteq {"isStopped"}     \* nothing came after the queues were emptied

(* A constructor that returns has left the connection as Monk's Init says: *)
(* the guest is stopped and known to be, and no reply is left over.  It    *)
(* does so even if the answer to `?' came too late: then it raises.        *)
Program == INSTANCE Monk WITH
    Addr <- {PC}, NoAddr <- "zero", Refused <- {}, MaxHits <- 0, Users <- {},
    MayCall <- [t \in {"main", "cbMain", "cbEvent"} |-> {}],
    Budget <- [t \in {"main", "cbMain", "cbEvent"} |-> 0],
    Careful <- {}, Patient <- FALSE,
    stub <- [run |-> guest.run, pc |-> PC, bps |-> {}, sig |-> guest.sig],
    hits <- 0, savedBp <- "zero", cbUnsetBp <- FALSE, shutdown <- FALSE,
    eventLock <- "none", rspLock <- "none",
    at <- [t \in {"main", "event", "cbMain", "cbEvent"} |->
              CASE t = "main" -> "user" [] t = "event" -> "loop" [] OTHER -> "off"],
    rq <- [t \in {"main", "event", "cbMain", "cbEvent"} |->
              [op |-> "none", addr |-> "zero", back |-> "user"]],
    val <- [t \in {"main", "event", "cbMain", "cbEvent"} |-> "zero"],
    arg <- [t \in {"main", "event", "cbMain", "cbEvent"} |-> "zero"],
    stepBack <- "user", dispBack <- "save",
    calls <- [t \in {"main", "cbMain", "cbEvent"} |-> 0],
    hooks <- {}, keys <- {},
    due <- [t \in {"main", "event"} |-> FALSE],
    todo <- [t \in {"main", "event"} |-> {}],
    seen <- [t \in {"main", "event"} |-> {}]

StartsMonk == at = "ready" /\ Drained => Program!Init

(* The register map of a constructor that returns has the numbers the      *)
(* files give: a register without one follows the last that has one        *)
(* (rsp_target.py:748-763; test_rsp_target.py, test_get_register_info).    *)
Numbered(registers, i) ==
    LET own == {j \in 1..i : registers[j].regnum # NoNumber}
        from == CHOOSE j \in own : \A k \in own : k <= j
    IN  IF own = {} THEN i - 1 ELSE registers[from].regnum + (i - from)

RegistersNumbered ==
    at = "ready" =>
        LET registers == AllRegisters(layout)
        IN  \A i \in DOMAIN registers :
                \/ regMap[registers[i].name] = Numbered(registers, i)
                \/ \E j \in DOMAIN registers : j > i /\ registers[j].name = registers[i].name

(* The constructor fails only on a target.xml that cannot be parsed, or    *)
(* when an answer came after its wait had ended (rsp_target.py:112-124:    *)
(* the guest's state, asked first, keeps vCtrlC from a stopped guest).     *)
RaisesForCause == at = "raised" => ~wellFormed \/ late # {}

(* The constructor comes to an end (rsp_target.py:665-672), unless what an *)
(* earlier session left over arrives after the queues were emptied.        *)
StartsUp == <>(at \in {"ready", "raised"} \/ ~Drained)
=============================================================================

---------------------------- MODULE MCForensics -----------------------------
(* A guest with three tasks of eight bytes at 8, 16 and 24, and the        *)
(* thread_info of the current one at 32, which also may name a task outside*)
(* of memory.  A byte has 64 values.                                       *)
EXTENDS Forensics

CONSTANTS CurrentTasks, OffRing, Fields

MCTypeSize == [pointer |-> 1, int |-> 2, char |-> 1]
MCInt(offset) == [kind |-> "base", name |-> "int", offset |-> offset]
MCJson ==
    [task_struct |->
        [pid |-> MCInt(0),
         state |-> MCInt(2),
         tasks |-> [kind |-> "struct", name |-> "list_head", offset |-> 4],
         comm |-> [kind |-> "array", count |-> 2,
                   subtype |-> [kind |-> "base", name |-> "char"], offset |-> 5],
         low |-> [kind |-> "bitfield", type |-> [kind |-> "base", name |-> "char"],
                  bit_position |-> 0, bit_length |-> 1, offset |-> 7],
         high |-> [kind |-> "bitfield", type |-> [kind |-> "base", name |-> "char"],
                   bit_position |-> 1, bit_length |-> 1, offset |-> 7],
         fn |-> [kind |-> "function", offset |-> 7]],
     list_head |-> [next |-> [kind |-> "pointer", offset |-> 0]],
     thread_info |-> [task |-> [kind |-> "pointer", offset |-> 1]]]

MCMapped == 8..33
(* pid, state, tasks.next, comm, and a byte of bits *)
Task(pid, next, comm) ==
    ToBytes(pid, 2, Endian) \o ToBytes(65, 2, Endian) \o <<next + 4>> \o comm \o <<1>>
MCMemory(current) ==
    LET bytes == Task(70, 16, <<1, 2>>) \o Task(6, IF OffRing THEN 8 ELSE 24, <<3, 0>>)
                    \o Task(7, 8, <<1, 1>>) \o <<0, current>>
    IN  [a \in MCMapped |-> bytes[a - 7]]
MCMemories == {MCMemory(x) : x \in CurrentTasks}
MCSought == {<<3>>, <<1, 1>>, <<5>>}
MCValues ==
    [pid |-> {<<80>>}, state |-> {<<129>>}, comm |-> {<<3>>, <<4, 1, 1>>},
     tasks |-> {<<0>>}, low |-> {<<0>>}, high |-> {<<1>>}]
MCMayAssign == [f \in Fields |-> MCValues[f]]
=============================================================================

------------------------------ MODULE Structs -------------------------------
(***************************************************************************)
(* Kernel structs as objects (src/monk/symbols/structs.py) and the types   *)
(* they are made from (src/monk/symbols/dwarf2json_loader.py).  A struct   *)
(* is a function from its fields to the attributes the symbol file gives   *)
(* them; Property resolves those to what the generated getter and setter   *)
(* do.  At the end, what C says of the same field.                         *)
(***************************************************************************)
EXTENDS GuestMemory, Bitwise

CONSTANTS
    TypeSize,   \* base_types of the symbol file: name -> size
    Json        \* its user_types: struct name -> field -> attributes

basic_types == {"pointer", "base"}
class_types == {"struct", "union"}
memory_types == basic_types \cup {"array", "bitfield"}

(* get_base_type_name, get_array_type, get_bitfield_info *)
BaseTypeName(attr) == IF attr.kind = "base" THEN attr.name ELSE "pointer"
HasName(type) == "name" \in DOMAIN type

ArrayType(attr) ==
    IF attr.subtype.kind \in basic_types /\ HasName(attr.subtype)
       THEN attr.subtype.name ELSE "pointer"

BitfieldType(attr) == IF attr.type.kind \in basic_types THEN attr.type.name ELSE "int"

(* The constructor of Symbols raises for what it cannot resolve. *)
Resolvable(attr) ==
    CASE attr.kind \in basic_types -> BaseTypeName(attr) \in DOMAIN TypeSize
      [] attr.kind \in class_types -> attr.name \in DOMAIN Json
      [] attr.kind = "array" -> ArrayType(attr) \in DOMAIN TypeSize
      [] attr.kind = "bitfield" ->
            attr.type.kind \in basic_types \cup {"enum"} /\ BitfieldType(attr) \in DOMAIN TypeSize
      [] OTHER -> TRUE

ASSUME SymbolsAssumption ==
    \A s \in DOMAIN Json : \A f \in DOMAIN Json[s] : Resolvable(Json[s][f])

(* _gen_attributes *)
ElementSize(attr) ==
    TypeSize[CASE attr.kind = "array" -> ArrayType(attr)
               [] attr.kind = "bitfield" -> BitfieldType(attr)
               [] OTHER -> BaseTypeName(attr)]

(* Defect: _get_read_fn has no branch for two bytes. *)
WidthNoShort(size) == IF size \in {1, 8} THEN size ELSE 4

(* _get_read_fn and _get_write_fn: bytes of an access *)
Width(size) == IF size \in {1, 2, 8} THEN size ELSE 4

Count(attr) == IF attr.kind = "array" THEN attr.count ELSE 1
ElementAddr(base, attr, i) == base + attr.offset + i * ElementSize(attr)

Read(a, n) == [val |-> 0, addr |-> a, size |-> n, do |-> "read", elem |-> 0]
Write(a, n, v, i) == [val |-> v, addr |-> a, size |-> n, do |-> "write", elem |-> i]

(* The requests of a getter: gen_uint_prop, gen_list_prop, gen_bitfield_prop *)
GetRequests(base, attr) ==
    [i \in 1..Count(attr) |-> Read(ElementAddr(base, attr, i - 1), Width(ElementSize(attr)))]

(* gen_bitfield_prop shifts by bits, and back by the size in bytes. *)
BitsRead(attr, word) ==
    (word * 2 ^ attr.bit_position) \div 2 ^ (ElementSize(attr) - attr.bit_length)
BitsReadable(attr) == ElementSize(attr) >= attr.bit_length

(* Defect: the list is written from its second element on. *)
SetRequestsFromSecond(base, attr, list) ==
    [i \in 1..(IF Len(list) < Count(attr) THEN Len(list) ELSE Count(attr)) |->
        Write(ElementAddr(base, attr, i - 1), Width(ElementSize(attr)),
              list[IF i < Len(list) THEN i + 1 ELSE i], i - 1)]

(* The requests of a setter: gen_uint_setter, and gen_list_setter, which   *)
(* writes the elements that both the list and the array have               *)
SetRequests(base, attr, list) ==
    [i \in 1..(IF Len(list) < Count(attr) THEN Len(list) ELSE Count(attr)) |->
        Write(ElementAddr(base, attr, i - 1), Width(ElementSize(attr)), list[i], i - 1)]

(* gen_bitfield_setter: what it writes, having read a word *)
BitsWritten(attr, word, v) ==
    (word & (2 ^ attr.bit_length - 1)) | (v * 2 ^ attr.bit_position)

----------------------------------------------------------------------------
(* Reference: the field as C has it *)

CSize(attr) ==
    IF attr.kind = "array" /\ attr.subtype.kind = "enum" THEN TypeSize["int"] ELSE ElementSize(attr)
CAddr(base, attr, i) == base + attr.offset + i * CSize(attr)
CLoad(mem, base, attr, i) ==
    byte_order_int(BytesAt(mem, CAddr(base, attr, i), CSize(attr)), Endian)

CValue(mem, base, attr) ==
    IF attr.kind = "bitfield"
       THEN <<(CLoad(mem, base, attr, 0) \div 2 ^ attr.bit_position) % 2 ^ attr.bit_length>>
       ELSE [i \in 1..Count(attr) |-> CLoad(mem, base, attr, i - 1)]

(* The memory after the assignment of v to element i *)
CAssign(mem, base, attr, i, v) ==
    LET word == CLoad(mem, base, attr, 0)
        low == 2 ^ attr.bit_position
        high == 2 ^ (attr.bit_position + attr.bit_length)
        new == IF attr.kind = "bitfield"
                  THEN (word \div high) * high + v * low + (word % low)
                  ELSE v
    IN  Put(mem, CAddr(base, attr, i), ToBytes(new, CSize(attr), Endian))
=============================================================================

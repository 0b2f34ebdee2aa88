---------------------------- MODULE GuestMemory -----------------------------
(***************************************************************************)
(* Guest memory as the backends read and write it: integers against bytes  *)
(* in a byte order (src/monk/utils/helpers.py, read_memory and write_memory*)
(* of rsp_target.py, gdb.py).  A byte has HexBase * HexBase values, that   *)
(* is two digits on the wire (HexBase is 16 in the code).  What the stub   *)
(* and GDB do with a command is external.                                  *)
(***************************************************************************)
EXTENDS Integers, SequencesExt

CONSTANTS
    HexBase,    \* values of a digit of a packet
    Mapped,     \* addresses the stub can read and write
    Endian,     \* byte order of the guest, which the symbol file states
    LongSize    \* bytes of a `long' of the guest, which GDB writes for 64 bits

ASSUME MemoryAssumption ==
    /\ HexBase \in Nat \ {0, 1}
    /\ Mapped \subseteq Nat
    /\ Endian \in {"big", "little"}
    /\ LongSize \in Nat

Byte == 0..(HexBase * HexBase - 1)
ByteBase == HexBase * HexBase
InOrder(bytes, order) == IF order = "big" THEN bytes ELSE Reverse(bytes)

Number(bytes) ==
    LET n[i \in 0..Len(bytes)] == IF i = 0 THEN 0 ELSE n[i - 1] * ByteBase + bytes[i]
    IN  n[Len(bytes)]
byte_order_int(bytes, order) == Number(InOrder(bytes, order))

(* The n bytes of v in an order; higher digits of v are left out. *)
ToBytes(v, n, order) ==
    InOrder([i \in 1..n |-> (v \div ByteBase ^ (n - i)) % ByteBase], order)

(* hexval: at least `size' digits, and more if v has more *)
Fits(v, n) == v < ByteBase ^ n
hexval_digits(v, size) ==
    LET digits[n \in Nat] == IF n < HexBase THEN 1 ELSE 1 + digits[n \div HexBase]
    IN  IF digits[v] < size THEN size ELSE digits[v]

Reachable(a, n) == a..(a + n - 1) \subseteq Mapped
BytesAt(mem, a, n) == [i \in 1..n |-> mem[a + i - 1]]
Put(mem, a, bytes) ==
    [x \in DOMAIN mem |-> IF x - a + 1 \in DOMAIN bytes THEN bytes[x - a + 1] ELSE mem[x]]

(* read_memory; GDB's `x' reads in the guest's order itself *)
Load(mem, a, n) == byte_order_int(BytesAt(mem, a, n), Endian)

(* write_memory.  Its digits are those of the number, highest first,       *)
(* whatever the order; of too many the stub takes the first, if any.       *)
RspStore(mem, a, v, n) ==
    Put(mem, a, ToBytes(v \div HexBase ^ (hexval_digits(v, n * 2) - n * 2), n, "big"))

(* GDB's types are char, short, int and long; it cuts the value and stores *)
(* it in the guest's order.                                                *)
GdbSize(n) == IF n = 8 THEN LongSize ELSE n
GdbStore(mem, a, v, n) == Put(mem, a, ToBytes(v, GdbSize(n), Endian))

Store(backend, mem, a, v, n) ==
    IF backend = "rsp" THEN RspStore(mem, a, v, n) ELSE GdbStore(mem, a, v, n)
=============================================================================

------------------------------- MODULE CpuCore -------------------------------
(***************************************************************************)
(* What one CPU computes: its registers (registers.c), the instructions it *)
(* executes by itself (handlers.c), the translation of a logical address   *)
(* by the segment table it was sent, and the split of a read or a write    *)
(* over the Memory Sticks it knows (memory.c, connections.c).              *)
(*                                                                         *)
(* The widths of the hardware are parameters: a byte has BYTE values and a *)
(* word WORD_BYTES bytes, 256 and 4 in the program.                        *)
(***************************************************************************)
EXTENDS MainMemory

CONSTANTS
  BYTE,              \* number of values of a uint8_t
  WORD_BYTES,        \* sizeof(uint32_t)
  ByteRegs,          \* AX, BX, CX, DX
  WordRegs,          \* PC, EAX, EBX, ECX, EDX, SI, DI
  MAX_SEGMENT_SIZE   \* what Kernel Memory sends in OP_MAX_SEGMENT_SIZE

ASSUME CpuAssumption ==
  /\ BYTE \in Nat \ {0, 1}
  /\ {WORD_BYTES, MAX_SEGMENT_SIZE} \subseteq Nat \ {0}
  /\ {"PC", "SI", "DI"} \subseteq WordRegs
  /\ ByteRegs \cap WordRegs = {}

WORD == BYTE ^ WORD_BYTES
RegisterNames == ByteRegs \cup WordRegs
Width(name) == IF name \in ByteRegs THEN BYTE ELSE WORD

\* t_registers as Kernel Memory creates it with the process.
t_registers == [name \in RegisterNames |-> 0]

\* A name that is no register reads as 0 and cannot be written.
get_register(registers, name) ==
  IF name \in RegisterNames THEN registers[name] ELSE 0

\* Mutant: the cast to uint8_t is dropped.
set_register_NoCast(registers, name, value) ==
  IF name \in RegisterNames
  THEN [registers EXCEPT ![name] = value % WORD] ELSE registers

set_register(registers, name, value) ==
  IF name \in RegisterNames
  THEN [registers EXCEPT ![name] = value % Width(name)] ELSE registers

-----------------------------------------------------------------------------
(***************************************************************************)
(* Instructions that need nothing but the registers.  An instruction is a  *)
(* record: op, the registers a and b, the numbers n and m.                 *)
(***************************************************************************)
handler_noop(r, i) == r
handler_set(r, i)  == set_register(r, i.a, i.n)
handler_sum(r, i)  ==
  set_register(r, i.a, (get_register(r, i.a) + get_register(r, i.b)) % WORD)
handler_sub(r, i)  ==
  set_register(r, i.a, (get_register(r, i.a) - get_register(r, i.b)) % WORD)
handler_jnz(r, i)  ==
  IF get_register(r, i.a) # 0 THEN set_register(r, "PC", i.n) ELSE r

LocalOps == {"NOOP", "SET", "SUM", "SUB", "JNZ"}

run_local(r, i) ==
  CASE i.op = "NOOP" -> handler_noop(r, i)
    [] i.op = "SET"  -> handler_set(r, i)
    [] i.op = "SUM"  -> handler_sum(r, i)
    [] i.op = "SUB"  -> handler_sub(r, i)
    [] i.op = "JNZ"  -> handler_jnz(r, i)

\* PC moves on unless the instruction changed it; a jump to the instruction's
\* own address is not seen as a change.
increment_pc(before, after) ==
  IF before["PC"] = after["PC"]
  THEN [after EXCEPT !["PC"] = (@ + 1) % WORD] ELSE after

-----------------------------------------------------------------------------
(***************************************************************************)
(* Memory.                                                                 *)
(***************************************************************************)
Missing == [kind |-> "missing"]    \* INVALID_ADDRESS - 1: no such segment
Fault   == [kind |-> "fault"]      \* INVALID_ADDRESS: outside the segment

mmu(table, pid, logical, size) ==
  LET segment == find_segment_by_id(table, pid, logical \div MAX_SEGMENT_SIZE)
      offset  == logical % MAX_SEGMENT_SIZE
  IN  IF segment = NoSegment THEN Missing
      ELSE IF offset + size > segment.size THEN Fault
      ELSE [kind |-> "ok", address |-> segment.base + offset,
            id |-> segment.id, base |-> segment.base]

\* The CPU's own list of sticks: which stick, and the size it announced.
\* The first address of an entry is the sum of the sizes listed before it.
compute_offset(list, i) == RunningSum(SizesOf(list))[i - 1]

\* Index in the CPU's list of the stick that holds an address; 0: none.
find_stick_in(list, address) ==
  SelectInSeq([i \in DOMAIN list |-> i],
              LAMBDA i : address \in compute_offset(list, i) ..
                                     compute_offset(list, i) + list[i].size - 1)

\* The part of an access of size bytes that its first stick can serve.
chunk_size(list, i, address, size) ==
  LET in_stick == address - compute_offset(list, i)
  IN  Min({list[i].size - in_stick, size})

\* A word in memory, least significant byte first.
to_bytes(value) == [k \in 1..WORD_BYTES |-> (value \div BYTE ^ (k - 1)) % BYTE]
to_word(bytes) ==
  RunningSum([k \in 1..WORD_BYTES |-> bytes[k] * BYTE ^ (k - 1)])[WORD_BYTES]
===============================================================================

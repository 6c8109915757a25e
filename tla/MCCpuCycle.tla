------------------------------ MODULE MCCpuCycle ------------------------------
(***************************************************************************)
(* Scenarios for CpuCycle.  Words are two bytes of four values, sticks of  *)
(* three and two bytes make a word span both, and AX is narrower than what *)
(* memory holds.                                                           *)
(***************************************************************************)
EXTENDS CpuCycle
CONSTANTS c1, c2

\* Instructions of the instruction files.
Instr(op, a, b, n, m) == [op |-> op, a |-> a, b |-> b, n |-> n, m |-> m]
SET(a, n)   == Instr("SET", a, "", n, 0)
SUM(a, b)   == Instr("SUM", a, b, 0, 0)
SUB(a, b)   == Instr("SUB", a, b, 0, 0)
JNZ(a, n)   == Instr("JNZ", a, "", n, 0)
ALLOC(n, m) == Instr("MEM_ALLOC", "", "", n, m)
FREE(n)     == Instr("MEM_FREE", "", "", n, 0)
MOV_IN(a)   == Instr("MOV_IN", a, "", 0, 0)
MOV_OUT(a)  == Instr("MOV_OUT", a, "", 0, 0)
COPY(a)     == Instr("COPY_MEM", a, "", 0, 0)
START(p)    == Instr("INIT_PROC", "", "", p, 0)
Plain(op)   == Instr(op, "", "", 0, 0)
EXIT == Plain("EXIT")

MCByteRegs == {"AX"}
MCWordRegs == {"PC", "EAX", "SI", "DI"}
MCSticks == <<3, 2>>

Scenario(cpus, n, losses, initial, files) ==
  [cpus |-> cpus, sticks |-> n, losses |-> losses, initial |-> initial, files |-> files]

MCScenarios == <<
  \* registers handed from CPU to CPU
  Scenario({c1, c2}, 2, 0, {1, 2},
    << <<SET("AX", 7), Plain("MUTEX_LOCK"), SUM("EAX", "AX"), EXIT>>,
       <<SET("EAX", 5), EXIT>> >>),
  \* allocation, a store, and a load into a byte register on two CPUs, while the
  \* second stick is still to come
  Scenario({c1, c2}, 1, 0, {1, 2},
    << <<ALLOC(0, 2), MOV_OUT("PC"), MOV_IN("AX"), EXIT>>,
       <<EXIT>> >>),
  \* a child, a loop, and underflow
  Scenario({c1, c2}, 2, 0, {1},
    << <<START(2), SET("AX", 2), SUB("AX", "PC"), JNZ("AX", 2), EXIT>>,
       <<SUB("EAX", "AX"), Plain("NOOP"), EXIT>> >>),
  \* suspension moves the segment, while sticks are still to come
  Scenario({c1}, 1, 0, {1, 2},
    << <<ALLOC(0, 2), SET("EAX", 11), MOV_OUT("EAX"), Plain("IO"), MOV_IN("EAX"), EXIT>>,
       <<ALLOC(0, 2), ALLOC(1, 9)>> >>),
  \* a copy between segments, a copy that faults, and a process that follows
  Scenario({c1}, 2, 0, {1, 2},
    << <<ALLOC(0, 2), ALLOC(1, 2), SET("EAX", 9), MOV_OUT("EAX"), SET("DI", 3),
         SET("AX", 2), COPY("AX"), SET("SI", 4), COPY("AX")>>,
       <<ALLOC(0, 1), FREE(0), EXIT>> >>),
  \* a segment that does not exist: the CPU leaves
  Scenario({c1, c2}, 0, 0, {1, 2}, << <<MOV_OUT("AX")>>, <<EXIT>> >>),
  \* a stick is lost
  Scenario({c1}, 1, 1, {1, 2},
    << <<ALLOC(0, 3), ALLOC(1, 2), SET("DI", 3), MOV_OUT("AX"), EXIT>>,
       <<Plain("IO"), EXIT>> >>)
>>

\* Bound: a process that was overtaken is not followed any further.
InOrder == overtaken = {}
===============================================================================

------------------------------- MODULE CpuCycle -------------------------------
(***************************************************************************)
(* The distributed instruction cycle: the CPU processes (cpu.c,            *)
(* handlers.c, memory.c, kernel_memory_protocol.c), the Kernel Scheduler's *)
(* thread for each CPU as the CPU sees it (connections/cpu.c), Kernel      *)
(* Memory's listener for each CPU (cpu_listener.c), its accept thread      *)
(* (server.c, connections.c) and its stick watchdog (stick_watchdog.c),    *)
(* and the Memory Sticks (memory_stick/cpu.c, memory_stick.c).             *)
(*                                                                         *)
(* Every socket is a FIFO channel, and a message is sent whole (msg.c).    *)
(* The scheduling policy is abstracted to its outcomes (module Scheduler   *)
(* has the policy): a process goes on, is put back in READY, is replaced,  *)
(* blocks or ends.  A request of the scheduler that waits for Kernel       *)
(* Memory's reply is one step with the reply; OP_END_PROCESS has no reply  *)
(* and stays in its channel.  Compaction is not part of this module: an    *)
(* allocation that needs one is not enabled.                               *)
(***************************************************************************)
EXTENDS CpuCore

CONSTANTS
  Cpu,          \* CPU processes
  Pid,          \* process ids; a process is identified with its script
  StickSizes,   \* sizes of the sticks, in the order in which they connect
  Scenarios     \* a sequence of records:
                \*   files    the instruction file of each process
                \*   initial  the processes that are in READY at the start
                \*   cpus     the CPUs that take part
                \*   sticks   the number of sticks connected before them
                \*   losses   bound: sticks that may be lost

ASSUME CycleAssumption ==
  /\ Pid \subseteq Nat \ {0}
  /\ StickSizes \in Seq(Nat \ {0})
  /\ \A i \in DOMAIN Scenarios :
       LET s == Scenarios[i]
       IN  /\ s.initial \subseteq Pid /\ s.cpus \subseteq Cpu
           /\ s.sticks \in 0 .. Len(StickSizes) /\ s.losses \in Nat
           /\ \A p \in Pid : \A k \in DOMAIN s.files[p] :
                {"op", "a", "b", "n", "m"} = DOMAIN s.files[p][k]

VARIABLES
  scenario,    \* index of the scenario
  cpu,         \* state of each CPU process
  ks,          \* the scheduler's thread for each CPU: stage and pcb
  status,      \* state of each process in the scheduler
  ksToCpu, cpuToKs, cpuToKm, kmToCpu,   \* channels of each CPU
  ksToKm,      \* OP_END_PROCESS messages on their way
  processes,   \* Kernel Memory's list of processes
  context,     \* process->registers
  holes, segments, total_size,          \* main_memory
  sticks,      \* connected_sticks, each the sequence of its bytes
  accepting,   \* the last stick is announced but not yet counted
  swapped,     \* segments of the suspended processes, with their bytes
  lost,        \* sticks that no longer answer
  corrupted,   \* the scheduler got OP_MEMORY_CORRUPTED: everything stops
  crashed,     \* Kernel Memory dereferenced NULL
  last,        \* ghost: registers after each process's last instruction
  written,     \* ghost: what each process last stored, by logical address
  overtaken    \* ghost: processes whose context was read before it was saved

chanVars  == <<ksToCpu, cpuToKs, cpuToKm, kmToCpu, ksToKm>>
tableVars == <<holes, segments, total_size>>
memVars   == <<tableVars, sticks, swapped>>
failVars  == <<lost, corrupted, crashed>>
ghostVars == <<last, written, overtaken>>
vars == <<scenario, cpu, ks, status, chanVars, processes, context, memVars,
          accepting, failVars, ghostVars>>

Up == ~corrupted /\ ~crashed

NoPid == 0
NoAccess == [mode |-> "none"]

Instruction(p, pc) ==
  LET file == Scenarios[scenario].files[p]
  IN  IF pc + 1 \in DOMAIN file THEN file[pc + 1] ELSE [op |-> "END"]

-----------------------------------------------------------------------------
(***************************************************************************)
(* Channels.                                                               *)
(***************************************************************************)

\* One message is one socket_send.
send(chan, c, message) == [chan EXCEPT ![c] = Append(@, message)]

\* receive_op_code and the body that follows it.
received(chan, c) == [chan EXCEPT ![c] = Tail(@)]

Next_is(chan, c, op) == chan[c] # <<>> /\ Head(chan[c]).op = op

RESUME_PROCESS(p) == [op |-> "RESUME_PROCESS", pid |-> p]
INTERRUPT(reason) == [op |-> "INTERRUPT", reason |-> reason]
NO_INTERRUPT      == [op |-> "NO_INTERRUPT"]

PACKET(k) == [op |-> "PACKET", stick |-> k, size |-> StickSizes[k]]

\* The CPUs are connected to the scheduler and not yet to Kernel Memory.
Init ==
  /\ scenario \in DOMAIN Scenarios
  /\ LET s == Scenarios[scenario]
     IN  /\ cpu = [c \in Cpu |->
                    [stage |-> IF c \in s.cpus THEN "start" ELSE "off", pid |-> NoPid,
                     regs |-> t_registers, table |-> <<>>, changed |-> FALSE,
                     stop |-> FALSE, sticks |-> <<>>, access |-> NoAccess]]
         /\ ks = [c \in Cpu |-> [stage |-> IF c \in s.cpus THEN "request" ELSE "closed",
                                 pid |-> NoPid]]
         /\ status = [p \in Pid |-> IF p \in s.initial THEN "READY" ELSE "NEW"]
         /\ processes = s.initial
         /\ sticks = [k \in 1..s.sticks |-> [b \in 1..StickSizes[k] |-> 0]]
         /\ total_size = RunningSum(StickSizes)[s.sticks]
         /\ holes = IF s.sticks = 0 THEN <<>> ELSE <<[base |-> 0, size |-> total_size]>>
  /\ ksToCpu = [c \in Cpu |-> <<>>] /\ cpuToKs = [c \in Cpu |-> <<>>]
  /\ cpuToKm = [c \in Cpu |-> <<>>] /\ kmToCpu = [c \in Cpu |-> <<>>]
  /\ ksToKm = <<>>
  /\ context = [p \in Pid |-> t_registers]
  /\ segments = <<>> /\ accepting = FALSE
  /\ swapped = [p \in Pid |-> <<>>]
  /\ lost = {} /\ corrupted = FALSE /\ crashed = FALSE
  /\ last = [p \in Pid |-> t_registers]
  /\ written = <<>>
  /\ overtaken = {}

-----------------------------------------------------------------------------
(***************************************************************************)
(* Connections.  One accept thread serves sticks and CPUs in turn: a new   *)
(* stick is announced to every CPU before its bytes can be allocated, and  *)
(* a new CPU is told of the sticks that are there.                         *)
(***************************************************************************)
Connected == {c \in Cpu : cpu[c].stage \notin {"off", "start"}}

\* A new CPU is told of the sticks, in the order in which they came.
send_connected_sticks == [k \in DOMAIN sticks |-> PACKET(k)]

\* The CPU's connection, the maximum segment size and the list of sticks.
connect_to_kernel_memory(c) ==
  /\ Up /\ cpu[c].stage = "start" /\ ~accepting
  /\ cpu' = [cpu EXCEPT ![c].stage = "idle"]
  /\ kmToCpu' = [kmToCpu EXCEPT ![c] = @ \o send_connected_sticks]
  /\ UNCHANGED <<scenario, ks, status, ksToCpu, cpuToKs, cpuToKm, ksToKm, processes,
                 context, memVars, accepting, failVars, ghostVars>>

\* Mutant: only the CPUs that wait for a process are told.
send_cpu_connection_Idle(k) ==
  [c \in Cpu |-> IF cpu[c].stage = "idle"
                 THEN Append(kmToCpu[c], PACKET(k)) ELSE kmToCpu[c]]

send_cpu_connection(k) ==
  [c \in Cpu |-> IF c \in Connected
                 THEN Append(kmToCpu[c], PACKET(k)) ELSE kmToCpu[c]]

\* A stick connects: it is listed and announced.
add_stick_connection ==
  /\ Up /\ ~accepting /\ Len(sticks) < Len(StickSizes)
  /\ LET k == Len(sticks) + 1
     IN  /\ sticks' = Append(sticks, [b \in 1..StickSizes[k] |-> 0])
         /\ kmToCpu' = send_cpu_connection(k)
  /\ accepting' = TRUE
  /\ UNCHANGED <<scenario, cpu, ks, status, ksToCpu, cpuToKs, cpuToKm, ksToKm,
                 processes, context, tableVars, swapped, failVars, ghostVars>>

\* Its bytes are added to main memory.
add_total_memory ==
  /\ Up /\ accepting
  /\ LET size == Len(sticks[Len(sticks)])
     IN  /\ total_size' = total_size + size
         /\ holes' = grow_holes(holes, total_size, size)
  /\ accepting' = FALSE
  /\ UNCHANGED <<scenario, cpu, ks, status, chanVars, processes, context, segments,
                 sticks, swapped, failVars, ghostVars>>

stick_disconnects(k) ==
  /\ Up /\ k \notin lost /\ Cardinality(lost) < Scenarios[scenario].losses
  /\ lost' = lost \cup {k}
  /\ UNCHANGED <<scenario, cpu, ks, status, chanVars, processes, context, memVars,
                 accepting, corrupted, crashed, ghostVars>>

\* Mutant: the loop stops before the last stick.
any_stick_unreachable_Short == \E k \in 1 .. Len(sticks) - 1 : k \in lost

\* The ping to some stick fails.
any_stick_unreachable == \E k \in 1 .. Len(sticks) : k \in lost

\* OP_MEMORY_CORRUPTED: the scheduler, and with it the system, shuts down.
notify_scheduler_memory_corrupted == corrupted' = TRUE

watch_sticks ==
  /\ Up /\ any_stick_unreachable
  /\ notify_scheduler_memory_corrupted
  /\ UNCHANGED <<scenario, cpu, ks, status, chanVars, processes, context, memVars,
                 accepting, lost, crashed, ghostVars>>

-----------------------------------------------------------------------------
(***************************************************************************)
(* The CPU: stages of run_instruction_loop and run_instruction_cycle.      *)
(*   idle       waits for OP_RESUME_PROCESS                                *)
(*   context    waits for OP_SEND_CONTEXT                                  *)
(*   table      waits for OP_SEGMENT_TABLE                                 *)
(*   fetch      waits for OP_SEND_INSTRUCTION                              *)
(*   access     reads or writes memory, a stick at a time                  *)
(*   interrupt  waits for the scheduler's answer to the cycle              *)
(*   update     waits for the new OP_SEGMENT_TABLE                         *)
(*   gone       has left its loop and closed its sockets                   *)
(***************************************************************************)
Listening == {"context", "table", "fetch", "update"}

\* A stage in which the CPU hears op from Kernel Memory.
Hears(c, stage, op) == Up /\ cpu[c].stage = stage /\ Next_is(kmToCpu, c, op)

NEXT_INSTRUCTION(p, pc)   == [op |-> "NEXT_INSTRUCTION", pid |-> p, pc |-> pc]
UPDATED_CONTEXT(p, regs)  == [op |-> "UPDATED_CONTEXT", pid |-> p, regs |-> regs]
UPDATED_SEGMENT_TABLE(p)  == [op |-> "UPDATED_SEGMENT_TABLE", pid |-> p]
REQUEST_CONTEXT(p)        == [op |-> "REQUEST_CONTEXT", pid |-> p]
STICK_DISCONNECTED        == [op |-> "STICK_DISCONNECTED"]

\* Nothing of the process is left in the CPU.
Released(s) == [s EXCEPT !.stage = "idle", !.pid = NoPid, !.regs = t_registers,
                         !.table = <<>>, !.changed = FALSE, !.stop = FALSE]

Gone(s) == [Released(s) EXCEPT !.stage = "gone", !.access = NoAccess]

\* The registers Kernel Memory will have when it has served what c has sent.
Saved(c, p) ==
  LET sent == {k \in DOMAIN cpuToKm[c] : /\ cpuToKm[c][k].op = "UPDATED_CONTEXT"
                                         /\ cpuToKm[c][k].pid = p}
  IN  IF sent = {} THEN context[p] ELSE cpuToKm[c][Max(sent)].regs

\* The CPU leaves its loop.  What the process did since its registers were last
\* sent to Kernel Memory is lost with it.
departs(c) ==
  /\ cpu' = [cpu EXCEPT ![c] = Gone(@)]
  /\ last' = IF cpu[c].stage \in {"idle", "context"} THEN last
             ELSE [last EXCEPT ![cpu[c].pid] = Saved(c, cpu[c].pid)]

\* Any other operation makes the CPU leave.
receive_pid(c) ==
  /\ Up /\ cpu[c].stage = "idle" /\ ksToCpu[c] # <<>>
  /\ LET m == Head(ksToCpu[c])
     IN  IF m.op = "RESUME_PROCESS"
         THEN /\ cpu' = [cpu EXCEPT ![c].stage = "context", ![c].pid = m.pid]
              /\ cpuToKm' = send(cpuToKm, c, REQUEST_CONTEXT(m.pid))
              /\ UNCHANGED last
         ELSE departs(c) /\ UNCHANGED cpuToKm
  /\ ksToCpu' = received(ksToCpu, c)
  /\ UNCHANGED <<scenario, ks, status, cpuToKs, kmToCpu, ksToKm, processes, context,
                 memVars, accepting, failVars, written, overtaken>>

receive_context(c) ==
  /\ Hears(c, "context", "SEND_CONTEXT")
  /\ cpu' = [cpu EXCEPT ![c].stage = "table", ![c].regs = Head(kmToCpu[c]).regs]
  /\ kmToCpu' = received(kmToCpu, c)
  /\ UNCHANGED <<scenario, ks, status, ksToCpu, cpuToKs, cpuToKm, ksToKm, processes,
                 context, memVars, accepting, failVars, ghostVars>>

\* The first table: the cycle starts with the fetch of the instruction at PC.
receive_segment_table(c) ==
  /\ Hears(c, "table", "SEGMENT_TABLE")
  /\ cpu' = [cpu EXCEPT ![c].stage = "fetch", ![c].table = Head(kmToCpu[c]).table]
  /\ kmToCpu' = received(kmToCpu, c)
  /\ cpuToKm' = send(cpuToKm, c, NEXT_INSTRUCTION(cpu[c].pid, cpu[c].regs["PC"]))
  /\ UNCHANGED <<scenario, ks, status, ksToCpu, cpuToKs, ksToKm, processes, context,
                 memVars, accepting, failVars, ghostVars>>

\* listen_kernel_memory takes in the sticks announced before the answer it
\* waits for; the CPU leaves when it cannot connect to one.
connect_memory_stick(c) ==
  /\ Up /\ cpu[c].stage \in Listening /\ Next_is(kmToCpu, c, "PACKET")
  /\ LET m == Head(kmToCpu[c])
     IN  IF m.stick \in lost THEN departs(c)
         ELSE /\ cpu' = [cpu EXCEPT ![c].sticks =
                           Append(@, [stick |-> m.stick, size |-> m.size])]
              /\ UNCHANGED last
  /\ kmToCpu' = received(kmToCpu, c)
  /\ UNCHANGED <<scenario, ks, status, ksToCpu, cpuToKs, cpuToKm, ksToKm, processes,
                 context, memVars, accepting, failVars, written, overtaken>>

\* End of the execute stage: PC moves on, and the scheduler hears of the cycle
\* through the messages the handler (or the cycle itself) sent.
end_cycle(c, regs, messages, changed) ==
  LET next == increment_pc(cpu[c].regs, regs)
  IN  /\ cpu' = [cpu EXCEPT ![c].stage = "interrupt", ![c].regs = next,
                            ![c].changed = @ \/ changed, ![c].access = NoAccess]
      /\ cpuToKs' = [cpuToKs EXCEPT ![c] = @ \o messages]
      /\ last' = [last EXCEPT ![cpu[c].pid] = next]

CPU_CYCLE_OK == [op |-> "CPU_CYCLE_OK"]
SEG_FAULT    == [op |-> "SEG_FAULT"]

\* The instruction in the message the CPU has been waiting for.
Fetched(c) == Head(kmToCpu[c]).instruction
Executes(c, ops) ==
  /\ Hears(c, "fetch", "SEND_INSTRUCTION") /\ Fetched(c).op \in ops
  /\ kmToCpu' = received(kmToCpu, c)

execute_local(c) ==
  /\ Executes(c, LocalOps)
  /\ end_cycle(c, run_local(cpu[c].regs, Fetched(c)), <<CPU_CYCLE_OK>>, FALSE)
  /\ UNCHANGED <<scenario, ks, status, ksToCpu, cpuToKm, ksToKm, processes, context,
                 memVars, accepting, failVars, written, overtaken>>

\* The access goes on with the sticks; see read_memory and write_memory.
begin_access(c, access) ==
  /\ cpu' = [cpu EXCEPT ![c].stage = "access", ![c].access = access]
  /\ UNCHANGED <<cpuToKs, last>>

leave(c) == departs(c) /\ UNCHANGED cpuToKs

translate(c, register) ==
  mmu(cpu[c].table, cpu[c].pid, cpu[c].regs[register], WORD_BYTES)

handler_mov_in(c) ==
  /\ Executes(c, {"MOV_IN"})
  /\ LET phys == translate(c, "SI")
     IN  CASE phys = Missing -> leave(c)
           [] phys = Fault   -> end_cycle(c, cpu[c].regs, <<SEG_FAULT>>, FALSE)
           [] OTHER -> begin_access(c, [mode |-> "read", from |-> phys, at |-> 0,
                         size |-> WORD_BYTES, data |-> <<>>, to |-> NoAccess,
                         reg |-> Fetched(c).a])
  /\ UNCHANGED <<scenario, ks, status, ksToCpu, cpuToKm, ksToKm, processes, context,
                 memVars, accepting, failVars, written, overtaken>>

handler_mov_out(c) ==
  /\ Executes(c, {"MOV_OUT"})
  /\ LET phys == translate(c, "DI")
     IN  CASE phys = Missing -> leave(c)
           [] phys = Fault   -> end_cycle(c, cpu[c].regs, <<SEG_FAULT>>, FALSE)
           [] OTHER -> begin_access(c, [mode |-> "write", to |-> phys, at |-> 0,
                         data |-> to_bytes(get_register(cpu[c].regs, Fetched(c).a))])
  /\ UNCHANGED <<scenario, ks, status, ksToCpu, cpuToKm, ksToKm, processes, context,
                 memVars, accepting, failVars, written, overtaken>>

\* Mutant: a fault in the source ends the cycle with OP_CPU_CYCLE_OK as well.
handler_copy_mem_BothSent(c) ==
  /\ Executes(c, {"COPY_MEM"})
  /\ LET src == translate(c, "SI")
         dst == translate(c, "DI")
     IN  CASE Missing \in {src, dst} -> leave(c)
           [] Fault \in {src, dst} -> end_cycle(c, cpu[c].regs,
                                                <<SEG_FAULT, CPU_CYCLE_OK>>, FALSE)
           [] OTHER -> begin_access(c, [mode |-> "read", from |-> src, at |-> 0,
                         size |-> get_register(cpu[c].regs, Fetched(c).a),
                         data |-> <<>>, to |-> dst, reg |-> ""])
  /\ UNCHANGED <<scenario, ks, status, ksToCpu, cpuToKm, ksToKm, processes, context,
                 memVars, accepting, failVars, written, overtaken>>

\* Both addresses are checked for one word, whatever the number of bytes.  A
\* fault in the destination reports the fault and then the end of the cycle.
handler_copy_mem(c) ==
  /\ Executes(c, {"COPY_MEM"})
  /\ LET src == translate(c, "SI")
         dst == translate(c, "DI")
     IN  CASE src = Missing -> leave(c)
           [] src = Fault   -> end_cycle(c, cpu[c].regs, <<SEG_FAULT>>, FALSE)
           [] src.kind = "ok" /\ dst = Missing -> leave(c)
           [] src.kind = "ok" /\ dst = Fault   ->
                end_cycle(c, cpu[c].regs, <<SEG_FAULT, CPU_CYCLE_OK>>, FALSE)
           [] OTHER -> begin_access(c, [mode |-> "read", from |-> src, at |-> 0,
                         size |-> get_register(cpu[c].regs, Fetched(c).a),
                         data |-> <<>>, to |-> dst, reg |-> ""])
  /\ UNCHANGED <<scenario, ks, status, ksToCpu, cpuToKm, ksToKm, processes, context,
                 memVars, accepting, failVars, written, overtaken>>

-----------------------------------------------------------------------------
(***************************************************************************)
(* Memory accesses: one request to one stick and its answer per step.  The *)
(* stick copies the bytes under its memory_mutex, and the CPU's connection *)
(* to it carries nothing else.                                             *)
(***************************************************************************)
Accesses(c, mode) == Up /\ cpu[c].stage = "access" /\ cpu[c].access.mode = mode

\* The address not yet served, and the stick for it in the CPU's list.
access_address(a) == (IF a.mode = "read" THEN a.from ELSE a.to).address + a.at
access_stick(c) == find_stick_in(cpu[c].sticks, access_address(cpu[c].access))

\* No stick for the address: the CPU leaves.  A stick that does not answer:
\* notify_bsod, and the CPU leaves.
access_fails(c) ==
  LET i == access_stick(c)
  IN  /\ departs(c)
      /\ cpuToKm' = IF i = 0 THEN cpuToKm ELSE send(cpuToKm, c, STICK_DISCONNECTED)

Unreachable(c) ==
  access_stick(c) = 0 \/ cpu[c].sticks[access_stick(c)].stick \in lost

\* Offset in the stick, from 0.
stick_position(c) ==
  access_address(cpu[c].access)
    - compute_offset(cpu[c].sticks, access_stick(c))

\* A stick reads or writes under its memory_mutex, positions counted from 0.
stick_read(bytes, position, n) == SubSeq(bytes, position + 1, position + n)
stick_write(bytes, position, data) ==
  [b \in DOMAIN bytes |-> IF b - position \in DOMAIN data
                         THEN data[b - position] ELSE bytes[b]]

\* The stick's thread for a CPU: one request, one answer.
handle_cpu_client(bytes, request) ==
  IF request.op = "MEMORY_STICK_READ"
  THEN [bytes |-> bytes, answer |-> stick_read(bytes, request.position, request.size)]
  ELSE [bytes |-> stick_write(bytes, request.position, request.data), answer |-> <<>>]

read_memory(c) ==
  /\ Accesses(c, "read") /\ cpu[c].access.at < cpu[c].access.size
  /\ IF Unreachable(c) THEN access_fails(c)
     ELSE LET a == cpu[c].access
              i == access_stick(c)
              n == chunk_size(cpu[c].sticks, i, access_address(a), a.size - a.at)
              r == handle_cpu_client(sticks[cpu[c].sticks[i].stick],
                     [op |-> "MEMORY_STICK_READ", position |-> stick_position(c),
                      size |-> n])
          IN  /\ cpu' = [cpu EXCEPT ![c].access =
                           [a EXCEPT !.at = @ + n, !.data = @ \o r.answer]]
              /\ UNCHANGED <<cpuToKm, last>>
  /\ UNCHANGED <<scenario, ks, status, ksToCpu, cpuToKs, kmToCpu, ksToKm, processes,
                 context, memVars, accepting, failVars, written, overtaken>>

\* MOV_IN has its word; COPY_MEM goes on to write what it has read.
read_done(c) ==
  /\ Accesses(c, "read") /\ cpu[c].access.at = cpu[c].access.size
  /\ LET a == cpu[c].access
     IN  IF a.to = NoAccess
         THEN end_cycle(c, set_register(cpu[c].regs, a.reg, to_word(a.data)),
                        <<CPU_CYCLE_OK>>, FALSE)
         ELSE begin_access(c, [mode |-> "write", to |-> a.to, at |-> 0,
                               data |-> a.data])
  /\ UNCHANGED <<scenario, ks, status, ksToCpu, cpuToKm, kmToCpu, ksToKm, processes,
                 context, memVars, accepting, failVars, written, overtaken>>

\* Mutant: every chunk is taken from the start of the data.
chunk_data_NoAdvance(a, n) == SubSeq(a.data, 1, n)

\* The n bytes of the data that the next request carries.
chunk_data(a, n) == SubSeq(a.data, a.at + 1, a.at + n)

write_memory(c) ==
  /\ Accesses(c, "write") /\ cpu[c].access.at < Len(cpu[c].access.data)
  /\ IF Unreachable(c) THEN access_fails(c) /\ UNCHANGED <<sticks, written>>
     ELSE LET a == cpu[c].access
              i == access_stick(c)
              k == cpu[c].sticks[i].stick
              n == chunk_size(cpu[c].sticks, i, access_address(a), Len(a.data) - a.at)
              r == handle_cpu_client(sticks[k],
                     [op |-> "MEMORY_STICK_WRITE", position |-> stick_position(c),
                      data |-> chunk_data(a, n)])
          IN  /\ cpu' = [cpu EXCEPT ![c].access = [a EXCEPT !.at = @ + n]]
              /\ sticks' = [sticks EXCEPT ![k] = r.bytes]
              /\ written' =
                   [o \in {<<cpu[c].pid, a.to.id, access_address(a) - a.to.base + b>> :
                             b \in 0 .. n - 1}
                      |-> a.data[o[3] - (a.to.address - a.to.base) + 1]] @@ written
              /\ UNCHANGED <<cpuToKm, last>>
  /\ UNCHANGED <<scenario, ks, status, ksToCpu, cpuToKs, kmToCpu, ksToKm, processes,
                 context, tableVars, swapped, accepting, failVars, overtaken>>

write_done(c) ==
  /\ Accesses(c, "write") /\ cpu[c].access.at = Len(cpu[c].access.data)
  /\ end_cycle(c, cpu[c].regs, <<CPU_CYCLE_OK>>, FALSE)
  /\ UNCHANGED <<scenario, ks, status, ksToCpu, cpuToKm, kmToCpu, ksToKm, processes,
                 context, memVars, accepting, failVars, written, overtaken>>

-----------------------------------------------------------------------------
(***************************************************************************)
(* System calls: the request goes to the scheduler in place of             *)
(* OP_CPU_CYCLE_OK.  Allocation and release leave segment_changed set.     *)
(***************************************************************************)
Syscall(c, message, changed) ==
  /\ end_cycle(c, cpu[c].regs, <<message>>, changed)
  /\ UNCHANGED <<scenario, ks, status, ksToCpu, cpuToKm, ksToKm, processes, context,
                 memVars, accepting, failVars, written, overtaken>>

handler_mutex(c) ==
  /\ Executes(c, {"MUTEX_CREATE", "MUTEX_LOCK", "MUTEX_UNLOCK"})
  /\ Syscall(c, [op |-> Fetched(c).op], FALSE)

\* Mutant: segment_changed is not set.
handler_mem_NoFlag(c) ==
  /\ Executes(c, {"MEM_ALLOC", "MEM_FREE"})
  /\ Syscall(c, [op |-> Fetched(c).op, pid |-> cpu[c].pid, segment_id |-> Fetched(c).n,
                 size |-> Fetched(c).m], FALSE)

handler_mem(c) ==
  /\ Executes(c, {"MEM_ALLOC", "MEM_FREE"})
  /\ Syscall(c, [op |-> Fetched(c).op, pid |-> cpu[c].pid, segment_id |-> Fetched(c).n,
                 size |-> Fetched(c).m], TRUE)

\* SLEEP, STDOUT and STDIN, with their arguments.
handler_io(c) ==
  /\ Executes(c, {"IO"})
  /\ Syscall(c, [op |-> "IO"], FALSE)

handler_init_proc(c) ==
  /\ Executes(c, {"INIT_PROC"})
  /\ Syscall(c, [op |-> "INIT_PROC", child |-> Fetched(c).n], FALSE)

handler_exit(c) ==
  /\ Executes(c, {"EXIT"})
  /\ Syscall(c, [op |-> "EXIT"], FALSE)

-----------------------------------------------------------------------------
(***************************************************************************)
(* Check Interrupt.  After an interrupt the registers go to Kernel Memory, *)
(* which does not answer; before that, a changed segment table is fetched, *)
(* unless the allocation failed and the process no longer exists.          *)
(***************************************************************************)
PR_NOT_ENOUGH_MEMORY == "there is not enough memory for this instruction"

\* Mutant: the interrupt is forgotten when the table was changed.
keep_going_Forgets(c, state, stop) ==
  LET s == [state EXCEPT !.changed = FALSE, !.stop = FALSE]
  IN  IF stop /\ ~state.changed
      THEN /\ cpu' = [cpu EXCEPT ![c] = Released(s)]
           /\ cpuToKm' = send(cpuToKm, c, UPDATED_CONTEXT(s.pid, s.regs))
      ELSE /\ cpu' = [cpu EXCEPT ![c] = [s EXCEPT !.stage = "fetch"]]
           /\ cpuToKm' = send(cpuToKm, c, NEXT_INSTRUCTION(s.pid, s.regs["PC"]))

\* The cycle ends in state s: with the next fetch, or with the registers sent.
keep_going(c, state, stop) ==
  LET s == [state EXCEPT !.changed = FALSE, !.stop = FALSE]
  IN  IF stop
      THEN /\ cpu' = [cpu EXCEPT ![c] = Released(s)]
           /\ cpuToKm' = send(cpuToKm, c, UPDATED_CONTEXT(s.pid, s.regs))
      ELSE /\ cpu' = [cpu EXCEPT ![c] = [s EXCEPT !.stage = "fetch"]]
           /\ cpuToKm' = send(cpuToKm, c, NEXT_INSTRUCTION(s.pid, s.regs["PC"]))

\* Mutant: the reason of the interrupt is not looked at.
needs_table_Always(c, m) == cpu[c].changed

\* segment_changed && interrupt != EB_NO_TABLE
needs_table(c, m) ==
  cpu[c].changed /\ ~(m.op = "INTERRUPT" /\ m.reason = PR_NOT_ENOUGH_MEMORY)

check_interrupt(c) ==
  /\ Up /\ cpu[c].stage = "interrupt" /\ ksToCpu[c] # <<>>
  /\ LET m == Head(ksToCpu[c])
         stop == m.op = "INTERRUPT"
     IN  CASE m.op \notin {"INTERRUPT", "NO_INTERRUPT"} ->
                departs(c) /\ UNCHANGED cpuToKm
           [] needs_table(c, m) ->
                /\ cpu' = [cpu EXCEPT ![c].stage = "update", ![c].stop = stop]
                /\ cpuToKm' = send(cpuToKm, c, UPDATED_SEGMENT_TABLE(cpu[c].pid))
                /\ UNCHANGED last
           [] OTHER -> keep_going(c, cpu[c], stop) /\ UNCHANGED last
  /\ ksToCpu' = received(ksToCpu, c)
  /\ UNCHANGED <<scenario, ks, status, cpuToKs, kmToCpu, ksToKm, processes, context,
                 memVars, accepting, failVars, written, overtaken>>

update_segment_table(c) ==
  /\ Hears(c, "update", "SEGMENT_TABLE")
  /\ keep_going(c, [cpu[c] EXCEPT !.table = Head(kmToCpu[c]).table], cpu[c].stop)
  /\ kmToCpu' = received(kmToCpu, c)
  /\ UNCHANGED <<scenario, ks, status, ksToCpu, cpuToKs, ksToKm, processes, context,
                 memVars, accepting, failVars, ghostVars>>

-----------------------------------------------------------------------------
(***************************************************************************)
(* The Kernel Scheduler's thread of a CPU.  Stage "request": it takes a    *)
(* process from READY and sends its pid; stage "receive": it waits for the *)
(* end of a cycle of its process, handles it and answers.                  *)
(***************************************************************************)
manage_request_process(c) ==
  /\ Up /\ ks[c].stage = "request"
  /\ \E p \in Pid :
       /\ status[p] = "READY"
       /\ status' = [status EXCEPT ![p] = "EXEC"]
       /\ ks' = [ks EXCEPT ![c] = [stage |-> "receive", pid |-> p]]
       /\ ksToCpu' = send(ksToCpu, c, RESUME_PROCESS(p))
  /\ UNCHANGED <<scenario, cpu, cpuToKs, cpuToKm, kmToCpu, ksToKm, processes, context,
                 memVars, accepting, failVars, ghostVars>>

Handles(c, ops) ==
  /\ Up /\ ks[c].stage = "receive" /\ cpuToKs[c] # <<>> /\ Head(cpuToKs[c]).op \in ops
  /\ cpuToKs' = received(cpuToKs, c)
  /\ UNCHANGED <<scenario, cpu, cpuToKm, kmToCpu, accepting, failVars, last, overtaken>>

\* Mutant: the thread goes on waiting for reports of the process.
preempt_Receives(c, states, state, reason) ==
  /\ status' = [states EXCEPT ![ks[c].pid] = state]
  /\ ksToCpu' = send(ksToCpu, c, INTERRUPT(reason))
  /\ UNCHANGED ks

\* The process leaves EXEC for another state, and the CPU is interrupted.
preempt(c, states, state, reason) ==
  /\ status' = [states EXCEPT ![ks[c].pid] = state]
  /\ ks' = [ks EXCEPT ![c] = [stage |-> "request", pid |-> NoPid]]
  /\ ksToCpu' = send(ksToCpu, c, INTERRUPT(reason))

\* The handler left PR_NO_PREEMPTION: the process goes on, ends its quantum
\* (READY is not empty), or gives way to a process of a higher priority, whose
\* pid follows the interrupt at once.
go_on(c, states) ==
  LET p == ks[c].pid
  IN  \/ /\ ksToCpu' = send(ksToCpu, c, NO_INTERRUPT)
         /\ status' = states /\ UNCHANGED ks
      \/ /\ \E q \in Pid : states[q] = "READY"
         /\ preempt(c, states, "READY", "quantum end")
      \/ \E q \in Pid :
           /\ states[q] = "READY"
           /\ status' = [states EXCEPT ![p] = "READY", ![q] = "EXEC"]
           /\ ks' = [ks EXCEPT ![c].pid = q]
           /\ ksToCpu' = [ksToCpu EXCEPT ![c] =
                            @ \o <<INTERRUPT("process priority"), RESUME_PROCESS(q)>>]

\* transition_exec_exit: Kernel Memory is told and does not answer.
exit(c, reason) ==
  /\ preempt(c, status, "EXIT", reason)
  /\ ksToKm' = Append(ksToKm, ks[c].pid)

handle_cycle_cpu_ok(c) ==
  /\ Handles(c, {"CPU_CYCLE_OK"})
  /\ go_on(c, status)
  /\ UNCHANGED <<ksToKm, processes, context, memVars, written>>

handle_segmentation_fault(c) ==
  /\ Handles(c, {"SEG_FAULT"})
  /\ exit(c, "segmentation fault")
  /\ UNCHANGED <<processes, context, memVars, written>>

handle_syscall_mutex(c) ==
  /\ Handles(c, {"MUTEX_CREATE", "MUTEX_LOCK", "MUTEX_UNLOCK"})
  /\ \/ go_on(c, status) /\ UNCHANGED ksToKm
     \/ exit(c, "mutex error")
     \/ /\ Head(cpuToKs[c]).op = "MUTEX_LOCK"
        /\ preempt(c, status, "BLOCK", "mutex blocked") /\ UNCHANGED ksToKm
  /\ UNCHANGED <<processes, context, memVars, written>>

\* Kernel Memory has served what the scheduler sent before.
Synchronous == ksToKm = <<>>

place(hs, segs, p, id, size) ==
  LET chosen == hole_selection_algorithm(size, hs)
  IN  [holes |-> update_hole_table(hs, chosen, size),
       segments |-> Append(segs, [pid |-> p, id |-> id, base |-> chosen.base,
                                  size |-> size])]

handle_syscall_memory_allocation(c) ==
  /\ Handles(c, {"MEM_ALLOC"}) /\ Synchronous
  /\ LET m == Head(cpuToKs[c])
     IN  \/ /\ compute_free_space(holes) < m.size \/ m.size > MAX_SEGMENT_SIZE
            /\ exit(c, PR_NOT_ENOUGH_MEMORY)
            /\ UNCHANGED <<holes, segments>>
         \/ /\ m.size <= MAX_SEGMENT_SIZE
            /\ hole_selection_algorithm(m.size, holes) # NoHole
            /\ holes' = place(holes, segments, m.pid, m.segment_id, m.size).holes
            /\ segments' = place(holes, segments, m.pid, m.segment_id, m.size).segments
            /\ go_on(c, status) /\ UNCHANGED ksToKm
  /\ UNCHANGED <<processes, context, total_size, sticks, swapped, written>>

Without(f, S) == [x \in DOMAIN f \ S |-> f[x]]

handle_syscall_memory_free(c) ==
  /\ Handles(c, {"MEM_FREE"}) /\ Synchronous
  /\ LET m == Head(cpuToKs[c])
         s == find_segment_by_id(segments, m.pid, m.segment_id)
         i == SelectInSeq(segments, LAMBDA t : t.pid = m.pid /\ t.id = m.segment_id)
     IN  /\ segments' = ListRemove(segments, i)
         /\ holes' = IF s = NoSegment THEN holes ELSE merge_hole(holes, s)
         /\ written' = Without(written, {w \in DOMAIN written :
                                           w[1] = m.pid /\ w[2] = m.segment_id})
  /\ go_on(c, status)
  /\ UNCHANGED <<ksToKm, processes, context, total_size, sticks, swapped>>

\* No device for it: the process ends.
handle_syscall_io(c) ==
  /\ Handles(c, {"IO"})
  /\ \/ preempt(c, status, "BLOCK", "IO operation") /\ UNCHANGED ksToKm
     \/ exit(c, "IO operation")
  /\ UNCHANGED <<processes, context, memVars, written>>

\* OP_NEW_PROCESS: Kernel Memory has the process before READY has it.
notify_new_process(q) ==
  /\ processes' = processes \cup {q}
  /\ context' = [context EXCEPT ![q] = t_registers]

handle_syscall_start_process(c) ==
  /\ Handles(c, {"INIT_PROC"}) /\ Synchronous
  /\ LET q == Head(cpuToKs[c]).child
     IN  /\ q \in Pid /\ status[q] = "NEW"
         /\ notify_new_process(q)
         /\ go_on(c, [status EXCEPT ![q] = "READY"])
  /\ UNCHANGED <<ksToKm, memVars, written>>

handle_syscall_exit(c) ==
  /\ Handles(c, {"EXIT"})
  /\ exit(c, "process termination")
  /\ UNCHANGED <<processes, context, memVars, written>>

\* The CPU has closed its connection: the thread ends.  The process stays in
\* EXEC, unless the preemption checks that follow still move it, or put another
\* one in its place.
handle_invalid_syscall(c) ==
  /\ Up /\ ks[c].stage = "receive" /\ cpuToKs[c] = <<>> /\ cpu[c].stage = "gone"
  /\ ks' = [ks EXCEPT ![c] = [stage |-> "closed", pid |-> NoPid]]
  /\ \/ UNCHANGED status
     \/ \E q \in Pid : \E state \in {"READY", "EXEC"} :
          /\ status[q] = "READY"
          /\ status' = [status EXCEPT ![ks[c].pid] = "READY", ![q] = state]
  /\ UNCHANGED <<scenario, cpu, chanVars, processes, context, memVars, accepting,
                 failVars, ghostVars>>

-----------------------------------------------------------------------------
(***************************************************************************)
(* Blocked processes: the IO or the mutex they wait for, and suspension.   *)
(***************************************************************************)
transition_unblock(p) ==
  /\ Up
  /\ \/ status[p] = "BLOCK" /\ status' = [status EXCEPT ![p] = "READY"]
     \/ status[p] = "SUSP_BLOCK" /\ status' = [status EXCEPT ![p] = "SUSP_READY"]
  /\ UNCHANGED <<scenario, cpu, ks, chanVars, processes, context, memVars, accepting,
                 failVars, ghostVars>>

\* The holes after the segments have been freed one by one.
free_all(hs, segs) ==
  LET free[i \in 0 .. Len(segs)] ==
        IF i = 0 THEN hs ELSE merge_hole(free[i - 1], segs[i])
  IN  free[Len(segs)]

\* The table without the segments of a process.
remove_process_segments(segs, p) ==
  LET kept[i \in 0 .. Len(segs)] ==
        IF i = 0 THEN <<>>
        ELSE IF segs[i].pid # p THEN Append(kept[i - 1], segs[i])
        ELSE kept[i - 1]
  IN  kept[Len(segs)]

\* Its segments go to swap with their bytes (module KernelMemory has the blocks).
suspend_process(p) ==
  /\ Up /\ status[p] = "BLOCK" /\ Synchronous /\ lost = {}
  /\ LET mine == filter_process_segments(segments, p)
     IN  /\ swapped' = [swapped EXCEPT ![p] =
              [i \in DOMAIN mine |->
                 [id |-> mine[i].id, size |-> mine[i].size,
                  bytes |-> read_from_sticks(sticks, mine[i].base, mine[i].size)]]]
         /\ holes' = free_all(holes, mine)
         /\ segments' = remove_process_segments(segments, p)
  /\ status' = [status EXCEPT ![p] = "SUSP_BLOCK"]
  /\ UNCHANGED <<scenario, cpu, ks, chanVars, processes, context, total_size, sticks,
                 accepting, failVars, ghostVars>>

\* Main memory with one more of the suspended segments back in it.
restore(p, memory, s) ==
  LET chosen == hole_selection_algorithm(s.size, memory.holes)
      placed == place(memory.holes, memory.segments, p, s.id, s.size)
  IN  IF ~memory.ok \/ chosen = NoHole THEN [memory EXCEPT !.ok = FALSE]
      ELSE [ok |-> TRUE, holes |-> placed.holes, segments |-> placed.segments,
            sticks |-> write_to_sticks(memory.sticks, chosen.base, s.bytes)]

\* Main memory with all of them.
restored(p) ==
  LET memory[i \in 0 .. Len(swapped[p])] ==
        IF i = 0
        THEN [ok |-> TRUE, holes |-> holes, segments |-> segments, sticks |-> sticks]
        ELSE restore(p, memory[i - 1], swapped[p][i])
  IN  memory[Len(swapped[p])]

resume_process(p) ==
  /\ Up /\ status[p] \in {"SUSP_BLOCK", "SUSP_READY"} /\ Synchronous /\ lost = {}
  /\ \E memory \in {restored(p)} :
       /\ memory.ok
       /\ holes' = memory.holes /\ segments' = memory.segments
       /\ sticks' = memory.sticks
  /\ swapped' = [swapped EXCEPT ![p] = <<>>]
  /\ status' = [status EXCEPT ![p] = IF @ = "SUSP_BLOCK" THEN "BLOCK" ELSE "READY"]
  /\ UNCHANGED <<scenario, cpu, ks, chanVars, processes, context, total_size, accepting,
                 failVars, ghostVars>>

-----------------------------------------------------------------------------
(***************************************************************************)
(* Kernel Memory's listeners: one for each CPU, one for the scheduler.     *)
(***************************************************************************)
Serves(c, op) ==
  /\ Up /\ Next_is(cpuToKm, c, op)
  /\ cpuToKm' = received(cpuToKm, c)
  /\ UNCHANGED <<scenario, cpu, ks, status, ksToCpu, cpuToKs, ksToKm, processes, memVars,
                 accepting, lost, last, written>>

SEND_CONTEXT(p)     == [op |-> "SEND_CONTEXT", regs |-> context[p]]
SEGMENT_TABLE(p)    == [op |-> "SEGMENT_TABLE",
                        table |-> filter_process_segments(segments, p)]
SEND_INSTRUCTION(i) == [op |-> "SEND_INSTRUCTION", instruction |-> i]

\* c has run p, and Kernel Memory does not yet have the registers.
Owes(c, p) ==
  \/ cpu[c].pid = p /\ cpu[c].stage \in {"interrupt", "update"}
  \/ \E k \in DOMAIN cpuToKm[c] :
       cpuToKm[c][k].op = "UPDATED_CONTEXT" /\ cpuToKm[c][k].pid = p

\* No answer for a process that is not in the list.
handle_request_context(c) ==
  /\ Serves(c, "REQUEST_CONTEXT")
  /\ LET p == Head(cpuToKm[c]).pid
     IN  IF p \in processes
         THEN /\ kmToCpu' = [kmToCpu EXCEPT ![c] = @ \o <<SEND_CONTEXT(p), SEGMENT_TABLE(p)>>]
              /\ overtaken' = IF \E d \in Cpu \ {c} : Owes(d, p)
                              THEN overtaken \cup {p} ELSE overtaken
         ELSE UNCHANGED <<kmToCpu, overtaken>>
  /\ UNCHANGED <<context, corrupted, crashed>>

\* Neither the process nor the program counter is checked.
handle_next_instruction(c) ==
  /\ Serves(c, "NEXT_INSTRUCTION")
  /\ LET m == Head(cpuToKm[c])
         i == Instruction(m.pid, m.pc)
     IN  IF m.pid \in processes /\ i.op # "END"
         THEN kmToCpu' = send(kmToCpu, c, SEND_INSTRUCTION(i)) /\ UNCHANGED crashed
         ELSE crashed' = TRUE /\ UNCHANGED kmToCpu
  /\ UNCHANGED <<context, corrupted, overtaken>>

\* Mutant: the registers are kept only if the process is not running again.
handle_updated_context_IfIdle(c) ==
  /\ Serves(c, "UPDATED_CONTEXT")
  /\ LET m == Head(cpuToKm[c])
     IN  context' = IF m.pid \in processes /\ status[m.pid] # "EXEC"
                    THEN [context EXCEPT ![m.pid] = m.regs] ELSE context
  /\ UNCHANGED <<kmToCpu, corrupted, crashed, overtaken>>

handle_updated_context(c) ==
  /\ Serves(c, "UPDATED_CONTEXT")
  /\ LET m == Head(cpuToKm[c])
     IN  context' = IF m.pid \in processes
                    THEN [context EXCEPT ![m.pid] = m.regs] ELSE context
  /\ UNCHANGED <<kmToCpu, corrupted, crashed, overtaken>>

\* No answer for a process that is not in the list.
handle_updated_segment_table(c) ==
  /\ Serves(c, "UPDATED_SEGMENT_TABLE")
  /\ LET p == Head(cpuToKm[c]).pid
     IN  kmToCpu' = IF p \in processes THEN send(kmToCpu, c, SEGMENT_TABLE(p)) ELSE kmToCpu
  /\ UNCHANGED <<context, corrupted, crashed, overtaken>>

handle_stick_disconnected(c) ==
  /\ Serves(c, "STICK_DISCONNECTED")
  /\ notify_scheduler_memory_corrupted
  /\ UNCHANGED <<context, kmToCpu, crashed, overtaken>>

handle_end_process ==
  /\ Up /\ ksToKm # <<>>
  /\ LET p == Head(ksToKm)
     IN  /\ processes' = processes \ {p}
         /\ holes' = free_all(holes, filter_process_segments(segments, p))
         /\ segments' = remove_process_segments(segments, p)
         /\ written' = Without(written, {w \in DOMAIN written : w[1] = p})
  /\ ksToKm' = Tail(ksToKm)
  /\ UNCHANGED <<scenario, cpu, ks, status, ksToCpu, cpuToKs, cpuToKm, kmToCpu, context,
                 total_size, sticks, swapped, accepting, failVars, last, overtaken>>

-----------------------------------------------------------------------------
CpuStep(c) ==
  \/ connect_to_kernel_memory(c)
  \/ receive_pid(c) \/ receive_context(c) \/ receive_segment_table(c)
  \/ connect_memory_stick(c)
  \/ execute_local(c) \/ handler_mov_in(c) \/ handler_mov_out(c) \/ handler_copy_mem(c)
  \/ read_memory(c) \/ read_done(c) \/ write_memory(c) \/ write_done(c)
  \/ handler_mutex(c) \/ handler_mem(c) \/ handler_io(c) \/ handler_init_proc(c)
  \/ handler_exit(c)
  \/ check_interrupt(c) \/ update_segment_table(c)

KsStep(c) ==
  \/ manage_request_process(c)
  \/ handle_cycle_cpu_ok(c) \/ handle_segmentation_fault(c) \/ handle_syscall_mutex(c)
  \/ handle_syscall_memory_allocation(c) \/ handle_syscall_memory_free(c)
  \/ handle_syscall_io(c) \/ handle_syscall_start_process(c) \/ handle_syscall_exit(c)
  \/ handle_invalid_syscall(c)

KmStep(c) ==
  \/ handle_request_context(c) \/ handle_next_instruction(c)
  \/ handle_updated_context(c) \/ handle_updated_segment_table(c)
  \/ handle_stick_disconnected(c)

\* What the threads do by themselves.
System ==
  \/ \E c \in Cpu : CpuStep(c) \/ KmStep(c) \/ KsStep(c)
  \/ add_stick_connection \/ add_total_memory \/ watch_sticks \/ handle_end_process

Next ==
  \/ System
  \/ \E p \in Pid : transition_unblock(p) \/ suspend_process(p) \/ resume_process(p)
  \/ \E k \in DOMAIN sticks : stick_disconnects(k)

\* The threads do not all stop while one of them can run.  What a process waits
\* for need not come, a suspended process need not be resumed, the suspender need
\* not act, and no stick need be lost.
Spec == Init /\ [][Next]_vars /\ WF_vars(System)

-----------------------------------------------------------------------------
(***************************************************************************)
(* Properties.                                                             *)
(***************************************************************************)
Stages == {"off", "start", "idle", "context", "table", "fetch", "access", "interrupt",
           "update", "gone"}
States == {"NEW", "READY", "EXEC", "BLOCK", "SUSP_BLOCK", "SUSP_READY", "EXIT"}

\* Values fit their registers and their sticks, and every record is of a known
\* shape: registers.c truncates a value to the width of the register.
CpuTypeOK ==
  /\ \A c \in Cpu : /\ cpu[c].stage \in Stages
                    /\ cpu[c].pid \in Pid \cup {NoPid}
                    /\ \A r \in RegisterNames : cpu[c].regs[r] \in 0 .. Width(r) - 1
                    /\ ks[c].stage \in {"request", "receive", "closed"}
  /\ status \in [Pid -> States]
  /\ \A k \in DOMAIN sticks : \A b \in DOMAIN sticks[k] : sticks[k][b] \in 0 .. BYTE - 1
  /\ processes \subseteq Pid /\ lost \subseteq DOMAIN sticks

\* Request and answer alternate on the socket between a CPU and the scheduler:
\* at most one report is on its way, it is about the process the scheduler's
\* thread has in its pcb, and a CPU that waits for an answer gets one to the
\* report it has sent (cpu.c check_interrupt, connections/cpu.c send_preemption).
LockStep ==
  \A c \in Cpu :
    /\ cpuToKs[c] # <<>> =>
         /\ Len(cpuToKs[c]) = 1 /\ ksToCpu[c] = <<>>
         /\ cpu[c].stage = "interrupt"
         /\ ks[c] = [stage |-> "receive", pid |-> cpu[c].pid]
    /\ cpu[c].stage = "interrupt" /\ cpuToKs[c] = <<>> =>
         /\ ksToCpu[c] # <<>>
         /\ Head(ksToCpu[c]).op \in {"INTERRUPT", "NO_INTERRUPT"}

\* c runs instructions of p, or will without another order of the scheduler.
Runs(c, p) ==
  /\ cpu[c].pid = p
  /\ \/ cpu[c].stage \in {"context", "table", "fetch", "access"}
     \/ cpu[c].stage = "update" /\ ~cpu[c].stop
     \/ cpu[c].stage = "interrupt" /\ ~Next_is(ksToCpu, c, "INTERRUPT")

\* A process is run by one CPU at a time, the one whose thread has it in EXEC,
\* although the scheduler puts it back in READY before it sends the interrupt.
OneExecutor ==
  \A c \in Cpu, p \in Pid :
    Runs(c, p) => /\ \A d \in Cpu \ {c} : ~Runs(d, p)
                  /\ status[p] = "EXEC" /\ ks[c].pid = p

\* What the two ends of a CPU's socket know of each other.  Working: the thread
\* waits for a report about the CPU's process; Waiting: it has no process, or
\* the CPU has not yet taken the one it was sent.
Working(c) == ksToCpu[c] = <<>> /\ ks[c] = [stage |-> "receive", pid |-> cpu[c].pid]
Waiting(c) ==
  \/ ksToCpu[c] = <<>> /\ ks[c].stage \in {"request", "closed"}
  \/ \E q \in Pid : /\ ksToCpu[c] = <<RESUME_PROCESS(q)>>
                    /\ ks[c] = [stage |-> "receive", pid |-> q]

Reasons == {"quantum end", "process priority", "segmentation fault", "mutex error",
            "mutex blocked", PR_NOT_ENOUGH_MEMORY, "IO operation",
            "process termination"}

\* The report has been answered.
Answered(c) ==
  \/ ksToCpu[c] = <<NO_INTERRUPT>> /\ ks[c] = [stage |-> "receive", pid |-> cpu[c].pid]
  \/ \E r \in Reasons :
       \/ ksToCpu[c] = <<INTERRUPT(r)>> /\ ks[c].stage = "request"
       \/ \E q \in Pid : /\ ksToCpu[c] = <<INTERRUPT(r), RESUME_PROCESS(q)>>
                         /\ ks[c] = [stage |-> "receive", pid |-> q]

Talk(c) ==
  /\ cpu[c].stage \in {"off", "start", "idle"} => cpuToKs[c] = <<>> /\ Waiting(c)
  /\ cpu[c].stage \in {"context", "table", "fetch", "access"} =>
       cpuToKs[c] = <<>> /\ Working(c)
  /\ cpu[c].stage = "interrupt" =>
       IF cpuToKs[c] = <<>> THEN Answered(c)
       ELSE cpuToKs[c] = <<Head(cpuToKs[c])>> /\ Working(c)
  /\ cpu[c].stage = "update" =>
       cpuToKs[c] = <<>> /\ IF cpu[c].stop THEN Waiting(c) ELSE Working(c)
  /\ cpu[c].stage = "gone" => cpuToKs[c] = <<>>

\* The scheduler's threads have different processes, all of them in EXEC.
Dispatched(c) ==
  ks[c].stage = "receive" =>
    /\ ks[c].pid \in Pid /\ status[ks[c].pid] = "EXEC"
    /\ \A d \in Cpu \ {c} : ks[d].stage = "receive" => ks[d].pid # ks[c].pid

\* Every CPU and its thread are at matching places of their conversation, over
\* preemptions, replacements, lost CPUs and processes that come and go.
Conversation == \A c \in Cpu : Talk(c) /\ Dispatched(c)

Loaded == {"table", "fetch", "access", "interrupt", "update"}

\* A process goes on with the registers its last instruction left, wherever
\* they are: in a CPU, in an OP_UPDATED_CONTEXT on its way, or in Kernel Memory,
\* over any number of preemptions and CPUs; except one whose context another
\* CPU was given while the first still owed it.
ContextExact ==
  \A p \in processes \ overtaken :
    /\ \A c \in Cpu :
         /\ cpu[c].pid = p /\ cpu[c].stage \in Loaded => cpu[c].regs = last[p]
         /\ \A k \in DOMAIN cpuToKm[c] :
              LET m == cpuToKm[c][k]
              IN  m.op = "UPDATED_CONTEXT" => m.pid # p \/ m.regs = last[p]
         /\ cpu[c].pid = p => \A k \in DOMAIN kmToCpu[c] :
              LET m == kmToCpu[c][k] IN  m.op = "SEND_CONTEXT" => m.regs = last[p]
    /\ (\A c \in Cpu : ~Owes(c, p) /\ ~(cpu[c].pid = p /\ cpu[c].stage \in Loaded))
         => context[p] = last[p]

\* The segment table by which a CPU translates addresses is Kernel Memory's
\* table of that process, after allocations, releases and suspensions that
\* moved its segments (cpu.c update_segment_table, segment_changed).
TableFresh ==
  \A c \in Cpu :
    cpu[c].stage \in {"fetch", "access"}
      => cpu[c].table = filter_process_segments(segments, cpu[c].pid)

\* An address a CPU is about to use is on a stick it is connected to, and on
\* the stick Kernel Memory means, although sticks come while it runs and are
\* only taken in when it waits for Kernel Memory.
SticksKnown ==
  \A c \in Cpu :
    cpu[c].stage = "access" /\ cpu[c].pid \notin overtaken =>
      LET a == cpu[c].access
          size == IF a.mode = "read" THEN a.size ELSE Len(a.data)
      IN  a.at < size =>
            /\ access_stick(c) # 0
            /\ cpu[c].sticks[access_stick(c)].stick = find_stick(sticks, access_address(a))

\* What a process has stored is where its segment is: nothing another process,
\* a suspension or a resumption does changes it, over one stick or several.
MemoryExact ==
  \A w \in DOMAIN written :
    w[1] \notin overtaken =>
      LET s == find_segment_by_id(segments, w[1], w[2])
          out == SelectInSeq(swapped[w[1]], LAMBDA t : t.id = w[2])
      IN  IF s # NoSegment
          THEN read_from_sticks(sticks, s.base + w[3], 1) = <<written[w]>>
          ELSE out # 0 /\ swapped[w[1]][out].bytes[w[3] + 1] = written[w]

Awaits == [context |-> {"REQUEST_CONTEXT", "SEND_CONTEXT"},
           table   |-> {"REQUEST_CONTEXT", "SEGMENT_TABLE"},
           fetch   |-> {"NEXT_INSTRUCTION", "SEND_INSTRUCTION"},
           update  |-> {"UPDATED_SEGMENT_TABLE", "SEGMENT_TABLE"}]

Ops(channel) == {channel[k].op : k \in DOMAIN channel}

\* A CPU that waits for Kernel Memory has its request or the answer to it on
\* the way, and nothing else but sticks comes before: Kernel Memory drops the
\* requests for a process it does not know, and listen_kernel_memory takes one
\* answer for another.
AlwaysAnswered ==
  \A c \in Cpu :
    cpu[c].stage \in Listening /\ cpu[c].pid \notin overtaken =>
      LET wanted == Awaits[cpu[c].stage]
          answers == {k \in DOMAIN kmToCpu[c] : kmToCpu[c][k].op # "PACKET"}
      IN  IF answers = {} THEN Ops(cpuToKm[c]) \cap wanted # {}
          ELSE kmToCpu[c][Min(answers)].op \in wanted

\* Kernel Memory never looks up the instruction of a process that is not in
\* its list, or one past the end of its script: cpu_listener.c does not check.
KmFindsProcess == ~crashed

\* A lost stick is always reported to the scheduler, by the CPU that met it or
\* by the watchdog.
LossReported == (lost # {}) ~> corrupted

\* A process that is READY or in EXEC does not stay so: it ends or it waits for
\* something, and no CPU, listener or thread waits for ever in its turn, unless
\* memory is lost, a CPU has left, or a process was overtaken (cpu.c main loop).
TurnsEnd ==
  \A p \in Pid :
    status[p] \in {"READY", "EXEC"} ~>
      \/ status[p] \notin {"READY", "EXEC"}
      \/ corrupted \/ overtaken # {} \/ \E c \in Cpu : cpu[c].stage = "gone"
===============================================================================

---------------------------- MODULE CpuCycleProofs ----------------------------
(***************************************************************************)
(* The conversation between a CPU and the scheduler's thread for it never  *)
(* goes out of step, and a process is run by one CPU at a time: for any    *)
(* number of CPUs and processes and any programs whose copies do not fault *)
(* in their destination.                                                   *)
(***************************************************************************)
EXTENDS CpuCycle, SequenceTheorems, TLAPS

\* No COPY_MEM about to be executed has a valid source and a destination
\* outside its segment: for such a copy handler_copy_mem reports the fault and
\* then the end of the cycle as well.
CopiesValid ==
  \A c \in Cpu :
    Hears(c, "fetch", "SEND_INSTRUCTION") /\ Fetched(c).op = "COPY_MEM"
      => ~(translate(c, "SI").kind = "ok" /\ translate(c, "DI") = Fault)

\* The shapes of what the conversation is about.
Fields == {"stage", "pid", "regs", "table", "changed", "stop", "sticks", "access"}
Shapes ==
  /\ cpu = [c \in Cpu |-> cpu[c]]
  /\ \A c \in Cpu : cpu[c] = [f \in Fields |-> cpu[c][f]] /\ cpu[c].stage \in Stages
  /\ ks \in [Cpu -> [stage : {"request", "receive", "closed"}, pid : Pid \cup {NoPid}]]
  /\ status \in [Pid -> States]
  /\ ksToCpu = [c \in Cpu |-> ksToCpu[c]]
  /\ cpuToKs = [c \in Cpu |-> cpuToKs[c]]

CycleInv == Shapes /\ Conversation

-----------------------------------------------------------------------------
(* Short channels.                                                         *)
LEMMA OneMessage ==
  ASSUME NEW x
  PROVE  /\ Append(<<>>, x) = <<x>> /\ Tail(<<x>>) = <<>> /\ Head(<<x>>) = x
         /\ <<x>> # <<>> /\ <<>> \o <<x>> = <<x>>
OBVIOUS

LEMMA TwoMessages ==
  ASSUME NEW x, NEW y
  PROVE  /\ Append(<<x>>, y) = <<x, y>> /\ Tail(<<x, y>>) = <<y>>
         /\ Head(<<x, y>>) = x /\ <<x, y>> # <<>> /\ <<>> \o <<x, y>> = <<x, y>>
<1>0. /\ <<x>> \in Seq({x, y}) /\ <<x, y>> \in Seq({x, y}) /\ <<y>> \in Seq({x, y})
  OBVIOUS
<1>1. Append(<<x>>, y) = <<x, y>>
  <2> DEFINE s == Append(<<x>>, y)
             t == <<x, y>>
  <2>1. s \in Seq({x, y}) /\ Len(s) = 2 /\ s[1] = x /\ s[2] = y
    BY <1>0
  <2>2. t \in Seq({x, y}) /\ Len(t) = 2 /\ t[1] = x /\ t[2] = y
    BY <1>0
  <2> HIDE DEF s, t
  <2>3. \A i \in 1 .. 2 : s[i] = t[i]
    BY <2>1, <2>2
  <2>4. s = t
    BY <2>1, <2>2, <2>3, SeqEqual
  <2> QED BY <2>4 DEF s, t
<1>2. Tail(<<x, y>>) = <<y>>
  BY <1>0
<1>3. Head(<<x, y>>) = x
  OBVIOUS
<1>4. <<x, y>> # <<>> /\ <<>> \o <<x, y>> = <<x, y>>
  BY <1>0
<1> QED BY <1>1, <1>2, <1>3, <1>4

\* Everything about the other CPUs stays.
SameCpu(d) == /\ cpu'[d] = cpu[d] /\ ksToCpu'[d] = ksToCpu[d]
              /\ cpuToKs'[d] = cpuToKs[d]

\* What a CPU's step does not touch.
Alone(c) ==
  /\ \A d \in Cpu \ {c} : SameCpu(d)
  /\ UNCHANGED <<ks, status>>

LEMMA AloneStep ==
  ASSUME CycleInv, NEW c \in Cpu, Alone(c), Shapes', Talk(c)'
  PROVE  CycleInv'
<1>1. ASSUME NEW d \in Cpu \ {c} PROVE Talk(d)'
  <2>1. Talk(d)
    BY DEF CycleInv, Conversation
  <2>2. /\ cpu'[d] = cpu[d] /\ ksToCpu'[d] = ksToCpu[d] /\ cpuToKs'[d] = cpuToKs[d]
        /\ ks'[d] = ks[d]
    BY DEF Alone, SameCpu
  <2>3. (Waiting(d) => Waiting(d)') /\ (Working(d) => Working(d)')
        /\ (Answered(d) => Answered(d)')
    BY <2>2 DEF Waiting, Working, Answered
  <2> QED BY <2>1, <2>2, <2>3 DEF Talk
<1>2. \A d \in Cpu : Dispatched(d)'
  BY DEF CycleInv, Conversation, Dispatched, Alone
<1> QED BY <1>1, <1>2 DEF CycleInv, Conversation

\* The CPU goes on to stage s with the same process.
LEMMA RecordStep ==
  ASSUME Shapes, NEW c \in Cpu, NEW r, cpu' = [cpu EXCEPT ![c] = r],
         r = [f \in Fields |-> r[f]], r.stage \in Stages,
         UNCHANGED <<ks, status>>,
         \/ UNCHANGED ksToCpu
         \/ ksToCpu' = [ksToCpu EXCEPT ![c] = Tail(@)],
         \/ UNCHANGED cpuToKs
         \/ \E m : cpuToKs' = [cpuToKs EXCEPT ![c] = @ \o m]
  PROVE  Shapes' /\ Alone(c) /\ cpu'[c] = r
<1>1. /\ cpu' = [d \in Cpu |-> cpu'[d]] /\ cpu'[c] = r
      /\ \A d \in Cpu \ {c} : cpu'[d] = cpu[d]
  BY DEF Shapes
<1>2. /\ ksToCpu' = [d \in Cpu |-> ksToCpu'[d]]
      /\ \A d \in Cpu \ {c} : ksToCpu'[d] = ksToCpu[d]
  BY DEF Shapes
<1>3. /\ cpuToKs' = [d \in Cpu |-> cpuToKs'[d]]
      /\ \A d \in Cpu \ {c} : cpuToKs'[d] = cpuToKs[d]
  BY DEF Shapes
<1> QED BY <1>1, <1>2, <1>3 DEF Shapes, Alone, SameCpu

IsCpu(r) == r = [f \in Fields |-> r[f]] /\ r.stage \in Stages

Executing == {"context", "table", "fetch", "access"}

\* The CPU goes on with its process.
LEMMA Continues ==
  ASSUME CycleInv, NEW c \in Cpu, NEW r, cpu' = [cpu EXCEPT ![c] = r], IsCpu(r),
         cpu[c].stage \in Executing, r.stage \in Executing, r.pid = cpu[c].pid,
         UNCHANGED <<ks, status, ksToCpu, cpuToKs>>
  PROVE  CycleInv'
<1>1. Shapes' /\ Alone(c) /\ cpu'[c] = r
  BY RecordStep DEF CycleInv, IsCpu
<1>2. cpuToKs[c] = <<>> /\ Working(c)
  BY DEF CycleInv, Conversation, Talk, Executing
<1>3. Working(c)' /\ cpuToKs'[c] = <<>>
  BY <1>1, <1>2 DEF Working
<1>4. Talk(c)'
  BY <1>1, <1>3 DEF Talk, Executing
<1> QED BY <1>1, <1>4, AloneStep

\* The CPU reports the end of a cycle, once.
LEMMA Reports ==
  ASSUME CycleInv, NEW c \in Cpu, NEW r, cpu' = [cpu EXCEPT ![c] = r], IsCpu(r),
         cpu[c].stage \in Executing, r.stage = "interrupt", r.pid = cpu[c].pid,
         NEW m, cpuToKs' = [cpuToKs EXCEPT ![c] = @ \o <<m>>],
         UNCHANGED <<ks, status, ksToCpu>>
  PROVE  CycleInv'
<1>1. Shapes' /\ Alone(c) /\ cpu'[c] = r
  BY RecordStep DEF CycleInv, IsCpu
<1>2. cpuToKs[c] = <<>> /\ Working(c)
  BY DEF CycleInv, Conversation, Talk, Executing
<1>3. cpuToKs'[c] = <<m>>
  BY <1>2, OneMessage DEF CycleInv, Shapes
<1>4. cpuToKs'[c] = <<Head(cpuToKs'[c])>> /\ cpuToKs'[c] # <<>>
  BY <1>3, OneMessage
<1>5. Working(c)'
  BY <1>1, <1>2 DEF Working
<1>6. Talk(c)'
  BY <1>1, <1>4, <1>5 DEF Talk
<1> QED BY <1>1, <1>6, AloneStep

\* The CPU leaves its loop.
LEMMA Departs ==
  ASSUME CycleInv, NEW c \in Cpu, departs(c), cpuToKs[c] = <<>>,
         UNCHANGED <<ks, status, cpuToKs>>,
         UNCHANGED ksToCpu \/ ksToCpu' = received(ksToCpu, c)
  PROVE  CycleInv'
<1>1. cpu[c] = [f \in Fields |-> cpu[c][f]]
  BY DEF CycleInv, Shapes
<1> DEFINE r == Gone(cpu[c])
<1>2. cpu' = [cpu EXCEPT ![c] = r]
  BY DEF departs
<1>3. IsCpu(r) /\ r.stage = "gone"
  BY <1>1 DEF IsCpu, Gone, Released, Fields, Stages
<1> HIDE DEF r
<1>4. Shapes' /\ Alone(c) /\ cpu'[c] = r
  BY <1>2, <1>3, RecordStep DEF CycleInv, IsCpu, received
<1>5. Talk(c)'
  BY <1>3, <1>4 DEF Talk
<1> QED BY <1>4, <1>5, AloneStep

-----------------------------------------------------------------------------
(* The steps of a CPU.                                                     *)

LEMMA ConnectStep ==
  ASSUME CycleInv, NEW c \in Cpu, connect_to_kernel_memory(c)
  PROVE  CycleInv'
<1>1. cpu[c] = [f \in Fields |-> cpu[c][f]] /\ cpu[c].stage = "start"
  BY DEF CycleInv, Shapes, connect_to_kernel_memory
<1> DEFINE r == [cpu[c] EXCEPT !.stage = "idle"]
<1>2. cpu' = [cpu EXCEPT ![c] = r] /\ UNCHANGED <<ks, status, ksToCpu, cpuToKs>>
  BY DEF connect_to_kernel_memory
<1>3. IsCpu(r) /\ r.stage = "idle"
  BY <1>1 DEF IsCpu, Fields, Stages
<1> HIDE DEF r
<1>4. Shapes' /\ Alone(c) /\ cpu'[c] = r
  BY <1>2, <1>3, RecordStep DEF CycleInv, IsCpu
<1>5. cpuToKs[c] = <<>> /\ Waiting(c)
  BY <1>1 DEF CycleInv, Conversation, Talk
<1>6. Waiting(c)'
  BY <1>2, <1>5 DEF Waiting
<1>7. Talk(c)'
  BY <1>2, <1>3, <1>4, <1>5, <1>6 DEF Talk
<1> QED BY <1>4, <1>7, AloneStep

\* An idle CPU finds nothing but a process to resume.
LEMMA ReceivePidStep ==
  ASSUME CycleInv, NEW c \in Cpu, receive_pid(c)
  PROVE  CycleInv'
<1>1. /\ cpu[c] = [f \in Fields |-> cpu[c][f]] /\ cpu[c].stage = "idle"
      /\ ksToCpu[c] # <<>>
  BY DEF CycleInv, Shapes, receive_pid
<1>2. cpuToKs[c] = <<>> /\ Waiting(c)
  BY <1>1 DEF CycleInv, Conversation, Talk
<1>3. PICK q \in Pid : /\ ksToCpu[c] = <<RESUME_PROCESS(q)>>
                       /\ ks[c] = [stage |-> "receive", pid |-> q]
  BY <1>1, <1>2 DEF Waiting
<1>4. /\ Head(ksToCpu[c]) = RESUME_PROCESS(q) /\ Tail(ksToCpu[c]) = <<>>
      /\ RESUME_PROCESS(q).op = "RESUME_PROCESS" /\ RESUME_PROCESS(q).pid = q
  BY <1>3, OneMessage DEF RESUME_PROCESS
<1> DEFINE r == [cpu[c] EXCEPT !.stage = "context", !.pid = q]
<1>5. /\ cpu' = [cpu EXCEPT ![c] = r]
      /\ UNCHANGED <<ks, status, cpuToKs>> /\ ksToCpu' = received(ksToCpu, c)
  BY <1>4 DEF receive_pid
<1>6. IsCpu(r) /\ r.stage = "context" /\ r.pid = q
  BY <1>1 DEF IsCpu, Fields, Stages
<1> HIDE DEF r
<1>7. Shapes' /\ Alone(c) /\ cpu'[c] = r
  BY <1>5, <1>6, RecordStep DEF CycleInv, IsCpu, received
<1>8. ksToCpu'[c] = <<>>
  BY <1>4, <1>5 DEF received, CycleInv, Shapes
<1>9. Working(c)'
  BY <1>3, <1>5, <1>6, <1>7, <1>8 DEF Working
<1>10. Talk(c)'
  BY <1>2, <1>5, <1>6, <1>7, <1>9 DEF Talk
<1> QED BY <1>7, <1>10, AloneStep

\* Answers of Kernel Memory.
LEMMA LoadStep ==
  ASSUME CycleInv, NEW c \in Cpu,
         receive_context(c) \/ receive_segment_table(c) \/ connect_memory_stick(c)
  PROVE  CycleInv'
<1>0. cpu[c] = [f \in Fields |-> cpu[c][f]] /\ cpu[c].stage \in Stages
  BY DEF CycleInv, Shapes
<1>1. CASE receive_context(c)
  <2> DEFINE r == [cpu[c] EXCEPT !.stage = "table", !.regs = Head(kmToCpu[c]).regs]
  <2>1. /\ cpu' = [cpu EXCEPT ![c] = r] /\ cpu[c].stage = "context"
        /\ UNCHANGED <<ks, status, ksToCpu, cpuToKs>>
    BY <1>1 DEF receive_context, Hears
  <2>2. IsCpu(r) /\ r.stage = "table" /\ r.pid = cpu[c].pid
    BY <1>0 DEF IsCpu, Fields, Stages
  <2> HIDE DEF r
  <2> QED BY <2>1, <2>2, Continues DEF Executing
<1>2. CASE receive_segment_table(c)
  <2> DEFINE r == [cpu[c] EXCEPT !.stage = "fetch", !.table = Head(kmToCpu[c]).table]
  <2>1. /\ cpu' = [cpu EXCEPT ![c] = r] /\ cpu[c].stage = "table"
        /\ UNCHANGED <<ks, status, ksToCpu, cpuToKs>>
    BY <1>2 DEF receive_segment_table, Hears
  <2>2. IsCpu(r) /\ r.stage = "fetch" /\ r.pid = cpu[c].pid
    BY <1>0 DEF IsCpu, Fields, Stages
  <2> HIDE DEF r
  <2> QED BY <2>1, <2>2, Continues DEF Executing
<1>3. CASE connect_memory_stick(c)
  <2>1. /\ cpu[c].stage \in Listening /\ UNCHANGED <<ks, status, ksToCpu, cpuToKs>>
    BY <1>3 DEF connect_memory_stick
  <2>2. cpuToKs[c] = <<>>
    BY <2>1 DEF CycleInv, Conversation, Talk, Listening
  <2>3. CASE departs(c)
    BY <2>1, <2>2, <2>3, Departs
  <2>4. CASE ~departs(c)
    <3> DEFINE r == [cpu[c] EXCEPT !.sticks =
              Append(@, [stick |-> Head(kmToCpu[c]).stick, size |-> Head(kmToCpu[c]).size])]
    <3>1. cpu' = [cpu EXCEPT ![c] = r]
      BY <1>3, <2>4 DEF connect_memory_stick
    <3>2. IsCpu(r) /\ r.stage = cpu[c].stage /\ r.pid = cpu[c].pid /\ r.stop = cpu[c].stop
      BY <1>0 DEF IsCpu, Fields
    <3> HIDE DEF r
    <3>3. Shapes' /\ Alone(c) /\ cpu'[c] = r
      BY <2>1, <3>1, <3>2, RecordStep DEF CycleInv, IsCpu
    <3>4. (Waiting(c) => Waiting(c)') /\ (Working(c) => Working(c)')
      BY <2>1, <3>2, <3>3 DEF Waiting, Working
    <3>5. Talk(c)
      BY DEF CycleInv, Conversation
    <3>6. Talk(c)'
      BY <2>1, <2>2, <3>2, <3>3, <3>4, <3>5 DEF Talk, Listening
    <3> QED BY <3>3, <3>6, AloneStep
  <2> QED BY <2>3, <2>4
<1> QED BY <1>1, <1>2, <1>3

\* The end of a cycle that one message reports.
LEMMA EndCycle ==
  ASSUME CycleInv, NEW c \in Cpu, NEW regs, NEW m, NEW changed,
         end_cycle(c, regs, <<m>>, changed), cpu[c].stage \in {"fetch", "access"},
         UNCHANGED <<ks, status, ksToCpu>>
  PROVE  CycleInv'
<1>0. cpu[c] = [f \in Fields |-> cpu[c][f]]
  BY DEF CycleInv, Shapes
<1> DEFINE next == increment_pc(cpu[c].regs, regs)
           r == [cpu[c] EXCEPT !.stage = "interrupt", !.regs = next,
                               !.changed = @ \/ changed, !.access = NoAccess]
<1>1. /\ cpu' = [cpu EXCEPT ![c] = r]
      /\ cpuToKs' = [cpuToKs EXCEPT ![c] = @ \o <<m>>]
  BY DEF end_cycle
<1> HIDE DEF next
<1>2. IsCpu(r) /\ r.stage = "interrupt" /\ r.pid = cpu[c].pid
  BY <1>0 DEF IsCpu, Fields, Stages
<1> HIDE DEF r
<1> QED BY <1>1, <1>2, Reports DEF Executing

\* An access to memory begins or goes on.
LEMMA BeginAccess ==
  ASSUME CycleInv, NEW c \in Cpu, NEW access, begin_access(c, access),
         cpu[c].stage \in {"fetch", "access"}, UNCHANGED <<ks, status, ksToCpu>>
  PROVE  CycleInv'
<1>0. cpu[c] = [f \in Fields |-> cpu[c][f]]
  BY DEF CycleInv, Shapes
<1> DEFINE r == [cpu[c] EXCEPT !.stage = "access", !.access = access]
<1>1. cpu' = [cpu EXCEPT ![c] = r] /\ UNCHANGED cpuToKs
  BY DEF begin_access
<1>2. IsCpu(r) /\ r.stage = "access" /\ r.pid = cpu[c].pid
  BY <1>0 DEF IsCpu, Fields, Stages
<1> HIDE DEF r
<1> QED BY <1>1, <1>2, Continues DEF Executing

LEMMA NothingReported ==
  ASSUME CycleInv, NEW c \in Cpu, cpu[c].stage \in {"fetch", "access"}
  PROVE  cpuToKs[c] = <<>>
BY DEF CycleInv, Conversation, Talk

\* Instructions that end their cycle at once.
LEMMA ExecuteStep ==
  ASSUME CycleInv, NEW c \in Cpu,
         \/ execute_local(c) \/ handler_mutex(c) \/ handler_mem(c) \/ handler_io(c)
         \/ handler_init_proc(c) \/ handler_exit(c)
  PROVE  CycleInv'
<1>1. cpu[c].stage \in {"fetch", "access"} /\ UNCHANGED <<ks, status, ksToCpu>>
  BY DEF execute_local, handler_mutex, handler_mem, handler_io, handler_init_proc,
         handler_exit, Executes, Hears, Syscall
<1>2. \E regs, m, changed : end_cycle(c, regs, <<m>>, changed)
  <2>1. CASE execute_local(c)
    BY <2>1 DEF execute_local
  <2>2. CASE \/ handler_mutex(c) \/ handler_mem(c) \/ handler_io(c)
             \/ handler_init_proc(c) \/ handler_exit(c)
    BY <2>2 DEF handler_mutex, handler_mem, handler_io, handler_init_proc,
                handler_exit, Syscall
  <2> QED BY <2>1, <2>2
<1> QED BY <1>1, <1>2, EndCycle

LEMMA MoveStep ==
  ASSUME CycleInv, NEW c \in Cpu, handler_mov_in(c) \/ handler_mov_out(c)
  PROVE  CycleInv'
<1>1. cpu[c].stage \in {"fetch", "access"} /\ UNCHANGED <<ks, status, ksToCpu>>
  BY DEF handler_mov_in, handler_mov_out, Executes, Hears
<1>2. \/ leave(c) \/ \E a : begin_access(c, a)
      \/ end_cycle(c, cpu[c].regs, <<SEG_FAULT>>, FALSE)
  BY DEF handler_mov_in, handler_mov_out
<1>3. leave(c) => CycleInv'
  BY <1>1, Departs, NothingReported DEF leave
<1> QED BY <1>1, <1>2, <1>3, BeginAccess, EndCycle

\* COPY_MEM reports once, unless it faults in its destination alone.
LEMMA CopyStep ==
  ASSUME CycleInv, NEW c \in Cpu, CopiesValid, handler_copy_mem(c)
  PROVE  CycleInv'
<1>1. /\ cpu[c].stage \in {"fetch", "access"} /\ UNCHANGED <<ks, status, ksToCpu>>
      /\ Hears(c, "fetch", "SEND_INSTRUCTION") /\ Fetched(c).op = "COPY_MEM"
  BY DEF handler_copy_mem, Executes, Hears
<1>2. ~(translate(c, "SI").kind = "ok" /\ translate(c, "DI") = Fault)
  BY <1>1 DEF CopiesValid
<1>3. \/ leave(c) \/ \E a : begin_access(c, a)
      \/ end_cycle(c, cpu[c].regs, <<SEG_FAULT>>, FALSE)
  BY <1>2 DEF handler_copy_mem
<1>4. leave(c) => CycleInv'
  BY <1>1, Departs, NothingReported DEF leave
<1> QED BY <1>1, <1>3, <1>4, BeginAccess, EndCycle

\* Reads and writes, a stick at a time.
LEMMA AccessStep ==
  ASSUME CycleInv, NEW c \in Cpu,
         read_memory(c) \/ read_done(c) \/ write_memory(c) \/ write_done(c)
  PROVE  CycleInv'
<1>0. cpu[c] = [f \in Fields |-> cpu[c][f]]
  BY DEF CycleInv, Shapes
<1>1. cpu[c].stage = "access" /\ UNCHANGED <<ks, status, ksToCpu>>
  BY DEF read_memory, read_done, write_memory, write_done, Accesses
<1>2. CASE read_done(c) \/ write_done(c)
  <2>1. \/ \E a : begin_access(c, a)
        \/ \E regs, m, changed : end_cycle(c, regs, <<m>>, changed)
    <3>1. CASE read_done(c)
      BY <3>1 DEF read_done
    <3>2. CASE write_done(c)
      BY <3>2 DEF write_done
    <3> QED BY <1>2, <3>1, <3>2
  <2> QED BY <1>1, <2>1, BeginAccess, EndCycle
<1>3. CASE read_memory(c) \/ write_memory(c)
  <2>1. cpuToKs' = cpuToKs
    BY <1>3 DEF read_memory, write_memory
  <2>2. departs(c) \/ \E a : cpu' = [cpu EXCEPT ![c].access = a]
    <3>1. CASE read_memory(c)
      BY <3>1 DEF read_memory, access_fails
    <3>2. CASE write_memory(c)
      BY <3>2 DEF write_memory, access_fails
    <3> QED BY <1>3, <3>1, <3>2
  <2>3. CASE departs(c)
    BY <1>1, <2>1, <2>3, Departs, NothingReported
  <2>4. ASSUME NEW a, cpu' = [cpu EXCEPT ![c].access = a] PROVE CycleInv'
    <3> DEFINE r == [cpu[c] EXCEPT !.access = a]
    <3>1. cpu' = [cpu EXCEPT ![c] = r]
      BY <2>4
    <3>2. IsCpu(r) /\ r.stage = "access" /\ r.pid = cpu[c].pid
      BY <1>0, <1>1 DEF IsCpu, Fields, Stages
    <3> HIDE DEF r
    <3> QED BY <1>1, <2>1, <3>1, <3>2, Continues DEF Executing
  <2> QED BY <2>2, <2>3, <2>4
<1> QED BY <1>2, <1>3

\* The end of the cycle in state s: the CPU goes on with the process, or lets it
\* go.
LEMMA KeepGoing ==
  ASSUME CycleInv, NEW c \in Cpu, NEW s, IsCpu(s), s.pid = cpu[c].pid, NEW stop,
         keep_going(c, s, stop), cpuToKs[c] = <<>>, UNCHANGED <<ks, status, cpuToKs>>,
         UNCHANGED ksToCpu \/ ksToCpu' = received(ksToCpu, c),
         IF stop THEN Waiting(c)'
         ELSE ksToCpu'[c] = <<>> /\ ks[c] = [stage |-> "receive", pid |-> cpu[c].pid]
  PROVE  CycleInv'
<1> DEFINE t == [s EXCEPT !.changed = FALSE, !.stop = FALSE]
<1>1. t = [f \in Fields |-> t[f]] /\ t.pid = cpu[c].pid
  BY DEF IsCpu, Fields
<1>2. /\ stop => cpu' = [cpu EXCEPT ![c] = Released(t)]
      /\ ~stop => cpu' = [cpu EXCEPT ![c] = [t EXCEPT !.stage = "fetch"]]
  BY DEF keep_going
<1> HIDE DEF t
<1>3. CASE stop
  <2> DEFINE r == Released(t)
  <2>1. IsCpu(r) /\ r.stage = "idle"
    BY <1>1 DEF IsCpu, Released, Fields, Stages
  <2>2. cpu' = [cpu EXCEPT ![c] = r]
    BY <1>2, <1>3
  <2> HIDE DEF r
  <2>3. Shapes' /\ Alone(c) /\ cpu'[c] = r
    BY <2>1, <2>2, RecordStep DEF CycleInv, IsCpu, received
  <2>4. Talk(c)'
    BY <1>3, <2>1, <2>3 DEF Talk
  <2> QED BY <2>3, <2>4, AloneStep
<1>4. CASE ~stop
  <2> DEFINE r == [t EXCEPT !.stage = "fetch"]
  <2>1. IsCpu(r) /\ r.stage = "fetch" /\ r.pid = cpu[c].pid
    BY <1>1 DEF IsCpu, Fields, Stages
  <2>2. cpu' = [cpu EXCEPT ![c] = r]
    BY <1>2, <1>4
  <2> HIDE DEF r
  <2>3. Shapes' /\ Alone(c) /\ cpu'[c] = r
    BY <2>1, <2>2, RecordStep DEF CycleInv, IsCpu, received
  <2>4. Working(c)'
    BY <1>4, <2>1, <2>3 DEF Working
  <2>5. Talk(c)'
    BY <2>1, <2>3, <2>4 DEF Talk
  <2> QED BY <2>3, <2>5, AloneStep
<1> QED BY <1>3, <1>4

\* The answer to the report: what follows an interrupt in the channel is the
\* next process or nothing.
LEMMA InterruptStep ==
  ASSUME CycleInv, NEW c \in Cpu, check_interrupt(c)
  PROVE  CycleInv'
<1>0. /\ cpu[c] = [f \in Fields |-> cpu[c][f]] /\ cpu[c].stage = "interrupt"
      /\ cpu[c].stage \in Stages
  BY DEF CycleInv, Shapes, check_interrupt
<1>1. /\ ksToCpu[c] # <<>> /\ ksToCpu' = received(ksToCpu, c)
      /\ UNCHANGED <<ks, status, cpuToKs>>
  BY DEF check_interrupt
<1>2. cpuToKs[c] = <<>> /\ Answered(c)
  BY <1>0, <1>1 DEF CycleInv, Conversation, Talk, Working
<1>3. ksToCpu'[c] = Tail(ksToCpu[c])
  BY <1>1 DEF received, CycleInv, Shapes
<1>4. PICK m : m = Head(ksToCpu[c])
  OBVIOUS
<1>5. /\ m.op \in {"INTERRUPT", "NO_INTERRUPT"}
      /\ IF m.op = "INTERRUPT" THEN Waiting(c)'
         ELSE ksToCpu'[c] = <<>> /\ ks[c] = [stage |-> "receive", pid |-> cpu[c].pid]
  <2>1. CASE ksToCpu[c] = <<NO_INTERRUPT>> /\ ks[c] = [stage |-> "receive", pid |-> cpu[c].pid]
    <3>1. m = NO_INTERRUPT /\ ksToCpu'[c] = <<>>
      BY <1>3, <1>4, <2>1, OneMessage
    <3> QED BY <2>1, <3>1 DEF NO_INTERRUPT
  <2>2. ASSUME NEW r \in Reasons, ksToCpu[c] = <<INTERRUPT(r)>>, ks[c].stage = "request"
        PROVE  m.op = "INTERRUPT" /\ Waiting(c)'
    <3>1. m = INTERRUPT(r) /\ ksToCpu'[c] = <<>>
      BY <1>3, <1>4, <2>2, OneMessage
    <3> QED BY <1>1, <2>2, <3>1 DEF INTERRUPT, Waiting
  <2>3. ASSUME NEW r \in Reasons, NEW q \in Pid,
               ksToCpu[c] = <<INTERRUPT(r), RESUME_PROCESS(q)>>,
               ks[c] = [stage |-> "receive", pid |-> q]
        PROVE  m.op = "INTERRUPT" /\ Waiting(c)'
    <3>1. m = INTERRUPT(r) /\ ksToCpu'[c] = <<RESUME_PROCESS(q)>>
      BY <1>3, <1>4, <2>3, TwoMessages
    <3>2. Waiting(c)'
      BY <1>1, <2>3, <3>1 DEF Waiting
    <3> QED BY <3>1, <3>2 DEF INTERRUPT
  <2> QED BY <1>2, <2>1, <2>2, <2>3 DEF Answered
<1> DEFINE stop == m.op = "INTERRUPT"
<1>6. CASE keep_going(c, cpu[c], stop)
  <2>1. IsCpu(cpu[c])
    BY <1>0 DEF IsCpu
  <2> HIDE DEF stop
  <2>2. IF stop THEN Waiting(c)'
        ELSE ksToCpu'[c] = <<>> /\ ks[c] = [stage |-> "receive", pid |-> cpu[c].pid]
    BY <1>5 DEF stop
  <2> QED BY <1>1, <1>2, <1>6, <2>1, <2>2, KeepGoing
<1>7. CASE cpu' = [cpu EXCEPT ![c].stage = "update", ![c].stop = stop]
  <2> DEFINE r == [cpu[c] EXCEPT !.stage = "update", !.stop = stop]
  <2>1. cpu' = [cpu EXCEPT ![c] = r]
    BY <1>7
  <2>2. IsCpu(r) /\ r.stage = "update" /\ r.pid = cpu[c].pid /\ (r.stop <=> m.op = "INTERRUPT")
    BY <1>0 DEF IsCpu, Fields, Stages
  <2> HIDE DEF r
  <2>3. Shapes' /\ Alone(c) /\ cpu'[c] = r
    BY <1>1, <2>1, <2>2, RecordStep DEF CycleInv, IsCpu, received
  <2>4. m.op # "INTERRUPT" => Working(c)'
    BY <1>1, <1>5, <2>2, <2>3 DEF Working
  <2>5. Talk(c)'
    BY <1>1, <1>2, <1>5, <2>2, <2>3, <2>4 DEF Talk
  <2> QED BY <2>3, <2>5, AloneStep
<1>8. \/ keep_going(c, cpu[c], stop)
      \/ cpu' = [cpu EXCEPT ![c].stage = "update", ![c].stop = stop]
  BY <1>4, <1>5 DEF check_interrupt
<1> QED BY <1>6, <1>7, <1>8

LEMMA UpdateStep ==
  ASSUME CycleInv, NEW c \in Cpu, update_segment_table(c)
  PROVE  CycleInv'
<1>0. /\ cpu[c] = [f \in Fields |-> cpu[c][f]] /\ cpu[c].stage = "update"
      /\ cpu[c].stage \in Stages
  BY DEF CycleInv, Shapes, update_segment_table, Hears
<1>1. UNCHANGED <<ks, status, ksToCpu, cpuToKs>>
  BY DEF update_segment_table
<1>2. cpuToKs[c] = <<>> /\ IF cpu[c].stop THEN Waiting(c) ELSE Working(c)
  BY <1>0 DEF CycleInv, Conversation, Talk
<1> DEFINE s == [cpu[c] EXCEPT !.table = Head(kmToCpu[c]).table]
           stop == cpu[c].stop
<1>3. keep_going(c, s, stop)
  BY DEF update_segment_table
<1>4. IsCpu(s) /\ s.pid = cpu[c].pid
  BY <1>0 DEF IsCpu, Fields
<1> HIDE DEF s
<1>5. Waiting(c) => Waiting(c)'
  BY <1>1 DEF Waiting
<1>6. IF stop THEN Waiting(c)'
      ELSE ksToCpu'[c] = <<>> /\ ks[c] = [stage |-> "receive", pid |-> cpu[c].pid]
  BY <1>1, <1>2, <1>5 DEF Working
<1> HIDE DEF stop
<1> QED BY <1>1, <1>2, <1>3, <1>4, <1>6, KeepGoing

LEMMA CpuStepInv ==
  ASSUME CycleInv, CopiesValid, NEW c \in Cpu, CpuStep(c)
  PROVE  CycleInv'
BY ConnectStep, ReceivePidStep, LoadStep, ExecuteStep, MoveStep, CopyStep, AccessStep,
   InterruptStep, UpdateStep DEF CpuStep

-----------------------------------------------------------------------------
(* The steps of the scheduler's threads.                                   *)

\* A step of c's thread: no other thread's process leaves EXEC.
LEMMA ThreadStep ==
  ASSUME CycleInv, NEW c \in Cpu, cpu' = cpu, Shapes',
         \A d \in Cpu \ {c} : /\ ks'[d] = ks[d] /\ ksToCpu'[d] = ksToCpu[d]
                              /\ cpuToKs'[d] = cpuToKs[d],
         \A d \in Cpu \ {c} : ks[d].stage = "receive" => status'[ks[d].pid] = "EXEC",
         ks'[c].stage = "receive" =>
           /\ ks'[c].pid \in Pid /\ status'[ks'[c].pid] = "EXEC"
           /\ \A d \in Cpu \ {c} : ks[d].stage = "receive" => ks[d].pid # ks'[c].pid,
         Talk(c)'
  PROVE  CycleInv'
<1>1. ASSUME NEW d \in Cpu \ {c} PROVE Talk(d)'
  <2>1. Talk(d)
    BY DEF CycleInv, Conversation
  <2>2. /\ cpu'[d] = cpu[d] /\ ksToCpu'[d] = ksToCpu[d] /\ cpuToKs'[d] = cpuToKs[d]
        /\ ks'[d] = ks[d]
    OBVIOUS
  <2>3. (Waiting(d) => Waiting(d)') /\ (Working(d) => Working(d)')
        /\ (Answered(d) => Answered(d)')
    BY <2>2 DEF Waiting, Working, Answered
  <2> QED BY <2>1, <2>2, <2>3 DEF Talk
<1>2. ASSUME NEW d \in Cpu PROVE Dispatched(d)'
  <2>1. CASE d = c
    BY <2>1 DEF Dispatched
  <2>2. CASE d # c
    <3>1. Dispatched(d) /\ ks'[d] = ks[d]
      BY <2>2 DEF CycleInv, Conversation
    <3> QED BY <2>2, <3>1 DEF Dispatched
  <2> QED BY <2>1, <2>2
<1> QED BY <1>1, <1>2 DEF CycleInv, Conversation

\* A thread without a process takes one that no thread has.
LEMMA RequestStep ==
  ASSUME CycleInv, NEW c \in Cpu, manage_request_process(c)
  PROVE  CycleInv'
<1>1. PICK p \in Pid :
        /\ status[p] = "READY" /\ status' = [status EXCEPT ![p] = "EXEC"]
        /\ ks' = [ks EXCEPT ![c] = [stage |-> "receive", pid |-> p]]
        /\ ksToCpu' = send(ksToCpu, c, RESUME_PROCESS(p))
  BY DEF manage_request_process
<1>2. /\ ks[c].stage = "request" /\ cpu' = cpu /\ cpuToKs' = cpuToKs
  BY DEF manage_request_process
<1>3. /\ status \in [Pid -> States] /\ cpu[c].stage \in Stages
      /\ ks \in [Cpu -> [stage : {"request", "receive", "closed"}, pid : Pid \cup {NoPid}]]
      /\ ksToCpu = [d \in Cpu |-> ksToCpu[d]]
  BY DEF CycleInv, Shapes
<1>4. /\ ks'[c] = [stage |-> "receive", pid |-> p]
      /\ \A d \in Cpu \ {c} : ks'[d] = ks[d]
      /\ ks' \in [Cpu -> [stage : {"request", "receive", "closed"}, pid : Pid \cup {NoPid}]]
  BY <1>1, <1>3
<1>5. /\ ksToCpu'[c] = Append(ksToCpu[c], RESUME_PROCESS(p))
      /\ \A d \in Cpu \ {c} : ksToCpu'[d] = ksToCpu[d]
      /\ ksToCpu' = [d \in Cpu |-> ksToCpu'[d]]
  BY <1>1, <1>3 DEF send
<1>6. status' \in [Pid -> States] /\ status'[p] = "EXEC"
      /\ \A r \in Pid : status[r] = "EXEC" => status'[r] = "EXEC"
  BY <1>1, <1>3 DEF States
<1>7. Shapes'
  BY <1>2, <1>4, <1>5, <1>6 DEF CycleInv, Shapes
<1>8. ASSUME NEW d \in Cpu \ {c}, ks[d].stage = "receive"
      PROVE  status'[ks[d].pid] = "EXEC" /\ ks[d].pid # p
  BY <1>1, <1>6, <1>8 DEF CycleInv, Conversation, Dispatched
<1>9. Talk(c)'
  <2>1. Talk(c)
    BY DEF CycleInv, Conversation
  <2>0. \A q : ks[c] # [stage |-> "receive", pid |-> q]
    BY <1>2
  <2>2. ~Working(c)
    BY <1>2 DEF Working
  <2>3. Waiting(c) => Waiting(c)'
    <3>0. HAVE Waiting(c)
    <3>1. ksToCpu[c] = <<>>
      BY <2>0, <3>0 DEF Waiting
    <3>2. ksToCpu'[c] = <<RESUME_PROCESS(p)>>
      BY <1>5, <3>1, OneMessage
    <3> QED BY <1>4, <3>2 DEF Waiting
  <2>4. Answered(c) => Answered(c)'
    <3>0. HAVE Answered(c)
    <3>1. PICK r \in Reasons : ksToCpu[c] = <<INTERRUPT(r)>>
      BY <1>2, <2>0, <3>0 DEF Answered
    <3>2. ksToCpu'[c] = <<INTERRUPT(r), RESUME_PROCESS(p)>>
      BY <1>5, <3>1, TwoMessages
    <3> QED BY <1>4, <3>2 DEF Answered
  <2> QED BY <1>2, <1>3, <2>1, <2>2, <2>3, <2>4 DEF Talk
<1> QED BY <1>2, <1>4, <1>5, <1>6, <1>7, <1>8, <1>9, ThreadStep

\* A report on its way: the CPU waits, and the thread has its process.
LEMMA Reported ==
  ASSUME CycleInv, NEW c \in Cpu, NEW ops, Handles(c, ops)
  PROVE  /\ cpu' = cpu /\ cpu[c].stage = "interrupt" /\ ksToCpu[c] = <<>>
         /\ ks[c] = [stage |-> "receive", pid |-> cpu[c].pid]
         /\ ks[c].pid \in Pid /\ status[ks[c].pid] = "EXEC"
         /\ cpuToKs'[c] = <<>>
         /\ cpuToKs' = [d \in Cpu |-> cpuToKs'[d]]
         /\ \A d \in Cpu \ {c} : cpuToKs'[d] = cpuToKs[d]
<1>1. /\ cpuToKs[c] # <<>> /\ cpuToKs' = received(cpuToKs, c) /\ cpu' = cpu
      /\ ks[c].stage = "receive"
  BY DEF Handles
<1>2. cpu[c].stage \in Stages /\ Talk(c) /\ Dispatched(c)
  BY DEF CycleInv, Conversation, Shapes
<1>3. cpu[c].stage = "interrupt" /\ cpuToKs[c] = <<Head(cpuToKs[c])>> /\ Working(c)
  BY <1>1, <1>2 DEF Talk, Stages
<1>4. Tail(cpuToKs[c]) = <<>>
  BY <1>3, OneMessage
<1>5. /\ cpuToKs'[c] = <<>> /\ cpuToKs' = [d \in Cpu |-> cpuToKs'[d]]
      /\ \A d \in Cpu \ {c} : cpuToKs'[d] = cpuToKs[d]
  BY <1>1, <1>4 DEF received, CycleInv, Shapes
<1> QED BY <1>1, <1>2, <1>3, <1>5 DEF Working, Dispatched

\* The states a handler decides by: the processes in EXEC are still there.
Keeps(states) ==
  /\ states \in [Pid -> States]
  /\ \A r \in Pid : status[r] = "EXEC" => states[r] = "EXEC"

\* The process leaves EXEC and the CPU is interrupted.
LEMMA Preempted ==
  ASSUME CycleInv, NEW c \in Cpu, NEW ops, Handles(c, ops), NEW states, Keeps(states),
         NEW state \in States, NEW reason \in Reasons, preempt(c, states, state, reason)
  PROVE  CycleInv'
<1>1. /\ cpu' = cpu /\ cpu[c].stage = "interrupt" /\ ksToCpu[c] = <<>>
      /\ ks[c] = [stage |-> "receive", pid |-> cpu[c].pid]
      /\ ks[c].pid \in Pid /\ status[ks[c].pid] = "EXEC"
      /\ cpuToKs'[c] = <<>> /\ cpuToKs' = [d \in Cpu |-> cpuToKs'[d]]
      /\ \A d \in Cpu \ {c} : cpuToKs'[d] = cpuToKs[d]
  BY Reported
<1>2. /\ status' = [states EXCEPT ![ks[c].pid] = state]
      /\ ks' = [ks EXCEPT ![c] = [stage |-> "request", pid |-> NoPid]]
      /\ ksToCpu' = send(ksToCpu, c, INTERRUPT(reason))
  BY DEF preempt
<1>3. /\ ks \in [Cpu -> [stage : {"request", "receive", "closed"}, pid : Pid \cup {NoPid}]]
      /\ ksToCpu = [d \in Cpu |-> ksToCpu[d]]
  BY DEF CycleInv, Shapes
<1>4. /\ ks'[c] = [stage |-> "request", pid |-> NoPid]
      /\ \A d \in Cpu \ {c} : ks'[d] = ks[d]
      /\ ks' \in [Cpu -> [stage : {"request", "receive", "closed"}, pid : Pid \cup {NoPid}]]
  BY <1>2, <1>3
<1>5. /\ ksToCpu'[c] = <<INTERRUPT(reason)>>
      /\ \A d \in Cpu \ {c} : ksToCpu'[d] = ksToCpu[d]
      /\ ksToCpu' = [d \in Cpu |-> ksToCpu'[d]]
  BY <1>1, <1>2, <1>3, OneMessage DEF send
<1>6. status' \in [Pid -> States]
      /\ \A r \in Pid \ {ks[c].pid} : status[r] = "EXEC" => status'[r] = "EXEC"
  BY <1>1, <1>2 DEF Keeps
<1>7. Shapes'
  BY <1>1, <1>4, <1>5, <1>6 DEF CycleInv, Shapes
<1>8. ASSUME NEW d \in Cpu \ {c}, ks[d].stage = "receive"
      PROVE  status'[ks[d].pid] = "EXEC"
  BY <1>1, <1>6, <1>8 DEF CycleInv, Conversation, Dispatched
<1>9. Answered(c)'
  BY <1>4, <1>5 DEF Answered
<1>10. Talk(c)'
  BY <1>1, <1>9 DEF Talk
<1> QED BY <1>1, <1>4, <1>5, <1>7, <1>8, <1>10, ThreadStep

\* The process goes on, ends its quantum or gives way.
LEMMA GoesOn ==
  ASSUME CycleInv, NEW c \in Cpu, NEW ops, Handles(c, ops), NEW states, Keeps(states),
         go_on(c, states)
  PROVE  CycleInv'
<1>1. /\ cpu' = cpu /\ cpu[c].stage = "interrupt" /\ ksToCpu[c] = <<>>
      /\ ks[c] = [stage |-> "receive", pid |-> cpu[c].pid]
      /\ ks[c].pid \in Pid /\ status[ks[c].pid] = "EXEC"
      /\ cpuToKs'[c] = <<>> /\ cpuToKs' = [d \in Cpu |-> cpuToKs'[d]]
      /\ \A d \in Cpu \ {c} : cpuToKs'[d] = cpuToKs[d]
  BY Reported
<1>2. /\ ks \in [Cpu -> [stage : {"request", "receive", "closed"}, pid : Pid \cup {NoPid}]]
      /\ ksToCpu = [d \in Cpu |-> ksToCpu[d]]
  BY DEF CycleInv, Shapes
<1>3. CASE ksToCpu' = send(ksToCpu, c, NO_INTERRUPT) /\ status' = states /\ ks' = ks
  <2>1. /\ ksToCpu'[c] = <<NO_INTERRUPT>>
        /\ \A d \in Cpu \ {c} : ksToCpu'[d] = ksToCpu[d]
        /\ ksToCpu' = [d \in Cpu |-> ksToCpu'[d]]
    BY <1>1, <1>2, <1>3, OneMessage DEF send
  <2>2. Shapes'
    BY <1>1, <1>3, <2>1 DEF CycleInv, Shapes, Keeps
  <2>3. ASSUME NEW d \in Cpu, ks[d].stage = "receive"
        PROVE  /\ ks[d].pid \in Pid /\ status'[ks[d].pid] = "EXEC"
               /\ \A e \in Cpu \ {d} : ks[e].stage = "receive" => ks[e].pid # ks[d].pid
    BY <1>3, <2>3 DEF CycleInv, Conversation, Dispatched, Keeps
  <2>4. Answered(c)'
    BY <1>1, <1>3, <2>1 DEF Answered
  <2>5. Talk(c)'
    BY <1>1, <2>4 DEF Talk
  <2> QED BY <1>1, <1>3, <2>1, <2>2, <2>3, <2>5, ThreadStep
<1>4. CASE preempt(c, states, "READY", "quantum end")
  BY <1>4, Preempted DEF States, Reasons
<1>5. ASSUME NEW q \in Pid, states[q] = "READY",
             status' = [states EXCEPT ![ks[c].pid] = "READY", ![q] = "EXEC"],
             ks' = [ks EXCEPT ![c].pid = q],
             ksToCpu' = [ksToCpu EXCEPT ![c] =
                           @ \o <<INTERRUPT("process priority"), RESUME_PROCESS(q)>>]
      PROVE  CycleInv'
  <2>0. [ks[c] EXCEPT !.pid = q] = [stage |-> "receive", pid |-> q]
    BY <1>1
  <2>1. /\ ks'[c] = [stage |-> "receive", pid |-> q]
        /\ \A d \in Cpu \ {c} : ks'[d] = ks[d]
        /\ ks' \in [Cpu -> [stage : {"request", "receive", "closed"}, pid : Pid \cup {NoPid}]]
    <3>1. ks' = [ks EXCEPT ![c] = [stage |-> "receive", pid |-> q]]
      BY <1>5, <2>0
    <3> QED BY <1>2, <3>1
  <2>2. /\ ksToCpu'[c] = <<INTERRUPT("process priority"), RESUME_PROCESS(q)>>
        /\ \A d \in Cpu \ {c} : ksToCpu'[d] = ksToCpu[d]
        /\ ksToCpu' = [d \in Cpu |-> ksToCpu'[d]]
    <3> DEFINE both == <<INTERRUPT("process priority"), RESUME_PROCESS(q)>>
    <3>1. ksToCpu' = [ksToCpu EXCEPT ![c] = @ \o both] /\ <<>> \o both = both
      BY <1>5, TwoMessages
    <3> HIDE DEF both
    <3>2. /\ ksToCpu'[c] = both /\ \A d \in Cpu \ {c} : ksToCpu'[d] = ksToCpu[d]
          /\ ksToCpu' = [d \in Cpu |-> ksToCpu'[d]]
      BY <1>1, <1>2, <3>1
    <3> QED BY <3>2 DEF both
  <2>3. /\ status' \in [Pid -> States] /\ status'[q] = "EXEC"
        /\ \A r \in Pid \ {ks[c].pid} : status[r] = "EXEC" => status'[r] = "EXEC"
    BY <1>1, <1>5 DEF Keeps, States
  <2>4. Shapes'
    BY <1>1, <2>1, <2>2, <2>3 DEF CycleInv, Shapes
  <2>5. status[q] # "EXEC"
    BY <1>5 DEF Keeps
  <2>6. ASSUME NEW d \in Cpu \ {c}, ks[d].stage = "receive"
        PROVE  status'[ks[d].pid] = "EXEC" /\ ks[d].pid # q
    BY <1>1, <2>3, <2>5, <2>6 DEF CycleInv, Conversation, Dispatched
  <2>7. "process priority" \in Reasons
    BY DEF Reasons
  <2>8. Answered(c)'
    BY <2>1, <2>2, <2>7 DEF Answered
  <2>9. Talk(c)'
    BY <1>1, <2>8 DEF Talk
  <2>10. ks'[c].stage = "receive" /\ ks'[c].pid = q
    BY <2>1
  <2>11. /\ \A d \in Cpu \ {c} : /\ ks'[d] = ks[d] /\ ksToCpu'[d] = ksToCpu[d]
                                /\ cpuToKs'[d] = cpuToKs[d]
         /\ \A d \in Cpu \ {c} : ks[d].stage = "receive" =>
                                status'[ks[d].pid] = "EXEC" /\ ks[d].pid # q
    BY <1>1, <2>1, <2>2, <2>6
  <2> QED BY <1>1, <2>3, <2>4, <2>9, <2>10, <2>11, ThreadStep
<1> QED BY <1>3, <1>4, <1>5 DEF go_on

\* Every report is handled by one of these.
LEMMA ReportStep ==
  ASSUME CycleInv, NEW c \in Cpu,
         \/ handle_cycle_cpu_ok(c) \/ handle_segmentation_fault(c)
         \/ handle_syscall_mutex(c) \/ handle_syscall_memory_allocation(c)
         \/ handle_syscall_memory_free(c) \/ handle_syscall_io(c)
         \/ handle_syscall_start_process(c) \/ handle_syscall_exit(c)
  PROVE  CycleInv'
<1>0. status \in [Pid -> States] /\ Keeps(status)
  BY DEF CycleInv, Shapes, Keeps
<1>1. \E ops : Handles(c, ops)
  BY DEF handle_cycle_cpu_ok, handle_segmentation_fault, handle_syscall_mutex,
         handle_syscall_memory_allocation, handle_syscall_memory_free, handle_syscall_io,
         handle_syscall_start_process, handle_syscall_exit
<1>2. go_on(c, status) => CycleInv'
  BY <1>0, <1>1, GoesOn
<1>3. ASSUME NEW state \in {"EXIT", "BLOCK"}, NEW reason \in Reasons,
             preempt(c, status, state, reason)
      PROVE  CycleInv'
  BY <1>0, <1>1, <1>3, Preempted DEF States
<1>4. ASSUME NEW reason \in Reasons, exit(c, reason) PROVE CycleInv'
  BY <1>3, <1>4 DEF exit
<1>5. /\ "segmentation fault" \in Reasons /\ "mutex error" \in Reasons
      /\ "mutex blocked" \in Reasons /\ PR_NOT_ENOUGH_MEMORY \in Reasons
      /\ "IO operation" \in Reasons /\ "process termination" \in Reasons
  BY DEF Reasons
<1>6. CASE handle_cycle_cpu_ok(c) \/ handle_segmentation_fault(c) \/ handle_syscall_exit(c)
  BY <1>2, <1>4, <1>5, <1>6
  DEF handle_cycle_cpu_ok, handle_segmentation_fault, handle_syscall_exit
<1>7. CASE handle_syscall_mutex(c)
  BY <1>2, <1>3, <1>4, <1>5, <1>7 DEF handle_syscall_mutex
<1>8. CASE handle_syscall_memory_allocation(c)
  BY <1>2, <1>4, <1>5, <1>8 DEF handle_syscall_memory_allocation
<1>9. CASE handle_syscall_memory_free(c)
  BY <1>2, <1>9 DEF handle_syscall_memory_free
<1>10. CASE handle_syscall_io(c)
  BY <1>3, <1>4, <1>5, <1>10 DEF handle_syscall_io
<1>11. CASE handle_syscall_start_process(c)
  <2>1. PICK q : status[q] = "NEW" /\ go_on(c, [status EXCEPT ![q] = "READY"])
    BY <1>11 DEF handle_syscall_start_process
  <2> DEFINE states == [status EXCEPT ![q] = "READY"]
  <2>2. Keeps(states)
    BY <1>0, <2>1 DEF Keeps, States
  <2>3. go_on(c, states)
    BY <2>1
  <2> HIDE DEF states
  <2> QED BY <1>1, <2>2, <2>3, GoesOn
<1> QED BY <1>6, <1>7, <1>8, <1>9, <1>10, <1>11

\* The CPU has left: its thread ends, and the process of the thread may be put
\* back in READY.
LEMMA InvalidStep ==
  ASSUME CycleInv, NEW c \in Cpu, handle_invalid_syscall(c)
  PROVE  CycleInv'
<1>1. /\ cpu[c].stage = "gone" /\ cpuToKs[c] = <<>> /\ ks[c].stage = "receive"
      /\ ks' = [ks EXCEPT ![c] = [stage |-> "closed", pid |-> NoPid]]
      /\ UNCHANGED <<cpu, ksToCpu, cpuToKs>>
  BY DEF handle_invalid_syscall, chanVars
<1>2. /\ ks \in [Cpu -> [stage : {"request", "receive", "closed"}, pid : Pid \cup {NoPid}]]
      /\ status \in [Pid -> States] /\ Dispatched(c)
  BY DEF CycleInv, Shapes, Conversation
<1>3. /\ ks'[c] = [stage |-> "closed", pid |-> NoPid]
      /\ \A d \in Cpu \ {c} : ks'[d] = ks[d]
      /\ ks' \in [Cpu -> [stage : {"request", "receive", "closed"}, pid : Pid \cup {NoPid}]]
  BY <1>1, <1>2
<1>4. /\ status' \in [Pid -> States]
      /\ \A r \in Pid \ {ks[c].pid} : status[r] = "EXEC" => status'[r] = "EXEC"
  BY <1>2 DEF handle_invalid_syscall, States
<1>5. Shapes'
  BY <1>1, <1>3, <1>4 DEF CycleInv, Shapes
<1>6. ASSUME NEW d \in Cpu \ {c}, ks[d].stage = "receive"
      PROVE  status'[ks[d].pid] = "EXEC"
  BY <1>1, <1>4, <1>6 DEF CycleInv, Conversation, Dispatched
<1>7. Talk(c)'
  BY <1>1 DEF Talk
<1> QED BY <1>1, <1>3, <1>5, <1>6, <1>7, ThreadStep

LEMMA KsStepInv ==
  ASSUME CycleInv, NEW c \in Cpu, KsStep(c)
  PROVE  CycleInv'
BY RequestStep, ReportStep, InvalidStep DEF KsStep

-----------------------------------------------------------------------------
(* The rest of the system.                                                 *)

\* No CPU, no thread and no process in EXEC is touched.
LEMMA ElsewhereStep ==
  ASSUME CycleInv, UNCHANGED <<cpu, ks, ksToCpu, cpuToKs>>, status' \in [Pid -> States],
         \A r \in Pid : status[r] = "EXEC" => status'[r] = "EXEC"
  PROVE  CycleInv'
<1>1. Shapes'
  BY DEF CycleInv, Shapes
<1>2. ASSUME NEW c \in Cpu PROVE Talk(c)' /\ Dispatched(c)'
  <2>1. Talk(c) /\ Dispatched(c)
    BY DEF CycleInv, Conversation
  <2>2. Talk(c)'
    BY <2>1 DEF Talk, Waiting, Working, Answered
  <2>3. Dispatched(c)'
    BY <2>1 DEF Dispatched
  <2> QED BY <2>2, <2>3
<1> QED BY <1>1, <1>2 DEF CycleInv, Conversation

LEMMA MemoryStep ==
  ASSUME CycleInv,
         \/ \E c \in Cpu : KmStep(c)
         \/ add_stick_connection \/ add_total_memory \/ watch_sticks \/ handle_end_process
         \/ \E k \in DOMAIN sticks : stick_disconnects(k)
  PROVE  CycleInv'
<1>1. UNCHANGED <<cpu, ks, ksToCpu, cpuToKs, status>>
  BY DEF KmStep, handle_request_context, handle_next_instruction, handle_updated_context,
         handle_updated_segment_table, handle_stick_disconnected, Serves,
         add_stick_connection, add_total_memory, watch_sticks, handle_end_process,
         stick_disconnects, chanVars
<1> QED BY <1>1, ElsewhereStep DEF CycleInv, Shapes

LEMMA BlockedStep ==
  ASSUME CycleInv, NEW p \in Pid,
         transition_unblock(p) \/ suspend_process(p) \/ resume_process(p)
  PROVE  CycleInv'
<1>1. UNCHANGED <<cpu, ks, ksToCpu, cpuToKs>>
  BY DEF transition_unblock, suspend_process, resume_process, chanVars
<1>2. status \in [Pid -> States]
  BY DEF CycleInv, Shapes
<1>3. /\ status[p] # "EXEC"
      /\ \E state \in States : status' = [status EXCEPT ![p] = state]
  BY DEF transition_unblock, suspend_process, resume_process, States
<1>4. status' \in [Pid -> States] /\ \A r \in Pid : status[r] = "EXEC" => status'[r] = "EXEC"
  BY <1>2, <1>3
<1> QED BY <1>1, <1>4, ElsewhereStep

LEMMA InitCycle == Init => CycleInv
<1> SUFFICES ASSUME Init PROVE CycleInv
  OBVIOUS
<1>1. PICK s : s = Scenarios[scenario]
  OBVIOUS
<1>2. /\ cpu = [c \in Cpu |->
                 [stage |-> IF c \in s.cpus THEN "start" ELSE "off", pid |-> NoPid,
                  regs |-> t_registers, table |-> <<>>, changed |-> FALSE,
                  stop |-> FALSE, sticks |-> <<>>, access |-> NoAccess]]
      /\ ks = [c \in Cpu |-> [stage |-> IF c \in s.cpus THEN "request" ELSE "closed",
                              pid |-> NoPid]]
      /\ status = [p \in Pid |-> IF p \in s.initial THEN "READY" ELSE "NEW"]
      /\ ksToCpu = [c \in Cpu |-> <<>>] /\ cpuToKs = [c \in Cpu |-> <<>>]
  BY <1>1 DEF Init
<1>3. ASSUME NEW c \in Cpu
      PROVE  /\ cpu[c] = [f \in Fields |-> cpu[c][f]]
             /\ cpu[c].stage \in {"off", "start"}
             /\ ks[c].stage \in {"request", "closed"} /\ ks[c].pid = NoPid
             /\ ksToCpu[c] = <<>> /\ cpuToKs[c] = <<>>
  BY <1>2 DEF Fields
<1>4. Shapes
  <2>1. ks \in [Cpu -> [stage : {"request", "receive", "closed"}, pid : Pid \cup {NoPid}]]
    BY <1>2
  <2>2. status \in [Pid -> States]
    BY <1>2 DEF States
  <2>3. cpu = [c \in Cpu |-> cpu[c]] /\ ksToCpu = [c \in Cpu |-> ksToCpu[c]]
        /\ cpuToKs = [c \in Cpu |-> cpuToKs[c]]
    BY <1>2
  <2>4. \A c \in Cpu : cpu[c].stage \in Stages
    BY <1>3 DEF Stages
  <2> QED BY <1>3, <2>1, <2>2, <2>3, <2>4 DEF Shapes
<1>5. ASSUME NEW c \in Cpu PROVE Talk(c) /\ Dispatched(c)
  <2>1. Waiting(c)
    BY <1>3 DEF Waiting
  <2>2. Talk(c)
    BY <1>3, <2>1 DEF Talk
  <2>3. Dispatched(c)
    BY <1>3 DEF Dispatched
  <2> QED BY <2>2, <2>3
<1> QED BY <1>4, <1>5 DEF CycleInv, Conversation

LEMMA NextCycle == CycleInv /\ CopiesValid /\ [Next]_vars => CycleInv'
<1> SUFFICES ASSUME CycleInv, CopiesValid, [Next]_vars PROVE CycleInv'
  OBVIOUS
<1>1. CASE UNCHANGED vars
  BY <1>1, ElsewhereStep DEF vars, chanVars, CycleInv, Shapes
<1>2. CASE Next
  BY <1>2, CpuStepInv, KsStepInv, MemoryStep, BlockedStep DEF Next, System
<1> QED BY <1>1, <1>2

-----------------------------------------------------------------------------
(* What follows.                                                           *)

\* Request and answer alternate.
LEMMA CycleLockStep == CycleInv => LockStep
<1> SUFFICES ASSUME CycleInv, NEW c \in Cpu
             PROVE  /\ cpuToKs[c] # <<>> =>
                         /\ Len(cpuToKs[c]) = 1 /\ ksToCpu[c] = <<>>
                         /\ cpu[c].stage = "interrupt"
                         /\ ks[c] = [stage |-> "receive", pid |-> cpu[c].pid]
                    /\ cpu[c].stage = "interrupt" /\ cpuToKs[c] = <<>> =>
                         /\ ksToCpu[c] # <<>>
                         /\ Head(ksToCpu[c]).op \in {"INTERRUPT", "NO_INTERRUPT"}
  BY DEF LockStep
<1>1. Talk(c) /\ cpu[c].stage \in Stages
  BY DEF CycleInv, Conversation, Shapes
<1>2. ASSUME cpuToKs[c] # <<>>
      PROVE  /\ Len(cpuToKs[c]) = 1 /\ ksToCpu[c] = <<>> /\ cpu[c].stage = "interrupt"
             /\ ks[c] = [stage |-> "receive", pid |-> cpu[c].pid]
  <2>1. cpu[c].stage = "interrupt" /\ cpuToKs[c] = <<Head(cpuToKs[c])>> /\ Working(c)
    BY <1>1, <1>2 DEF Talk, Stages
  <2>2. PICK m : cpuToKs[c] = <<m>>
    BY <2>1
  <2> QED BY <2>1, <2>2 DEF Working
<1>3. ASSUME cpu[c].stage = "interrupt", cpuToKs[c] = <<>>
      PROVE  /\ ksToCpu[c] # <<>>
             /\ Head(ksToCpu[c]).op \in {"INTERRUPT", "NO_INTERRUPT"}
  <2>1. Answered(c)
    BY <1>1, <1>3 DEF Talk
  <2>2. /\ NO_INTERRUPT.op = "NO_INTERRUPT"
        /\ \A r : INTERRUPT(r).op = "INTERRUPT"
    BY DEF INTERRUPT, NO_INTERRUPT
  <2>3. CASE ksToCpu[c] = <<NO_INTERRUPT>>
    BY <2>2, <2>3, OneMessage
  <2>4. ASSUME NEW r, ksToCpu[c] = <<INTERRUPT(r)>>
        PROVE  ksToCpu[c] # <<>> /\ Head(ksToCpu[c]).op = "INTERRUPT"
    BY <2>2, <2>4, OneMessage
  <2>5. ASSUME NEW r, NEW q, ksToCpu[c] = <<INTERRUPT(r), RESUME_PROCESS(q)>>
        PROVE  ksToCpu[c] # <<>> /\ Head(ksToCpu[c]).op = "INTERRUPT"
    BY <2>2, <2>5, TwoMessages
  <2> QED BY <2>1, <2>3, <2>4, <2>5 DEF Answered
<1> QED BY <1>2, <1>3

\* A CPU that runs a process has it from its thread.
LEMMA CycleOneExecutor == CycleInv => OneExecutor
<1>1. ASSUME CycleInv, NEW c \in Cpu, NEW p \in Pid, Runs(c, p)
      PROVE  ks[c] = [stage |-> "receive", pid |-> p]
  <2>1. Talk(c) /\ cpu[c].pid = p
    BY <1>1 DEF CycleInv, Conversation, Runs
  <2>2. CASE cpu[c].stage \in {"context", "table", "fetch", "access"}
    BY <2>1, <2>2 DEF Talk, Working
  <2>3. CASE cpu[c].stage = "update" /\ ~cpu[c].stop
    BY <2>1, <2>3 DEF Talk, Working
  <2>4. CASE cpu[c].stage = "interrupt" /\ ~Next_is(ksToCpu, c, "INTERRUPT")
    <3>1. CASE cpuToKs[c] # <<>>
      BY <2>1, <2>4, <3>1 DEF Talk, Working
    <3>2. CASE cpuToKs[c] = <<>>
      <4>1. Answered(c)
        BY <2>1, <2>4, <3>2 DEF Talk
      <4>2. ASSUME NEW r PROVE ksToCpu[c] # <<INTERRUPT(r)>>
        BY <2>4, OneMessage DEF Next_is, INTERRUPT
      <4>3. ASSUME NEW r, NEW q PROVE ksToCpu[c] # <<INTERRUPT(r), RESUME_PROCESS(q)>>
        BY <2>4, TwoMessages DEF Next_is, INTERRUPT
      <4> QED BY <2>1, <4>1, <4>2, <4>3 DEF Answered
    <3> QED BY <3>1, <3>2
  <2> QED BY <1>1, <2>2, <2>3, <2>4 DEF Runs
<1>2. ASSUME CycleInv, NEW c \in Cpu, NEW p \in Pid, Runs(c, p)
      PROVE  /\ \A d \in Cpu \ {c} : ~Runs(d, p)
             /\ status[p] = "EXEC" /\ ks[c].pid = p
  <2>0. ks[c] = [stage |-> "receive", pid |-> p]
    BY <1>1, <1>2
  <2>1. ks[c].stage = "receive" /\ ks[c].pid = p
    BY <2>0
  <2>2. /\ status[p] = "EXEC"
        /\ \A d \in Cpu \ {c} : ks[d].stage = "receive" => ks[d].pid # p
    BY <1>2, <2>1 DEF CycleInv, Conversation, Dispatched
  <2>3. ASSUME NEW d \in Cpu \ {c}, Runs(d, p) PROVE FALSE
    <3>1. ks[d] = [stage |-> "receive", pid |-> p]
      BY <1>1, <1>2, <2>3
    <3> QED BY <2>2, <3>1
  <2> QED BY <2>1, <2>2, <2>3
<1> QED BY <1>2 DEF OneExecutor

\* The two ends of every socket between a CPU and the scheduler stay at matching
\* places of their conversation (cpu.c run_instruction_loop, connections/cpu.c),
\* whatever the processes do, in a system whose copies have valid destinations.
THEOREM ConversationHolds == Spec /\ []CopiesValid => []Conversation
<1>1. Spec /\ []CopiesValid => []CycleInv
  BY InitCycle, NextCycle, PTL DEF Spec
<1>2. CycleInv => Conversation
  BY DEF CycleInv
<1> QED BY <1>1, <1>2, PTL

\* At most one report is on its way, about the process the thread has, and every
\* report gets its answer: check_interrupt never takes an old one.
THEOREM LockStepHolds == Spec /\ []CopiesValid => []LockStep
<1>1. Spec /\ []CopiesValid => []CycleInv
  BY InitCycle, NextCycle, PTL DEF Spec
<1> QED BY <1>1, CycleLockStep, PTL

\* No two CPUs ever run the same process, and the one that does has it in EXEC:
\* without a bound on CPUs, processes, programs or preemptions, and although a
\* process is back in READY before its CPU hears of it.
THEOREM OneExecutorHolds == Spec /\ []CopiesValid => []OneExecutor
<1>1. Spec /\ []CopiesValid => []CycleInv
  BY InitCycle, NextCycle, PTL DEF Spec
<1> QED BY <1>1, CycleOneExecutor, PTL
=============================================================================

# TLA+ verification of the operating-system simulator

The repository simulates an operating system with six programs that talk over
TCP: a **Kernel Scheduler**, a **Kernel Memory**, one or more **CPUs**,
**Memory Sticks** and **IO** interfaces, and a **Swap**.  This directory holds
TLA+ models of its concurrent core, the TLC configurations that check them on
small instances, and TLAPS proofs for instances of any size.  `PROJECT.json`
maps every definition to the lines it models and lists runs, mutants, hazards,
findings and theorems.

Paths below are relative to `src/kernel_scheduler/src/kernel_scheduler/` unless
they start with `src/`.

## 1. Inventory

| Part | State it keeps | Operations | Interacts with |
|---|---|---|---|
| READY queue, `scheduler/ready_queue.c` | one list per level, `ready_process_count`, `highest_priority`, `preempt_all`, `terminate_queue` | insert, take next (blocking or not), remove, lock/unlock for compaction, terminate | every thread of the scheduler; `queue_mutex`, three condition variables |
| EXEC, BLOCK, SUSP. lists, `scheduler/exec_list.c`, `blocking_list.c` | a list and its mutex; EXEC caches `lowest_priority` | insert, remove, wait for a process, wait until empty | CPU, IO, suspender, resumer, compaction threads |
| Seven-state machine, `scheduler/queues.c`, `domain/pcb.c` | `pcb->state`, `priority`, `state_mutex`, `active_instances` | one function per transition | called by all threads |
| CPU connections, `connections/cpu.c` | `data->pcb`, `preemption_reason`, `keep_running`, quantum clock | one thread per CPU: dispatch, one handler per syscall, three preemption checks | READY, EXEC, IO queues, mutexes, Kernel Memory |
| IO connections, `connections/io.c` | per interface: request list, `close_thread` | queue a request, serve, fail, drain | CPU threads queue, the IO thread wakes |
| Suspender and resumer, `scheduler/suspension.c` | thread state (running, parked, waiting) | take the head of BLOCK / SUSP. READY, ask Kernel Memory, move it | Kernel Memory socket, compaction |
| Compaction and resumption, `scheduler/compaction.c` | `compaction_active`, `routine_active` | drain the CPUs and compact; sweep SUSP. READY after memory is freed | all of the above |
| Mutexes, `syscalls/mutex.c` | per mutex: holder, waiters sorted by priority; per pcb: mutexes held | create, lock, unlock, priority inheritance along chains of holders | READY (the level of a process changes), BLOCK |
| Kernel Memory queries, `scheduler/memory_query.c`, `kernel_memory_reply.c`, `syscalls/memory.c` | one socket and its mutex | ask and read the answer | Kernel Memory |
| Counters and shutdown, `scheduler/counter.c`, `process_counter.c`, `shutdown.c`, `app/` | numbers of threads, syscalls, processes | count, wait for zero, close everything | all threads |
| Kernel Memory, `src/kernel_memory/` | holes, segment tables, sticks, swapped processes | allocate (BEST/WORST), free, compact, suspend, resume, translate | scheduler, CPUs, sticks, swap |
| CPU, `src/cpu/` | registers, segment table, list of sticks, `segment_changed` | fetch, decode, execute, check interrupt; MMU; split an access over sticks; hand the registers back | scheduler (one report, one answer), Kernel Memory (context, table, instructions, new sticks), sticks |
| Memory Stick, Swap, IO | bytes; blocks; none | read/write; read/write/free block; one operation per request | Kernel Memory, CPUs; Kernel Memory; scheduler |
| utils | — | lists, dictionaries, messages, configuration, log | all |

What is hard here:

* A transition is **not atomic**.  It changes the state under `state_mutex` and
  two lists under two other mutexes; every other thread can look in between.
* Pointers to a pcb are **kept across unlocks**: by the suspender and resumer
  while they ask Kernel Memory, by the resumption sweep, by an IO thread while
  the device works.  `active_instances` is to keep the pcb alive.
* **Cached values** (`ready_process_count`, `highest_priority`,
  `lowest_priority`) are maintained incrementally by different threads and
  consulted for preemption after the lock was released.
* A request is **visible before its sender is ready** for the answer (IO).
* **Several locks in different orders**: Kernel Memory's socket, the workers'
  mutexes, the counters, during compaction.
* **Partial failures**: CPU, IO or Kernel Memory may disconnect after a process
  was moved and before it was told; a stick may disappear inside an access.
* **One state in several programs**: the registers of a process are in a CPU, in
  a message or in Kernel Memory; its segment table is cached by the CPU while
  syscalls and suspensions change it; sticks join while CPUs run.
* **Two conversations per CPU** that must not get out of step: with the
  scheduler's thread, and with Kernel Memory's listener, which announces new
  sticks on the same socket as its answers.

What makes each part correct: READY's count and best priority are exact; a
process is in exactly one list, the one of its state, unless exactly one thread
is moving it; a state changes only along the seven-state diagram, and a process
leaves EXEC only by the CPU that runs it; preemption favours only a strictly
better process; a freed pcb is referred to by no thread; a transition that
begins ends; an IO that ends wakes its process; a process that inherits a
priority is at the level of that priority, once; compaction starts with EXEC
empty and ends; holes and segments partition the memory; a suspended process
comes back with the same contents; a process runs on one CPU at a time and goes
on with the registers it had; a CPU translates by the current table and reaches
the stick Kernel Memory means; a CPU that asks is answered; threads do not wait
for one another in a circle.

## 2. Modules

| Module | What it is |
|---|---|
| `ReadyQueue` | the READY structure: each operator is one critical section of `queue_mutex` |
| `Scheduler` | the seven-state machine and all threads that drive it; extends `ReadyQueue` |
| `SevenStates` | what the scheduler promises: processes, CPUs and the diagram, without lists, locks or threads |
| `SchedulerInv` | the inductive invariant `IndInv` of `Scheduler` |
| `MCScheduler` | model values and symmetry for TLC |
| `MainMemory` | Kernel Memory's hole and segment lists, fit algorithms, compaction, address translation and sticks, as operators |
| `KernelMemory` | the thread that serves the scheduler's memory requests, the accept thread, the CPUs' writes; extends `MainMemory` |
| `MCKernelMemory` | model values, symmetry and sticks for TLC |
| `CpuCore` | registers, local instructions, MMU and the split of an access over sticks, as operators; extends `MainMemory` |
| `CpuCycle` | the instruction cycle over CPUs, the scheduler's CPU threads, Kernel Memory's listeners, accept thread and watchdog, and the sticks, joined by FIFO channels; extends `CpuCore` |
| `MCCpuCycle` | the instruction files and instances of `CpuCycle` for TLC |
| `Compaction` | the scheduler's threads and mutexes around a compaction |
| `SchedulerLemmas`, `SchedulerCpuProofs`, `SchedulerProofs` | TLAPS proofs: READY's operations, and the invariants of `Scheduler` |
| `SchedulerRefinement` | TLAPS proofs: `Scheduler` implements `SevenStates`, and no freed pcb is referred to |
| `CpuCycleProofs` | TLAPS proofs: the conversation of a CPU with the scheduler |
| `CpuContextProofs` | TLAPS proofs: the conversation of a CPU with Kernel Memory: registers, tables, answers, requests; extends `CpuCycleProofs` and `MainMemoryProofs` |
| `MainMemoryProofs`, `KernelMemoryProofs` | TLAPS proofs: the operators of `MainMemory`, and the invariants of `KernelMemory` |

### How the state and the actions correspond to the code

**Atomicity.**  One step is one critical section of a list mutex.  Taking
`state_mutex` is joined to the removal that follows, releasing it to the
insertion that precedes, so in the middle of a transition the pcb is in no list
and `lock_owner[p]` is the thread that holds its `state_mutex`.  Nothing that
another thread can observe is lost: a step touches one list, and the state
field is read by others only under `state_mutex`.

**Data.**  A pcb is its pid.  READY levels are sequences, because dispatch order
depends on them.  BLOCK, SUSP. BLOCK, SUSP. READY and EXEC are numbers of
occurrences: `list_add` adds one and `list_remove_element` removes one, so a
process inserted twice *is* expressible and is what `ListsMatchState` excludes.
Where the code takes the head of one of these lists, the model takes any member
(the order inside them is left out).  `UNBORN` and `DESTROYED` are a pid not
created yet and a freed pcb.  Kernel Memory's answers and the clock are free
choices.

**Threads.**  `pc[t]` is where thread `t` is.

* *CPU thread* (`handle_cpu_client`): `request` → `ready_exec` → `to_exec` →
  `run`; a handler (`handle_syscall_*`) chooses the rest: `exec_ready`,
  `exec_block`, `exec_exit`, `new_ready`, `unlock`; a process that goes on
  passes `queue_blocked` → `end_quantum` → `lowest` → `preempt` →
  `send_preemption`.  `leave_exec` is the first half of the three
  `transition_exec_*`, `update_lowest` the refresh of EXEC's cache, `enter` the
  second half.  `manage_preemption_priority` takes the better process out of
  READY (its `target`) before the running one is put back, as in the code.
  A request is queued in two steps: the test of `close_thread` and, at
  `enqueue`, the insertion.  A MUTEX_LOCK that has to wait goes through `inherit`
  (`replace_priority`), `update_priority` and `update_enter` (with multilevel
  queues), again for each further holder of a chain, and `mutex_lowest` before
  it blocks.
* *IO thread*: `idle` → `serving` → `unlock` → `unlock_enter` → `finished`,
  where the last log line of `finalize_io` reads the pcb it has handed over; or
  `draining` and `closed` when the interface disconnects.
* *Suspender and resumer*: `idle` → `suspend`/`resume` → `unlock_enter` →
  `release`; the reference is counted at the first step and dropped at the last.
* *Resumption sweep*: `idle` → `sweep` → `sweep_head` → `resume` → ..., with a
  reference that is not counted (`crashed` when the pcb was freed, or when the
  list ran empty after it was tested).  It starts when memory is freed, and
  (`create_resumption_routine_thread`) for a new stick or after a compaction.
* `compaction_gate` sets and clears `preempt_all`.

**Over-approximations.**  The suspender and the resumer may run at any time
(their parking is left out) and a compaction may begin and end at any time.
Mutexes are reduced to two sets: `holders`, the processes that hold some mutex,
which nothing leaves when its process ends, and `mutex_list`, those that wait in
some mutex.  Which mutex is meant is left out, so a caller may wait for any
holder, an unlock may wake any waiter or none, and a chain goes on to any holder.
The priority a holder inherits is the caller's; if the caller is a holder itself,
another thread may have changed it since `mutex_lock` read it, and it is any
priority.  A request queued on an interface that has freed its queue is lost.
These add behaviours, so what holds of the model holds of the code; a finding is
examined against what they add (§5).  `leave_exec` does not wait for
`counter_mutex`: that mutex is held for long only during a compaction, and belongs
to `Compaction`.

`Contention` is the set of states in which a holder may inherit, all of them
(`Holder`) except in run `mutex`; `MemoryEvents` says whether compactions and new
sticks happen.

**Kernel Memory.**  `MainMemory` keeps the two lists as sequences, because the
code scans them in list order: the first of two equal holes wins, compaction
packs in list order, `find_segment` counts positions.  `KernelMemory` has one
listener (the scheduler sends one request at a time under its socket's mutex):
`job` is where it is.  `handle_create_segment` either places the segment or goes
to `compacting`, where `main_memory_mutex` is held and the accept thread's
`add_total_memory` waits.  `remove_segment` is two steps, as it takes the mutex
twice, and `handle_delete_segment`, `handle_end_process` and `suspend_process`
go through it.  `suspend_process` copies all segments in one step, since no
other thread changes the list or the bytes of a blocked process; `resume_block`
is one step per block.  `status` is the scheduler's view, `owned` and `written`
record what a program allocated and wrote.  A byte is `<<pid, id, offset>>` of
the write that put it there.  STDIN requests have the offsets and lengths of
`Inputs`: the listener looks at neither, so bytes may go beyond the segment, and
beyond the sticks, in which case the listener ends.  `Crashed` is that end, or a
NULL dereference.

**CPU cycle.**  `CpuCycle` composes five programs.  `cpu[c]` is a CPU process:
its `stage` is the receive it is in (`idle`, `context`, `table`, `fetch`,
`access`, `interrupt`, `update`), with registers, segment table, the
`segment_changed` flag and the sticks it knows.  `ks[c]` is the scheduler's
thread for it (`request`, `receive`, `closed`) and its pcb; `status` is the
state of each process.  `ksToCpu`, `cpuToKs`, `cpuToKm`, `kmToCpu` and `ksToKm`
are the sockets; one message is one `socket_send`, so it is never split.  An
instruction is a record; its text is not parsed.  Words are `WORD_BYTES` bytes
of `BYTE` values, and registers keep their widths.  A read or write goes stick by
stick, one chunk and its answer in one step, as in `read_memory` and
`write_memory`.  `last`, `written` and `overtaken` are ghosts: the registers after
the last instruction of each process, what it last stored at each logical
address, and the processes whose context another CPU was given before the first
had saved it.  Abstractions: the scheduling policy is reduced to its outcomes (a
process goes on, goes back to READY, is replaced, blocks, ends); a request of the
scheduler that waits for Kernel Memory's reply is one step with the reply, while
`OP_END_PROCESS`, which has none, stays in its channel; a suspension or
resumption is one step (`KernelMemory` has its blocks), and is not attempted once
a stick is lost; an allocation that needs a compaction is not enabled.
`OP_NEW_PROCESS` waits for `OP_PROCESS_STARTED` (`scheduler/queues.c:401`).

**Compaction.**  `pc[t]` is the next thing thread `t` does and `owner` says who
has each mutex.  A mutex becomes part of the state where its holder waits for
something else while it has it: Kernel Memory's socket, EXEC, the syscall
counter, the two `state_mutex` of the workers, BLOCK, SUSP. READY, and the
`state_mutex` of a process that a worker asks Kernel Memory about.
Every other critical section is a step that needs its mutex free.  Condition
variables are labels (`drain_wait`, `wait_empty`, `cond`, `parked`) and a signal
moves one waiter on; spurious wake-ups are left out.

Inputs: a program allocates an id it does not own, with a positive size; the
connections to sticks and swap do not fail.

## 3. Runs

Deadlock is checked in `multilevel`, `lost_wakeup` and `compaction_deadlock`.  The
other instances may really stop: a CPU that disconnects leaves its process in EXEC for ever, a mutex
whose holder has ended is never released, and Kernel Memory and the CPU cycle stop
when every process has ended, and after a crash or the loss of memory.

| Run | Instance | Properties |
|---|---|---|
| `multilevel` | 3 processes of 2 priorities, 2 CPUs, 2 levels (one RR), preemption; 60,700 states | `OneCpu`, `ReadyCount`, `HighestIsExact`, `BetterPreempts` |
| `rr` | 2 processes, 2 CPUs, 1 interface, single RR list; 913,147 states | `TypeOK`, `ListsMatchState`, `NoProcessLost`, `NoDangling`, `WaitsOnce`, `RefinesSevenStates` |
| `mutex` | 2 processes of 2 priorities, 1 CPU, 2 levels, preemption, mutexes whose holders inherit outside READY, fair; 368,044 states | `IndInv`, `NoDangling`, `BetterPreempts`, `MovesComplete` |
| `dangling` | 2 processes, 1 CPU, 1 interface, mutexes, single list | violates `FreedWhenSafe` |
| `lost_wakeup` | 2 processes, 1 CPU, 1 interface | violates `BlockedIsAwaited` |
| `inversion` | 3 processes of 2 priorities, 2 CPUs, 2 levels (one RR), mutexes | violates `ReadyCount` |
| `km_tables` | 2 processes, 2 ids, sizes 1 and 2, sticks of 3 and 2 bytes, 1 swap block of 2, BEST; 524,050 states | `KMTypeOK`, `Tiling`, `HolesMerged`, `HoleSelection`, `OwnedIsSomewhere`, `OthersUntouched` |
| `km_contents` | 2 processes, 1 id, size 3, sticks of 4 and 2 bytes, 4 swap blocks of 2, WORST, 2 writes, STDIN inside the segment; 465,870 states | `TableIsOwned`, `ContentsKept`, `BlocksInOrder` |
| `km_compaction` | 2 processes, sizes 1 and 2 | violates `ContentsKept` |
| `km_resume` | 1 process, ids 0 and 1 | violates `ListenerSurvives` |
| `cpu_cycle` | 7 scenarios, 2 processes, 1 or 2 CPUs, sticks of 3 and 2 bytes, words of 2 bytes of 4 values, segments up to 3 bytes; 181,604 states | `CpuTypeOK`, `Conversation`, `LockStep`, `OneExecutor`, `ContextExact`, `TableFresh`, `SticksKnown`, `MemoryExact`, `AlwaysAnswered`, `KmFindsProcess`, `TurnsEnd`, `LossReported` |
| `compaction_deadlock` | 2 CPUs, 2 processes, both workers, 1 resumption thread | violates `NoCircularWait` |

* `ListsMatchState`: a process is in at most one list, once, and its state is
  the list's.  `NoProcessLost`: a live process is in the list of its state or
  in the hands of a thread that will insert it.  `OneCpu`: two CPU threads never
  work with the same process.
* `ReadyCount`, `HighestIsExact`: the count and the cached best priority are
  exact although they are maintained incrementally.  `BetterPreempts`: a step
  that replaces the running process by priority takes a strictly better one,
  although the priorities were compared outside the lock.
* `NoDangling`: no thread or queue refers to a freed pcb, except at three places:
  the sweep, the last log line of `finalize_io`, and the holder of a mutex in
  `replace_priority` and `update_priority`.  `SweepNotDangling`, `LogNotDangling`
  and `HolderNotDangling` say the same of these places; `FreedWhenSafe`, their
  conjunction, is violated.  `WaitsOnce`: a process waits for one event at a time
  (an IO queue, a device, a mutex, a wake-up under way).
* `RefinesSevenStates`: `Scheduler` implements `SevenStates`; `st` is the state
  field and `running` the process that a CPU thread has between
  `transition_ready_exec` and leaving EXEC.
* `MovesComplete`: a transition that begins ends, with the freeing of an EXIT
  process, which waits for the workers; and when a process in BLOCK or SUSP. BLOCK
  is to be woken it gets out of there, even if it is being suspended at that moment.
  One that is still in EXEC is the case of `lost_wakeup`.  The wake-ups of `mutex` are
  mutexes handed over; the end of an IO takes the same `transition_unlock`, and the
  property was checked with one process, two CPUs and an interface too (30,024
  states).

* `Tiling`: every address is in exactly one hole or segment, counting the one
  `remove_segment` has in hand.  `HolesMerged`: no two holes touch.
  `HoleSelection`: the scan against the definition of BEST and WORST fit.
  `OwnedIsSomewhere`: a segment is in memory or whole in swap, through failed
  suspensions and resumptions.  `BlocksInOrder`: a block of a segment that is not
  its first comes after a first one, or the segment is back in the table; it is
  what `swap.c:173` assumes of `find_free_block`, with blocks freed and taken in any
  order.
* `OthersUntouched`: outside a compaction, which changes bases only, a step leaves
  a process's segments and their order alone unless it serves that process.  All
  share one list, ids repeat, and `find_segment` and the CPUs count positions.
* `TableIsOwned`, `ContentsKept`: between requests a resident process has its
  segments, once each, and reads back what it wrote.  `km_contents` is the
  instance in which no compaction can be needed (all segments have one size),
  swap holds everything and an id is a position: outside it the code loses
  contents (§5), and a swap that fills up duplicates segments (hazards).

* `Conversation`: a CPU and its thread in the scheduler are at matching places:
  for every stage of the CPU, what the two channels hold and what the thread
  waits for.  `LockStep`: report and answer alternate between a CPU and its thread in the
  scheduler, about the same process.  `OneExecutor`: one CPU at a time runs a
  process, although it is back in READY before its CPU is interrupted.
  `ContextExact`: it goes on with the registers its last instruction left,
  wherever they are.  `TableFresh`: the cached segment table is current whenever
  an instruction is fetched or memory accessed.  `SticksKnown`: an address about
  to be used is on a stick the CPU has connected to, the one Kernel Memory means.
  `MemoryExact`: what a process stored is found where its segment is, through
  accesses across sticks, copies, suspensions and resumptions.
* `AlwaysAnswered`: a CPU that waits for Kernel Memory has its request or the
  answer on the way and nothing that it would take for another answer.
  `KmFindsProcess`: Kernel Memory never dereferences a process or an instruction
  that is not there.  `TurnsEnd`: a process does not stay READY or in EXEC for
  ever: it ends or waits for something.  `LossReported`: a lost
  stick reaches the scheduler.  `CpuTypeOK` includes the truncation to a
  register's width.
* An overtaken process (§5) is exempt from the properties about its registers and
  the memory it reaches through them, not from `TableFresh`, and is not followed
  further (`InOrder`).
* `NoCircularWait`: no set of threads each of which waits for others of the set.

**Bounds.**  In `cpu_cycle` each scenario is an instruction file per process
chosen for one hazard: registers handed from one CPU to another over a mutex and
preemptions; a store and a load on two CPUs while the second stick arrives; a
child, a loop and an underflow; a suspension that moves a segment; copies between
segments, one of which faults; a missing segment, after which the CPU leaves; a
stick that is lost.  Words of two bytes and sticks of three and two make a word
span both.  Within a scenario every interleaving of CPUs, threads, listeners,
preemptions and arrivals is explored.  In `compaction_deadlock` two CPUs are one
that compacts and one that runs; `Routine` and `Unlocker` bound the threads of one
kind that exist at a time.

In `km_tables` five bytes allow two separated holes of different
sizes, a segment between two holes, and a request that needs compaction; one swap
block makes the suspension of a process with two segments fail half way, and a
resumption meet fragmented memory.  In `km_contents` segments of three bytes
cross the stick boundary at 4 and need a short second block.  `MaxWrites` caps
the writes of a behaviour; two are enough for two processes to write, or one to
write over input.

Two processes and two CPUs make two transitions of two processes,
and three threads around one process (CPU, IO, worker), meet in every order;
the third process of `multilevel` makes two levels with one occupied twice
possible while another process runs.  More processes repeat those situations,
and the theorems of §4 cover any number.  The only numeric bound is the pid
set: a created process is one of `Proc`, so a run creates at most that many.
In `mutex` one CPU is enough: a suspended holder is resumed, and so becomes
READY, between the two halves of inheritance.  Holders that are in READY already
are the subject of `inversion`.  With two CPUs `update_priority` can also meet a
process that another CPU has taken out of READY and not yet marked EXEC, and the
same wrong count follows; `LevelsKept` (§4) excludes both, and the theorems cover any
number of CPUs.

**Fairness.**  `FairSpec` has weak fairness of each thread's own steps: the
operating system runs a thread that is not blocked.  In the code a thread also
waits for mutexes that others keep over a query to Kernel Memory
(`scheduler/suspension.c:366`, `queues.c:325`), or, while a compaction waits for EXEC,
`counter_mutex` (`exec_list.c:103`), where it can wait for ever
(`compaction_deadlock`).  `mutex` therefore has no compactions
(`MemoryEvents = FALSE`) and assumes that Kernel Memory answers each query; what
`MovesComplete` says is restricted to that.  Which syscall a
program issues, whether a CPU or an interface connects, fails or answers is not
fair.  `CpuCycle` assumes less of the threads, weak fairness of all of them
together: some thread that can act does.  That a blocked process is woken, or a
suspended one resumed, is not assumed, because the code does not ensure it
(`lost_wakeup`); `TurnsEnd` asks only that turns end.  Suspensions and losses of
sticks are not fair.

## 4. Proofs

### The scheduler (`SchedulerProofs`)

For any finite set of processes and any sets of CPUs and interfaces, levels and
priorities, under `ThreadAssumption`, `PriorityAssumption`, `ConfigAssumption`,
`ContentionAssumption`, `ProcAssumption`, `LevelsAssumption` and
`MultilevelAssumption`, with `Kept == [][LevelsKept]_vars`:

| Theorem | Statement |
|---|---|
| `Inductive` | `Spec /\ Kept => []IndInv` |
| `ListsMatch`, `NotLostEver`, `OneCpuEach` | `Spec /\ Kept => []ListsMatchState`, `[]NoProcessLost`, `[]OneCpu` |
| `CountIsExact`, `CacheIsExact` | `Spec /\ Kept => []ReadyCount`, `[]HighestIsExact` |
| `PreemptsForBetter` | `Spec /\ Kept /\ [][PreemptionKept]_vars => BetterPreempts` |
| `TypeCorrect` | `Spec /\ Kept => []TypeOK` |
| `Unconditional` | `ASSUME ~(Multilevel /\ UsesMutexes) PROVE Spec => []IndInv /\ BetterPreempts` |

`LevelsKept` is what the code would have to ensure and does not: with multilevel
queues no process inherits while it is in a level of READY, and `update_priority`
takes a process out of a level it is in.  Run `inversion` shows the count wrong
where it fails.  The theorems cover everything else that inheritance does under
multilevel queues: holders that run, wait or are suspended, chains, and a holder
that becomes READY between `replace_priority` and `update_priority`.  With a single
READY list `LevelsKept` is trivially true, so mutexes are covered there without a
condition.  `PreemptionKept`: a process that a CPU has found to be the worst in EXEC
does not inherit before it is replaced; without it the priority compared is out of
date.  `Unconditional` discharges both hypotheses where a system has no mutexes or
a single list, from the invariant that without mutexes no thread is inheriting.

`IndInv == TypeOK /\ Placed /\ Instances /\ ReadyCount /\ Levelled /\
HighestIsExact`.  `ListsMatchState` alone is not inductive: nothing in it says
that the process a CPU thread is about to insert in BLOCK is in no other list,
or that two threads are not about to insert the same one.  `Placed` says, for
each label of each thread, which process it is responsible for, its state and
who holds its lock (`ThreadOK`), that no two threads are responsible for one
process (`Exclusive`), and what lists and states say of each other (`Listed`,
`NotLost`).  `Instances` says that `active_instances` counts exactly the
suspender's and the resumer's references.  `Levelled` (a level holds processes
of its priority) is what makes a cached priority comparable with the head it
stands for.

The argument is a frame argument.  `SchedulerLemmas` states once that a step
which moves a thread `t` and processes it owns preserves `Placed`, provided it
does so for `t` and those processes (`FramePlaced`), and derives one lemma for
each class of step: a removal, an insertion, a step that moves no process.
`SchedulerCpuProofs` puts every CPU action into one of these classes;
`SchedulerProofs` does so for the other threads and assembles the theorems.
`SchedulerLemmas` begins with what READY's operations do to membership, count
and cache.

### The refinement, and freed pcbs (`SchedulerRefinement`)

| Theorem | Statement |
|---|---|
| `Refines` | `Spec /\ Kept => RefinesSevenStates` |
| `WaitsOnceOnly` | `Spec /\ Kept => []WaitsOnce` |
| `NothingDangles` | `Spec /\ Kept => []NoDangling` |

`Refines` has one lemma per class of step: a step of a thread that owns the
process it moves maps to that process's move in `SevenStates` (`ProcMoves`,
`CpuMoves`), every other step to a stutter; `IndInv` supplies the state in which
each label finds the process.  `NoDangling` is not inductive: nothing in `IndInv`
says that a process in an IO queue or a mutex queue is blocked, and so cannot
reach EXIT and be freed, nor that it is in only one of them, so that the first
wake-up does not leave a second reference behind.  `WaitsOnce` says both, and with
`IndInv` it is inductive.  `NoDangling` excepts the three places of
run `dangling`, and the theorem shows that they are the only ones.

### The conversation of a CPU (`CpuCycleProofs`)

| Theorem | Statement |
|---|---|
| `ConversationHolds` | `Spec /\ []CopiesValid => []Conversation` |
| `LockStepHolds` | `Spec /\ []CopiesValid => []LockStep` |
| `OneExecutorHolds` | `Spec /\ []CopiesValid => []OneExecutor` |

For any CPUs, processes, sticks and instruction files, under `CpuAssumption` and
`CycleAssumption`.  `CopiesValid` is not a property of the code but the exact
condition under which it keeps in step: no `COPY_MEM` has a valid source and a
destination that faults, because that instruction sends two reports (§5).  The
scenarios satisfy it; one of them has a copy whose source faults.  `LockStep` and
`OneExecutor` look at one message; the inductive invariant `CycleInv` is
`Conversation`, which says for every stage of a CPU what is in both channels and
where the thread is, with the shapes of these variables.

### A CPU and Kernel Memory (`CpuContextProofs`)

| Theorem | Statement |
|---|---|
| `ContextExactHolds` | `Spec /\ []CopiesValid => []ContextExact` |
| `TableFreshHolds` | `Spec /\ []CopiesValid => []TableFresh` |
| `AlwaysAnsweredHolds` | `Spec /\ []CopiesValid => [](KmFindsProcess => AlwaysAnswered)` |
| `KmFindsProcessHolds` | `Spec /\ []CopiesValid /\ []ScriptsEnd /\ [](lost = {}) => []KmFindsProcess` |

For any CPUs, processes, sticks and instruction files, as above.  The invariant is
`KmInv`, kept as long as Kernel Memory is up:

* `KmTalk` says, for every stage of a CPU, which requests and answers its two
  channels with Kernel Memory may hold and in which order: the answer of an
  earlier process is never still there, and the `PACKET`s around the answers are
  the sticks this CPU does not have yet, in the order Kernel Memory listed them.
  `AlwaysAnswered` looks at the head of a channel, and a head is what was behind it
  one step before.
* `Known`: every process that is neither in NEW nor in EXIT is in Kernel Memory's
  list, and an `OP_END_PROCESS` on its way is about a process in EXIT.
* `Owned`: the registers of a process that was not overtaken are in one place at
  most, a CPU or a channel, and are those of its last instruction; Kernel Memory has
  them if nobody else does.
* `Flagged`: `segment_changed` is set exactly by the report of an allocation or a
  release, which is about the CPU's own process; that process outlives the report
  until the CPU has asked for the table, or was overtaken.

`Lists` keeps the segment lists well formed.  `Parked` says that a CPU with no
process names none, and `Stray` that registers are only ever on their way to a CPU
that waits for them.  `ContextExact` is not inductive: it follows the registers
through `OP_UPDATED_CONTEXT` in a queue, and needs that a CPU's requests are served
in order and that no second CPU has an older copy.

`TableFresh` needs `Fresh`: a CPU that runs a process has its table, unless the
scheduler is handling an allocation or a release it reported, and no older table is
on its way to it.  The argument is that the segments of a process in EXEC change
only by its own report, during which `segment_changed` is set: suspension,
resumption and the end concern processes in other states, and by `OneExecutor` no
second CPU has the process.

TLC checked `KmInv`, `Parked` and `Fresh` on the instance of `cpu_cycle`, the last
two also beyond `InOrder` (619,183 states).

The hypotheses are what the code relies on and does not check.  `ScriptsEnd`: no
CPU asks for an instruction that its file does not have
(`handle_next_instruction` takes `list_get` of any position).  `lost = {}`: see §5
for what a lost stick does.  `AlwaysAnswered` needs neither, but a Kernel Memory
that is up.

### Main memory and swap (`MainMemoryProofs`, `KernelMemoryProofs`)

| Theorem (`KernelMemoryProofs`) | Statement |
|---|---|
| `MemoryTypeCorrect` | `Spec => []KMTypeOK` |
| `TilingHolds`, `HolesMergedHolds` | `Spec => []Tiling`, `[]HolesMerged` |
| `HoleSelectionHolds` | `Spec => []HoleSelection` |
| `OwnedIsSomewhereHolds` | `Spec => []OwnedIsSomewhere` |
| `BlocksInOrderHolds` | `Spec => []BlocksInOrder` |
| `OthersUntouchedHolds` | `Spec => OthersUntouched` |
| `TableIsOwnedHolds` | `Spec /\ [][SuspensionsFit]_vars => []TableIsOwned` |
| `ContentsKeptHolds` | `Spec /\ [][SuspensionsFit]_vars /\ [][StdinFits]_vars /\ []Positional => []ContentsKept` |

For any processes, segment ids, positive sizes, sticks and swap, BEST or WORST,
under `KernelMemoryAssumption` and `StrategyAssumption` (`-1`, the mark of a free
block, is no pid).  The numeric bound `MaxWrites` is a parameter too.

`MemoryInv == KMTypeOK /\ Tables /\ CompactionFits /\ SticksCounted` is
inductive.  `Tables` is the partition stated on areas instead of addresses: holes,
segments and the segment in hand lie inside the memory and apart, no list names
an area twice, every address is covered, no two holes touch, and the sizes add up
to the total.  The sum is needed because `create_segment` does not look at the
result of the hole search it repeats after a compaction: `CompactionFits` says
that the free space was enough when the compaction was asked for, `OneHole` that
a compaction leaves a single hole of that size, so the search succeeds.
`SticksCounted` (the total is the size of the sticks, but for one that the accept
thread has listed and not counted) is why a suspension reads bytes that exist.
TLC checked `MemoryInv` on the instances of `km_tables` and `km_contents` before
it was proved.

`StoreInv` adds `OwnedIsSomewhere`, `BlocksInOrder` and `ListenerInv`.
`OwnedIsSomewhere` alone is not inductive: between the copy and the removal of
the segments one needs that what remains to be removed is in swap, and during a
resumption that the blocks already passed are free (`ListenerInv`); and a block
that is not the first of its segment is freed after being written into a segment
that must be there (`BlocksInOrder`).

`OthersUntouched` follows step by step from `KMTypeOK`: what
`filter_process_segments` collects for a process does not change when a segment of
another is appended (`FilterAppend`) or taken out (`FilterListRemove`), and
`compact_segments` gives each segment a new base and nothing else (`CompactKeeps`).

`TableIsOwned` speaks of the moments between requests, so its invariant `PlaceInv`
has to say of every process, at every step, where its segments are.  A process
whose segments are not being removed has them all in the table when it is resident,
and each of them in the table or in swap but not in both when it is suspended
(`Settled`).  One whose segments are being removed has in the table those still to
be removed, and with them, unless it is being suspended, those it keeps; if it is
being suspended all it owns is in swap (`Departing`).  Two more parts make this
inductive: no segment is listed twice, and none has two first blocks in swap.

`ContentsKept` adds `ContentsInv`, which says of every byte written where it is: in
its segment; in its block of swap while its process is being suspended; in the one
or the other while it is suspended.  A byte of a suspended process that is back in
memory has no block left in swap, because a block restored later would overwrite
it with an older copy.  `BlocksAgree` says that the blocks of a segment are its
parts, each once, of its size, in swap as in the table: this is why the offset
that `resume_process` computes from a block's number is where the byte was read.
The rest is arithmetic: sticks follow each other without gap or overlap
(`StickOrder`, `OnePlace`), a write changes its own addresses and no other
(`BytesStored`, `WriteInside`), `suspend_segment` puts byte `o` of a segment at
`o % BLOCK_SIZE` of block `o \div BLOCK_SIZE` (`PartOf`, `CopyReads`), and no other
block reaches it (`OtherPart`).

The hypotheses are the ways in which the code of this module loses bytes, and no more:

* `SuspensionsFit`: no suspension finds swap full.  One that does leaves the blocks
  already copied in swap although the segments stay in memory, and a resumption
  after a later suspension puts both copies back (§6).
* `StdinFits`: a STDIN request stays inside a segment of its process.  The code does
  not look (§5).  CPUs write inside a segment, as their MMU checks; a
  `COPY_MEM` that overruns (§5) is a matter of `CpuCycle`, not of this module.
* `Positional`, first part: no compaction is asked for.  `compact_memory` moves the
  segments and not their bytes (`km_compaction`, §5).  `TableIsOwned` does without.
* `Positional`, second part: where `find_segment` finds a segment by an id used as a
  position, it is the segment with that id (`km_resume`, §5).  This holds when a
  program allocates its ids in order from 0 and frees the last first.

All of them hold throughout the instance of `km_contents`, where processes are
suspended and resumed and bytes are written before, between and after.  TLC
checked `PlaceInv` and `ContentsInv` on small instances, restricted to the steps the
hypotheses allow, before they were proved (399,041 states for one process with two
segments of unequal size).

`MainMemoryProofs` has what each operator does to such tables: the scan
(`Selection`), `filter_process_segments` (`FilterFacts`), running sums
(`SumStretch`, `SumLocates`), a hole cut by an allocation (`Taken`, `TilesTaken`,
`TouchTaken`), memory added (`Grown`), an area released and merged with both
neighbours (`HoleReleased`, `TilesJoined`, `TouchReleased`), compaction (`OneHole`),
reads and writes over sticks (`ReadType`, `WriteType`).  The operators are recursive
functions over positions.  The library's induction theorems take a predicate as a
parameter, which the provers cannot instantiate, so `Least` and `Induction` are
stated on a *set* of numbers, and `Pass` gives a recursive function on positions
its defining equation.

### Only model-checked

* Liveness (`MovesComplete`, `TurnsEnd`, `LossReported`), which is out of the
  prover's reach.
* `CpuTypeOK`, `SticksKnown` and `MemoryExact` of `CpuCycle`.  `CpuTypeOK` says that
  registers and words stay in their width, a power of `BYTE`, and the provers have
  no exponentiation; the other two rest on it.  `SticksKnown` is also no theorem
  for every script: a `COPY_MEM` of more than a word goes past the four bytes that
  were checked (§5), and no scenario has one.

## 5. Findings

* `dangling`: `transition_to_exit` waits for the references counted in
  `active_instances`, which only the suspender and the resumer count, and frees the
  pcb.  Three others use it later; TLC's trace is the first, and each conjunct of
  `FreedWhenSafe` fails when it is checked alone.
  (a) `LogNotDangling`: the last statement of `finalize_io` (`connections/io.c:268`)
  reads `pcb->pid` after `free_request` has woken the process.
  (b) `HolderNotDangling`: a process that exits does not release its mutexes, and
  `mutex_lock` (`syscalls/mutex.c:269`) and `propagate_priority_transitive` (`:228`)
  dereference `current_process` unchecked.
  (c) `SweepNotDangling`: `remove_of_the_list` (`scheduler/compaction.c:121`) keeps a
  pointer to the head of SUSP. READY.  A resumer already under way with the same
  process moves it to READY; the process runs, exits and is freed, and the sweep
  then locks a mutex inside the freed pcb.  `lock_threads_suspended` does not prevent
  this, because it marks the resumer `TS_BLOCKED` and does not wait for it, so the
  trace does not rest on the over-approximated parking.
* `lost_wakeup`: `handle_syscall_io_*` (`connections/cpu.c:369`) queues the
  request and then moves the process to BLOCK.  If the interface answers in
  between, `transition_unlock` finds the process in EXEC, logs an error and drops
  the wake-up; the process then enters BLOCK and waits for ever.
* `inversion`: `replace_priority` (`syscalls/mutex.c:171`) stores the inherited
  priority and then calls `update_priority` (`scheduler/queues.c:99`), whose
  `transition_take_ready` looks for the process in the level of the priority it has
  by then.  It is not there; the count is decremented all the same and the process
  is inserted a second time.  In the trace the holder's quantum ends and it goes
  back to READY while a better process is locking its mutex; one mutex is enough,
  and none of the over-approximations is used.

* `km_compaction`: `compact_memory` (`src/kernel_memory/src/kernel_memory/compaction.c:13`)
  changes the bases of the segments and rebuilds the hole list; no byte on the
  sticks moves, here or elsewhere, so after a compaction a process whose segment
  has moved reads what was at the new place.  `ContentsKept` has a second cause:
  `translate_logical_address`
  (`src/kernel_memory/src/kernel_memory/address_translation.c:17`) does not use the
  size it is given, and `handler_stdin` (`src/cpu/src/cpu/handlers.c:312`) does not
  ask the MMU, so a STDIN request longer than its segment overwrites what follows;
  `src/cpu/README.md:61` says such an access ends the process with `SEG_FAULT`.  The
  instance of `km_contents` with `Inputs <- OverrunInputs` shows it.
* `km_resume`: `compute_address_with_offset` (`swap.c:443`) looks the segment up
  with `find_segment`, which takes a position in creation order, giving it the
  segment's id.  For a process that owns segment 1 only, the result is NULL and
  is dereferenced.
* `compaction_deadlock`: three ways in which a compaction, or a resumption, stops
  the scheduler.  (a) The suspender asks Kernel Memory for sizes with its
  `state_mutex` held (`scheduler/suspension.c:373`), while an allocation holds the
  socket and the compaction, or a resumption routine before it, wants that mutex.
  (b) `routine_compaction` waits in `routine_enter` (`scheduler/compaction.c:85`)
  with the socket held, and the routine inside needs the socket to ask about the
  next suspended process.  (c) `wait_queue_exec_empty_with_syscalls`
  (`scheduler/exec_list.c:78`) gives back `exec->list_mutex` while it waits and
  keeps `counter_mutex`, which `transition_take_exec` (`:108`) and the syscall
  counter need: as soon as it has to wait at all, no CPU can make the condition
  true.  The shortest trace is (a) joined to (b); with the circles restricted to
  CPU threads TLC finds (c).

Met while modelling `CpuCycle`, and kept out of its scenarios or exempted:

* Overtaking.  The scheduler puts a process back in READY before it interrupts
  its CPU, and the CPU sends `OP_UPDATED_CONTEXT` after it has read the interrupt.
  A second CPU may be given the process and ask for its registers in between, and
  gets the old ones.  `src/cpu/README.md:48` has the order the other way round: the
  CPU pushes the context and then hands the PID back.
* `COPY_MEM` whose destination faults reports the fault and then the end of the
  cycle (`src/cpu/src/cpu/handlers.c:128` returns `EB_TRUE`): two reports, one
  answer each.  It also checks `sizeof(uint32_t)` bytes whatever it copies.
* A CPU that leaves because a stick is lost may leave an `OP_NEXT_INSTRUCTION`
  behind it.  When the scheduler ends the process before Kernel Memory's listener
  has read it, the listener looks up a process that is gone.  Met in the proof of
  `KmFindsProcessHolds`, which assumes that no stick is lost.
* A jump to the instruction's own address falls through
  (`src/cpu/src/cpu/cpu.c:143` compares PC before and after).

## 6. Not modelled, and the plan

Order of what follows:

1. Proofs: `SticksKnown` of `CpuCycle` for scripts whose copies are a word at most,
   which rests on `KmInv` and on the widths of the registers.
2. `PriorityInheritance`: mutexes by name, with sorted waiters, so that a cycle of
   holders can be told from a chain.
3. `Dispatch`: condition variables of READY (signals that are sent only at
   0 → 1).
4. `Shutdown`: `terminate_*`, `clear_queues` while workers run, the counters of
   threads and processes.
5. `IoQueue`: request order, input for a process that was suspended meanwhile.
6. Kernel Memory: duplicated segments after a suspension that found swap full;
   zero sizes; failing swap.
7. `Compaction` with the locks in an order in which it can end: that the gate is
   closed and EXEC empty while memory moves, and that a parked resumer is woken.

Left out for good: message encoding, the text of instructions, configuration and
command-line parsing, logging, delays, socket plumbing (I/O without state that a
property speaks of).

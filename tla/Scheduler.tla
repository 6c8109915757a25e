------------------------------ MODULE Scheduler ------------------------------
(***************************************************************************)
(* The seven-state machine of the Kernel Scheduler and the threads that    *)
(* drive it: one thread per CPU (connections/cpu.c), one per IO interface  *)
(* (connections/io.c), the suspender and the resumer (suspension.c) and    *)
(* the resumption sweep (compaction.c).                                    *)
(*                                                                         *)
(* A transition of queues.c locks the pcb's `state_mutex`, changes the     *)
(* state, removes the pcb from one list and inserts it into another; each  *)
(* list has a mutex of its own.  A step of this module is one critical     *)
(* section of a list mutex.  Taking `state_mutex` is joined to the removal *)
(* that follows it and releasing it to the insertion that precedes it, so  *)
(* between the two steps of a transition the pcb is in no list and its     *)
(* `state_mutex` is held (lock_owner).                                     *)
(*                                                                         *)
(* Lists whose order no transition depends on are kept as the number of    *)
(* occurrences of each pcb.  Kernel Memory's answers (external) and the    *)
(* clock are free choices.                                                 *)
(***************************************************************************)
EXTENDS ReadyQueue, FiniteSets

CONSTANTS
  Proc,         \* pids
  CPU,          \* CPU threads
  IO,           \* IO interface threads
  Suspender, Resumer, Resumption,
  NoProc, NoThread,
  Priority,     \* the priorities programs ask for
  RoundRobin,   \* levels whose algorithm is SA_RR
  Preemption,   \* exec.preemption (QUEUE_PREEMPTION)
  UsesMutexes,  \* whether the programs issue MUTEX_* syscalls
  Contention,   \* the states in which the holder of a mutex may inherit
  MemoryEvents  \* whether compactions happen and Memory Sticks connect

Thread == CPU \cup IO \cup {Suspender, Resumer, Resumption}

ASSUME ThreadAssumption ==
  /\ CPU \cap IO = {}
  /\ {Suspender, Resumer, Resumption} \cap (CPU \cup IO) = {}
  /\ Suspender # Resumer /\ Suspender # Resumption /\ Resumer # Resumption
  /\ NoThread \notin Thread
  /\ NoProc \notin Proc
ASSUME PriorityAssumption == Priority \subseteq 0 .. INT_MAX /\ 0 \in Priority
ASSUME ConfigAssumption ==
  /\ RoundRobin \subseteq Level
  /\ Preemption \in BOOLEAN /\ UsesMutexes \in BOOLEAN
  /\ MemoryEvents \in BOOLEAN
\* The code asks nothing of the holder: Holder is the value that restricts
\* nothing, and a smaller set leaves programs out.
Holder == {"READY", "EXEC", "BLOCK", "SUSP_BLOCK", "SUSP_READY", "EXIT"}
ASSUME ContentionAssumption == Contention \subseteq Holder
ASSUME ProcAssumption == IsFiniteSet(Proc)

VARIABLES
  state, priority,      \* pcb->state, pcb->priority
  lock_owner,           \* the thread that holds pcb->state_mutex
  active_instances,
  exec, lowest_priority,
  block, susp_block, susp_ready,
  io_list, io_closed,   \* io->io_list, io->close_thread
  io,                   \* the interface a CPU thread is about to queue at
  mutex_list,           \* processes queued in some mutex->list
  holders,              \* the pcbs some mutex->current_process points to
  pc,
  pcb,                  \* data->pcb of a CPU thread
  target,               \* the other pcb a thread is working on
  reason,               \* data->preemption_reason of a CPU thread
  keep_running,
  preempted_priority

pcbVars == <<state, priority, lock_owner, active_instances>>
listVars == <<exec, lowest_priority, block, susp_block, susp_ready>>
ioVars == <<io_list, io_closed, io, mutex_list, holders>>
RunUnchanged == <<readyVars, pcbVars, listVars, ioVars>>
cpuVars == <<pcb, reason, keep_running, preempted_priority>>
vars == <<readyVars, pcbVars, listVars, ioVars, cpuVars, pc, target>>

\* UNBORN and DESTROYED stand for a pid not yet created and for a freed pcb.
State == {"UNBORN", "NEW", "READY", "EXEC", "BLOCK", "SUSP_BLOCK",
          "SUSP_READY", "EXIT", "DESTROYED"}
Live == {"READY", "EXEC", "BLOCK", "SUSP_BLOCK", "SUSP_READY"}

\* Preemption reasons: none, a higher-priority process, any other.
Reason == {"NO_PREEMPTION", "HIGHER_PRIORITY", "OTHER"}

PC == {"closed", "request", "ready_exec", "to_exec", "run",
       "exec_ready", "exec_block", "mutex_block", "exec_exit",
       "update_lowest", "enter", "to_exit", "new_ready",
       "enqueue", "inherit", "update_priority", "update_enter",
       "mutex_lowest", "unlock", "unlock_enter", "finished",
       "queue_blocked", "end_quantum", "lowest", "preempt", "send_preemption",
       "idle", "serving", "draining", "suspend", "resume", "release", "sweep",
       "sweep_head", "crashed"}

Free(p) == lock_owner[p] = NoThread
Plus(list, p) == [list EXCEPT ![p] = @ + 1]
\* list_remove_element: a no-op when the pcb is not in the list.
Minus(list, p) == [list EXCEPT ![p] = IF @ > 0 THEN @ - 1 ELSE 0]
Goto(t, label) == pc' = [pc EXCEPT ![t] = label]

\* server_listen: the initial process is READY with priority 0 before any
\* CPU or IO connects.
Init ==
  \E first \in Proc :
    /\ queues = [l \in Level |-> IF l = 0 THEN <<first>> ELSE <<>>]
    /\ ready_process_count = 1
    /\ highest_priority = 0
    /\ preempt_all = FALSE
    /\ state = [p \in Proc |-> IF p = first THEN "READY" ELSE "UNBORN"]
    /\ priority = [p \in Proc |-> 0]
    /\ lock_owner = [p \in Proc |-> NoThread]
    /\ active_instances = [p \in Proc |-> 0]
    /\ exec = [p \in Proc |-> 0]
    /\ lowest_priority = 0
    /\ block = [p \in Proc |-> 0]
    /\ susp_block = [p \in Proc |-> 0]
    /\ susp_ready = [p \in Proc |-> 0]
    /\ io_list = [d \in IO |-> {}]
    /\ io_closed = [d \in IO |-> FALSE]
    /\ io = [c \in CPU |-> NoThread]
    /\ mutex_list = {} /\ holders = {}
    /\ pc = [t \in Thread |-> IF t \in CPU THEN "closed" ELSE "idle"]
    /\ pcb = [c \in CPU |-> NoProc]
    /\ target = [t \in Thread |-> NoProc]
    /\ reason = [c \in CPU |-> "OTHER"]
    /\ keep_running = [c \in CPU |-> TRUE]
    /\ preempted_priority = [c \in CPU |-> 0]

-----------------------------------------------------------------------------
(* Dispatching: the top of the CPU thread's loop.                          *)

\* The thread ends and frees its data; a later connection starts afresh.
close_thread_cpu(c) ==
  /\ Goto(c, "closed")
  /\ pcb' = [pcb EXCEPT ![c] = NoProc]
  /\ reason' = [reason EXCEPT ![c] = "OTHER"]
  /\ keep_running' = [keep_running EXCEPT ![c] = TRUE]

\* handle_new_cpu: a CPU connects (again); its thread starts with a
\* preemption reason set, so that it first requests a process.
handle_new_cpu(c) ==
  /\ pc[c] = "closed"
  /\ Goto(c, "request")
  /\ UNCHANGED <<RunUnchanged, cpuVars, target>>

\* transition_take_ready_blocking: leaves its wait loop once the count is
\* not zero and preempt_all is clear.  A NULL answer closes the thread.
manage_request_process(c) ==
  /\ pc[c] = "request"
  /\ ready_process_count # 0 /\ ~preempt_all
  /\ IF AllEmpty(queues)
     THEN close_thread_cpu(c) /\ UNCHANGED readyVars
     ELSE \E p \in Proc :
            /\ transition_take_ready_next(p)
            /\ pcb' = [pcb EXCEPT ![c] = p]
            /\ Goto(c, "ready_exec")
            /\ UNCHANGED <<reason, keep_running>>
  /\ UNCHANGED <<pcbVars, listVars, ioVars, preempted_priority, target>>

\* The state field alone changes, and a mismatch is only logged.
transition_ready_exec(c) ==
  /\ pc[c] = "ready_exec"
  /\ Free(pcb[c])
  /\ state' = IF state[pcb[c]] = "READY"
              THEN [state EXCEPT ![pcb[c]] = "EXEC"] ELSE state
  /\ Goto(c, "to_exec")
  /\ UNCHANGED <<readyVars, priority, lock_owner, active_instances, listVars,
                 ioVars, cpuVars, target>>

\* transition_to_exec, and send_pid unless send_preemption goes first.  A
\* failed send leaves the loop with the process still in EXEC.
transition_to_exec(c) ==
  /\ pc[c] = "to_exec"
  /\ exec' = Plus(exec, pcb[c])
  /\ lowest_priority' = IF Preemption /\ lowest_priority < priority[pcb[c]]
                        THEN priority[pcb[c]] ELSE lowest_priority
  /\ \/ /\ reason[c] = "HIGHER_PRIORITY"
        /\ Goto(c, "send_preemption")
        /\ UNCHANGED <<pcb, reason, keep_running>>
     \/ /\ reason[c] # "HIGHER_PRIORITY"
        /\ reason' = [reason EXCEPT ![c] = "NO_PREEMPTION"]
        /\ Goto(c, "run")
        /\ UNCHANGED <<pcb, keep_running>>
     \/ reason[c] # "HIGHER_PRIORITY" /\ close_thread_cpu(c)
  /\ UNCHANGED <<readyVars, pcbVars, block, susp_block, susp_ready, ioVars,
                 preempted_priority, target>>

-----------------------------------------------------------------------------
(* Leaving EXEC: transition_exec_ready, _exec_block and _exec_exit.        *)

\* update_lowest_exec_priority: the worst priority in EXEC, 0 when empty.
Lowest(e, prio) ==
  LET found == {0} \cup {prio[p] : p \in {q \in Proc : e[q] > 0}}
  IN  CHOOSE n \in found : \A m \in found : m <= n

\* What follows transition_exec_block and _exec_exit: the handler sets its
\* preemption reason, and data->pcb is not read again.
EndHandler(c) ==
  /\ reason' = [reason EXCEPT ![c] = "OTHER"]
  /\ pcb' = [pcb EXCEPT ![c] = NoProc]
  /\ Goto(c, "send_preemption")
  /\ UNCHANGED <<target, keep_running>>

\* What follows transition_exec_ready in its three callers: the preempting
\* process is dispatched, a closing thread ends, or the CPU is told.
EndExecReady(c) ==
  \/ /\ target[c] # NoProc
     /\ pcb' = [pcb EXCEPT ![c] = target[c]]
     /\ target' = [target EXCEPT ![c] = NoProc]
     /\ reason' = [reason EXCEPT ![c] = "HIGHER_PRIORITY"]
     /\ Goto(c, "ready_exec")
     /\ UNCHANGED keep_running
  \/ /\ target[c] = NoProc /\ reason[c] = "HIGHER_PRIORITY"
     /\ close_thread_cpu(c)
     /\ UNCHANGED target
  \/ /\ target[c] = NoProc /\ reason[c] # "HIGHER_PRIORITY"
     /\ EndHandler(c)

Destination == [label \in {"exec_ready", "exec_block", "mutex_block",
                           "exec_exit"} |->
                  CASE label = "exec_ready" -> "READY"
                    [] label \in {"exec_block", "mutex_block"} -> "BLOCK"
                    [] label = "exec_exit" -> "EXIT"]

\* manage_state_pcb and transition_take_exec, under state_mutex.  On a pcb
\* that is not in EXEC the attempt is only logged.  A compaction may make
\* transition_take_exec wait for counter_mutex: module Compaction.
leave_exec(c) ==
  /\ pc[c] \in DOMAIN Destination
  /\ Free(pcb[c])
  /\ IF state[pcb[c]] = "EXEC"
     THEN /\ state' = [state EXCEPT ![pcb[c]] = Destination[pc[c]]]
          /\ lock_owner' = [lock_owner EXCEPT ![pcb[c]] = c]
          /\ exec' = Minus(exec, pcb[c])
          /\ Goto(c, "update_lowest")
          /\ UNCHANGED <<cpuVars, target>>
     ELSE /\ IF pc[c] = "exec_ready" THEN EndExecReady(c) ELSE EndHandler(c)
          /\ UNCHANGED <<state, lock_owner, exec, preempted_priority>>
  /\ mutex_list' = IF pc[c] = "mutex_block" THEN mutex_list \cup {pcb[c]}
                   ELSE mutex_list
  /\ UNCHANGED <<readyVars, priority, active_instances, lowest_priority,
                 block, susp_block, susp_ready, io_list, io_closed, io, holders>>

update_lowest_exec_priority(c) ==
  /\ pc[c] = "update_lowest"
  /\ lowest_priority' = IF Preemption THEN Lowest(exec, priority) ELSE lowest_priority
  /\ Goto(c, "enter")
  /\ UNCHANGED <<readyVars, pcbVars, exec, block, susp_block, susp_ready,
                 ioVars, cpuVars, target>>

\* Mutant: a process that becomes SUSP. READY is not added to its list.
EnterList_Lost(p) ==
  /\ lock_owner' = [lock_owner EXCEPT ![p] = NoThread]
  /\ \/ /\ state[p] = "READY"
        /\ transition_to_ready(p, priority[p])
        /\ UNCHANGED <<block, susp_block>>
     \/ /\ state[p] = "BLOCK"
        /\ block' = Plus(block, p)
        /\ UNCHANGED <<readyVars, susp_block>>
     \/ /\ state[p] = "SUSP_BLOCK"
        /\ susp_block' = Plus(susp_block, p)
        /\ UNCHANGED <<readyVars, block>>
     \/ /\ state[p] \in {"SUSP_READY", "EXIT"}
        /\ UNCHANGED <<readyVars, block, susp_block>>
  /\ UNCHANGED susp_ready

\* The insertion that ends a transition, and the release of state_mutex.
EnterList(p) ==
  /\ lock_owner' = [lock_owner EXCEPT ![p] = NoThread]
  /\ \/ /\ state[p] = "READY"
        /\ transition_to_ready(p, priority[p])
        /\ UNCHANGED <<block, susp_block, susp_ready>>
     \/ /\ state[p] = "BLOCK"
        /\ block' = Plus(block, p)
        /\ UNCHANGED <<readyVars, susp_block, susp_ready>>
     \/ /\ state[p] = "SUSP_BLOCK"
        /\ susp_block' = Plus(susp_block, p)
        /\ UNCHANGED <<readyVars, block, susp_ready>>
     \/ /\ state[p] = "SUSP_READY"
        /\ susp_ready' = Plus(susp_ready, p)
        /\ UNCHANGED <<readyVars, block, susp_block>>
     \/ /\ state[p] = "EXIT"
        /\ UNCHANGED <<readyVars, block, susp_block, susp_ready>>

enter_list(c) ==
  /\ pc[c] = "enter"
  /\ EnterList(pcb[c])
  /\ CASE state[pcb[c]] = "READY" -> EndExecReady(c)
       [] state[pcb[c]] = "BLOCK" -> EndHandler(c)
       [] OTHER -> Goto(c, "to_exit") /\ UNCHANGED <<cpuVars, target>>
  /\ UNCHANGED <<state, priority, active_instances, exec, lowest_priority,
                 ioVars, preempted_priority>>

\* Mutant: the pcb is freed without waiting for the workers.
transition_to_exit_Early(c) ==
  /\ pc[c] = "to_exit"
  /\ state' = [state EXCEPT ![pcb[c]] = "DESTROYED"]
  /\ pcb' = [pcb EXCEPT ![c] = NoProc]
  /\ reason' = [reason EXCEPT ![c] = "OTHER"]
  /\ Goto(c, "send_preemption")
  /\ UNCHANGED <<readyVars, priority, lock_owner, active_instances, listVars,
                 ioVars, keep_running, preempted_priority, target>>

\* transition_to_exit: waits until no worker references the pcb, tells
\* Kernel Memory, starts the resumption sweep if the process held memory,
\* and frees the pcb.
transition_to_exit(c) ==
  /\ pc[c] = "to_exit"
  /\ active_instances[pcb[c]] = 0
  /\ state' = [state EXCEPT ![pcb[c]] = "DESTROYED"]
  /\ pcb' = [pcb EXCEPT ![c] = NoProc]
  /\ reason' = [reason EXCEPT ![c] = "OTHER"]
  /\ \E held_memory \in BOOLEAN :
       pc' = [pc EXCEPT ![c] = "send_preemption",
                        ![Resumption] = IF held_memory /\ @ = "idle"
                                        THEN "sweep" ELSE @]
  /\ UNCHANGED <<readyVars, priority, lock_owner, active_instances, listVars,
                 ioVars, keep_running, preempted_priority, target>>

-----------------------------------------------------------------------------
(* What the running process asks for: the syscall handlers of cpu.c.       *)

\* handle_cycle_cpu_ok, and the syscalls that leave the process running
\* without moving any process: MUTEX_CREATE and a granted MEM_ALLOC.
handle_cycle_cpu_ok(c) ==
  /\ pc[c] = "run"
  /\ Goto(c, "queue_blocked")
  /\ UNCHANGED <<RunUnchanged, cpuVars, target>>

\* handle_syscall_memory_free: the freed memory starts a resumption sweep.
handle_syscall_memory_free(c) ==
  /\ pc[c] = "run"
  /\ pc' = [pc EXCEPT ![c] = "queue_blocked",
                      ![Resumption] = IF @ = "idle" THEN "sweep" ELSE @]
  /\ UNCHANGED <<RunUnchanged, cpuVars, target>>

\* handle_invalid_syscall: an unknown operation or a lost connection; a
\* MEM_FREE that Kernel Memory does not answer has the same effect.
handle_invalid_syscall(c) ==
  /\ pc[c] = "run"
  /\ keep_running' = [keep_running EXCEPT ![c] = FALSE]
  /\ Goto(c, "queue_blocked")
  /\ UNCHANGED <<RunUnchanged, pcb, reason, preempted_priority, target>>

\* handle_syscall_exit, handle_segmentation_fault, and the failing MUTEX_*
\* and MEM_ALLOC syscalls.
handle_syscall_exit(c) ==
  /\ pc[c] = "run"
  /\ Goto(c, "exec_exit")
  /\ UNCHANGED <<RunUnchanged, cpuVars, target>>

\* handle_syscall_io_*: enqueue_io_request tests close_thread before it
\* locks the interface's queue; a closed interface ends the process.
handle_syscall_io(c, d) ==
  /\ pc[c] = "run"
  /\ \/ /\ io_closed[d]
        /\ Goto(c, "exec_exit")
        /\ UNCHANGED io
     \/ /\ ~io_closed[d]
        /\ io' = [io EXCEPT ![c] = d]
        /\ Goto(c, "enqueue")
  /\ UNCHANGED <<readyVars, pcbVars, listVars, io_list, io_closed, mutex_list,
                 holders, cpuVars, target>>

\* The request is queued before the process leaves EXEC.  close_thread_io
\* keeps the queue locked while it wakes a process; after it has freed the
\* queue the request is lost.
enqueue_io_request(c) ==
  /\ pc[c] = "enqueue"
  /\ io_closed[io[c]] => pc[io[c]] \in {"draining", "closed"}
  /\ io_list' = IF pc[io[c]] = "closed" THEN io_list
                ELSE [io_list EXCEPT ![io[c]] = @ \cup {pcb[c]}]
  /\ io' = [io EXCEPT ![c] = NoThread]
  /\ Goto(c, "exec_block")
  /\ UNCHANGED <<readyVars, pcbVars, listVars, io_closed, mutex_list, holders,
                 cpuVars, target>>

\* transition_take_new: create_pcb in state NEW.
handle_syscall_start_process(c, p, n) ==
  /\ pc[c] = "run"
  /\ state[p] = "UNBORN"
  /\ state' = [state EXCEPT ![p] = "NEW"]
  /\ priority' = [priority EXCEPT ![p] = n]
  /\ target' = [target EXCEPT ![c] = p]
  /\ Goto(c, "new_ready")
  /\ UNCHANGED <<readyVars, lock_owner, active_instances, listVars, ioVars,
                 cpuVars>>

\* transition_new_ready after Kernel Memory's answer; a refusal or a
\* priority out of range ends the process at once.
transition_new_ready(c) ==
  /\ pc[c] = "new_ready"
  /\ \/ /\ check_priority_valid(priority[target[c]])
        /\ state' = [state EXCEPT ![target[c]] = "READY"]
        /\ transition_to_ready(target[c], priority[target[c]])
     \/ /\ state' = [state EXCEPT ![target[c]] = "DESTROYED"]
        /\ UNCHANGED readyVars
  /\ target' = [target EXCEPT ![c] = NoProc]
  /\ Goto(c, "queue_blocked")
  /\ UNCHANGED <<priority, lock_owner, active_instances, listVars, ioVars,
                 cpuVars>>

\* mutex_lock on a free mutex.
mutex_lock(c) ==
  /\ UsesMutexes
  /\ pc[c] = "run"
  /\ holders' = holders \cup {pcb[c]}
  /\ Goto(c, "queue_blocked")
  /\ UNCHANGED <<readyVars, pcbVars, listVars, io_list, io_closed, io,
                 mutex_list, cpuVars, target>>

\* mutex_lock on a held mutex: the caller blocks, after its priority has
\* been offered to the holder if the caller is now the first in the queue.
\* Nothing releases the mutexes of a process that ends, so the holder may
\* have been freed.
handle_syscall_mutex_lock(c) ==
  /\ UsesMutexes
  /\ pc[c] = "run"
  /\ \E q \in holders :
       \/ Goto(c, "mutex_block") /\ UNCHANGED target
       \/ Goto(c, "inherit") /\ target' = [target EXCEPT ![c] = q]
  /\ UNCHANGED <<RunUnchanged, cpuVars>>

\* propagate_priority_transitive: a holder that waits for a mutex itself
\* passes on what it inherited; the chain ends in mutex_lock.
propagate_priority_transitive(c) ==
  \/ /\ target[c] \in mutex_list
     /\ \E q \in holders : target' = [target EXCEPT ![c] = q]
     /\ Goto(c, "inherit")
  \/ target' = [target EXCEPT ![c] = NoProc] /\ Goto(c, "mutex_lowest")

\* replace_priority: the holder inherits the caller's priority.  mutex_lock
\* has read it before it locked the mutex: if the caller is a holder itself
\* another thread may have changed it since, and n is any priority.
\* update_priority follows with multilevel queues only.
replace_priority(c, n) ==
  /\ pc[c] = "inherit"
  /\ \/ /\ state[target[c]] \in Contention
        /\ n # priority[target[c]] /\ check_priority_valid(n)
        /\ \/ n = priority[pcb[c]] /\ n < priority[target[c]]
           \/ pcb[c] \in holders
        /\ priority' = [priority EXCEPT ![target[c]] = n]
        /\ IF Multilevel THEN Goto(c, "update_priority") /\ UNCHANGED target
           ELSE propagate_priority_transitive(c)
     \/ /\ target' = [target EXCEPT ![c] = NoProc]
        /\ Goto(c, "mutex_lowest")
        /\ UNCHANGED priority
  /\ UNCHANGED <<readyVars, state, lock_owner, active_instances, listVars,
                 ioVars, cpuVars>>

\* update_priority: a process in READY is taken out of its level and put
\* in again.  Its priority has changed already, so it is looked for in the
\* level it is to be moved to.
update_priority(c) ==
  /\ pc[c] = "update_priority"
  /\ Free(target[c])
  /\ \/ /\ state[target[c]] = "READY"
        /\ transition_take_ready(target[c], priority[target[c]])
        /\ lock_owner' = [lock_owner EXCEPT ![target[c]] = c]
        /\ Goto(c, "update_enter")
        /\ UNCHANGED target
     \/ /\ state[target[c]] # "READY"
        /\ propagate_priority_transitive(c)
        /\ UNCHANGED <<readyVars, lock_owner>>
  /\ UNCHANGED <<state, priority, active_instances, listVars, ioVars, cpuVars>>

update_priority_end(c) ==
  /\ pc[c] = "update_enter"
  /\ EnterList(target[c])
  /\ propagate_priority_transitive(c)
  /\ UNCHANGED <<state, priority, active_instances, exec, lowest_priority,
                 ioVars, cpuVars>>

\* mutex_lock after replace_priority: EXEC's worst priority is refreshed.
mutex_lock_lowest(c) ==
  /\ pc[c] = "mutex_lowest"
  /\ lowest_priority' = Lowest(exec, priority)
  /\ Goto(c, "mutex_block")
  /\ UNCHANGED <<readyVars, pcbVars, exec, block, susp_block, susp_ready,
                 ioVars, cpuVars, target>>

\* Mutant: the woken process stays in the mutex's list.
handle_syscall_mutex_unlock_Kept(c, n) ==
  /\ UsesMutexes
  /\ pc[c] = "run"
  /\ pcb[c] \in holders
  /\ n = priority[pcb[c]]
  /\ \E w \in mutex_list \ {pcb[c]} : target' = [target EXCEPT ![c] = w]
  /\ Goto(c, "unlock")
  /\ UNCHANGED <<RunUnchanged, cpuVars>>

\* mutex_unlock by its holder: the caller drops what it inherited (down to
\* n) and may hold other mutexes; the mutex has no waiter, or its new holder
\* w inherits from the remaining waiters (up to m) and is woken by
\* transition_unlock.
handle_syscall_mutex_unlock(c, n) ==
  /\ UsesMutexes
  /\ pc[c] = "run"
  /\ pcb[c] \in holders
  /\ n >= priority[pcb[c]] /\ check_priority_valid(n)
  /\ \/ /\ priority' = [priority EXCEPT ![pcb[c]] = n]
        /\ holders' \in {holders, holders \ {pcb[c]}}
        /\ Goto(c, "queue_blocked")
        /\ UNCHANGED <<mutex_list, target>>
     \/ \E w \in mutex_list, m \in Priority :
          /\ w # pcb[c] /\ m <= priority[w]
          /\ mutex_list' = mutex_list \ {w}
          /\ holders' \in {holders \cup {w}, (holders \ {pcb[c]}) \cup {w}}
          /\ priority' = [priority EXCEPT ![pcb[c]] = n, ![w] = m]
          /\ target' = [target EXCEPT ![c] = w]
          /\ Goto(c, "unlock")
  /\ lowest_priority' =
       IF n = priority[pcb[c]] THEN lowest_priority ELSE Lowest(exec, priority')
  /\ UNCHANGED <<readyVars, state, lock_owner, active_instances, exec, block,
                 susp_block, susp_ready, io_list, io_closed, io, cpuVars>>

-----------------------------------------------------------------------------
(* The end of the CPU thread's loop: the scheduler decides whether the     *)
(* process keeps the CPU.                                                  *)

\* A compaction wants every CPU back.
manage_queue_blocked(c) ==
  /\ pc[c] = "queue_blocked"
  /\ Goto(c, IF preempt_all THEN "exec_ready" ELSE "end_quantum")
  /\ UNCHANGED <<RunUnchanged, cpuVars, target>>

\* The clock is a free choice; a quantum matters only in an RR level with
\* somebody else in READY.
manage_end_quantum(c) ==
  /\ pc[c] = "end_quantum"
  /\ \/ /\ ready_process_count # 0
        /\ LevelOf(priority[pcb[c]]) \in RoundRobin
        /\ Goto(c, "exec_ready")
     \/ Goto(c, IF Preemption THEN "lowest" ELSE "send_preemption")
  /\ UNCHANGED <<RunUnchanged, cpuVars, target>>

\* manage_preemption_priority, first half: only the worst process in EXEC
\* is a candidate.
is_lowest_priority_in_exec(c) ==
  /\ pc[c] = "lowest"
  /\ \/ /\ priority[pcb[c]] >= lowest_priority
        /\ preempted_priority' =
             [preempted_priority EXCEPT ![c] = priority[pcb[c]]]
        /\ Goto(c, "preempt")
     \/ /\ priority[pcb[c]] < lowest_priority
        /\ Goto(c, "send_preemption")
        /\ UNCHANGED preempted_priority
  /\ UNCHANGED <<RunUnchanged, pcb, reason, keep_running, target>>

\* Mutant: a process of equal priority replaces the running one.
manage_preemption_priority_Equal(c) ==
  /\ pc[c] = "preempt"
  /\ \/ /\ preempted_priority[c] >= highest_priority
        /\ \E p \in Proc :
             /\ transition_take_ready_next(p)
             /\ target' = [target EXCEPT ![c] = p]
        /\ Goto(c, "exec_ready")
     \/ /\ preempted_priority[c] < highest_priority \/ AllEmpty(queues)
        /\ Goto(c, "send_preemption")
        /\ UNCHANGED <<readyVars, target>>
  /\ preempted_priority' = [preempted_priority EXCEPT ![c] = 0]
  /\ UNCHANGED <<pcbVars, listVars, ioVars, pcb, reason, keep_running>>

\* Second half: a better process is taken out of READY to replace it.
manage_preemption_priority(c) ==
  /\ pc[c] = "preempt"
  /\ \/ /\ preempted_priority[c] > highest_priority
        /\ \E p \in Proc :
             /\ transition_take_ready_next(p)
             /\ target' = [target EXCEPT ![c] = p]
        /\ Goto(c, "exec_ready")
     \/ /\ preempted_priority[c] <= highest_priority \/ AllEmpty(queues)
        /\ Goto(c, "send_preemption")
        /\ UNCHANGED <<readyVars, target>>
  /\ preempted_priority' = [preempted_priority EXCEPT ![c] = 0]
  /\ UNCHANGED <<pcbVars, listVars, ioVars, pcb, reason, keep_running>>

\* send_preemption, then (for a replaced process) send_pid, then the test
\* at the top of the loop.  If a send fails only a process that has just
\* replaced another is put back in READY.
send_preemption(c) ==
  /\ pc[c] = "send_preemption"
  /\ \/ /\ reason[c] = "HIGHER_PRIORITY"
        /\ Goto(c, "exec_ready")
        /\ UNCHANGED <<pcb, reason, keep_running>>
     \/ reason[c] # "HIGHER_PRIORITY" /\ close_thread_cpu(c)
     \/ ~keep_running[c] /\ close_thread_cpu(c)
     \/ /\ keep_running[c]
        /\ Goto(c, IF reason[c] = "OTHER" THEN "request" ELSE "run")
        /\ reason' = IF reason[c] = "HIGHER_PRIORITY"
                     THEN [reason EXCEPT ![c] = "NO_PREEMPTION"] ELSE reason
        /\ UNCHANGED <<pcb, keep_running>>
  /\ UNCHANGED <<RunUnchanged, preempted_priority, target>>

-----------------------------------------------------------------------------
(* Waking a process: transition_unlock, by an IO thread or by a CPU thread *)
(* in MUTEX_UNLOCK.                                                        *)

\* transition_unlock returns.  finalize_io logs the pid of the process it
\* has just handed over.
AfterUnlock(t) ==
  \/ /\ t \in IO /\ ~io_closed[t]
     /\ Goto(t, "finished")
     /\ UNCHANGED target
  \/ /\ t \in IO => io_closed[t]
     /\ Goto(t, IF t \in CPU THEN "queue_blocked" ELSE "draining")
     /\ target' = [target EXCEPT ![t] = NoProc]

\* Mutant: the woken process stays in the BLOCK list.
transition_unlock_Listed(t) ==
  /\ pc[t] = "unlock"
  /\ Free(target[t])
  /\ state[target[t]] = "BLOCK"
  /\ state' = [state EXCEPT ![target[t]] = "READY"]
  /\ lock_owner' = [lock_owner EXCEPT ![target[t]] = t]
  /\ Goto(t, "unlock_enter")
  /\ UNCHANGED <<readyVars, priority, active_instances, listVars, ioVars,
                 cpuVars, target>>

\* Mutant: a suspended process is woken straight into READY.
transition_unlock_Unchecked(t) ==
  /\ pc[t] = "unlock"
  /\ Free(target[t])
  /\ state[target[t]] \in {"BLOCK", "SUSP_BLOCK"}
  /\ state' = [state EXCEPT ![target[t]] = "READY"]
  /\ block' = Minus(block, target[t])
  /\ susp_block' = Minus(susp_block, target[t])
  /\ lock_owner' = [lock_owner EXCEPT ![target[t]] = t]
  /\ Goto(t, "unlock_enter")
  /\ UNCHANGED <<readyVars, priority, active_instances, exec, lowest_priority,
                 susp_ready, ioVars, cpuVars, target>>

\* Mutant: the case of a suspended process is missing.
transition_unlock_BlockOnly(t) ==
  /\ pc[t] = "unlock"
  /\ Free(target[t])
  /\ state[target[t]] = "BLOCK"
  /\ state' = [state EXCEPT ![target[t]] = "READY"]
  /\ block' = Minus(block, target[t])
  /\ lock_owner' = [lock_owner EXCEPT ![target[t]] = t]
  /\ Goto(t, "unlock_enter")
  /\ UNCHANGED <<readyVars, priority, active_instances, exec, lowest_priority,
                 susp_block, susp_ready, ioVars, cpuVars, target>>

\* The first half: BLOCK leads to READY, SUSP. BLOCK to SUSP. READY, and
\* from any other state the wake-up is only logged.
transition_unlock(t) ==
  /\ pc[t] = "unlock"
  /\ Free(target[t])
  /\ \/ /\ state[target[t]] = "BLOCK"
        /\ state' = [state EXCEPT ![target[t]] = "READY"]
        /\ block' = Minus(block, target[t])
        /\ UNCHANGED susp_block
     \/ /\ state[target[t]] = "SUSP_BLOCK"
        /\ state' = [state EXCEPT ![target[t]] = "SUSP_READY"]
        /\ susp_block' = Minus(susp_block, target[t])
        /\ UNCHANGED block
  /\ lock_owner' = [lock_owner EXCEPT ![target[t]] = t]
  /\ Goto(t, "unlock_enter")
  /\ UNCHANGED <<readyVars, priority, active_instances, exec, lowest_priority,
                 susp_ready, ioVars, cpuVars, target>>

transition_unlock_refused(t) ==
  /\ pc[t] = "unlock"
  /\ Free(target[t])
  /\ state[target[t]] \notin {"BLOCK", "SUSP_BLOCK"}
  /\ AfterUnlock(t)
  /\ UNCHANGED <<RunUnchanged, cpuVars>>

transition_unlock_end(t) ==
  /\ pc[t] = "unlock_enter"
  /\ EnterList(target[t])
  /\ AfterUnlock(t)
  /\ UNCHANGED <<state, priority, active_instances, exec, lowest_priority,
                 ioVars, cpuVars>>

-----------------------------------------------------------------------------
(* IO threads.                                                             *)

\* handle_io: a request is served while it stays in the list.
io_thread(d) ==
  /\ pc[d] = "idle"
  /\ \E p \in io_list[d] : target' = [target EXCEPT ![d] = p]
  /\ Goto(d, "serving")
  /\ UNCHANGED <<RunUnchanged, cpuVars>>

\* Mutant: the answered request stays in the interface's queue.
finalize_io_Kept(d) ==
  /\ pc[d] = "serving"
  /\ Goto(d, "unlock")
  /\ UNCHANGED <<RunUnchanged, cpuVars, target>>

finalize_io(d) ==
  /\ pc[d] = "serving"
  /\ io_list' = [io_list EXCEPT ![d] = @ \ {target[d]}]
  /\ Goto(d, "unlock")
  /\ UNCHANGED <<readyVars, pcbVars, listVars, io_closed, io, mutex_list,
                 holders, cpuVars, target>>

\* The log line that ends finalize_io reads the pcb.
log_finished(d) ==
  /\ pc[d] = "finished"
  /\ target' = [target EXCEPT ![d] = NoProc]
  /\ Goto(d, "idle")
  /\ UNCHANGED <<RunUnchanged, cpuVars>>

\* The interface or Kernel Memory fails: close_thread_io refuses further
\* requests and wakes everybody who was waiting.
io_failure(d) ==
  /\ pc[d] = "serving"
  /\ io_closed' = [io_closed EXCEPT ![d] = TRUE]
  /\ target' = [target EXCEPT ![d] = NoProc]
  /\ Goto(d, "draining")
  /\ UNCHANGED <<readyVars, pcbVars, listVars, io_list, io, mutex_list, holders,
                 cpuVars>>

close_thread_io(d) ==
  /\ pc[d] = "draining"
  /\ \/ \E p \in io_list[d] :
          /\ io_list' = [io_list EXCEPT ![d] = @ \ {p}]
          /\ target' = [target EXCEPT ![d] = p]
          /\ Goto(d, "unlock")
     \/ /\ io_list[d] = {}
        /\ Goto(d, "closed")
        /\ UNCHANGED <<io_list, target>>
  /\ UNCHANGED <<readyVars, pcbVars, listVars, io_closed, io, mutex_list,
                 holders, cpuVars>>

-----------------------------------------------------------------------------
(* Suspender, resumer and resumption sweep.  Parking and waking these      *)
(* threads only restricts when they run; here they may run at any time.    *)

\* Mutant: the reference is not counted.
get_process_Uncounted(t, list, label) ==
  /\ pc[t] = "idle"
  /\ \E p \in Proc : list[p] > 0 /\ target' = [target EXCEPT ![t] = p]
  /\ Goto(t, label)
  /\ UNCHANGED <<RunUnchanged, cpuVars>>

\* get_process_blocked / get_process_susp_ready: the reference is counted
\* in active_instances under the list mutex.
get_process(t, list, label) ==
  /\ pc[t] = "idle"
  /\ \E p \in Proc :
       /\ list[p] > 0
       /\ target' = [target EXCEPT ![t] = p]
       /\ active_instances' = [active_instances EXCEPT ![p] = @ + 1]
  /\ Goto(t, label)
  /\ UNCHANGED <<readyVars, state, priority, lock_owner, listVars, ioVars,
                 cpuVars>>

get_process_blocked == get_process(Suspender, block, "suspend")

get_process_susp_ready == get_process(Resumer, susp_ready, "resume")

\* Mutant: the suspender waits for a process that has left BLOCK.
run_suspend_process_Waits ==
  /\ pc[Suspender] = "suspend"
  /\ Free(target[Suspender])
  /\ state[target[Suspender]] = "BLOCK"
  /\ state' = [state EXCEPT ![target[Suspender]] = "SUSP_BLOCK"]
  /\ block' = Minus(block, target[Suspender])
  /\ lock_owner' = [lock_owner EXCEPT ![target[Suspender]] = Suspender]
  /\ Goto(Suspender, "unlock_enter")
  /\ UNCHANGED <<readyVars, priority, active_instances, exec, lowest_priority,
                 susp_block, susp_ready, ioVars, cpuVars, target>>

\* run_suspend_process: nothing happens if the timeout has not expired, the
\* process has left BLOCK, or Kernel Memory refuses.
run_suspend_process ==
  /\ pc[Suspender] = "suspend"
  /\ Free(target[Suspender])
  /\ \/ /\ state[target[Suspender]] = "BLOCK"
        /\ state' = [state EXCEPT ![target[Suspender]] = "SUSP_BLOCK"]
        /\ block' = Minus(block, target[Suspender])
        /\ lock_owner' = [lock_owner EXCEPT ![target[Suspender]] = Suspender]
        /\ Goto(Suspender, "unlock_enter")
     \/ /\ Goto(Suspender, "release")
        /\ UNCHANGED <<state, block, lock_owner>>
  /\ UNCHANGED <<readyVars, priority, active_instances, exec, lowest_priority,
                 susp_block, susp_ready, ioVars, cpuVars, target>>

\* transition_susp_ready_no_mutex when Kernel Memory restores the process.
ResumeTarget(t) ==
  /\ state[target[t]] = "SUSP_READY"
  /\ state' = [state EXCEPT ![target[t]] = "READY"]
  /\ susp_ready' = Minus(susp_ready, target[t])
  /\ lock_owner' = [lock_owner EXCEPT ![target[t]] = t]
  /\ Goto(t, "unlock_enter")

resume_suspended_process ==
  /\ pc[Resumer] = "resume"
  /\ Free(target[Resumer])
  /\ \/ ResumeTarget(Resumer)
     \/ /\ Goto(Resumer, "release")
        /\ UNCHANGED <<state, susp_ready, lock_owner>>
  /\ UNCHANGED <<readyVars, priority, active_instances, exec, lowest_priority,
                 block, susp_block, ioVars, cpuVars, target>>

\* The insertion that ends the suspender's or the resumer's transition.
suspension_end(t) ==
  /\ pc[t] = "unlock_enter"
  /\ EnterList(target[t])
  /\ Goto(t, "release")
  /\ UNCHANGED <<state, priority, active_instances, exec, lowest_priority,
                 ioVars, cpuVars, target>>

decrement_active_instances(t) ==
  /\ pc[t] = "release"
  /\ active_instances' = [active_instances EXCEPT ![target[t]] = @ - 1]
  /\ target' = [target EXCEPT ![t] = NoProc]
  /\ Goto(t, "idle")
  /\ UNCHANGED <<readyVars, state, priority, lock_owner, listVars, ioVars,
                 cpuVars>>

\* A new stick or the end of a compaction starts a resumption sweep too.
create_resumption_routine_thread ==
  /\ MemoryEvents
  /\ pc[Resumption] = "idle"
  /\ Goto(Resumption, "sweep")
  /\ UNCHANGED <<RunUnchanged, cpuVars, target>>

\* resumption_routine: the sweep ends when SUSP. READY is empty or a
\* compaction starts.
resumption_routine ==
  /\ pc[Resumption] = "sweep"
  /\ \/ /\ \E p \in Proc : susp_ready[p] > 0
        /\ Goto(Resumption, "sweep_head")
     \/ Goto(Resumption, "idle")
  /\ UNCHANGED <<RunUnchanged, cpuVars, target>>

\* The head of SUSP. READY is read in a critical section of its own, without
\* counting the reference.  If the list is empty by now list_get returns
\* NULL, and the kernel dies.
sweep_head ==
  /\ pc[Resumption] = "sweep_head"
  /\ \/ \E p \in Proc :
          /\ susp_ready[p] > 0
          /\ target' = [target EXCEPT ![Resumption] = p]
          /\ Goto(Resumption, "resume")
     \/ /\ \A p \in Proc : susp_ready[p] = 0
        /\ Goto(Resumption, "crashed")
        /\ UNCHANGED target
  /\ UNCHANGED <<RunUnchanged, cpuVars>>

\* remove_of_the_list.  Locking the mutex of a freed pcb is undefined; the
\* thread takes no further step.
remove_of_the_list ==
  /\ pc[Resumption] = "resume"
  /\ Free(target[Resumption])
  /\ \/ ResumeTarget(Resumption) /\ UNCHANGED target
     \/ /\ target' = IF state[target[Resumption]] = "DESTROYED" THEN target
                     ELSE [target EXCEPT ![Resumption] = NoProc]
        /\ Goto(Resumption,
                CASE state[target[Resumption]] = "DESTROYED" -> "crashed"
                  [] state[target[Resumption]] = "SUSP_READY" -> "idle"
                  [] OTHER -> "sweep")
        /\ UNCHANGED <<state, susp_ready, lock_owner>>
  /\ UNCHANGED <<readyVars, priority, active_instances, exec, lowest_priority,
                 block, susp_block, ioVars, cpuVars>>

remove_of_the_list_end ==
  /\ pc[Resumption] = "unlock_enter"
  /\ EnterList(target[Resumption])
  /\ target' = [target EXCEPT ![Resumption] = NoProc]
  /\ Goto(Resumption, "sweep")
  /\ UNCHANGED <<state, priority, active_instances, exec, lowest_priority,
                 ioVars, cpuVars>>

\* The gate a compaction closes (lock_all) and reopens
\* (thread_unlock_queue_ready).
compaction_gate ==
  /\ MemoryEvents
  /\ \/ ~preempt_all /\ lock_queue_ready
     \/ preempt_all /\ unlock_queue_ready
  /\ UNCHANGED <<pcbVars, listVars, ioVars, cpuVars, pc, target>>

-----------------------------------------------------------------------------
CpuStep(c) ==
  \/ manage_request_process(c) \/ transition_ready_exec(c)
  \/ transition_to_exec(c)
  \/ leave_exec(c)
  \/ update_lowest_exec_priority(c) \/ enter_list(c) \/ transition_to_exit(c)
  \/ transition_new_ready(c)
  \/ enqueue_io_request(c)
  \/ \E n \in Priority : replace_priority(c, n)
  \/ update_priority(c) \/ update_priority_end(c) \/ mutex_lock_lowest(c)
  \/ manage_queue_blocked(c) \/ manage_end_quantum(c)
  \/ is_lowest_priority_in_exec(c) \/ manage_preemption_priority(c)
  \/ send_preemption(c)
  \/ transition_unlock(c) \/ transition_unlock_refused(c)
  \/ transition_unlock_end(c)

Syscall(c) ==
  \/ handle_cycle_cpu_ok(c) \/ handle_syscall_memory_free(c)
  \/ handle_invalid_syscall(c) \/ handle_syscall_exit(c)
  \/ \E d \in IO : handle_syscall_io(c, d)
  \/ \E p \in Proc, n \in Priority : handle_syscall_start_process(c, p, n)
  \/ mutex_lock(c) \/ handle_syscall_mutex_lock(c)
  \/ \E n \in Priority : handle_syscall_mutex_unlock(c, n)

IoStep(d) ==
  \/ io_thread(d) \/ finalize_io(d) \/ io_failure(d) \/ close_thread_io(d)
  \/ transition_unlock(d) \/ transition_unlock_refused(d)
  \/ transition_unlock_end(d) \/ log_finished(d)

SuspenderStep ==
  \/ get_process_blocked \/ run_suspend_process
  \/ suspension_end(Suspender) \/ decrement_active_instances(Suspender)

ResumerStep ==
  \/ get_process_susp_ready \/ resume_suspended_process
  \/ suspension_end(Resumer) \/ decrement_active_instances(Resumer)

ResumptionStep ==
  \/ resumption_routine \/ sweep_head
  \/ remove_of_the_list \/ remove_of_the_list_end

Next ==
  \/ \E c \in CPU : handle_new_cpu(c) \/ CpuStep(c) \/ Syscall(c)
  \/ \E d \in IO : IoStep(d)
  \/ SuspenderStep \/ ResumerStep \/ ResumptionStep
  \/ create_resumption_routine_thread \/ compaction_gate

Spec == Init /\ [][Next]_vars

\* Every thread is an operating-system thread that is scheduled again and
\* again; programs, connections and failures are free.  That every mutex is
\* released again holds only without compactions (module Compaction) and if
\* Kernel Memory answers.
FairSpec ==
  /\ Spec
  /\ \A c \in CPU : WF_vars(CpuStep(c))
  /\ \A d \in IO : WF_vars(IoStep(d))
  /\ WF_vars(SuspenderStep) /\ WF_vars(ResumerStep) /\ WF_vars(ResumptionStep)

-----------------------------------------------------------------------------
(* Properties.                                                             *)

\* Every variable has its type.
TypeOK ==
  /\ queues \in [Level -> Seq(Proc)]
  /\ ready_process_count \in Nat /\ highest_priority \in Nat
  /\ preempt_all \in BOOLEAN
  /\ state \in [Proc -> State] /\ priority \in [Proc -> Priority]
  /\ lock_owner \in [Proc -> Thread \cup {NoThread}]
  /\ active_instances \in [Proc -> Nat]
  /\ exec \in [Proc -> Nat] /\ lowest_priority \in Nat
  /\ block \in [Proc -> Nat] /\ susp_block \in [Proc -> Nat]
  /\ susp_ready \in [Proc -> Nat]
  /\ io_list \in [IO -> SUBSET Proc] /\ io_closed \in [IO -> BOOLEAN]
  /\ io \in [CPU -> IO \cup {NoThread}]
  /\ mutex_list \in SUBSET Proc /\ holders \in SUBSET Proc
  /\ pc \in [Thread -> PC]
  /\ pcb \in [CPU -> Proc \cup {NoProc}]
  /\ target \in [Thread -> Proc \cup {NoProc}]
  /\ reason \in [CPU -> Reason] /\ keep_running \in [CPU -> BOOLEAN]
  /\ preempted_priority \in [CPU -> Nat]

\* The places a process can be.  A list of READY holds p; a CPU thread has p
\* in its hands between removing it from one list and inserting it in the
\* next; some thread is moving p on behalf of another process.
Queued(p) == InQueues(queues, p)
HeldByCpu(c, p) ==
  /\ pcb[c] = p
  /\ pc[c] \in {"ready_exec", "to_exec", "update_lowest", "enter", "to_exit"}
Carries(t) ==
  \/ pc[t] \in {"unlock_enter", "update_enter"}
  \/ t \in CPU /\ target[t] # NoProc
     /\ pc[t] \in {"exec_ready", "update_lowest", "enter", "new_ready"}
InHand(p) ==
  \/ \E c \in CPU : HeldByCpu(c, p)
  \/ \E t \in Thread : Carries(t) /\ target[t] = p

\* A process found in a list is in that list once, in the state the list
\* stands for, and in nobody's hands: no interleaving of the transitions
\* leaves a process in two lists or in the list of another state.
ListsMatchState ==
  \A p \in Proc :
    /\ Queued(p) => state[p] = "READY" /\ ~InHand(p)
    /\ exec[p] > 0 => exec[p] = 1 /\ state[p] = "EXEC" /\ ~InHand(p)
    /\ block[p] > 0 => block[p] = 1 /\ state[p] = "BLOCK" /\ ~InHand(p)
    /\ susp_block[p] > 0 =>
         susp_block[p] = 1 /\ state[p] = "SUSP_BLOCK" /\ ~InHand(p)
    /\ susp_ready[p] > 0 =>
         susp_ready[p] = 1 /\ state[p] = "SUSP_READY" /\ ~InHand(p)

\* No process is lost: a process that has been admitted and has not ended is
\* in the list of its state, or in the hands of a thread that will insert it.
NoProcessLost ==
  \A p \in Proc :
    state[p] \in Live /\ ~InHand(p) =>
      \/ state[p] = "READY" /\ Queued(p)
      \/ state[p] = "EXEC" /\ exec[p] > 0
      \/ state[p] = "BLOCK" /\ block[p] > 0
      \/ state[p] = "SUSP_BLOCK" /\ susp_block[p] > 0
      \/ state[p] = "SUSP_READY" /\ susp_ready[p] > 0

\* Two CPU threads never work with the same process.
OneCpu ==
  \A c, d \in CPU : pcb[c] # NoProc /\ pcb[c] = pcb[d] => c = d

\* READY holds no process twice, and ready_process_count, which the CPU
\* threads trust to decide whether to wait, is the number of its entries.
ReadyCount ==
  /\ NoRepeats(queues)
  /\ ready_process_count = Cardinality({p \in Proc : Queued(p)})

\* With multilevel queues the cached best priority is exact whenever READY
\* is not empty, although it is refreshed only when a level runs empty.
HighestIsExact ==
  Multilevel /\ ready_process_count > 0 =>
    highest_priority \in Level /\ IsFirstLevel(queues, highest_priority)

\* No thread that has a process to run, to move or to wake works on a pcb
\* that transition_to_exit has freed: neither the CPU and IO threads, nor the
\* suspender and the resumer, whose references are counted in
\* active_instances; nor does a queue of waiters contain one.  The log line
\* of finalize_io, priority inheritance and the sweep have properties of
\* their own below.
Gone == {"UNBORN", "NEW", "DESTROYED"}
NoDangling ==
  /\ \A c \in CPU :
       /\ pcb[c] # NoProc => state[pcb[c]] \notin Gone
       /\ target[c] # NoProc
            /\ pc[c] \notin {"new_ready", "inherit", "update_priority"} =>
              state[target[c]] \notin Gone
  /\ \A t \in IO \cup {Suspender, Resumer} :
       target[t] # NoProc /\ pc[t] # "finished" => state[target[t]] \notin Gone
  /\ \A d \in IO : \A p \in io_list[d] : state[p] \notin Gone
  /\ \A p \in mutex_list : state[p] \notin Gone

\* The resumption sweep works on live pcbs only.
SweepNotDangling ==
  target[Resumption] # NoProc => state[target[Resumption]] \notin Gone

\* The same of the process whose pid finalize_io logs when its IO is over.
LogNotDangling ==
  \A d \in IO : pc[d] = "finished" => state[target[d]] \notin Gone

\* The same of mutex->current_process, which mutex_lock reads and writes when
\* the mutex is held.
HolderNotDangling ==
  \A c \in CPU : pc[c] \in {"inherit", "update_priority"} =>
    state[target[c]] \notin Gone

\* "destroys the PCB once it's safe to (waits for in-flight syscalls/IO on
\* it first)" (queues.h): nobody at these three places has a freed pcb.
FreedWhenSafe == SweepNotDangling /\ LogNotDangling /\ HolderNotDangling

\* "Finished IO and moves to READY / SUSP. READY" (README, IO end): a blocked
\* process has somebody left to wake it.
BlockedIsAwaited ==
  \A p \in Proc :
    state[p] \in {"BLOCK", "SUSP_BLOCK"} =>
      \/ p \in mutex_list \/ \E d \in IO : p \in io_list[d]
      \/ \E t \in CPU \cup IO : target[t] = p /\ pc[t] = "unlock"

\* With multilevel queues manage_preemption_priority replaces a process only
\* by one of strictly better priority, although it compares a priority read
\* before it locked the queue with a cached one.
BetterPreempts ==
  [][Multilevel =>
       \A c \in CPU : pc[c] = "preempt" /\ pc'[c] = "exec_ready" =>
         priority[target'[c]] < priority[pcb[c]]]_vars

\* p is about to be woken: its IO is over, or it has been given its mutex.
\* (One that is still in EXEC misses the wake-up: BlockedIsAwaited.)
Woken(p) ==
  /\ state[p] \in {"BLOCK", "SUSP_BLOCK"}
  /\ \E t \in CPU \cup IO : pc[t] = "unlock" /\ target[t] = p

\* A transition is never stuck halfway: a process that has left a list
\* enters the next one, and an EXIT process is freed although the suspender or
\* the resumer may have a reference to it.  A process that is to be woken gets
\* out of BLOCK and SUSP. BLOCK, even if it is being suspended at that moment.
MovesComplete ==
  /\ \A p \in Proc : InHand(p) \/ Woken(p) ~> ~InHand(p) /\ ~Woken(p)
  /\ [][\A p \in Proc :
          Woken(p) => Woken(p)' \/ state'[p] \notin {"BLOCK", "SUSP_BLOCK"}]_vars

\* The seven-state diagram, with the process each CPU runs.
Abstract == INSTANCE SevenStates WITH
  st <- state,
  running <- [c \in CPU |-> IF pcb[c] # NoProc /\ state[pcb[c]] = "EXEC"
                            THEN pcb[c] ELSE NoProc]

\* Every step of every thread is a legal move of at most one process, and
\* only the CPU that runs a process takes it out of EXEC.
RefinesSevenStates == Abstract!Spec
=============================================================================

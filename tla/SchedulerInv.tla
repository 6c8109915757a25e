---------------------------- MODULE SchedulerInv ----------------------------
(***************************************************************************)
(* An inductive invariant of Scheduler.  It records, for every label of    *)
(* every thread, which process the thread has in hand, in which state that *)
(* process is and who holds its `state_mutex`: none of the safety          *)
(* properties of Scheduler is preserved by the transitions without it.     *)
(***************************************************************************)
EXTENDS Scheduler

\* The labels at which a CPU thread's process is in the EXEC list.
OnCpu == {"run", "exec_ready", "exec_block", "mutex_block", "exec_exit",
          "new_ready", "enqueue", "inherit", "update_priority",
          "update_enter", "mutex_lowest", "unlock", "unlock_enter",
          "queue_blocked", "end_quantum", "lowest", "preempt",
          "send_preemption"}
\* The labels between a removal from a list and the insertion in another.
Between == {"ready_exec", "to_exec", "update_lowest", "enter", "to_exit"}
\* The labels at which priority inheritance works on the holder of a mutex.
Inheriting == {"inherit", "update_priority", "update_enter"}
\* The labels at which a thread has taken another's process out of a list.
Moving == {"unlock_enter", "update_enter"}
\* The labels at which the process that is to replace the running one waits
\* for its turn.
Replacing == {"exec_ready", "update_lowest", "enter"}

\* Which of its two pcbs a CPU thread has set.
CpuControl(c) ==
  /\ pc[c] \in OnCpu \cup Between \cup {"closed", "request"}
  /\ pcb[c] = NoProc <=> \/ pc[c] \in {"closed", "request"}
                         \/ pc[c] = "send_preemption" /\ reason[c] = "OTHER"
  /\ pc[c] \in OnCpu \ {"exec_ready", "send_preemption"} => reason[c] # "OTHER"
  /\ pc[c] \in {"new_ready", "unlock", "unlock_enter"} \cup Inheriting =>
       target[c] # NoProc
  /\ target[c] # NoProc =>
       pc[c] \in {"new_ready", "unlock", "unlock_enter"} \cup Inheriting
                 \cup Replacing
  /\ pc[c] \in {"update_priority", "update_enter"} => Multilevel
  /\ pc[c] = "enqueue" => io[c] \in IO

IoControl(d) ==
  /\ pc[d] \in {"idle", "serving", "draining", "closed", "unlock",
                "unlock_enter", "finished"}
  /\ target[d] = NoProc <=> pc[d] \in {"idle", "draining", "closed"}

WorkerControl(t) ==
  /\ pc[t] \in CASE t = Suspender -> {"idle", "suspend", "unlock_enter", "release"}
                 [] t = Resumer -> {"idle", "resume", "unlock_enter", "release"}
                 [] OTHER -> {"idle", "sweep", "sweep_head", "resume",
                             "unlock_enter", "crashed"}
  /\ pc[t] \in {"idle", "sweep", "sweep_head"} => target[t] = NoProc
  /\ target[t] = NoProc => pc[t] \in {"idle", "sweep", "sweep_head", "crashed"}

\* What a CPU thread knows of its own process ...
OwnProcess(c) ==
  pcb[c] # NoProc =>
    /\ pc[c] \in OnCpu =>
         state[pcb[c]] = "EXEC" /\ Free(pcb[c]) /\ exec[pcb[c]] = 1
    /\ pc[c] = "ready_exec" =>
         state[pcb[c]] = "READY" /\ Free(pcb[c]) /\ ~Queued(pcb[c])
    /\ pc[c] = "to_exec" =>
         state[pcb[c]] = "EXEC" /\ Free(pcb[c]) /\ exec[pcb[c]] = 0
    /\ pc[c] \in {"update_lowest", "enter"} =>
         /\ state[pcb[c]] \in {"READY", "BLOCK", "EXIT"}
         /\ lock_owner[pcb[c]] = c
         /\ target[c] # NoProc => state[pcb[c]] = "READY"
    /\ pc[c] = "to_exit" => state[pcb[c]] = "EXIT" /\ Free(pcb[c])

\* ... of the process it starts or dispatches next ...
NextProcess(c) ==
  target[c] # NoProc =>
    /\ pc[c] \in Replacing =>
         state[target[c]] = "READY" /\ Free(target[c]) /\ ~Queued(target[c])
    /\ pc[c] = "new_ready" => state[target[c]] = "NEW" /\ Free(target[c])

\* ... and what any thread knows of a process that it moves.
MovedProcess(t) ==
  pc[t] \in Moving =>
    /\ state[target[t]] \in IF pc[t] = "update_enter" THEN {"READY"}
                            ELSE {"READY", "SUSP_READY", "SUSP_BLOCK"}
    /\ lock_owner[target[t]] = t

ThreadOK(t) ==
  /\ t \in CPU => CpuControl(t) /\ OwnProcess(t) /\ NextProcess(t)
  /\ t \in IO => IoControl(t)
  /\ t \in {Suspender, Resumer, Resumption} => WorkerControl(t)
  /\ MovedProcess(t)

\* Thread t is responsible for p, and no two threads are.
Owns(t, p) ==
  \/ t \in CPU /\ pcb[t] = p
  \/ t \in CPU /\ target[t] = p /\ pc[t] \in Replacing \cup {"new_ready"}
  \/ target[t] = p /\ pc[t] \in Moving

Exclusive ==
  \A t, u \in Thread : \A p \in Proc : Owns(t, p) /\ Owns(u, p) => t = u

\* What the lists say of a process, and what its state says of the lists.
Listed(p) ==
  /\ Queued(p) => state[p] = "READY" /\ Free(p)
  /\ exec[p] > 0 => exec[p] = 1 /\ state[p] = "EXEC" /\ Free(p)
  /\ block[p] > 0 => block[p] = 1 /\ state[p] = "BLOCK" /\ Free(p)
  /\ susp_block[p] > 0 =>
       susp_block[p] = 1 /\ state[p] = "SUSP_BLOCK" /\ Free(p)
  /\ susp_ready[p] > 0 =>
       susp_ready[p] = 1 /\ state[p] = "SUSP_READY" /\ Free(p)
  /\ state[p] = "UNBORN" => Free(p)

Holds(t, p) ==
  \/ t \in CPU /\ HeldByCpu(t, p)
  \/ Carries(t) /\ target[t] = p

NotLost(p) ==
  state[p] \in Live =>
    \/ \E t \in Thread : Holds(t, p)
    \/ state[p] = "READY" /\ Queued(p)
    \/ state[p] = "EXEC" /\ exec[p] > 0
    \/ state[p] = "BLOCK" /\ block[p] > 0
    \/ state[p] = "SUSP_BLOCK" /\ susp_block[p] > 0
    \/ state[p] = "SUSP_READY" /\ susp_ready[p] > 0

\* Every thread knows its processes and every process its place.
Placed ==
  /\ \A t \in Thread : ThreadOK(t)
  /\ Exclusive
  /\ \A p \in Proc : Listed(p) /\ NotLost(p)

\* active_instances counts the references of the suspender and the resumer.
Refs(p, t) == IF target[t] = p THEN 1 ELSE 0
Instances ==
  /\ \A p \in Proc : active_instances[p] = Refs(p, Suspender) + Refs(p, Resumer)
  /\ \A t \in {Suspender, Resumer} :
       target[t] # NoProc => state[target[t]] \notin Gone

\* With multilevel queues a level holds the processes of its priority.
Levelled ==
  Multilevel =>
    /\ \A p \in Proc : state[p] \in Live => priority[p] \in Level
    /\ \A l \in Level : \A i \in DOMAIN queues[l] : priority[queues[l][i]] = l

\* The inductive invariant: no thread has lost track of the process it is
\* moving, and the counters and caches of the scheduler are exact.
IndInv ==
  TypeOK /\ Placed /\ Instances /\ ReadyCount /\ Levelled /\ HighestIsExact

\* What multilevel queues ask of priority inheritance, which the code does
\* not ensure: no process inherits while it is in a level of READY, and
\* update_priority takes out a process that is there.
LevelsKept ==
  Multilevel =>
    /\ \A p \in Proc : Queued(p) => priority'[p] = priority[p]
    /\ \A c \in CPU : pc[c] = "update_priority" /\ pc'[c] = "update_enter" =>
         Queued(target[c])

\* No process inherits between the two halves of manage_preemption_priority.
PreemptionKept ==
  \A c \in CPU : pc[c] = "preempt" => priority'[pcb[c]] = priority[pcb[c]]

\* The priority the preemption check has read is still the process's own.
Fresh ==
  \A c \in CPU : pc[c] = "preempt" => preempted_priority[c] = priority[pcb[c]]

\* Who is going to wake p: the IO interface whose queue holds it or whose
\* request it is, or the CPU thread that has taken it from a mutex's queue.
Awaits(t, p) ==
  \/ t \in IO /\ p \in io_list[t]
  \/ t \in IO /\ target[t] = p /\ pc[t] \in {"serving", "unlock"}
  \/ t \in CPU /\ target[t] = p /\ pc[t] = "unlock"

\* p is blocked, or on its way there: the request is queued before the
\* process leaves EXEC.
Blocked(p) ==
  \/ state[p] \in {"BLOCK", "SUSP_BLOCK"}
  \/ state[p] = "EXEC" /\ \E c \in CPU : pcb[c] = p /\ pc[c] = "exec_block"

\* A process waits for one event at a time, and only a process that is
\* blocked, or is about to be, waits: nobody is woken twice, and nobody is
\* woken while it runs.
WaitsOnce ==
  /\ \A p \in mutex_list : Blocked(p)
  /\ \A t \in CPU \cup IO : \A p \in Proc :
       Awaits(t, p) => /\ Blocked(p) /\ p \notin mutex_list
                       /\ \A u \in CPU \cup IO : Awaits(u, p) => u = t
  /\ \A d \in IO : pc[d] = "unlock" => target[d] \notin io_list[d]
=============================================================================

------------------------------ MODULE Compaction ------------------------------
(***************************************************************************)
(* The Kernel Scheduler's threads and locks around a compaction: the CPU   *)
(* threads (connections/cpu.c), the allocation that needs a compaction     *)
(* (syscalls/memory.c), the routines of compaction.c, the waits of         *)
(* exec_list.c, and the suspender and the resumer with their parking       *)
(* (suspension.c), at the granularity of the mutexes they hold while they  *)
(* wait for another one.                                                   *)
(*                                                                         *)
(* A critical section in which nothing else is waited for is one step that *)
(* needs its mutex free; the mutexes of READY and of SUSP. BLOCK are only  *)
(* held that way and are left out.  Kernel Memory answers every request;   *)
(* the socket's mutex is the lock "km", and the state_mutex of a process   *)
(* is a lock named after it.  A lock is held from the step that takes it   *)
(* to the step that gives it back; the label of a thread says what it does *)
(* next.  The start of processes and the shutdown are left out.            *)
(***************************************************************************)
EXTENDS Integers, FiniteSets

CONSTANTS
  Cpu,         \* threads of handle_cpu_client
  Suspender, Resumer,            \* the workers
  Routine,     \* threads of resumption_routine_thread; bound: that many at a time
  Unlocker,    \* threads of thread_unlock_queue_ready; bound: one per compaction
  Pid,         \* processes
  None

VARIABLES
  pc,          \* label of each thread
  owner,       \* owner of each mutex
  list,        \* the processes in each list of the scheduler
  pcb,         \* data->pcb of the CPU threads, the process of the others
  to,          \* where a CPU thread moves its process
  counted,     \* the CPU threads inside a syscall, as counted by syscall_counter
  state,       \* TS_RUNNING, TS_BLOCKED or TS_WAITING_PROCESS of the workers
  new_process, \* block.new_process
  preempt_all, compaction_active, resume_active,
  in_routine   \* the thread for which routine_active is set

vars == <<pc, owner, list, pcb, to, counted, state, new_process, preempt_all,
          compaction_active, resume_active, in_routine>>
flags == <<preempt_all, compaction_active, resume_active, in_routine>>

Worker == {Suspender, Resumer}
Thread == Cpu \cup Worker \cup Routine \cup Unlocker
Lists == {"READY", "EXEC", "BLOCK", "SUSP_BLOCK", "SUSP_READY"}
Locks == Pid \cup {"km", "exec", "counter", "suspender", "resumer", "block", "susp_ready"}

\* The state_mutex of a worker and the list it waits on.
StateMutex(w) == IF w = Suspender THEN "suspender" ELSE "resumer"
ListMutex(w)  == IF w = Suspender THEN "block" ELSE "susp_ready"

\* Every process starts in READY, and the workers are running.
Init ==
  /\ pc = [t \in Thread |-> IF t \in Cpu THEN "request"
                            ELSE IF t \in Worker THEN "top" ELSE "off"]
  /\ owner = [l \in Locks |-> None]
  /\ list = [l \in Lists |-> IF l = "READY" THEN Pid ELSE {}]
  /\ pcb = [t \in Thread |-> None]
  /\ to = [c \in Cpu |-> "READY"]
  /\ counted = {}
  /\ state = [w \in Worker |-> "RUNNING"]
  /\ new_process = FALSE
  /\ preempt_all = FALSE /\ compaction_active = FALSE /\ resume_active = FALSE
  /\ in_routine = None

-----------------------------------------------------------------------------
At(t, label) == pc[t] = label
Go(t, label) == pc' = [pc EXCEPT ![t] = label]
Free(l)      == owner[l] = None
Take(t, l)   == Free(l) /\ owner' = [owner EXCEPT ![l] = t]
Give(S)      == owner' = [l \in Locks |-> IF l \in S THEN None ELSE owner[l]]
Move(p, a, b) == list' = [list EXCEPT ![a] = @ \ {p}, ![b] = @ \cup {p}]

\* One mutex is taken and kept.
Locks_and_goes(t, from, l, label) ==
  /\ At(t, from) /\ Take(t, l) /\ Go(t, label)
  /\ UNCHANGED <<list, pcb, to, counted, state, new_process, flags>>

\* cnd_signal: a thread that waits at one label goes on at another.
Signal(S, waiting, label, t, next) ==
  LET woken == {u \in S : pc[u] = waiting}
  IN  IF woken = {} THEN Go(t, next)
      ELSE \E u \in woken : pc' = [pc EXCEPT ![u] = label, ![t] = next]

-----------------------------------------------------------------------------
(***************************************************************************)
(* The CPU threads.                                                        *)
(***************************************************************************)
manage_request_process(c) ==
  /\ At(c, "request") /\ ~preempt_all
  /\ \E p \in list["READY"] :
       /\ list' = [list EXCEPT !["READY"] = @ \ {p}]
       /\ pcb' = [pcb EXCEPT ![c] = p]
  /\ Go(c, "enter")
  /\ UNCHANGED <<owner, to, counted, state, new_process, flags>>

transition_to_exec(c) ==
  /\ At(c, "enter") /\ Free("exec")
  /\ list' = [list EXCEPT !["EXEC"] = @ \cup {pcb[c]}]
  /\ Go(c, "run")
  /\ UNCHANGED <<owner, pcb, to, counted, state, new_process, flags>>

\* A cycle without a syscall, and a segmentation fault.
handle_cycle_cpu_ok(c) ==
  /\ At(c, "run")
  /\ \/ Go(c, "checks") /\ UNCHANGED to
     \/ Go(c, "take") /\ to' = [to EXCEPT ![c] = "EXIT"]
  /\ UNCHANGED <<owner, list, pcb, counted, state, new_process, flags>>

increment_syscall_counter(c) ==
  /\ At(c, "run") /\ Free("counter")
  /\ counted' = counted \cup {c}
  /\ \/ \E label \in {"alloc", "free", "end_syscall"} : Go(c, label) /\ UNCHANGED to
     \/ \E end \in {"BLOCK", "EXIT"} : Go(c, "take") /\ to' = [to EXCEPT ![c] = end]
  /\ UNCHANGED <<owner, list, pcb, state, new_process, flags>>

decrement_syscall_counter(c) ==
  /\ At(c, "end_syscall") /\ Free("counter")
  /\ counted' = counted \ {c}
  /\ Go(c, IF pcb[c] = None THEN "request" ELSE "checks")
  /\ UNCHANGED <<owner, list, pcb, to, state, new_process, flags>>

\* manage_queue_blocked; the end of the quantum stands for every other
\* preemption to READY.
manage_queue_blocked(c) ==
  /\ At(c, "checks")
  /\ \/ ~preempt_all /\ Go(c, "run") /\ UNCHANGED to
     \/ /\ preempt_all \/ list["READY"] # {}
        /\ Go(c, "take") /\ to' = [to EXCEPT ![c] = "READY"]
  /\ UNCHANGED <<owner, list, pcb, counted, state, new_process, flags>>

\* exec->list_mutex is kept while counter_mutex is waited for.
transition_take_exec(c) ==
  \/ /\ At(c, "take") /\ Take(c, "exec")
     /\ list' = [list EXCEPT !["EXEC"] = @ \ {pcb[c]}]
     /\ IF list'["EXEC"] = {} THEN Signal(Unlocker, "wait_empty", "start", c, "take_count")
        ELSE Go(c, "take_count")
     /\ UNCHANGED <<pcb, to, counted, state, new_process, flags>>
  \/ /\ At(c, "take_count") /\ Free("counter")
     /\ IF Cardinality(list["EXEC"]) = Cardinality(counted)
        THEN Signal(Cpu, "drain_wait", "drain_relock", c, "enter_list")
        ELSE Go(c, "enter_list")
     /\ Give({"exec"})
     /\ UNCHANGED <<list, pcb, to, counted, state, new_process, flags>>

\* A resumption routine is started unless one runs or a compaction does.
create_resumption_routine_thread(t, next) ==
  IF compaction_active \/ resume_active
  THEN Go(t, next) /\ UNCHANGED resume_active
  ELSE /\ resume_active' = TRUE
       /\ \E r \in Routine :
            At(r, "off") /\ pc' = [pc EXCEPT ![t] = next, ![r] = "enter_routine"]

\* transition_to_ready, transition_to_block, or transition_to_exit, which waits
\* until no worker refers to the process and then tells Kernel Memory; freed
\* memory starts a resumption routine.
enter_list(c) ==
  LET next == IF c \in counted THEN "end_syscall" ELSE "request"
  IN  /\ At(c, "enter_list")
      /\ CASE to[c] = "READY" -> /\ list' = [list EXCEPT !["READY"] = @ \cup {pcb[c]}]
                                 /\ Go(c, next) /\ UNCHANGED <<new_process, resume_active>>
           [] to[c] = "BLOCK" -> /\ Free("block")
                                 /\ list' = [list EXCEPT !["BLOCK"] = @ \cup {pcb[c]}]
                                 /\ new_process' = TRUE
                                 /\ Signal({Suspender}, "cond", "waited", c, next)
                                 /\ UNCHANGED resume_active
           [] to[c] = "EXIT"  -> /\ \A w \in Worker : pcb[w] # pcb[c]
                                 /\ Free("km")
                                 /\ \/ Go(c, next) /\ UNCHANGED resume_active
                                    \/ create_resumption_routine_thread(c, next)
                                 /\ UNCHANGED <<list, new_process>>
      /\ pcb' = [pcb EXCEPT ![c] = None]
      /\ UNCHANGED <<owner, to, counted, state, preempt_all, compaction_active, in_routine>>

-----------------------------------------------------------------------------
(***************************************************************************)
(* Memory syscalls: the socket is held from the request to the answer, and *)
(* through a compaction that comes in between.                             *)
(***************************************************************************)

allocate_memory(c) == Locks_and_goes(c, "alloc", "km", "answer")

\* OP_NEW_MEMORY_STICK may come before the answer.
receive_km_opcode(c) ==
  /\ At(c, "answer")
  /\ create_resumption_routine_thread(c, "answer")
  /\ UNCHANGED <<owner, list, pcb, to, counted, state, new_process, preempt_all,
                 compaction_active, in_routine>>

response_km_mem_alloc(c) ==
  /\ At(c, "answer")
  /\ \/ Give({"km"}) /\ Go(c, "end_syscall") /\ UNCHANGED to
     \/ Give({"km"}) /\ Go(c, "take") /\ to' = [to EXCEPT ![c] = "EXIT"]
     \/ /\ \E u \in Unlocker : At(u, "off")
        /\ Go(c, "compaction") /\ UNCHANGED <<owner, to>>
  /\ UNCHANGED <<list, pcb, counted, state, new_process, flags>>

free_memory(c) ==
  /\ At(c, "free") /\ Free("km")
  /\ create_resumption_routine_thread(c, "end_syscall")
  /\ UNCHANGED <<owner, list, pcb, to, counted, state, new_process, preempt_all,
                 compaction_active, in_routine>>

-----------------------------------------------------------------------------
(***************************************************************************)
(* Compaction.                                                             *)
(***************************************************************************)
routine_compaction(c) ==
  /\ At(c, "compaction")
  /\ compaction_active' = TRUE
  /\ Go(c, IF compaction_active THEN "answer" ELSE "enter_routine")
  /\ UNCHANGED <<owner, list, pcb, to, counted, state, new_process, preempt_all,
                 resume_active, in_routine>>

routine_enter(t) ==
  /\ At(t, "enter_routine") /\ in_routine = None
  /\ in_routine' = t
  /\ Go(t, IF t \in Routine THEN "park_suspender" ELSE "gate")
  /\ UNCHANGED <<owner, list, pcb, to, counted, state, new_process, preempt_all,
                 compaction_active, resume_active>>

lock_queue_ready(c) ==
  /\ At(c, "gate")
  /\ preempt_all' = TRUE
  /\ Go(c, "park_suspender")
  /\ UNCHANGED <<owner, list, pcb, to, counted, state, new_process, compaction_active,
                 resume_active, in_routine>>

\* lock_thread_suspended(w): a worker that waits for a process is woken under
\* its list's mutex, with its state_mutex held.
lock_thread_suspended(t, w, from, locked, label) ==
  \/ Locks_and_goes(t, from, StateMutex(w), locked)
  \/ /\ At(t, locked)
     /\ state[w] = "WAITING_PROCESS" => Free(ListMutex(w))
     /\ IF state[w] = "WAITING_PROCESS" THEN Signal({w}, "cond", "waited", t, label)
        ELSE Go(t, label)
     /\ state' = [state EXCEPT ![w] = "BLOCKED"]
     /\ Give({StateMutex(w)})
     /\ UNCHANGED <<list, pcb, to, counted, new_process, flags>>

lock_threads_suspended(t, label) ==
  \/ lock_thread_suspended(t, Suspender, "park_suspender", "wake_suspended", "park_resumer")
  \/ lock_thread_suspended(t, Resumer, "park_resumer", "wake_resumed", label)

unlock_thread_suspended(t, w, from, label) ==
  /\ At(t, from) /\ Free(StateMutex(w))
  /\ IF state[w] = "BLOCKED" THEN Signal({w}, "parked", "top", t, label) ELSE Go(t, label)
  /\ state' = [state EXCEPT ![w] = IF @ = "BLOCKED" THEN "RUNNING" ELSE @]
  /\ UNCHANGED <<owner, list, pcb, to, counted, new_process, flags>>

\* cnd_wait gives exec->list_mutex back and keeps counter_mutex.
wait_queue_exec_empty_with_syscalls(c) ==
  \/ Locks_and_goes(c, "drain", "exec", "drain_count")
  \/ Locks_and_goes(c, "drain_count", "counter", "drain_test")
  \/ Locks_and_goes(c, "drain_relock", "exec", "drain_test")
  \/ /\ At(c, "drain_test")
     /\ IF Cardinality(list["EXEC"]) > Cardinality(counted)
        THEN Give({"exec"}) /\ Go(c, "drain_wait")
        ELSE Give({"exec", "counter"}) /\ Go(c, "compact")
     /\ UNCHANGED <<list, pcb, to, counted, state, new_process, flags>>

\* OP_CAN_COMPACT and OP_COMPACTION_DONE, and the threads that follow.
compaction(c) ==
  \/ /\ At(c, "compact")
     /\ compaction_active' = FALSE
     /\ \E u \in Unlocker :
          At(u, "off") /\ pc' = [pc EXCEPT ![c] = "resume", ![u] = "start"]
     /\ UNCHANGED <<owner, list, pcb, to, counted, state, new_process, preempt_all,
                    resume_active, in_routine>>
  \/ /\ At(c, "resume")
     /\ create_resumption_routine_thread(c, "answer")
     /\ in_routine' = None
     /\ UNCHANGED <<owner, list, pcb, to, counted, state, new_process, preempt_all,
                    compaction_active>>

wait_queue_exec_empty(u) ==
  /\ At(u, "start") /\ Free("exec")
  /\ Go(u, IF list["EXEC"] = {} THEN "test" ELSE "wait_empty")
  /\ UNCHANGED <<owner, list, pcb, to, counted, state, new_process, flags>>

\* compaction_active is read before READY is reopened.
thread_unlock_queue_ready(u) ==
  \/ /\ At(u, "test")
     /\ Go(u, IF compaction_active THEN "done" ELSE "open")
     /\ UNCHANGED <<owner, list, pcb, to, counted, state, new_process, flags>>
  \/ /\ At(u, "open")
     /\ preempt_all' = FALSE /\ Go(u, "done")
     /\ UNCHANGED <<owner, list, pcb, to, counted, state, new_process, compaction_active,
                    resume_active, in_routine>>

-----------------------------------------------------------------------------
(***************************************************************************)
(* A resumption, by the resumer or by the routine.                         *)
(***************************************************************************)

\* transition_susp_ready_no_mutex with the process's state_mutex held:
\* can_resume_suspended (two questions) and notify_process_resume_suspended
\* lock the socket for each question; then the process is moved.  A process
\* that has left SUSP. READY is not asked about.
transition_susp_ready(t, gone, failed, done) ==
  LET leaves(label) == /\ Give({pcb[t]}) /\ Go(t, label)
                       /\ pcb' = [pcb EXCEPT ![t] = None]
  IN  \/ Locks_and_goes(t, "lock_pcb", pcb[t], "ask")
      \/ /\ At(t, "ask")
         /\ IF pcb[t] \notin list["SUSP_READY"] THEN leaves(gone)
            ELSE /\ Free("km")
                 /\ \/ leaves(failed)
                    \/ Go(t, "notify") /\ UNCHANGED <<owner, pcb>>
         /\ UNCHANGED <<list, to, counted, state, new_process, flags>>
      \/ /\ At(t, "notify") /\ Free("km")
         /\ \/ leaves(failed)
            \/ Go(t, "moved") /\ UNCHANGED <<owner, pcb>>
         /\ UNCHANGED <<list, to, counted, state, new_process, flags>>
      \/ /\ At(t, "moved") /\ Free("susp_ready")
         /\ Move(pcb[t], "SUSP_READY", "READY") /\ leaves(done)
         /\ UNCHANGED <<to, counted, state, new_process, flags>>

\* The test of the list and remove_of_the_list's first process.
resumption_routine(r) ==
  /\ At(r, "sweep") /\ Free("susp_ready")
  /\ IF list["SUSP_READY"] = {} \/ compaction_active
     THEN Go(r, "sweep_end") /\ UNCHANGED pcb
     ELSE /\ \E p \in list["SUSP_READY"] : pcb' = [pcb EXCEPT ![r] = p]
          /\ Go(r, "lock_pcb")
  /\ UNCHANGED <<owner, list, to, counted, state, new_process, flags>>

resumption_routine_thread(r) ==
  \/ /\ At(r, "sweep_end")
     /\ resume_active' = FALSE /\ Go(r, "wake_suspender")
     /\ UNCHANGED <<owner, list, pcb, to, counted, state, new_process, preempt_all,
                    compaction_active, in_routine>>
  \/ unlock_thread_suspended(r, Suspender, "wake_suspender", "wake_resumer")
  \/ unlock_thread_suspended(r, Resumer, "wake_resumer", "leave")
  \/ /\ At(r, "leave")
     /\ in_routine' = None /\ Go(r, "off")
     /\ UNCHANGED <<owner, list, pcb, to, counted, state, new_process, preempt_all,
                    compaction_active, resume_active>>

-----------------------------------------------------------------------------
(***************************************************************************)
(* The workers.                                                            *)
(***************************************************************************)

\* The loop of thread_suspender and thread_resumer: their state_mutex is taken
\* and, in TS_RUNNING, kept while a process is looked for.
thread_suspended(w) ==
  \/ Locks_and_goes(w, "top", StateMutex(w), "switch")
  \/ /\ At(w, "switch")
     /\ CASE state[w] = "RUNNING" -> Go(w, "scan") /\ UNCHANGED owner
          [] state[w] = "WAITING_PROCESS" -> Go(w, "wait") /\ Give({StateMutex(w)})
          [] state[w] = "BLOCKED" -> Go(w, "parked") /\ Give({StateMutex(w)})
     /\ UNCHANGED <<list, pcb, to, counted, state, new_process, flags>>
  \/ /\ At(w, "relock") /\ Free(StateMutex(w))
     /\ Go(w, "top")
     /\ UNCHANGED <<owner, list, pcb, to, counted, state, new_process, flags>>

\* wait_process_blocked and wait_process_susp_ready.
wait_process(w) ==
  \/ /\ At(w, "wait") /\ Free(ListMutex(w))
     /\ Go(w, IF (IF w = Suspender THEN new_process ELSE list["SUSP_READY"] # {})
              THEN "waited" ELSE "cond")
     /\ UNCHANGED <<owner, list, pcb, to, counted, state, new_process, flags>>
  \/ /\ At(w, "waited") /\ Free(ListMutex(w))
     /\ Go(w, IF list[IF w = Suspender THEN "BLOCK" ELSE "SUSP_READY"] = {}
              THEN "relock" ELSE "rerun")
     /\ UNCHANGED <<owner, list, pcb, to, counted, state, new_process, flags>>
  \/ /\ At(w, "rerun") /\ Free(StateMutex(w))
     /\ state' = [state EXCEPT ![w] = IF @ = "WAITING_PROCESS" THEN "RUNNING" ELSE @]
     /\ Go(w, "top")
     /\ UNCHANGED <<owner, list, pcb, to, counted, new_process, flags>>

\* The suspender asks Kernel Memory for sizes with both mutexes held.
get_process_blocked ==
  \/ Locks_and_goes(Suspender, "scan", "block", "sizes")
  \/ /\ At(Suspender, "sizes")
     /\ \/ /\ list["BLOCK"] # {} => Free("km")
           /\ new_process' = FALSE
           /\ state' = [state EXCEPT ![Suspender] = "WAITING_PROCESS"]
           /\ Go(Suspender, "top") /\ UNCHANGED pcb
        \/ /\ Free("km")
           /\ \E p \in list["BLOCK"] : pcb' = [pcb EXCEPT ![Suspender] = p]
           /\ Go(Suspender, "suspend") /\ UNCHANGED <<state, new_process>>
     /\ Give({"block", "suspender"})
     /\ UNCHANGED <<list, to, counted, flags>>

\* With the process's state_mutex held: too early, no longer blocked, refused by
\* Kernel Memory, or suspended, which wakes the resumer.
run_suspend_process ==
  \/ Locks_and_goes(Suspender, "suspend", pcb[Suspender], "suspendable")
  \/ /\ At(Suspender, "suspendable")
     /\ \/ Go(Suspender, "drop")
        \/ pcb[Suspender] \in list["BLOCK"] /\ Free("km") /\ Go(Suspender, "suspended")
     /\ UNCHANGED <<owner, list, pcb, to, counted, state, new_process, flags>>
  \/ /\ At(Suspender, "suspended") /\ Free("block")
     /\ Move(pcb[Suspender], "BLOCK", "SUSP_BLOCK")
     /\ Go(Suspender, IF compaction_active \/ resume_active THEN "drop" ELSE "wake")
     /\ UNCHANGED <<owner, pcb, to, counted, state, new_process, flags>>
  \/ unlock_thread_suspended(Suspender, Resumer, "wake", "drop")
  \/ /\ At(Suspender, "drop")
     /\ Give({pcb[Suspender]}) /\ Go(Suspender, "relock")
     /\ pcb' = [pcb EXCEPT ![Suspender] = None]
     /\ UNCHANGED <<list, to, counted, state, new_process, flags>>

get_process_susp_ready ==
  /\ At(Resumer, "scan") /\ Free("susp_ready")
  /\ IF list["SUSP_READY"] = {}
     THEN /\ state' = [state EXCEPT ![Resumer] = "WAITING_PROCESS"]
          /\ Go(Resumer, "top") /\ UNCHANGED pcb
     ELSE /\ \E p \in list["SUSP_READY"] : pcb' = [pcb EXCEPT ![Resumer] = p]
          /\ Go(Resumer, "lock_pcb") /\ UNCHANGED state
  /\ Give({"resumer"})
  /\ UNCHANGED <<list, to, counted, new_process, flags>>

\* A resumer that fails parks itself.
resume_suspended_process ==
  \/ transition_susp_ready(Resumer, "park_self", "park_self", "relock")
  \/ lock_thread_suspended(Resumer, Resumer, "park_self", "wake_self", "relock")

\* What the process waits for comes.
transition_unlock(p) ==
  /\ Free(p)
  /\ \/ /\ p \in list["BLOCK"] /\ Free("block")
        /\ Move(p, "BLOCK", "READY") /\ UNCHANGED pc
     \/ /\ p \in list["SUSP_BLOCK"] /\ Free("susp_ready")
        /\ Move(p, "SUSP_BLOCK", "SUSP_READY")
        /\ pc' = IF list["SUSP_READY"] = {} /\ At(Resumer, "cond")
                 THEN [pc EXCEPT ![Resumer] = "waited"] ELSE pc
  /\ UNCHANGED <<owner, pcb, to, counted, state, new_process, flags>>

-----------------------------------------------------------------------------
CpuStep(c) ==
  \/ manage_request_process(c) \/ transition_to_exec(c) \/ handle_cycle_cpu_ok(c)
  \/ increment_syscall_counter(c) \/ decrement_syscall_counter(c)
  \/ manage_queue_blocked(c) \/ transition_take_exec(c) \/ enter_list(c)
  \/ allocate_memory(c) \/ receive_km_opcode(c) \/ response_km_mem_alloc(c)
  \/ free_memory(c)
  \/ routine_compaction(c) \/ routine_enter(c) \/ lock_queue_ready(c)
  \/ lock_threads_suspended(c, "drain") \/ wait_queue_exec_empty_with_syscalls(c)
  \/ compaction(c)

RoutineStep(r) ==
  \/ routine_enter(r) \/ lock_threads_suspended(r, "sweep")
  \/ resumption_routine(r) \/ transition_susp_ready(r, "sweep", "sweep_end", "sweep")
  \/ resumption_routine_thread(r)

WorkerStep ==
  \/ \E w \in Worker : thread_suspended(w) \/ wait_process(w)
  \/ get_process_blocked \/ run_suspend_process
  \/ get_process_susp_ready \/ resume_suspended_process

Next ==
  \/ \E c \in Cpu : CpuStep(c)
  \/ \E u \in Unlocker : wait_queue_exec_empty(u) \/ thread_unlock_queue_ready(u)
  \/ \E r \in Routine : RoutineStep(r)
  \/ WorkerStep
  \/ \E p \in Pid : transition_unlock(p)

Spec == Init /\ [][Next]_vars

-----------------------------------------------------------------------------
(***************************************************************************)
(* Who waits for whom.                                                     *)
(***************************************************************************)

\* The mutexes without which a thread cannot take any step, at the labels where
\* a compaction, or what a compaction waits for, can stop.
WantedLock(t) ==
  CASE pc[t] \in {"enter", "take", "drain", "drain_relock"}      -> {"exec"}
    [] pc[t] \in {"take_count", "end_syscall", "drain_count"}    -> {"counter"}
    [] \/ pc[t] \in {"alloc", "free", "notify"}
       \/ At(t, "ask") /\ pcb[t] \in list["SUSP_READY"]
       \/ At(t, "sizes") /\ list["BLOCK"] # {}                   -> {"km"}
    [] At(t, "park_suspender")                                   -> {"suspender"}
    [] At(t, "park_resumer")                                     -> {"resumer"}
    [] At(t, "lock_pcb")                                         -> {pcb[t]}
    [] OTHER                                                     -> {}

\* The threads of which one must act before t can: the owner of the mutex it
\* wants; the thread inside the routine it waits to enter; or, for the
\* compaction that waits for EXEC, the other CPU threads.
WaitsFor(t) ==
  CASE At(t, "enter_routine") -> {in_routine} \ {None}
    [] At(t, "drain_wait")    -> Cpu \ {t}
    [] OTHER                  -> {owner[l] : l \in WantedLock(t)} \ {None, t}

\* No threads wait for one another in a circle.  A compaction is meant to stop
\* every process and then to let everything go on (routine_compaction): the
\* threads it waits for must be able to get where it waits for them.
NoCircularWait ==
  \A S \in SUBSET Thread \ {{}} :
    \E t \in S : WaitsFor(t) = {} \/ ~(WaitsFor(t) \subseteq S)
===============================================================================

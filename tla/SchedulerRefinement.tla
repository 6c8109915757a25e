-------------------------- MODULE SchedulerRefinement --------------------------
(***************************************************************************)
(* Scheduler implements SevenStates: whatever the threads do to lists,     *)
(* locks and caches, a process moves along the seven-state diagram only,   *)
(* and a process that runs leaves EXEC only by the CPU that runs it.  The  *)
(* same invariant, with what it lacks about the queues of waiters, shows   *)
(* that no thread refers to a freed pcb.                                   *)
(***************************************************************************)
EXTENDS SchedulerProofs

-----------------------------------------------------------------------------
(* The refinement mapping, and the moves of the abstract specification.    *)

\* What SevenStates sees of CPU thread c, and of all of them.
Run(c) == IF pcb[c] # NoProc /\ state[pcb[c]] = "EXEC" THEN pcb[c] ELSE NoProc
Mapped == <<state, [c \in CPU |-> Run(c)]>>

AbstractStep == [Abstract!Next]_Mapped

\* A move of the abstract specification is one of its steps.
LEMMA ProcMoves ==
  ASSUME NEW p \in Proc,
         \/ Abstract!Create(p) \/ Abstract!Admit(p) \/ Abstract!Reject(p)
         \/ Abstract!Destroy(p) \/ Abstract!Wake(p) \/ Abstract!Suspend(p)
         \/ Abstract!Resume(p)
  PROVE  AbstractStep
<1>1. Abstract!Next
  BY DEF Abstract!Next
<1> QED BY <1>1 DEF AbstractStep

LEMMA CpuMoves ==
  ASSUME NEW c \in CPU,
         \/ Abstract!Abandon(c)
         \/ \E p \in Proc : Abstract!Dispatch(c, p) \/ Abstract!Leave(c, p)
  PROVE  AbstractStep
<1>1. Abstract!Next
  BY DEF Abstract!Next
<1> QED BY <1>1 DEF AbstractStep

\* At the start the first process is READY and no CPU runs a process.
LEMMA StartsAbstract == Init => Abstract!Init
<1> SUFFICES ASSUME Init PROVE Abstract!Init
  OBVIOUS
<1>1. PICK first \in Proc : state = [p \in Proc |-> IF p = first THEN "READY"
                                                    ELSE "UNBORN"]
  BY DEF Init
<1>2. [c \in CPU |-> IF pcb[c] # NoProc /\ state[pcb[c]] = "EXEC"
                     THEN pcb[c] ELSE NoProc] = [c \in CPU |-> NoProc]
  BY DEF Init
<1> QED BY <1>1, <1>2 DEF Abstract!Init

\* A step that moves no process and takes none from a CPU.
LEMMA Stutters ==
  ASSUME state' = state, \A c \in CPU : Run(c)' = Run(c)
  PROVE  AbstractStep
BY DEF AbstractStep, Mapped, Run

\* The state fields and the CPU threads' pcbs are as before.
Still == UNCHANGED <<state, pcb>>

LEMMA StillStutters == Still => AbstractStep
BY Stutters DEF Still, Run

\* CPU thread c gives up its process; the process keeps its state.
LEMMA Abandons ==
  ASSUME NEW c \in CPU, pcb \in [CPU -> Proc \cup {NoProc}],
         state' = state, pcb' = [pcb EXCEPT ![c] = NoProc]
  PROVE  AbstractStep
<1> DEFINE R == [e \in CPU |-> IF pcb[e] # NoProc /\ state[pcb[e]] = "EXEC"
                               THEN pcb[e] ELSE NoProc]
<1>1. R' = [R EXCEPT ![c] = NoProc]
  OBVIOUS
<1>2. Abstract!Abandon(c)
  BY <1>1 DEF Abstract!Abandon
<1> QED BY <1>2, CpuMoves

\* The moves of the diagram that neither begin nor end in EXEC.
Diagram == {<<"UNBORN", "NEW">>, <<"NEW", "READY">>, <<"NEW", "DESTROYED">>,
            <<"EXIT", "DESTROYED">>, <<"BLOCK", "READY">>,
            <<"SUSP_BLOCK", "SUSP_READY">>, <<"BLOCK", "SUSP_BLOCK">>,
            <<"SUSP_READY", "READY">>}

\* Such a move, of a process that no CPU runs, is one of the abstract ones.
LEMMA Moves ==
  ASSUME NEW p \in Proc, NEW to, <<state[p], to>> \in Diagram,
         state \in [Proc -> State], pcb \in [CPU -> Proc \cup {NoProc}],
         state' = [state EXCEPT ![p] = to],
         \/ pcb' = pcb
         \/ \E c \in CPU : pcb[c] = p /\ pcb' = [pcb EXCEPT ![c] = NoProc]
  PROVE  AbstractStep
<1> DEFINE R == [e \in CPU |-> IF pcb[e] # NoProc /\ state[pcb[e]] = "EXEC"
                               THEN pcb[e] ELSE NoProc]
<1>1. state[p] # "EXEC" /\ to # "EXEC"
  BY DEF Diagram
<1>2. R' = R
  <2> SUFFICES ASSUME NEW d \in CPU PROVE R'[d] = R[d]
    OBVIOUS
  <2>1. CASE pcb[d] = p
    BY <1>1, <2>1
  <2>2. CASE pcb[d] # p
    <3>1. pcb'[d] = pcb[d]
      BY <2>2
    <3>2. pcb[d] # NoProc => state'[pcb[d]] = state[pcb[d]]
      BY <2>2
    <3> QED BY <3>1, <3>2
  <2> QED BY <2>1, <2>2
<1> HIDE DEF R
<1>3. \/ Abstract!Create(p) \/ Abstract!Admit(p) \/ Abstract!Reject(p)
      \/ Abstract!Destroy(p) \/ Abstract!Wake(p) \/ Abstract!Suspend(p)
      \/ Abstract!Resume(p)
  BY <1>2 DEF Diagram, R, Abstract!Create, Abstract!Admit, Abstract!Reject,
              Abstract!Destroy, Abstract!Wake, Abstract!Suspend, Abstract!Resume,
              Abstract!Move
<1> QED BY <1>3, ProcMoves

-----------------------------------------------------------------------------
(* The steps of the threads.                                               *)

\* The types the moves need.
LEMMA StateTypes ==
  ASSUME IndInv
  PROVE  /\ state \in [Proc -> State] /\ pcb \in [CPU -> Proc \cup {NoProc}]
         /\ target \in [Thread -> Proc \cup {NoProc}] /\ pc \in [Thread -> PC]
BY DEF IndInv, TypeOK

\* transition_ready_exec: the process was READY, and no other CPU has it.
LEMMA DispatchStep ==
  ASSUME IndInv, NEW c \in CPU, transition_ready_exec(c)
  PROVE  AbstractStep
<1> DEFINE R == [e \in CPU |-> IF pcb[e] # NoProc /\ state[pcb[e]] = "EXEC"
                               THEN pcb[e] ELSE NoProc]
<1>1. PICK p \in Proc : p = pcb[c] /\ p # NoProc /\ state[p] = "READY"
  BY CpuFacts, ThreadFacts DEF transition_ready_exec, CpuControl, Inheriting, OwnProcess
<1>2. \A d \in CPU \ {c} : pcb[d] # p
  BY <1>1, CpuFacts, ThreadFacts DEF Owns, Moving
<1>3. state' = [state EXCEPT ![p] = "EXEC"] /\ pcb' = pcb
  BY <1>1 DEF transition_ready_exec, cpuVars
<1>4. R[c] = NoProc /\ \A d \in CPU : R[d] # p
  BY <1>1, <1>2
<1>5. R' = [R EXCEPT ![c] = p]
  BY <1>1, <1>2, <1>3, StateTypes
<1>6. Abstract!Dispatch(c, p)
  BY <1>1, <1>3, <1>4, <1>5 DEF Abstract!Dispatch, Abstract!Move
<1> QED BY <1>6, CpuMoves

\* leave_exec: the process the CPU runs leaves EXEC.
LEMMA LeaveStep ==
  ASSUME IndInv, NEW c \in CPU, leave_exec(c)
  PROVE  AbstractStep
<1> DEFINE R == [e \in CPU |-> IF pcb[e] # NoProc /\ state[pcb[e]] = "EXEC"
                               THEN pcb[e] ELSE NoProc]
<1>1. PICK p \in Proc : p = pcb[c] /\ p # NoProc /\ state[p] = "EXEC"
  BY CpuFacts, ThreadFacts
     DEF leave_exec, Destination, CpuControl, Inheriting, OwnProcess, OnCpu
<1>2. \A d \in CPU \ {c} : pcb[d] # p
  BY <1>1, CpuFacts, ThreadFacts DEF Owns, Moving
<1>3. PICK to \in {"READY", "BLOCK", "EXIT"} : state' = [state EXCEPT ![p] = to]
  BY <1>1 DEF leave_exec, Destination
<1>4. pcb' = pcb
  BY <1>1 DEF leave_exec, cpuVars
<1>5. R[c] = p /\ R' = [R EXCEPT ![c] = NoProc]
  BY <1>1, <1>2, <1>3, <1>4, StateTypes
<1>6. Abstract!Leave(c, p)
  BY <1>1, <1>3, <1>5 DEF Abstract!Leave, Abstract!Move
<1> QED BY <1>6, CpuMoves

\* manage_request_process: the thread had no process, and the one it takes
\* out of READY does not run yet.
LEMMA RequestStep ==
  ASSUME IndInv, NEW c \in CPU, manage_request_process(c)
  PROVE  AbstractStep
<1>0. /\ pcb \in [CPU -> Proc \cup {NoProc}] /\ pcb[c] = NoProc /\ state' = state
  BY StateTypes, CpuFacts DEF manage_request_process, CpuControl, Inheriting, pcbVars
<1>1. CASE pcb' = [pcb EXCEPT ![c] = NoProc]
  BY <1>0, <1>1, Abandons
<1>2. CASE \E p \in Proc : /\ transition_take_ready_next(p)
                           /\ pcb' = [pcb EXCEPT ![c] = p]
  <2>1. PICK p \in Proc : /\ transition_take_ready_next(p)
                          /\ pcb' = [pcb EXCEPT ![c] = p]
    BY <1>2
  <2>2. Queued(p)
    BY <2>1, TakeNext DEF IndInv
  <2>3. state[p] = "READY"
    BY <2>2 DEF IndInv, Placed, Listed
  <2> QED BY <1>0, <2>1, <2>3, Stutters DEF Run
<1> QED BY <1>1, <1>2 DEF manage_request_process, close_thread_cpu

\* A thread that ends, or that takes the process it dispatches next.
LEMMA CloseStep ==
  ASSUME IndInv, NEW c \in CPU, transition_to_exec(c) \/ send_preemption(c)
  PROVE  AbstractStep
<1>1. /\ pcb \in [CPU -> Proc \cup {NoProc}] /\ state' = state
      /\ pcb' = pcb \/ pcb' = [pcb EXCEPT ![c] = NoProc]
  BY StateTypes DEF transition_to_exec, send_preemption, close_thread_cpu,
                    RunUnchanged, pcbVars
<1> QED BY <1>1, Abandons, StillStutters DEF Still

LEMMA EnterStep ==
  ASSUME IndInv, NEW c \in CPU, enter_list(c)
  PROVE  AbstractStep
<1>0. /\ pcb \in [CPU -> Proc \cup {NoProc}] /\ state' = state
      /\ pcb[c] # NoProc /\ state[pcb[c]] \in {"READY", "BLOCK", "EXIT"}
  BY StateTypes, CpuFacts DEF enter_list, CpuControl, Inheriting, OwnProcess
<1>1. \/ pcb' = pcb \/ pcb' = [pcb EXCEPT ![c] = NoProc]
      \/ target[c] # NoProc /\ pcb' = [pcb EXCEPT ![c] = target[c]]
  BY <1>0 DEF enter_list, EndExecReady, EndHandler, close_thread_cpu, cpuVars
<1>2. target[c] # NoProc => state[target[c]] = "READY"
  BY CpuFacts DEF enter_list, NextProcess, Replacing
<1> QED BY <1>0, <1>1, <1>2, Stutters DEF Run

\* transition_to_exit: EXIT leads nowhere else.
LEMMA ExitStep ==
  ASSUME IndInv, NEW c \in CPU, transition_to_exit(c)
  PROVE  AbstractStep
<1>1. PICK p \in Proc : p = pcb[c] /\ state[p] = "EXIT"
  BY CpuFacts DEF transition_to_exit, CpuControl, Inheriting, OwnProcess
<1>2. /\ state' = [state EXCEPT ![p] = "DESTROYED"]
      /\ pcb' = [pcb EXCEPT ![c] = NoProc]
  BY <1>1 DEF transition_to_exit
<1>3. \E d \in CPU : pcb[d] = p /\ pcb' = [pcb EXCEPT ![d] = NoProc]
  BY <1>1, <1>2
<1>4. <<state[p], "DESTROYED">> \in Diagram
  BY <1>1 DEF Diagram
<1> QED BY <1>2, <1>3, <1>4, StateTypes, Moves

\* START_PROCESS and its answer.
LEMMA StartStep ==
  ASSUME IndInv, NEW c \in CPU,
         \/ \E p \in Proc, n \in Priority : handle_syscall_start_process(c, p, n)
         \/ transition_new_ready(c)
  PROVE  AbstractStep
<1>1. ASSUME NEW p \in Proc, NEW n \in Priority, handle_syscall_start_process(c, p, n)
      PROVE  AbstractStep
  <2>1. /\ state[p] = "UNBORN" /\ state' = [state EXCEPT ![p] = "NEW"]
        /\ pcb' = pcb
    BY <1>1 DEF handle_syscall_start_process, cpuVars
  <2>2. <<state[p], "NEW">> \in Diagram
    BY <2>1 DEF Diagram
  <2> QED BY <2>1, <2>2, StateTypes, Moves
<1>2. CASE transition_new_ready(c)
  <2>1. PICK p \in Proc : p = target[c] /\ state[p] = "NEW"
    BY <1>2, CpuFacts DEF transition_new_ready, CpuControl, Inheriting, NextProcess
  <2>2. PICK to \in {"READY", "DESTROYED"} : state' = [state EXCEPT ![p] = to]
    BY <1>2, <2>1 DEF transition_new_ready
  <2>3. pcb' = pcb
    BY <1>2 DEF transition_new_ready, cpuVars
  <2>4. <<state[p], to>> \in Diagram
    BY <2>1 DEF Diagram
  <2> QED BY <2>2, <2>3, <2>4, StateTypes, Moves
<1> QED BY <1>1, <1>2

\* The moves on behalf of another process.
LEMMA WakeStep ==
  ASSUME IndInv, NEW t \in CPU \cup IO, transition_unlock(t)
  PROVE  AbstractStep
<1>1. PICK p \in Proc : p = target[t]
  BY TargetFacts DEF transition_unlock, Thread
<1>2. pcb' = pcb
  BY DEF transition_unlock, cpuVars
<1>3. \/ state[p] = "BLOCK" /\ state' = [state EXCEPT ![p] = "READY"]
      \/ state[p] = "SUSP_BLOCK" /\ state' = [state EXCEPT ![p] = "SUSP_READY"]
  BY <1>1 DEF transition_unlock
<1> QED BY <1>1, <1>2, <1>3, StateTypes, Moves DEF Diagram

LEMMA MediumStep ==
  ASSUME IndInv, \/ run_suspend_process \/ resume_suspended_process
                 \/ remove_of_the_list
  PROVE  AbstractStep
<1>1. CASE run_suspend_process
  <2>1. PICK p \in Proc : p = target[Suspender]
    BY <1>1, TargetFacts, ThreadFacts DEF run_suspend_process
  <2>2. pcb' = pcb
    BY <1>1 DEF run_suspend_process, cpuVars
  <2>3. \/ state[p] = "BLOCK" /\ state' = [state EXCEPT ![p] = "SUSP_BLOCK"]
        \/ state' = state
    BY <1>1, <2>1 DEF run_suspend_process
  <2> QED BY <2>1, <2>2, <2>3, StateTypes, Moves, StillStutters DEF Diagram, Still
<1>2. ASSUME NEW t \in {Resumer, Resumption}, pc[t] = "resume", pcb' = pcb,
             state' = state \/ ResumeTarget(t)
      PROVE  AbstractStep
  <2>1. PICK p \in Proc : p = target[t]
    BY <1>2, TargetFacts, ThreadFacts
  <2>2. \/ state[p] = "SUSP_READY" /\ state' = [state EXCEPT ![p] = "READY"]
        \/ state' = state
    BY <1>2, <2>1 DEF ResumeTarget
  <2> QED BY <1>2, <2>1, <2>2, StateTypes, Moves, StillStutters DEF Diagram, Still
<1>3. CASE resume_suspended_process
  <2>1. pc[Resumer] = "resume" /\ pcb' = pcb /\ (state' = state \/ ResumeTarget(Resumer))
    BY <1>3 DEF resume_suspended_process, cpuVars
  <2> QED BY <1>2, <2>1
<1>4. CASE remove_of_the_list
  <2>1. /\ pc[Resumption] = "resume" /\ pcb' = pcb
        /\ state' = state \/ ResumeTarget(Resumption)
    BY <1>4 DEF remove_of_the_list, cpuVars
  <2> QED BY <1>2, <2>1
<1> QED BY <1>1, <1>3, <1>4

\* The steps that leave every state field and every CPU's process alone.
LEMMA CpuStill ==
  ASSUME NEW c \in CPU,
         \/ handle_new_cpu(c) \/ update_lowest_exec_priority(c)
         \/ mutex_lock_lowest(c) \/ manage_queue_blocked(c)
         \/ manage_end_quantum(c) \/ is_lowest_priority_in_exec(c)
         \/ manage_preemption_priority(c) \/ handle_cycle_cpu_ok(c)
         \/ handle_syscall_memory_free(c) \/ handle_invalid_syscall(c)
         \/ handle_syscall_exit(c) \/ enqueue_io_request(c)
         \/ mutex_lock(c) \/ handle_syscall_mutex_lock(c)
         \/ update_priority(c) \/ update_priority_end(c)
         \/ \E d \in IO : handle_syscall_io(c, d)
         \/ \E n \in Priority : replace_priority(c, n)
         \/ \E n \in Priority : handle_syscall_mutex_unlock(c, n)
  PROVE  AbstractStep
<1>1. Still
  BY DEF Still, handle_new_cpu, update_lowest_exec_priority, mutex_lock_lowest,
         manage_queue_blocked, manage_end_quantum, is_lowest_priority_in_exec,
         manage_preemption_priority, handle_cycle_cpu_ok,
         handle_syscall_memory_free, handle_invalid_syscall, handle_syscall_exit,
         enqueue_io_request, mutex_lock, handle_syscall_mutex_lock,
         update_priority, update_priority_end, handle_syscall_io, replace_priority,
         handle_syscall_mutex_unlock, RunUnchanged, pcbVars, cpuVars
<1> QED BY <1>1, StillStutters

LEMMA OtherStill ==
  ASSUME \/ \E t \in Thread : \/ transition_unlock_refused(t)
                              \/ transition_unlock_end(t)
                              \/ suspension_end(t)
                              \/ decrement_active_instances(t)
         \/ \E d \in IO : \/ io_thread(d) \/ finalize_io(d) \/ io_failure(d)
                          \/ close_thread_io(d) \/ log_finished(d)
         \/ get_process_blocked \/ get_process_susp_ready
         \/ resumption_routine \/ sweep_head \/ remove_of_the_list_end
         \/ create_resumption_routine_thread \/ compaction_gate
  PROVE  AbstractStep
<1>1. Still
  BY DEF Still, transition_unlock_refused, transition_unlock_end, suspension_end,
         decrement_active_instances, io_thread, finalize_io, io_failure,
         close_thread_io, log_finished, get_process_blocked,
         get_process_susp_ready, get_process, resumption_routine, sweep_head,
         remove_of_the_list_end, create_resumption_routine_thread, compaction_gate,
         RunUnchanged, pcbVars, cpuVars
<1> QED BY <1>1, StillStutters

\* Every step of every thread is a step of the abstract specification.
LEMMA EveryStep ==
  ASSUME IndInv, Next
  PROVE  AbstractStep
<1>1. ASSUME NEW c \in CPU, handle_new_cpu(c) \/ CpuStep(c) \/ Syscall(c)
      PROVE  AbstractStep
  <2>0. c \in Thread /\ c \in CPU \cup IO
    BY ThreadFacts
  <2> QED BY <1>1, <2>0, CpuStill, OtherStill, DispatchStep, LeaveStep, RequestStep,
          CloseStep, EnterStep, ExitStep, StartStep, WakeStep DEF CpuStep, Syscall
<1>2. ASSUME NEW d \in IO, IoStep(d) PROVE AbstractStep
  <2>0. d \in Thread /\ d \in CPU \cup IO
    BY ThreadFacts
  <2> QED BY <1>2, <2>0, OtherStill, WakeStep DEF IoStep
<1>3. CASE \/ SuspenderStep \/ ResumerStep \/ ResumptionStep
           \/ create_resumption_routine_thread \/ compaction_gate
  <2>0. Suspender \in Thread /\ Resumer \in Thread
    BY ThreadFacts
  <2> QED BY <1>3, <2>0, OtherStill, MediumStep
          DEF SuspenderStep, ResumerStep, ResumptionStep
<1> QED BY <1>1, <1>2, <1>3 DEF Next

\* Every step of every thread is a legal move of at most one process, and
\* only the CPU that runs a process takes it out of EXEC, whatever the
\* number of processes, CPUs, IO interfaces and levels.
THEOREM Refines == Spec /\ [][LevelsKept]_vars => RefinesSevenStates
<1>1. Init => Abstract!Init
  BY StartsAbstract
<1>2. IndInv /\ [Next]_vars =>
        [Abstract!Next]_<<state, [c \in CPU |->
                            IF pcb[c] # NoProc /\ state[pcb[c]] = "EXEC"
                            THEN pcb[c] ELSE NoProc]>>
  <2>1. IndInv /\ Next => AbstractStep
    BY EveryStep
  <2>2. UNCHANGED vars => AbstractStep
    BY StillStutters DEF vars, pcbVars, cpuVars, Still
  <2> QED BY <2>1, <2>2 DEF AbstractStep, Mapped, Run
<1>3. Spec /\ [][LevelsKept]_vars => []IndInv
  BY Inductive
<1> QED BY <1>1, <1>2, <1>3, PTL DEF Spec, RefinesSevenStates, Abstract!Spec

-----------------------------------------------------------------------------
(* The queues of waiters.                                                  *)

\* Waking c's own process would be a second owner: a running thread's
\* process is not waiting, unless the thread is about to block it.
LEMMA RunsUnawaited ==
  ASSUME IndInv, WaitsOnce, NEW c \in CPU, NEW p \in Proc,
         pcb[c] = p, pc[c] # "exec_block", state[p] = "EXEC"
  PROVE  p \notin mutex_list /\ \A t \in CPU \cup IO : ~Awaits(t, p)
<1>1. \A d \in CPU : pcb[d] = p => d = c
  BY ThreadFacts DEF IndInv, Placed, Exclusive, Owns, Moving
<1>2. ~Blocked(p)
  BY <1>1 DEF Blocked
<1> QED BY <1>2 DEF WaitsOnce

\* A step that adds no waiter, leaves a thread that is about to block its
\* process alone and wakes nobody.
Calm ==
  /\ mutex_list' \in SUBSET mutex_list
  /\ \A t \in CPU \cup IO : \A p \in Proc : Awaits(t, p)' => Awaits(t, p)
  /\ \A d \in IO : pc'[d] = "unlock" => pc[d] = "unlock" /\ target'[d] = target[d]
  /\ \A d \in IO : io_list'[d] = io_list[d]
  /\ \A c \in CPU : pc[c] = "exec_block" => pc'[c] = pc[c] /\ pcb'[c] = pcb[c]
  /\ \A q \in Proc : state[q] \in {"BLOCK", "SUSP_BLOCK", "EXEC"} =>
                       \/ state'[q] = state[q]
                       \/ state[q] = "BLOCK" /\ state'[q] = "SUSP_BLOCK"

LEMMA CalmWaits ==
  ASSUME WaitsOnce, Calm, mutex_list \in SUBSET Proc
  PROVE  WaitsOnce'
<1>1. ASSUME NEW p \in Proc, Blocked(p) PROVE Blocked(p)'
  <2>1. CASE state[p] \in {"BLOCK", "SUSP_BLOCK"}
    BY <2>1 DEF Blocked, Calm
  <2>2. CASE state[p] = "EXEC" /\ \E c \in CPU : pcb[c] = p /\ pc[c] = "exec_block"
    BY <2>2 DEF Blocked, Calm
  <2> QED BY <1>1, <2>1, <2>2 DEF Blocked
<1>2. \A p \in mutex_list' : Blocked(p)'
  BY <1>1 DEF WaitsOnce, Calm
<1>3. ASSUME NEW t \in CPU \cup IO, NEW p \in Proc, Awaits(t, p)'
      PROVE  /\ Blocked(p)' /\ p \notin mutex_list'
             /\ \A u \in CPU \cup IO : Awaits(u, p)' => u = t
  <2>1. Awaits(t, p) /\ \A u \in CPU \cup IO : Awaits(u, p)' => Awaits(u, p)
    BY <1>3 DEF Calm
  <2>2. Blocked(p) /\ p \notin mutex_list
        /\ \A u \in CPU \cup IO : Awaits(u, p) => u = t
    BY <2>1 DEF WaitsOnce
  <2> QED BY <1>1, <2>1, <2>2 DEF Calm
<1>4. \A d \in IO : pc'[d] = "unlock" => target'[d] \notin io_list'[d]
  BY DEF WaitsOnce, Calm
<1> QED BY <1>2, <1>3, <1>4 DEF WaitsOnce

\* The usual shape of such a step: only thread s moves, to a label at which
\* it wakes nobody.
LEMMA QuietlyCalm ==
  ASSUME IndInv, NEW s \in Thread,
         pc[s] # "exec_block", pc'[s] \notin {"unlock", "serving"},
         \A t \in Thread \ {s} : /\ pc'[t] = pc[t] \/ t = Resumption
                                 /\ target'[t] = target[t]
                                 /\ t \in CPU => pcb'[t] = pcb[t],
         UNCHANGED <<io_list, mutex_list>>,
         \A q \in Proc : state[q] \in {"BLOCK", "SUSP_BLOCK", "EXEC"} =>
                       \/ state'[q] = state[q]
                       \/ state[q] = "BLOCK" /\ state'[q] = "SUSP_BLOCK"
  PROVE  Calm
<1>1. ASSUME NEW t \in CPU \cup IO, NEW p \in Proc, Awaits(t, p)' PROVE Awaits(t, p)
  <2>1. t \in Thread /\ t # Resumption
    BY ThreadFacts
  <2>2. CASE t = s
    BY <1>1, <2>2 DEF Awaits
  <2>3. CASE t # s
    BY <1>1, <2>1, <2>3 DEF Awaits
  <2> QED BY <2>2, <2>3
<1>2. \A d \in IO : pc'[d] = "unlock" => pc[d] = "unlock" /\ target'[d] = target[d]
  BY ThreadFacts
<1>3. \A c \in CPU : pc[c] = "exec_block" => pc'[c] = pc[c] /\ pcb'[c] = pcb[c]
  BY ThreadFacts
<1> QED BY <1>1, <1>2, <1>3 DEF Calm

\* The steps of a CPU thread that change no state field.
LEMMA CpuCalm ==
  ASSUME IndInv, NEW c \in CPU,
         \/ handle_new_cpu(c) \/ manage_request_process(c) \/ transition_to_exec(c)
         \/ update_lowest_exec_priority(c) \/ enter_list(c) \/ mutex_lock_lowest(c)
         \/ manage_queue_blocked(c) \/ manage_end_quantum(c)
         \/ is_lowest_priority_in_exec(c) \/ manage_preemption_priority(c)
         \/ send_preemption(c) \/ handle_cycle_cpu_ok(c)
         \/ handle_syscall_memory_free(c) \/ handle_invalid_syscall(c)
         \/ handle_syscall_exit(c) \/ mutex_lock(c) \/ handle_syscall_mutex_lock(c)
         \/ \E d \in IO : handle_syscall_io(c, d)
         \/ \E n \in Priority : replace_priority(c, n)
         \/ update_priority(c) \/ update_priority_end(c)
         \/ transition_unlock_refused(c) \/ transition_unlock_end(c)
  PROVE  Calm
<1>0. /\ pc \in [Thread -> PC] /\ target \in [Thread -> Proc \cup {NoProc}]
      /\ pcb \in [CPU -> Proc \cup {NoProc}] /\ c \in Thread /\ c # Resumption
      /\ Resumption \in Thread
  BY ThreadFacts DEF IndInv, TypeOK
<1>1. /\ pc[c] # "exec_block" /\ UNCHANGED <<state, io_list, mutex_list>>
  BY DEF handle_new_cpu, manage_request_process, transition_to_exec,
         update_lowest_exec_priority, enter_list, mutex_lock_lowest,
         manage_queue_blocked, manage_end_quantum, is_lowest_priority_in_exec,
         manage_preemption_priority, send_preemption, handle_cycle_cpu_ok,
         handle_syscall_memory_free, handle_invalid_syscall, handle_syscall_exit,
         mutex_lock, handle_syscall_mutex_lock, handle_syscall_io,
         replace_priority, update_priority, update_priority_end,
         transition_unlock_refused, transition_unlock_end, RunUnchanged, pcbVars,
         ioVars
<1>2. /\ pc'[c] \notin {"unlock", "serving"}
      /\ \A t \in Thread \ {c} : /\ pc'[t] = pc[t] \/ t = Resumption
                                 /\ target'[t] = target[t]
      /\ \A t \in CPU \ {c} : pcb'[t] = pcb[t]
  <2>1. CASE manage_request_process(c) \/ transition_to_exec(c) \/ send_preemption(c)
    BY <1>0, <2>1 DEF manage_request_process, transition_to_exec, send_preemption,
                      close_thread_cpu, Goto
  <2>2. CASE enter_list(c)
    BY <1>0, <2>2 DEF enter_list, EndExecReady, EndHandler, close_thread_cpu,
                      cpuVars, Goto
  <2>3. CASE transition_unlock_refused(c) \/ transition_unlock_end(c)
    BY <1>0, <2>3, ThreadFacts
       DEF transition_unlock_refused, transition_unlock_end, AfterUnlock, cpuVars, Goto
  <2>4. CASE manage_preemption_priority(c) \/ is_lowest_priority_in_exec(c)
    BY <1>0, <2>4 DEF manage_preemption_priority, is_lowest_priority_in_exec, Goto
  <2>5. CASE \/ handle_new_cpu(c) \/ update_lowest_exec_priority(c)
             \/ mutex_lock_lowest(c) \/ manage_queue_blocked(c)
             \/ manage_end_quantum(c)
    BY <1>0, <2>5 DEF handle_new_cpu, update_lowest_exec_priority,
         mutex_lock_lowest, manage_queue_blocked, manage_end_quantum, cpuVars, Goto
  <2>6. CASE \/ handle_cycle_cpu_ok(c) \/ handle_syscall_memory_free(c)
             \/ handle_invalid_syscall(c) \/ handle_syscall_exit(c)
             \/ mutex_lock(c) \/ handle_syscall_mutex_lock(c)
             \/ \E d \in IO : handle_syscall_io(c, d)
    BY <1>0, <2>6 DEF handle_cycle_cpu_ok, handle_syscall_memory_free,
         handle_invalid_syscall, handle_syscall_exit, mutex_lock,
         handle_syscall_mutex_lock, handle_syscall_io, cpuVars, Goto
  <2>7. CASE \/ \E n \in Priority : replace_priority(c, n)
             \/ update_priority(c) \/ update_priority_end(c)
    BY <1>0, <2>7 DEF replace_priority, update_priority, update_priority_end,
         propagate_priority_transitive, cpuVars, Goto
  <2> QED BY <2>1, <2>2, <2>3, <2>4, <2>5, <2>6, <2>7
<1> QED BY <1>0, <1>1, <1>2, QuietlyCalm

\* The steps of a CPU thread that move a process nobody can be waiting for.
LEMMA CpuMovesCalm ==
  ASSUME IndInv, NEW c \in CPU,
         \/ transition_ready_exec(c) \/ transition_to_exit(c)
         \/ \E p \in Proc, n \in Priority : handle_syscall_start_process(c, p, n)
         \/ transition_new_ready(c)
  PROVE  Calm
<1>0. /\ pc \in [Thread -> PC] /\ target \in [Thread -> Proc \cup {NoProc}]
      /\ pcb \in [CPU -> Proc \cup {NoProc}] /\ c \in Thread /\ c # Resumption
      /\ Resumption \in Thread /\ state \in [Proc -> State]
  BY ThreadFacts DEF IndInv, TypeOK
<1>1. /\ pc[c] # "exec_block" /\ UNCHANGED <<io_list, mutex_list>>
  BY DEF transition_ready_exec, transition_to_exit, handle_syscall_start_process,
         transition_new_ready, ioVars
<1>2. /\ pc'[c] \notin {"unlock", "serving"}
      /\ \A t \in Thread \ {c} : /\ pc'[t] = pc[t] \/ t = Resumption
                                 /\ target'[t] = target[t]
      /\ \A t \in CPU \ {c} : pcb'[t] = pcb[t]
  BY <1>0 DEF transition_ready_exec, transition_to_exit,
              handle_syscall_start_process, transition_new_ready, cpuVars, Goto
<1>3. \A q \in Proc : state[q] \in {"BLOCK", "SUSP_BLOCK", "EXEC"} =>
                        state'[q] = state[q]
  <2>1. CASE transition_ready_exec(c)
    BY <1>0, <2>1 DEF transition_ready_exec
  <2>2. CASE transition_to_exit(c)
    <3>1. pcb[c] \in Proc /\ state[pcb[c]] = "EXIT"
      BY <2>2, CpuFacts DEF transition_to_exit, CpuControl, Inheriting, OwnProcess
    <3> QED BY <1>0, <2>2, <3>1 DEF transition_to_exit
  <2>3. CASE \E p \in Proc, n \in Priority : handle_syscall_start_process(c, p, n)
    BY <1>0, <2>3 DEF handle_syscall_start_process
  <2>4. CASE transition_new_ready(c)
    <3>1. target[c] \in Proc /\ state[target[c]] = "NEW"
      BY <2>4, CpuFacts DEF transition_new_ready, CpuControl, Inheriting, NextProcess
    <3> QED BY <1>0, <2>4, <3>1 DEF transition_new_ready
  <2> QED BY <2>1, <2>2, <2>3, <2>4
<1> QED BY <1>0, <1>1, <1>2, <1>3, QuietlyCalm

\* The calm steps of the other threads.
LEMMA OthersCalm ==
  ASSUME IndInv,
         \/ \E d \in IO : \/ io_failure(d) \/ transition_unlock_refused(d)
                          \/ transition_unlock_end(d) \/ log_finished(d)
         \/ SuspenderStep \/ ResumerStep \/ ResumptionStep
         \/ create_resumption_routine_thread
  PROVE  Calm
<1>0. /\ pc \in [Thread -> PC] /\ target \in [Thread -> Proc \cup {NoProc}]
      /\ pcb \in [CPU -> Proc \cup {NoProc}] /\ state \in [Proc -> State]
      /\ Suspender \in Thread /\ Resumer \in Thread /\ Resumption \in Thread
  BY ThreadFacts DEF IndInv, TypeOK
<1>1. ASSUME NEW d \in IO,
             \/ io_failure(d) \/ transition_unlock_refused(d)
             \/ transition_unlock_end(d) \/ log_finished(d)
      PROVE  Calm
  <2>0. d \in Thread
    BY ThreadFacts
  <2>1. /\ pc[d] # "exec_block" /\ UNCHANGED <<state, io_list, mutex_list>>
        /\ pc'[d] \notin {"unlock", "serving"}
        /\ \A t \in Thread \ {d} : pc'[t] = pc[t] /\ target'[t] = target[t]
        /\ \A t \in CPU : pcb'[t] = pcb[t]
    BY <1>0, <1>1, <2>0, ThreadFacts DEF io_failure, transition_unlock_refused,
         transition_unlock_end, log_finished, AfterUnlock, RunUnchanged, pcbVars,
         ioVars, cpuVars, Goto
  <2> QED BY <2>0, <2>1, QuietlyCalm
<1>2. CASE SuspenderStep
  <2>1. /\ pc[Suspender] # "exec_block" /\ UNCHANGED <<io_list, mutex_list>>
        /\ pc'[Suspender] \notin {"unlock", "serving"}
        /\ \A t \in Thread \ {Suspender} : pc'[t] = pc[t] /\ target'[t] = target[t]
        /\ \A t \in CPU : pcb'[t] = pcb[t]
    BY <1>0, <1>2 DEF SuspenderStep, get_process_blocked, get_process,
         run_suspend_process, suspension_end, decrement_active_instances,
         pcbVars, ioVars, cpuVars, Goto
  <2>2. \A q \in Proc : state[q] \in {"BLOCK", "SUSP_BLOCK", "EXEC"} =>
          \/ state'[q] = state[q]
          \/ state[q] = "BLOCK" /\ state'[q] = "SUSP_BLOCK"
    BY <1>0, <1>2 DEF SuspenderStep, get_process_blocked, get_process,
         run_suspend_process, suspension_end, decrement_active_instances
  <2> QED BY <1>0, <2>1, <2>2, QuietlyCalm
<1>3. CASE ResumerStep
  <2>1. /\ pc[Resumer] # "exec_block" /\ UNCHANGED <<io_list, mutex_list>>
        /\ pc'[Resumer] \notin {"unlock", "serving"}
        /\ \A t \in Thread \ {Resumer} : pc'[t] = pc[t] /\ target'[t] = target[t]
        /\ \A t \in CPU : pcb'[t] = pcb[t]
    BY <1>0, <1>3 DEF ResumerStep, get_process_susp_ready, get_process,
         resume_suspended_process, ResumeTarget, suspension_end,
         decrement_active_instances, pcbVars, ioVars, cpuVars, Goto
  <2>2. \A q \in Proc : state[q] \in {"BLOCK", "SUSP_BLOCK", "EXEC"} =>
                          state'[q] = state[q]
    BY <1>0, <1>3 DEF ResumerStep, get_process_susp_ready, get_process,
         resume_suspended_process, ResumeTarget, suspension_end,
         decrement_active_instances
  <2> QED BY <1>0, <2>1, <2>2, QuietlyCalm
<1>4. CASE ResumptionStep \/ create_resumption_routine_thread
  <2>1. /\ pc[Resumption] # "exec_block" /\ UNCHANGED <<io_list, mutex_list>>
        /\ pc'[Resumption] \notin {"unlock", "serving"}
        /\ \A t \in Thread \ {Resumption} : pc'[t] = pc[t] /\ target'[t] = target[t]
        /\ \A t \in CPU : pcb'[t] = pcb[t]
    BY <1>0, <1>4 DEF ResumptionStep, resumption_routine, sweep_head,
         remove_of_the_list, ResumeTarget, remove_of_the_list_end,
         create_resumption_routine_thread, RunUnchanged, ioVars, cpuVars, Goto
  <2>2. \A q \in Proc : state[q] \in {"BLOCK", "SUSP_BLOCK", "EXEC"} =>
                          state'[q] = state[q]
    BY <1>0, <1>4 DEF ResumptionStep, resumption_routine, sweep_head,
         remove_of_the_list, ResumeTarget, remove_of_the_list_end,
         create_resumption_routine_thread, RunUnchanged, pcbVars
  <2> QED BY <1>0, <2>1, <2>2, QuietlyCalm
<1> QED BY <1>1, <1>2, <1>3, <1>4

\* A step that concerns one waiter, p.
LEMMA WaiterMoves ==
  ASSUME WaitsOnce, NEW p \in Proc, mutex_list \in SUBSET Proc,
         mutex_list' \in SUBSET (mutex_list \cup {p}),
         \A q \in Proc \ {p} :
           /\ Blocked(q) => Blocked(q)'
           /\ \A t \in CPU \cup IO : Awaits(t, q)' => Awaits(t, q),
         p \in mutex_list' => Blocked(p)',
         \A t \in CPU \cup IO :
           Awaits(t, p)' => /\ Blocked(p)' /\ p \notin mutex_list'
                            /\ \A u \in CPU \cup IO : Awaits(u, p)' => u = t,
         \A d \in IO : pc'[d] = "unlock" => target'[d] \notin io_list'[d]
  PROVE  WaitsOnce'
<1>1. \A q \in mutex_list' : Blocked(q)'
  BY DEF WaitsOnce
<1>2. ASSUME NEW t \in CPU \cup IO, NEW q \in Proc, Awaits(t, q)'
      PROVE  /\ Blocked(q)' /\ q \notin mutex_list'
             /\ \A u \in CPU \cup IO : Awaits(u, q)' => u = t
  <2>1. CASE q = p
    BY <1>2, <2>1
  <2>2. CASE q # p
    <3>1. Awaits(t, q) /\ \A u \in CPU \cup IO : Awaits(u, q)' => Awaits(u, q)
      BY <1>2, <2>2
    <3>2. Blocked(q) /\ q \notin mutex_list
          /\ \A u \in CPU \cup IO : Awaits(u, q) => u = t
      BY <3>1 DEF WaitsOnce
    <3> QED BY <2>2, <3>1, <3>2
  <2> QED BY <2>1, <2>2
<1> QED BY <1>1, <1>2 DEF WaitsOnce

\* An IO request is queued while the process is still in EXEC.
LEMMA EnqueueWaits ==
  ASSUME IndInv, WaitsOnce, NEW c \in CPU, enqueue_io_request(c)
  PROVE  WaitsOnce'
<1>0. /\ pc \in [Thread -> PC] /\ c \in Thread
      /\ mutex_list \in SUBSET Proc /\ io_list \in [IO -> SUBSET Proc]
      /\ c \notin IO
  BY ThreadFacts DEF IndInv, TypeOK
<1>1. PICK p \in Proc : p = pcb[c] /\ state[p] = "EXEC" /\ target[c] = NoProc
  BY CpuFacts DEF enqueue_io_request, CpuControl, Inheriting, OwnProcess, OnCpu,
                  Replacing
<1>d. PICK d \in IO : d = io[c]
  BY CpuFacts DEF enqueue_io_request, CpuControl, Inheriting
<1>2. p \notin mutex_list /\ \A t \in CPU \cup IO : ~Awaits(t, p)
  BY <1>1, RunsUnawaited DEF enqueue_io_request
<1>3. /\ UNCHANGED <<state, mutex_list, pcb, target>>
      /\ pc[c] = "enqueue" /\ \A t \in Thread \ {c} : pc'[t] = pc[t]
  BY <1>0 DEF enqueue_io_request, pcbVars, cpuVars, Goto
<1>4. /\ pc'[c] = "exec_block"
      /\ io_list' = io_list \/ io_list' = [io_list EXCEPT ![d] = @ \cup {p}]
  BY <1>0, <1>1, <1>d DEF enqueue_io_request, Goto
<1>5. \A q \in Proc : Blocked(q) => Blocked(q)'
  BY <1>1, <1>3, ThreadFacts DEF Blocked
<1>6. \A q \in Proc \ {p} : \A t \in CPU \cup IO : Awaits(t, q)' => Awaits(t, q)
  BY <1>0, <1>1, <1>3, <1>4, ThreadFacts DEF Awaits
<1>7. \A t \in CPU \cup IO : Awaits(t, p)' => t = d
  BY <1>0, <1>1, <1>2, <1>3, <1>4, ThreadFacts DEF Awaits
<1>8. Blocked(p)'
  BY <1>1, <1>3, <1>4 DEF Blocked
<1>9. \A e \in IO : pc'[e] = "unlock" => target'[e] \notin io_list'[e]
  <2> SUFFICES ASSUME NEW e \in IO, pc'[e] = "unlock" PROVE target'[e] \notin io_list'[e]
    OBVIOUS
  <2>1. pc[e] = "unlock" /\ target'[e] = target[e]
    BY <1>0, <1>3, ThreadFacts
  <2>2. target[e] \notin io_list[e] /\ target[e] # p
    BY <1>2, <2>1 DEF WaitsOnce, Awaits
  <2> QED BY <1>0, <1>4, <2>1, <2>2
<1> QED BY <1>0, <1>2, <1>3, <1>5, <1>6, <1>7, <1>8, <1>9, WaiterMoves

\* The process leaves EXEC: a waiter for BLOCK, any other process for
\* wherever it goes.
LEMMA LeaveWaits ==
  ASSUME IndInv, WaitsOnce, NEW c \in CPU, leave_exec(c)
  PROVE  WaitsOnce'
<1>0. /\ pc \in [Thread -> PC] /\ c \in Thread /\ c \notin IO
      /\ mutex_list \in SUBSET Proc /\ state \in [Proc -> State]
      /\ pc[c] \in {"exec_ready", "exec_block", "mutex_block", "exec_exit"}
  BY ThreadFacts DEF IndInv, TypeOK, leave_exec, Destination
<1>1. PICK p \in Proc : p = pcb[c] /\ state[p] = "EXEC"
  BY <1>0, CpuFacts DEF CpuControl, Inheriting, OwnProcess, OnCpu
<1>2. pc[c] # "exec_block" =>
        p \notin mutex_list /\ \A t \in CPU \cup IO : ~Awaits(t, p)
  BY <1>1, RunsUnawaited
<1>3. /\ state' = [state EXCEPT ![p] = Destination[pc[c]]]
      /\ pc' = [pc EXCEPT ![c] = "update_lowest"]
      /\ UNCHANGED <<pcb, target, io_list>>
      /\ mutex_list' = IF pc[c] = "mutex_block" THEN mutex_list \cup {p}
                       ELSE mutex_list
  BY <1>1 DEF leave_exec, cpuVars, Goto
<1>4. pc[c] \in {"exec_block", "mutex_block"} => Blocked(p)'
  BY <1>0, <1>3 DEF Blocked, Destination
<1>5. \A q \in Proc \ {p} : Blocked(q) => Blocked(q)'
  BY <1>0, <1>1, <1>3, ThreadFacts DEF Blocked
<1>6. \A q \in Proc : \A t \in CPU \cup IO : Awaits(t, q)' => Awaits(t, q)
  BY <1>0, <1>3, ThreadFacts DEF Awaits
<1>7. \A t \in CPU \cup IO : Awaits(t, p)' => /\ pc[c] = "exec_block" /\ p \notin mutex_list'
                            /\ \A u \in CPU \cup IO : Awaits(u, p)' => u = t
  <2> SUFFICES ASSUME NEW t \in CPU \cup IO, Awaits(t, p)'
               PROVE  /\ pc[c] = "exec_block" /\ p \notin mutex_list'
                      /\ \A u \in CPU \cup IO : Awaits(u, p)' => u = t
    OBVIOUS
  <2>1. Awaits(t, p) /\ pc[c] = "exec_block" /\ mutex_list' = mutex_list
    BY <1>2, <1>3, <1>6
  <2>2. p \notin mutex_list /\ \A u \in CPU \cup IO : Awaits(u, p) => u = t
    BY <2>1 DEF WaitsOnce
  <2> QED BY <1>6, <2>1, <2>2
<1>8. \A e \in IO : pc'[e] = "unlock" => target'[e] \notin io_list'[e]
  BY <1>0, <1>3, ThreadFacts DEF WaitsOnce
<1>9. p \in mutex_list' => Blocked(p)'
  <2>1. CASE pc[c] \in {"exec_block", "mutex_block"}
    BY <1>4, <2>1
  <2>2. CASE pc[c] \notin {"exec_block", "mutex_block"}
    BY <1>2, <1>3, <2>2
  <2> QED BY <2>1, <2>2
<1>10. mutex_list' \in SUBSET (mutex_list \cup {p})
  BY <1>3
<1> QED BY <1>0, <1>4, <1>5, <1>6, <1>7, <1>8, <1>9, <1>10, WaiterMoves

\* MUTEX_UNLOCK takes the process it wakes out of the mutex's queue.
LEMMA UnlockWaits ==
  ASSUME IndInv, WaitsOnce, NEW c \in CPU, NEW n \in Priority,
         handle_syscall_mutex_unlock(c, n)
  PROVE  WaitsOnce'
<1>0. /\ pc \in [Thread -> PC] /\ c \in Thread /\ c \notin IO /\ c # Resumption
      /\ mutex_list \in SUBSET Proc /\ target \in [Thread -> Proc \cup {NoProc}]
      /\ pc[c] = "run"
  BY ThreadFacts DEF IndInv, TypeOK, handle_syscall_mutex_unlock
<1>1. UNCHANGED <<state, pcb, io_list>>
  BY DEF handle_syscall_mutex_unlock, cpuVars
<1>2. CASE pc' = [pc EXCEPT ![c] = "queue_blocked"] /\ UNCHANGED <<mutex_list, target>>
  <2>1. /\ pc'[c] \notin {"unlock", "serving"}
        /\ \A t \in Thread \ {c} : pc'[t] = pc[t] /\ target'[t] = target[t]
    BY <1>0, <1>2
  <2>2. Calm
    BY <1>0, <1>1, <1>2, <2>1, QuietlyCalm
  <2> QED BY <1>0, <2>2, CalmWaits
<1>3. ASSUME NEW w \in mutex_list, mutex_list' = mutex_list \ {w},
             target' = [target EXCEPT ![c] = w], pc' = [pc EXCEPT ![c] = "unlock"]
      PROVE  WaitsOnce'
  <2>1. w \in Proc /\ Blocked(w) /\ \A t \in CPU \cup IO : ~Awaits(t, w)
    BY <1>0 DEF WaitsOnce
  <2>2. \A q \in Proc : Blocked(q) => Blocked(q)'
    BY <1>0, <1>1, <1>3, ThreadFacts DEF Blocked
  <2>3. \A q \in Proc \ {w} : \A t \in CPU \cup IO : Awaits(t, q)' => Awaits(t, q)
    BY <1>0, <1>1, <1>3, ThreadFacts DEF Awaits
  <2>4. \A t \in CPU \cup IO : Awaits(t, w)' => t = c
    BY <1>0, <1>1, <1>3, <2>1, ThreadFacts DEF Awaits
  <2>5. \A e \in IO : pc'[e] = "unlock" => target'[e] \notin io_list'[e]
    BY <1>0, <1>1, <1>3, ThreadFacts DEF WaitsOnce
  <2>6. mutex_list' \in SUBSET (mutex_list \cup {w}) /\ w \notin mutex_list'
    BY <1>3
  <2> QED BY <1>0, <2>1, <2>2, <2>3, <2>4, <2>5, <2>6, WaiterMoves
<1> QED BY <1>2, <1>3 DEF handle_syscall_mutex_unlock, Goto

\* A process that is woken waits for nothing else.
LEMMA WakeWaits ==
  ASSUME IndInv, WaitsOnce, NEW s \in CPU \cup IO, transition_unlock(s)
  PROVE  WaitsOnce'
<1>0. /\ pc \in [Thread -> PC] /\ s \in Thread /\ state \in [Proc -> State]
      /\ mutex_list \in SUBSET Proc /\ pc[s] = "unlock"
  BY ThreadFacts DEF IndInv, TypeOK, transition_unlock
<1>1. PICK p \in Proc : p = target[s]
  BY <1>0, TargetFacts
<1>2. Awaits(s, p)
  BY <1>0, <1>1 DEF Awaits
<1>3. p \notin mutex_list /\ \A u \in CPU \cup IO : Awaits(u, p) => u = s
  BY <1>2 DEF WaitsOnce
<1>4. /\ pc' = [pc EXCEPT ![s] = "unlock_enter"]
      /\ UNCHANGED <<pcb, target, io_list, mutex_list>>
      /\ \A q \in Proc \ {p} : state'[q] = state[q]
  BY <1>0, <1>1 DEF transition_unlock, cpuVars, ioVars, Goto
<1>5. \A q \in Proc \ {p} : Blocked(q) => Blocked(q)'
  BY <1>0, <1>4, ThreadFacts DEF Blocked
<1>6. \A q \in Proc : \A t \in CPU \cup IO : Awaits(t, q)' => Awaits(t, q)
  BY <1>0, <1>4, ThreadFacts DEF Awaits
<1>7. ~Awaits(s, p)'
  BY <1>0, <1>1, <1>4 DEF Awaits, WaitsOnce
<1>8. \A t \in CPU \cup IO : ~Awaits(t, p)'
  BY <1>3, <1>6, <1>7
<1>9. \A e \in IO : pc'[e] = "unlock" => target'[e] \notin io_list'[e]
  BY <1>0, <1>4, ThreadFacts DEF WaitsOnce
<1> QED BY <1>0, <1>3, <1>4, <1>5, <1>6, <1>8, <1>9, WaiterMoves

\* The IO threads: a request is served, taken out of the queue and answered.
LEMMA IoWaits ==
  ASSUME IndInv, WaitsOnce, NEW d \in IO,
         io_thread(d) \/ finalize_io(d) \/ close_thread_io(d)
  PROVE  WaitsOnce'
<1>0. /\ pc \in [Thread -> PC] /\ d \in Thread /\ d \notin CPU
      /\ mutex_list \in SUBSET Proc /\ target \in [Thread -> Proc \cup {NoProc}]
      /\ io_list \in [IO -> SUBSET Proc]
  BY ThreadFacts DEF IndInv, TypeOK
<1>1. UNCHANGED <<state, pcb, mutex_list>>
  BY DEF io_thread, finalize_io, close_thread_io, RunUnchanged, pcbVars, ioVars, cpuVars
<1>2. CASE \/ io_thread(d)
           \/ close_thread_io(d) /\ pc'[d] = "closed" /\ UNCHANGED <<io_list, target>>
  <2>1. /\ pc[d] # "unlock" /\ pc'[d] # "unlock" /\ io_list' = io_list
        /\ \A t \in Thread \ {d} : pc'[t] = pc[t] /\ target'[t] = target[t]
        /\ \A p \in Proc : Awaits(d, p)' => Awaits(d, p)
    BY <1>0, <1>2 DEF io_thread, close_thread_io, RunUnchanged, ioVars, Goto, Awaits
  <2>2. \A t \in CPU \cup IO : \A p \in Proc : Awaits(t, p)' => Awaits(t, p)
    BY <2>1, ThreadFacts DEF Awaits
  <2>3. Calm
    BY <1>1, <2>1, <2>2, ThreadFacts DEF Calm
  <2> QED BY <1>0, <2>3, CalmWaits
<1>3. ASSUME NEW p \in Proc, pc[d] # "unlock",
             Awaits(d, p), io_list' = [io_list EXCEPT ![d] = @ \ {p}],
             target' = [target EXCEPT ![d] = p], pc' = [pc EXCEPT ![d] = "unlock"]
      PROVE  WaitsOnce'
  <2>1. /\ Blocked(p) /\ p \notin mutex_list
        /\ \A u \in CPU \cup IO : Awaits(u, p) => u = d
    BY <1>3 DEF WaitsOnce
  <2>2. \A q \in Proc : Blocked(q) => Blocked(q)'
    BY <1>0, <1>1, <1>3, ThreadFacts DEF Blocked
  <2>3. \A q \in Proc : \A t \in CPU \cup IO : t # d /\ Awaits(t, q)' => Awaits(t, q)
    BY <1>0, <1>3, ThreadFacts DEF Awaits
  <2>4. \A q \in Proc \ {p} : Awaits(d, q)' => Awaits(d, q)
    BY <1>0, <1>3 DEF Awaits
  <2>5. \A t \in CPU \cup IO : Awaits(t, p)' => t = d
    BY <2>1, <2>3
  <2>6. \A e \in IO : pc'[e] = "unlock" => target'[e] \notin io_list'[e]
    BY <1>0, <1>3, ThreadFacts DEF WaitsOnce
  <2> QED BY <1>0, <1>1, <2>1, <2>2, <2>3, <2>4, <2>5, <2>6, WaiterMoves
<1>4. CASE finalize_io(d)
  <2>1. PICK p \in Proc : p = target[d]
    BY <1>0, <1>4, TargetFacts, ThreadFacts DEF finalize_io, ThreadOK, IoControl
  <2>2. /\ pc[d] # "unlock" /\ Awaits(d, p)
        /\ io_list' = [io_list EXCEPT ![d] = @ \ {p}]
        /\ target' = [target EXCEPT ![d] = p] /\ pc' = [pc EXCEPT ![d] = "unlock"]
    BY <1>0, <1>4, <2>1 DEF finalize_io, Goto, Awaits
  <2> QED BY <1>3, <2>2
<1>5. CASE close_thread_io(d) /\ pc'[d] # "closed"
  <2>1. PICK p \in io_list[d] :
             /\ io_list' = [io_list EXCEPT ![d] = @ \ {p}]
             /\ target' = [target EXCEPT ![d] = p] /\ pc' = [pc EXCEPT ![d] = "unlock"]
    BY <1>0, <1>5 DEF close_thread_io, Goto
  <2>2. p \in Proc /\ Awaits(d, p) /\ pc[d] # "unlock"
    BY <1>0, <1>5 DEF close_thread_io, Awaits
  <2> QED BY <1>3, <2>1, <2>2
<1>6. close_thread_io(d) /\ pc'[d] = "closed" => UNCHANGED <<io_list, target>>
  BY <1>0 DEF close_thread_io, Goto
<1> QED BY <1>2, <1>4, <1>5, <1>6

\* Every step keeps a process from waiting twice.
LEMMA WaitsStep ==
  ASSUME IndInv, WaitsOnce, [Next]_vars
  PROVE  WaitsOnce'
<1>0. mutex_list \in SUBSET Proc
  BY DEF IndInv, TypeOK
<1>1. ASSUME NEW c \in CPU, handle_new_cpu(c) \/ CpuStep(c) \/ Syscall(c)
      PROVE  WaitsOnce'
  <2>0. c \in CPU \cup IO
    OBVIOUS
  <2> QED BY <1>0, <1>1, <2>0, CpuCalm, CpuMovesCalm, CalmWaits, EnqueueWaits,
          LeaveWaits, UnlockWaits, WakeWaits DEF CpuStep, Syscall
<1>2. ASSUME NEW d \in IO, IoStep(d) PROVE WaitsOnce'
  BY <1>0, <1>2, OthersCalm, CalmWaits, WakeWaits, IoWaits DEF IoStep
<1>3. CASE \/ SuspenderStep \/ ResumerStep \/ ResumptionStep
           \/ create_resumption_routine_thread
  BY <1>0, <1>3, OthersCalm, CalmWaits
<1>4. CASE compaction_gate \/ UNCHANGED vars
  <2>1. UNCHANGED <<state, pcb, pc, target, io_list, mutex_list>>
    BY <1>4 DEF compaction_gate, vars, pcbVars, ioVars, cpuVars
  <2>2. Calm
    BY <2>1 DEF Calm, Awaits
  <2> QED BY <1>0, <2>2, CalmWaits
<1> QED BY <1>1, <1>2, <1>3, <1>4 DEF Next

\* A process waits for one event at a time, and only while it is blocked or
\* about to be, whatever the number of processes, CPUs and IO interfaces.
THEOREM WaitsOnceOnly == Spec /\ [][LevelsKept]_vars => []WaitsOnce
<1>1. Init => WaitsOnce
  BY ThreadFacts DEF Init, WaitsOnce, Awaits
<1>2. IndInv /\ WaitsOnce /\ [Next]_vars => WaitsOnce'
  BY WaitsStep
<1>3. Spec /\ [][LevelsKept]_vars => []IndInv
  BY Inductive
<1> QED BY <1>1, <1>2, <1>3, PTL DEF Spec

\* No thread runs, moves, serves or wakes a freed pcb and no queue of waiters
\* contains one.  The uses of a freed pcb that the code does make (the log
\* line of finalize_io, the holder of a mutex, the sweep) are violations of
\* properties of their own.
THEOREM NothingDangles == Spec /\ [][LevelsKept]_vars => []NoDangling
<1>1. IndInv /\ WaitsOnce => NoDangling
  <2> SUFFICES ASSUME IndInv, WaitsOnce PROVE NoDangling
    OBVIOUS
  <2>0. /\ mutex_list \in SUBSET Proc /\ io_list \in [IO -> SUBSET Proc]
        /\ target \in [Thread -> Proc \cup {NoProc}]
    BY DEF IndInv, TypeOK
  <2>1. \A p \in Proc : Blocked(p) => state[p] \notin Gone
    BY DEF Blocked, Gone
  <2>2. ASSUME NEW c \in CPU
        PROVE  /\ pcb[c] # NoProc => state[pcb[c]] \notin Gone
               /\ target[c] # NoProc
                    /\ pc[c] \notin {"new_ready", "inherit", "update_priority"} =>
                      state[target[c]] \notin Gone
    <3>1. pcb[c] # NoProc => state[pcb[c]] \notin Gone
      BY CpuFacts DEF CpuControl, Inheriting, OwnProcess, OnCpu, Between, Gone
    <3>2. ASSUME target[c] # NoProc,
                 pc[c] \notin {"new_ready", "inherit", "update_priority"}
          PROVE  state[target[c]] \notin Gone
      <4>1. CASE pc[c] = "unlock"
        BY <2>1, <3>2, <4>1, CpuFacts DEF WaitsOnce, Awaits
      <4>2. CASE pc[c] # "unlock"
        BY <3>2, <4>2, CpuFacts
           DEF CpuControl, Inheriting, NextProcess, MovedProcess, Moving, Gone
      <4> QED BY <4>1, <4>2
    <3> QED BY <3>1, <3>2
  <2>3. ASSUME NEW d \in IO, target[d] # NoProc, pc[d] # "finished"
        PROVE  state[target[d]] \notin Gone
    <3>1. target[d] \in Proc /\ IoControl(d) /\ MovedProcess(d)
      BY <2>0, <2>3, ThreadFacts DEF IndInv, Placed, ThreadOK
    <3>2. CASE pc[d] = "unlock_enter"
      BY <3>1, <3>2 DEF MovedProcess, Moving, Gone
    <3>3. CASE pc[d] # "unlock_enter"
      BY <2>1, <2>3, <3>1, <3>3 DEF IoControl, WaitsOnce, Awaits
    <3> QED BY <3>2, <3>3
  <2>4. \A t \in {Suspender, Resumer} :
          target[t] # NoProc => state[target[t]] \notin Gone
    BY DEF IndInv, Instances
  <2>5. \A d \in IO : \A p \in io_list[d] : state[p] \notin Gone
    BY <2>0, <2>1 DEF WaitsOnce, Awaits
  <2>6. \A p \in mutex_list : state[p] \notin Gone
    BY <2>0, <2>1 DEF WaitsOnce
  <2> QED BY <2>2, <2>3, <2>4, <2>5, <2>6 DEF NoDangling
<1> QED BY <1>1, Inductive, WaitsOnceOnly, PTL
=============================================================================

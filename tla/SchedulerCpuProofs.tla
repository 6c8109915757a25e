--------------------------- MODULE SchedulerCpuProofs ------------------------
(***************************************************************************)
(* IndInv is preserved by every step of a CPU thread (connections/cpu.c).  *)
(***************************************************************************)
EXTENDS SchedulerLemmas

\* The step leaves counters, priorities and READY alone.
Quiet ==
  /\ UNCHANGED <<readyVars, priority, active_instances>>
  /\ target'[Suspender] = target[Suspender] /\ target'[Resumer] = target[Resumer]
  /\ \A p \in Proc : /\ state'[p] \in Live => state[p] \in Live
                     /\ state'[p] \in Gone =>
                          state[p] \in Gone \/ active_instances[p] = 0

\* A quiet step preserves the parts of the invariant that are about counters,
\* priorities and READY.
LEMMA QuietStep ==
  ASSUME IndInv, Quiet
  PROVE  Instances' /\ ReadyCount' /\ Levelled' /\ HighestIsExact'
<1>1. /\ queues' = queues /\ ready_process_count' = ready_process_count
      /\ highest_priority' = highest_priority
  BY DEF Quiet, readyVars
<1>2. ReadyCount' /\ HighestIsExact'
  BY <1>1 DEF IndInv, ReadyCount, HighestIsExact, Queued
<1>3. Instances'
  <2>1. target[Suspender] \in Proc \cup {NoProc}
        /\ target[Resumer] \in Proc \cup {NoProc}
    BY ThreadFacts DEF IndInv, TypeOK
  <2>2. /\ active_instances' = active_instances
        /\ target'[Suspender] = target[Suspender]
        /\ target'[Resumer] = target[Resumer]
        /\ \A p \in Proc : state'[p] \in Gone =>
                           state[p] \in Gone \/ active_instances[p] = 0
    BY DEF Quiet
  <2>3. \A t \in {Suspender, Resumer} : target[t] # NoProc =>
          target[t] \in Proc /\ active_instances[target[t]] # 0
    BY <2>1 DEF IndInv, Instances, Refs
  <2> QED BY <2>1, <2>2, <2>3 DEF IndInv, Instances, Refs
<1>4. Levelled'
  <2>1. priority' = priority /\ \A p \in Proc : state'[p] \in Live => state[p] \in Live
    BY DEF Quiet
  <2> QED BY <1>1, <2>1 DEF IndInv, Levelled
<1> QED BY <1>2, <1>3, <1>4

\* What the invariant says of a CPU thread, of its process and of the
\* process it is about to start, wake or dispatch.
LEMMA CpuFacts ==
  ASSUME IndInv, NEW c \in CPU
  PROVE  /\ pcb[c] \in Proc \cup {NoProc} /\ target[c] \in Proc \cup {NoProc}
         /\ CpuControl(c) /\ OwnProcess(c) /\ NextProcess(c) /\ MovedProcess(c)
         /\ pcb[c] # NoProc =>
              /\ pcb[c] \in Proc /\ Owns(c, pcb[c])
              /\ \A u \in Thread \ {c} : ~Owns(u, pcb[c])
BY ThreadFacts DEF IndInv, Placed, ThreadOK, Exclusive, TypeOK, Owns, Moving

-----------------------------------------------------------------------------
(* Steps of a CPU thread that leave its process running.                   *)

\* The labels at which a thread works on no other process.
Resting == OnCpu \ ({"new_ready", "enqueue", "unlock", "unlock_enter"}
                    \cup Inheriting)

\* Where such a step leads: the thread works on no other process, is about
\* to queue a request, or works on the holder of a mutex.
Goes(c) ==
  \/ pc'[c] \in Resting /\ target'[c] = NoProc
  \/ pc'[c] = "enqueue" /\ target'[c] = NoProc /\ io'[c] \in IO
  \/ /\ pc'[c] \in {"inherit", "update_priority"} /\ target'[c] # NoProc
     /\ pc'[c] = "update_priority" => Multilevel

Stays(c) ==
  /\ pc[c] \in OnCpu /\ pcb[c] # NoProc
  /\ target[c] = NoProc \/ pc[c] \in {"unlock", "inherit", "update_priority"}
  /\ Goes(c)
  /\ pcb'[c] = pcb[c] /\ reason'[c] # "OTHER"
  /\ \A u \in Thread \ {c} : SameThread(u)
  /\ \A q \in Proc : SameProcess(q)

\* When a process stays on its CPU every process keeps its place.
LEMMA StaysPlaced ==
  ASSUME IndInv, NEW c \in CPU, Stays(c)
  PROVE  Placed'
<1>1. c \in Thread /\ c \notin IO /\ c \notin {Suspender, Resumer, Resumption}
  BY ThreadFacts
<1>2. /\ pcb[c] \in Proc /\ state[pcb[c]] = "EXEC" /\ Free(pcb[c])
      /\ exec[pcb[c]] = 1
  BY CpuFacts DEF Stays, OwnProcess, Goes, Resting, OnCpu, Inheriting
<1>3. Frame(c, {})
  BY DEF Frame, Stays, Goes, Resting, OnCpu, Inheriting
<1>4. ThreadOK(c)'
  <2>1. CpuControl(c)'
    BY DEF Stays, CpuControl, OnCpu, Inheriting, Goes, Resting
  <2>2. OwnProcess(c)'
    BY <1>2 DEF Stays, OwnProcess, SameProcess, Free, OnCpu, Goes, Resting, Inheriting
  <2>3. NextProcess(c)' /\ MovedProcess(c)'
    BY DEF Stays, NextProcess, MovedProcess, Moving, Goes, Resting, OnCpu,
           Inheriting, Replacing
  <2> QED BY <1>1, <2>1, <2>2, <2>3 DEF ThreadOK
<1>5. \A q \in Proc : Owns(c, q)' => Owns(c, q)
  BY ThreadFacts DEF Stays, Owns, Moving, Goes, Resting, OnCpu, Inheriting, Replacing
<1>6. \A q \in Proc : ~Holds(c, q)
  BY ThreadFacts DEF Stays, Holds, HeldByCpu, Carries, OnCpu, Goes, Resting, Inheriting
<1> QED BY <1>1, <1>3, <1>4, <1>5, <1>6, FramePlaced DEF IndInv

\* A thread whose label is OnCpu, with its process set.
LEMMA RunFacts ==
  ASSUME IndInv, NEW c \in CPU,
         pc[c] \in {"enqueue"} \cup (Resting \ {"exec_ready", "send_preemption"})
  PROVE  pcb[c] \in Proc /\ target[c] = NoProc /\ reason[c] # "OTHER"
<1>1. CpuControl(c) /\ pcb[c] \in Proc \cup {NoProc}
  BY CpuFacts
<1>2. /\ pc[c] \in OnCpu \ {"exec_ready", "send_preemption"}
      /\ pc[c] \notin {"new_ready", "unlock", "unlock_enter"} \cup Inheriting
      /\ pc[c] \notin Replacing /\ pc[c] \notin {"closed", "request"}
  BY DEF OnCpu, Resting, Inheriting, Replacing
<1> QED BY <1>1, <1>2 DEF CpuControl

\* The process keeps running and its CPU thread goes on at label; the step
\* may start the resumption sweep.
Turns(c, label) ==
  /\ pc[c] \in {"run", "queue_blocked", "end_quantum"}
  /\ label \in {"queue_blocked", "exec_exit", "mutex_block", "exec_ready",
                "end_quantum", "lowest", "send_preemption"}
  /\ \/ pc' = [pc EXCEPT ![c] = label]
     \/ pc' = [pc EXCEPT ![c] = label,
                         ![Resumption] = IF @ = "idle" THEN "sweep" ELSE @]
  /\ keep_running' \in [CPU -> BOOLEAN]
  /\ UNCHANGED <<RunUnchanged, pcb, reason, preempted_priority, target>>

\* Such a step preserves the invariant.
LEMMA TurnsInv ==
  ASSUME IndInv, NEW c \in CPU, NEW label, Turns(c, label)
  PROVE  IndInv'
<1>0. /\ c \in Thread /\ c # Resumption /\ Resumption \in Thread
      /\ pc \in [Thread -> PC]
  BY ThreadFacts DEF IndInv, TypeOK
<1>1. /\ pc' \in [Thread -> PC] /\ pc'[c] = label
      /\ \A u \in Thread \ {c} :
           \/ pc'[u] = pc[u]
           \/ u = Resumption /\ pc[u] = "idle" /\ pc'[u] = "sweep"
  BY <1>0 DEF Turns, PC
<1>2. TypeOK'
  BY <1>1 DEF Turns, IndInv, TypeOK, RunUnchanged, readyVars, pcbVars, listVars, ioVars
<1>3. Stays(c)
  <2>1. pcb[c] \in Proc /\ pcb[c] # NoProc /\ target[c] = NoProc /\ reason[c] # "OTHER"
    BY RunFacts, ThreadFacts DEF Turns, OnCpu, Resting, Inheriting
  <2>2. \A u \in Thread \ {c} : SameThread(u)
    BY <1>1 DEF Turns, SameThread, RunUnchanged, ioVars
  <2>3. \A q \in Proc : SameProcess(q)
    BY DEF Turns, SameProcess, Queued, RunUnchanged, readyVars, pcbVars, listVars
  <2> QED BY <1>1, <2>1, <2>2, <2>3 DEF Turns, Stays, OnCpu, Goes, Resting, Inheriting
<1>4. Quiet
  BY DEF Turns, Quiet, RunUnchanged, pcbVars
<1> QED BY <1>2, <1>3, <1>4, StaysPlaced, QuietStep DEF IndInv

\* A syscall that leaves the process running.
LEMMA handle_cycle_cpu_ok_Inv ==
  ASSUME IndInv, NEW c \in CPU, handle_cycle_cpu_ok(c)
  PROVE  IndInv'
<1>1. keep_running' \in [CPU -> BOOLEAN]
  BY Zenon DEF handle_cycle_cpu_ok, cpuVars, IndInv, TypeOK
<1>2. Turns(c, "queue_blocked")
  BY <1>1 DEF handle_cycle_cpu_ok, Turns, Goto, cpuVars
<1> QED BY <1>2, TurnsInv

\* EXIT leaves EXEC in a later step.
LEMMA handle_syscall_exit_Inv ==
  ASSUME IndInv, NEW c \in CPU, handle_syscall_exit(c)
  PROVE  IndInv'
<1>1. keep_running' \in [CPU -> BOOLEAN]
  BY Zenon DEF handle_syscall_exit, cpuVars, IndInv, TypeOK
<1>2. Turns(c, "exec_exit")
  BY <1>1 DEF handle_syscall_exit, Turns, Goto, cpuVars
<1> QED BY <1>2, TurnsInv

\* An invalid operation only ends the thread's loop.
LEMMA handle_invalid_syscall_Inv ==
  ASSUME IndInv, NEW c \in CPU, handle_invalid_syscall(c)
  PROVE  IndInv'
<1>1. keep_running' \in [CPU -> BOOLEAN]
  BY Zenon DEF handle_invalid_syscall, cpuVars, IndInv, TypeOK
<1>2. Turns(c, "queue_blocked")
  BY <1>1 DEF handle_invalid_syscall, Turns, Goto, cpuVars
<1> QED BY <1>2, TurnsInv

\* MEM_FREE may start the sweep.
LEMMA handle_syscall_memory_free_Inv ==
  ASSUME IndInv, NEW c \in CPU, handle_syscall_memory_free(c)
  PROVE  IndInv'
<1>1. keep_running' \in [CPU -> BOOLEAN]
  BY Zenon DEF handle_syscall_memory_free, cpuVars, IndInv, TypeOK
<1>2. Turns(c, "queue_blocked")
  BY <1>1 DEF handle_syscall_memory_free, Turns, Goto, cpuVars
<1> QED BY <1>2, TurnsInv

\* An uncontended MUTEX_LOCK leaves the process running.
LEMMA mutex_lock_Inv ==
  ASSUME IndInv, NEW c \in CPU, mutex_lock(c)
  PROVE  IndInv'
<1>0. pc \in [Thread -> PC] /\ c \in Thread /\ holders \in SUBSET Proc
  BY ThreadFacts DEF IndInv, TypeOK
<1>1. /\ pc[c] = "run" /\ pc' = [pc EXCEPT ![c] = "queue_blocked"]
      /\ holders' = holders \cup {pcb[c]}
      /\ UNCHANGED <<readyVars, pcbVars, listVars, io_list, io_closed, io,
                     mutex_list, cpuVars, target>>
  BY DEF mutex_lock, Goto
<1>2. /\ pcb[c] \in Proc /\ pcb[c] # NoProc /\ target[c] = NoProc
      /\ reason[c] # "OTHER"
  BY <1>1, RunFacts, ThreadFacts DEF OnCpu, Resting, Inheriting
<1>3. TypeOK'
  <2>1. pc' \in [Thread -> PC] /\ holders' \in SUBSET Proc
    BY <1>0, <1>1, <1>2 DEF PC
  <2> QED BY <1>1, <2>1 DEF IndInv, TypeOK, readyVars, pcbVars, listVars, cpuVars
<1>4. Stays(c)
  <2>1. \A u \in Thread \ {c} : SameThread(u)
    BY <1>0, <1>1 DEF SameThread, cpuVars
  <2>2. \A q \in Proc : SameProcess(q)
    BY <1>1 DEF SameProcess, Queued, readyVars, pcbVars, listVars
  <2>3. Goes(c)
    BY <1>0, <1>1, <1>2 DEF Goes, Resting, OnCpu, Inheriting
  <2> QED BY <1>1, <1>2, <2>1, <2>2, <2>3 DEF Stays, OnCpu, cpuVars
<1>5. Quiet
  BY <1>1 DEF Quiet, readyVars, pcbVars
<1> QED BY <1>3, <1>4, <1>5, StaysPlaced, QuietStep DEF IndInv

\* A contended MUTEX_LOCK leaves EXEC in a later step, and may offer its
\* priority to the holder before.
LEMMA handle_syscall_mutex_lock_Inv ==
  ASSUME IndInv, NEW c \in CPU, handle_syscall_mutex_lock(c)
  PROVE  IndInv'
<1>0. /\ pc \in [Thread -> PC] /\ c \in Thread /\ holders \in SUBSET Proc
      /\ target \in [Thread -> Proc \cup {NoProc}]
  BY ThreadFacts DEF IndInv, TypeOK
<1>1. PICK q \in holders :
        /\ pc[c] = "run" /\ UNCHANGED <<RunUnchanged, cpuVars>>
        /\ \/ pc' = [pc EXCEPT ![c] = "mutex_block"] /\ target' = target
           \/ /\ pc' = [pc EXCEPT ![c] = "inherit"]
              /\ target' = [target EXCEPT ![c] = q]
  BY DEF handle_syscall_mutex_lock, Goto
<1>2. /\ pcb[c] \in Proc /\ pcb[c] # NoProc /\ target[c] = NoProc
      /\ reason[c] # "OTHER" /\ q # NoProc
  BY <1>0, <1>1, RunFacts, ThreadFacts DEF OnCpu, Resting, Inheriting
<1>3. TypeOK'
  <2>1. pc' \in [Thread -> PC] /\ target' \in [Thread -> Proc \cup {NoProc}]
    BY <1>0, <1>1 DEF PC
  <2> QED BY <1>1, <2>1 DEF IndInv, TypeOK, RunUnchanged, readyVars, pcbVars,
                            listVars, ioVars, cpuVars
<1>4. Stays(c)
  <2>1. \A u \in Thread \ {c} : SameThread(u)
    BY <1>0, <1>1 DEF SameThread, RunUnchanged, ioVars, cpuVars
  <2>2. \A p \in Proc : SameProcess(p)
    BY <1>1 DEF SameProcess, Queued, RunUnchanged, readyVars, pcbVars, listVars
  <2>3. Goes(c)
    BY <1>0, <1>1, <1>2 DEF Goes, Resting, OnCpu, Inheriting
  <2> QED BY <1>1, <1>2, <2>1, <2>2, <2>3 DEF Stays, OnCpu, cpuVars
<1>5. Quiet
  BY <1>0, <1>1, ThreadFacts DEF Quiet, RunUnchanged, readyVars, pcbVars
<1> QED BY <1>3, <1>4, <1>5, StaysPlaced, QuietStep DEF IndInv

\* The compaction check moves nothing yet.
LEMMA manage_queue_blocked_Inv ==
  ASSUME IndInv, NEW c \in CPU, manage_queue_blocked(c)
  PROVE  IndInv'
<1>1. keep_running' \in [CPU -> BOOLEAN]
  BY Zenon DEF manage_queue_blocked, cpuVars, IndInv, TypeOK
<1>2. Turns(c, "exec_ready") \/ Turns(c, "end_quantum")
  BY <1>1 DEF manage_queue_blocked, Turns, Goto, cpuVars
<1> QED BY <1>2, TurnsInv

\* The quantum check moves nothing yet.
LEMMA manage_end_quantum_Inv ==
  ASSUME IndInv, NEW c \in CPU, manage_end_quantum(c)
  PROVE  IndInv'
<1>1. keep_running' \in [CPU -> BOOLEAN]
  BY Zenon DEF manage_end_quantum, cpuVars, IndInv, TypeOK
<1>2. Turns(c, "exec_ready") \/ Turns(c, "lowest") \/ Turns(c, "send_preemption")
  BY <1>1 DEF manage_end_quantum, Turns, Goto, cpuVars
<1> QED BY <1>2, TurnsInv

\* The test of close_thread: the process is to end or its request is to be
\* queued.
LEMMA handle_syscall_io_Inv ==
  ASSUME IndInv, NEW c \in CPU, NEW d \in IO, handle_syscall_io(c, d)
  PROVE  IndInv'
<1>0. /\ io \in [CPU -> IO \cup {NoThread}] /\ pc \in [Thread -> PC]
      /\ c \in Thread
  BY ThreadFacts DEF IndInv, TypeOK
<1>1. /\ pc[c] = "run"
      /\ \/ io' = io /\ pc' = [pc EXCEPT ![c] = "exec_exit"]
         \/ io' = [io EXCEPT ![c] = d] /\ pc' = [pc EXCEPT ![c] = "enqueue"]
      /\ UNCHANGED <<readyVars, pcbVars, listVars, io_list, io_closed,
                     mutex_list, holders, cpuVars, target>>
  BY Zenon DEF handle_syscall_io, Goto
<1>2. TypeOK'
  <2>1. io' \in [CPU -> IO \cup {NoThread}] /\ pc' \in [Thread -> PC]
    BY <1>0, <1>1 DEF PC
  <2> QED BY <1>1, <2>1 DEF IndInv, TypeOK, readyVars, pcbVars, listVars, cpuVars
<1>3. Stays(c)
  <2>1. pcb[c] \in Proc /\ pcb[c] # NoProc /\ target[c] = NoProc /\ reason[c] # "OTHER"
    BY <1>1, RunFacts, ThreadFacts DEF OnCpu, Resting, Inheriting
  <2>2. \A u \in Thread \ {c} : SameThread(u)
    BY <1>0, <1>1 DEF SameThread, cpuVars
  <2>3. \A q \in Proc : SameProcess(q)
    BY <1>1 DEF SameProcess, Queued, readyVars, pcbVars, listVars
  <2>4. Goes(c)
    BY <1>0, <1>1, <2>1 DEF Goes, Resting, OnCpu, Inheriting
  <2> QED BY <1>1, <2>1, <2>2, <2>3, <2>4 DEF Stays, OnCpu, cpuVars
<1>4. Quiet
  BY <1>1 DEF Quiet, readyVars, pcbVars
<1> QED BY <1>2, <1>3, <1>4, StaysPlaced, QuietStep DEF IndInv

\* Queueing an IO request while the process is still in EXEC keeps it in its
\* place.
LEMMA enqueue_io_request_Inv ==
  ASSUME IndInv, NEW c \in CPU, enqueue_io_request(c)
  PROVE  IndInv'
<1>0. /\ io \in [CPU -> IO \cup {NoThread}] /\ pc \in [Thread -> PC]
      /\ c \in Thread /\ io_list \in [IO -> SUBSET Proc]
  BY ThreadFacts DEF IndInv, TypeOK
<1>1. /\ pc[c] = "enqueue" /\ pc' = [pc EXCEPT ![c] = "exec_block"]
      /\ io' = [io EXCEPT ![c] = NoThread]
      /\ \/ io_list' = io_list
         \/ io_list' = [io_list EXCEPT ![io[c]] = io_list[io[c]] \cup {pcb[c]}]
      /\ UNCHANGED <<readyVars, pcbVars, listVars, io_closed, mutex_list,
                     holders, cpuVars, target>>
  BY DEF enqueue_io_request, Goto
<1>2. /\ pcb[c] \in Proc /\ pcb[c] # NoProc /\ target[c] = NoProc
      /\ reason[c] # "OTHER"
  BY <1>1, RunFacts, ThreadFacts
<1>3. TypeOK'
  <2>1. /\ io' \in [CPU -> IO \cup {NoThread}] /\ pc' \in [Thread -> PC]
        /\ io_list' \in [IO -> SUBSET Proc]
    BY <1>0, <1>1, <1>2 DEF PC
  <2> QED BY <1>1, <2>1 DEF IndInv, TypeOK, readyVars, pcbVars, listVars, cpuVars
<1>4. Stays(c)
  <2>1. \A u \in Thread \ {c} : SameThread(u)
    BY <1>0, <1>1 DEF SameThread, cpuVars
  <2>2. \A q \in Proc : SameProcess(q)
    BY <1>1 DEF SameProcess, Queued, readyVars, pcbVars, listVars
  <2>3. Goes(c)
    BY <1>0, <1>1, <1>2 DEF Goes, Resting, OnCpu, Inheriting
  <2> QED BY <1>1, <1>2, <2>1, <2>2, <2>3 DEF Stays, OnCpu, cpuVars
<1>5. Quiet
  BY <1>1 DEF Quiet, readyVars, pcbVars
<1> QED BY <1>3, <1>4, <1>5, StaysPlaced, QuietStep DEF IndInv

\* The first half of the preemption check records the priority it has read.
LEMMA is_lowest_priority_in_exec_Inv ==
  ASSUME IndInv, NEW c \in CPU, is_lowest_priority_in_exec(c)
  PROVE  IndInv'
<1>1. TypeOK'
  <2>1. pcb[c] \in Proc
    BY RunFacts DEF is_lowest_priority_in_exec, OnCpu, Resting, Inheriting
  <2>2. preempted_priority' \in [CPU -> Nat]
    BY <2>1, PriorityNat DEF is_lowest_priority_in_exec, IndInv, TypeOK
  <2>3. pc' \in [Thread -> PC]
    <3>1. \/ pc' = [pc EXCEPT ![c] = "preempt"]
          \/ pc' = [pc EXCEPT ![c] = "send_preemption"]
      BY DEF is_lowest_priority_in_exec, Goto
    <3> QED BY <3>1 DEF IndInv, TypeOK, PC
  <2> QED BY <2>2, <2>3
     DEF IndInv, TypeOK, is_lowest_priority_in_exec, RunUnchanged, readyVars,
         pcbVars, listVars, ioVars, cpuVars
<1>2. Stays(c)
  <2>1. pcb[c] \in Proc /\ pcb[c] # NoProc /\ target[c] = NoProc /\ reason[c] # "OTHER"
    BY RunFacts, ThreadFacts DEF is_lowest_priority_in_exec, OnCpu, Resting, Inheriting
  <2>2. /\ pc[c] \in OnCpu /\ pc'[c] \in Resting
        /\ pcb' = pcb /\ target' = target /\ reason' = reason
    BY ThreadFacts
       DEF is_lowest_priority_in_exec, OnCpu, Resting, Inheriting, Goto, cpuVars,
           IndInv, TypeOK, Thread
  <2>3. \A u \in Thread \ {c} : SameThread(u)
    BY <2>2, ThreadFacts
       DEF is_lowest_priority_in_exec, SameThread, Goto, IndInv, TypeOK,
           RunUnchanged, ioVars, cpuVars
  <2>4. \A q \in Proc : SameProcess(q)
    BY DEF is_lowest_priority_in_exec, SameProcess, Queued, RunUnchanged, readyVars,
           pcbVars, listVars, ioVars, cpuVars
  <2> QED BY <2>1, <2>2, <2>3, <2>4 DEF Stays, Goes, Resting, OnCpu, Inheriting
<1>3. Quiet
  BY ThreadFacts
     DEF is_lowest_priority_in_exec, Quiet, Goto, IndInv, TypeOK, RunUnchanged,
         readyVars, pcbVars, listVars, ioVars, cpuVars
<1> QED BY <1>1, <1>2, <1>3, StaysPlaced, QuietStep DEF IndInv

\* Refreshing the worst priority in EXEC moves nothing.
LEMMA mutex_lock_lowest_Inv ==
  ASSUME IndInv, NEW c \in CPU, mutex_lock_lowest(c)
  PROVE  IndInv'
<1>1. TypeOK'
  BY RunFacts, ThreadFacts, LowestNat
    
        DEF IndInv, TypeOK, PC, Reason, mutex_lock_lowest, Goto, RunUnchanged,
            readyVars, pcbVars, listVars, ioVars, cpuVars, OnCpu, Resting,
            Inheriting
<1>2. Stays(c)
  <2>1. pcb[c] \in Proc /\ pcb[c] # NoProc /\ target[c] = NoProc /\ reason[c] # "OTHER"
    BY RunFacts, ThreadFacts DEF mutex_lock_lowest, OnCpu, Resting, Inheriting
  <2>2. /\ pc[c] \in OnCpu /\ pc'[c] \in Resting
        /\ pcb' = pcb /\ target' = target /\ reason' = reason
    BY ThreadFacts
       DEF mutex_lock_lowest, OnCpu, Resting, Inheriting, Goto, cpuVars, IndInv,
           TypeOK, Thread
  <2>3. \A u \in Thread \ {c} : SameThread(u)
    BY <2>2, ThreadFacts
       DEF mutex_lock_lowest, SameThread, Goto, IndInv, TypeOK, RunUnchanged,
           ioVars, cpuVars
  <2>4. \A q \in Proc : SameProcess(q)
    BY DEF mutex_lock_lowest, SameProcess, Queued, RunUnchanged, readyVars, pcbVars,
           listVars, ioVars, cpuVars
  <2> QED BY <2>1, <2>2, <2>3, <2>4 DEF Stays, Goes, Resting, OnCpu, Inheriting
<1>3. Quiet
  BY ThreadFacts
     DEF mutex_lock_lowest, Quiet, Goto, IndInv, TypeOK, RunUnchanged, readyVars,
         pcbVars, listVars, ioVars, cpuVars
<1> QED BY <1>1, <1>2, <1>3, StaysPlaced, QuietStep DEF IndInv

\* A step that changes priorities keeps the levels of READY if the queued
\* processes keep theirs.
LEMMA PriorityLevelled ==
  ASSUME IndInv, LevelsKept, UNCHANGED <<queues, state>>,
         Multilevel => \A p \in Proc : state[p] \in Live =>
           priority'[p] = priority[p] \/ priority'[p] \in Level
  PROVE  Levelled'
<1> SUFFICES ASSUME Multilevel
             PROVE  /\ \A p \in Proc : state[p] \in Live => priority'[p] \in Level
                    /\ \A l \in Level : \A i \in DOMAIN queues[l] :
                         priority'[queues[l][i]] = l
  BY DEF Levelled
<1>1. \A p \in Proc : state[p] \in Live => priority'[p] \in Level
  BY DEF IndInv, Levelled
<1>2. ASSUME NEW l \in Level, NEW i \in DOMAIN queues[l]
      PROVE  priority'[queues[l][i]] = l
  <2>1. queues \in [Level -> Seq(Proc)]
    BY DEF IndInv, TypeOK
  <2>2. queues[l][i] \in Proc /\ Queued(queues[l][i])
    BY <2>1 DEF Queued, InQueues
  <2>3. priority'[queues[l][i]] = priority[queues[l][i]]
    BY <2>2 DEF LevelsKept
  <2> QED BY <2>3 DEF IndInv, Levelled
<1> QED BY <1>1, <1>2

\* Where propagate_priority_transitive leads.
LEMMA PropagateStep ==
  ASSUME TypeOK, NEW c \in CPU, propagate_priority_transitive(c)
  PROVE  /\ pc' \in [Thread -> PC] /\ target' \in [Thread -> Proc \cup {NoProc}]
         /\ \/ pc'[c] = "inherit" /\ target'[c] # NoProc
            \/ pc'[c] = "mutex_lowest" /\ target'[c] = NoProc
         /\ \A u \in Thread \ {c} : pc'[u] = pc[u] /\ target'[u] = target[u]
<1>1. /\ pc \in [Thread -> PC] /\ target \in [Thread -> Proc \cup {NoProc}]
      /\ holders \in SUBSET Proc /\ c \in Thread /\ NoProc \notin Proc
  BY ThreadFacts DEF TypeOK
<1>2. CASE pc' = [pc EXCEPT ![c] = "mutex_lowest"]
           /\ target' = [target EXCEPT ![c] = NoProc]
  BY <1>1, <1>2 DEF PC
<1>3. ASSUME NEW q \in holders, pc' = [pc EXCEPT ![c] = "inherit"],
             target' = [target EXCEPT ![c] = q]
      PROVE  /\ pc' \in [Thread -> PC]
             /\ target' \in [Thread -> Proc \cup {NoProc}]
             /\ pc'[c] = "inherit" /\ target'[c] # NoProc
             /\ \A u \in Thread \ {c} : pc'[u] = pc[u] /\ target'[u] = target[u]
  BY <1>1, <1>3 DEF PC
<1> QED BY <1>2, <1>3 DEF propagate_priority_transitive, Goto

\* replace_priority changes a priority and moves nothing.
LEMMA replace_priority_Inv ==
  ASSUME IndInv, LevelsKept, NEW c \in CPU, NEW n \in Priority,
         replace_priority(c, n)
  PROVE  IndInv'
<1>0. /\ pc \in [Thread -> PC] /\ target \in [Thread -> Proc \cup {NoProc}]
      /\ c \in Thread /\ priority \in [Proc -> Priority] /\ TypeOK
      /\ \A m \in Priority : m \in Nat
  BY ThreadFacts, PriorityNat DEF IndInv, TypeOK
<1>1. /\ pc[c] = "inherit"
      /\ UNCHANGED <<readyVars, state, lock_owner, active_instances, listVars,
                     ioVars, cpuVars>>
  BY DEF replace_priority
<1>2. /\ pcb[c] \in Proc /\ pcb[c] # NoProc /\ reason[c] # "OTHER"
      /\ target[c] \in Proc
  BY <1>0, <1>1, CpuFacts, ThreadFacts DEF CpuControl, OnCpu, Inheriting
<1>3. /\ pc' \in [Thread -> PC] /\ target' \in [Thread -> Proc \cup {NoProc}]
      /\ \A u \in Thread \ {c} : pc'[u] = pc[u] /\ target'[u] = target[u]
      /\ \/ pc'[c] = "inherit" /\ target'[c] # NoProc
         \/ pc'[c] = "mutex_lowest" /\ target'[c] = NoProc
         \/ pc'[c] = "update_priority" /\ target'[c] # NoProc /\ Multilevel
  <2>1. \/ propagate_priority_transitive(c)
        \/ /\ target' = [target EXCEPT ![c] = NoProc]
           /\ pc' = [pc EXCEPT ![c] = "mutex_lowest"]
        \/ Multilevel /\ pc' = [pc EXCEPT ![c] = "update_priority"]
           /\ target' = target
    BY DEF replace_priority, Goto
  <2>2. CASE propagate_priority_transitive(c)
    BY <2>2, <1>0, PropagateStep
  <2>3. CASE /\ target' = [target EXCEPT ![c] = NoProc]
             /\ pc' = [pc EXCEPT ![c] = "mutex_lowest"]
    BY <2>3, <1>0 DEF PC
  <2>4. CASE Multilevel /\ pc' = [pc EXCEPT ![c] = "update_priority"]
             /\ target' = target
    BY <2>4, <1>0, <1>2, ThreadFacts DEF PC
  <2> QED BY <2>1, <2>2, <2>3, <2>4
<1>4. \/ priority' = priority
      \/ /\ priority' = [priority EXCEPT ![target[c]] = n]
         /\ Multilevel => n < Levels
  BY DEF replace_priority, check_priority_valid
<1>5. TypeOK'
  <2>1. priority' \in [Proc -> Priority]
    BY <1>0, <1>2, <1>4
  <2> QED BY <1>1, <1>3, <2>1 DEF TypeOK, IndInv, readyVars, listVars, ioVars, cpuVars
<1>6. Stays(c)
  <2>1. \A u \in Thread \ {c} : SameThread(u)
    BY <1>1, <1>3 DEF SameThread, ioVars, cpuVars
  <2>2. \A p \in Proc : SameProcess(p)
    BY <1>1 DEF SameProcess, Queued, readyVars, listVars
  <2>3. Goes(c)
    BY <1>3 DEF Goes, Resting, OnCpu, Inheriting
  <2> QED BY <1>1, <1>2, <2>1, <2>2, <2>3 DEF Stays, OnCpu, cpuVars
<1>7. Levelled'
  <2>1. Multilevel => \A p \in Proc : state[p] \in Live =>
          priority'[p] = priority[p] \/ priority'[p] \in Level
    BY <1>0, <1>2, <1>4, LevelsAssumption DEF Level
  <2>2. UNCHANGED <<queues, state>>
    BY <1>1 DEF readyVars
  <2> QED BY <2>1, <2>2, PriorityLevelled
<1>8. ReadyCount' /\ HighestIsExact'
  BY <1>1 DEF readyVars, IndInv, ReadyCount, HighestIsExact, Queued
<1>9. Instances'
  BY <1>1, <1>3, ThreadFacts DEF IndInv, Instances, Refs
<1> QED BY <1>5, <1>6, <1>7, <1>8, <1>9, StaysPlaced DEF IndInv

-----------------------------------------------------------------------------
(* Steps of a CPU thread that lets go of its process, if it has one.       *)

Drops(c) ==
  /\ pc[c] \in OnCpu \cup {"closed", "request"} /\ target[c] = NoProc
  /\ pc'[c] \in {"closed", "request"} /\ pcb'[c] = NoProc /\ target'[c] = NoProc
  /\ \A u \in Thread \ {c} : SameThread(u)
  /\ \A q \in Proc : SameProcess(q)

\* When a thread lets go of its process, which stays in EXEC, every process
\* keeps its place.
LEMMA DropsPlaced ==
  ASSUME IndInv, NEW c \in CPU, Drops(c)
  PROVE  Placed'
<1>1. c \in Thread /\ c \notin IO /\ c \notin {Suspender, Resumer, Resumption}
  BY ThreadFacts
<1>2. Frame(c, {})
  BY DEF Frame, Drops
<1>3. ThreadOK(c)'
  <2>1. CpuControl(c)' /\ OwnProcess(c)' /\ NextProcess(c)' /\ MovedProcess(c)'
    BY DEF Drops, CpuControl, OwnProcess, NextProcess, MovedProcess, OnCpu, Between,
           Inheriting, Moving
  <2> QED BY <1>1, <2>1 DEF ThreadOK
<1>4. \A q \in Proc : ~Owns(c, q)'
  BY ThreadFacts DEF Drops, Owns, Moving
<1>5. \A q \in Proc : ~Holds(c, q)
  <2>1. pc[c] \notin {"ready_exec", "to_exec", "update_lowest", "enter", "to_exit"}
    BY DEF Drops, OnCpu
  <2> QED BY <2>1, ThreadFacts DEF Drops, Holds, HeldByCpu, Carries
<1> QED BY <1>1, <1>2, <1>3, <1>4, <1>5, FramePlaced DEF IndInv

\* A CPU connects.
LEMMA handle_new_cpu_Inv ==
  ASSUME IndInv, NEW c \in CPU, handle_new_cpu(c)
  PROVE  IndInv'
<1>1. TypeOK'
  BY ThreadFacts DEF IndInv, TypeOK, PC, handle_new_cpu, Goto, RunUnchanged,
                     readyVars, pcbVars, listVars, ioVars, cpuVars
<1>2. pcb[c] = NoProc /\ target[c] = NoProc
  BY CpuFacts DEF handle_new_cpu, CpuControl, Replacing, Inheriting
<1>3. pc'[c] = "request" /\ \A u \in Thread \ {c} : SameThread(u)
  BY ThreadFacts
     DEF handle_new_cpu, Goto, IndInv, TypeOK, SameThread, RunUnchanged, cpuVars,
         ioVars
<1>4. \A q \in Proc : SameProcess(q)
  BY DEF handle_new_cpu, SameProcess, Queued, RunUnchanged, readyVars, pcbVars,
         listVars
<1>5. Drops(c)
  BY <1>2, <1>3, <1>4 DEF Drops, handle_new_cpu, cpuVars
<1>6. Quiet
  BY ThreadFacts DEF handle_new_cpu, Quiet, Goto, IndInv, TypeOK, RunUnchanged,
                     pcbVars, cpuVars
<1> QED BY <1>1, <1>5, <1>6, DropsPlaced, QuietStep DEF IndInv

\* Telling the CPU, and the ways the thread's loop can end.
LEMMA send_preemption_Inv ==
  ASSUME IndInv, NEW c \in CPU, send_preemption(c)
  PROVE  IndInv'
<1>0. /\ pc \in [Thread -> PC] /\ pcb \in [CPU -> Proc \cup {NoProc}]
      /\ reason \in [CPU -> Reason] /\ keep_running \in [CPU -> BOOLEAN]
      /\ c \in Thread /\ c \in CPU
  BY ThreadFacts DEF IndInv, TypeOK
<1>1. PICK label \in {"exec_ready", "closed", "request", "run"} :
        /\ pc' = [pc EXCEPT ![c] = label]
        /\ \/ /\ label = "exec_ready" /\ reason[c] = "HIGHER_PRIORITY"
              /\ pcb' = pcb /\ reason' = reason /\ keep_running' = keep_running
           \/ /\ label = "closed" /\ pcb' = [pcb EXCEPT ![c] = NoProc]
              /\ reason' = [reason EXCEPT ![c] = "OTHER"]
              /\ keep_running' = [keep_running EXCEPT ![c] = TRUE]
           \/ /\ label = "request" /\ reason[c] = "OTHER"
              /\ pcb' = pcb /\ reason' = reason /\ keep_running' = keep_running
           \/ /\ label = "run" /\ reason[c] # "OTHER"
              /\ pcb' = pcb /\ keep_running' = keep_running
              /\ reason' = [reason EXCEPT ![c] = "NO_PREEMPTION"] \/ reason' = reason
  <2>1. CASE reason[c] = "OTHER"
    BY <2>1 DEF send_preemption, close_thread_cpu, Goto
  <2>2. CASE reason[c] # "OTHER"
    BY <2>2 DEF send_preemption, close_thread_cpu, Goto
  <2> QED BY <2>1, <2>2
<1>2. /\ UNCHANGED <<RunUnchanged, preempted_priority, target>>
      /\ pc[c] = "send_preemption"
  BY DEF send_preemption
<1>3. pc' \in [Thread -> PC] /\ reason' \in [CPU -> Reason]
      /\ pcb' \in [CPU -> Proc \cup {NoProc}] /\ keep_running' \in [CPU -> BOOLEAN]
  BY <1>0, <1>1 DEF PC, Reason
<1>4. TypeOK'
  BY <1>2, <1>3 DEF IndInv, TypeOK, RunUnchanged, readyVars, pcbVars, listVars,
                    ioVars
<1>5. target[c] = NoProc /\ (pcb[c] = NoProc <=> reason[c] = "OTHER")
  BY <1>2, CpuFacts DEF CpuControl, Replacing, Inheriting
<1>6. \A u \in Thread \ {c} : SameThread(u)
  BY <1>0, <1>1, <1>2 DEF SameThread, RunUnchanged, ioVars
<1>7. \A q \in Proc : SameProcess(q)
  BY <1>2 DEF SameProcess, Queued, RunUnchanged, readyVars, pcbVars, listVars
<1>8. Placed'
  <2>0. pc'[c] = label /\ target'[c] = NoProc
    BY <1>0, <1>1, <1>2, <1>5
  <2>1. CASE label \in {"exec_ready", "run"}
    <3>1. pcb'[c] = pcb[c] /\ reason[c] # "OTHER" /\ reason'[c] # "OTHER"
      BY <2>1, <1>0, <1>1
    <3>2. Stays(c)
      BY <2>0, <2>1, <3>1, <1>2, <1>5, <1>6, <1>7
         DEF Stays, OnCpu, Goes, Resting, Inheriting
    <3> QED BY <3>2, StaysPlaced
  <2>2. CASE label \in {"closed", "request"}
    <3>1. pcb'[c] = NoProc
      BY <2>2, <1>0, <1>1, <1>5
    <3>2. Drops(c)
      BY <2>0, <2>2, <3>1, <1>2, <1>5, <1>6, <1>7 DEF Drops, OnCpu
    <3> QED BY <3>2, DropsPlaced
  <2> QED BY <1>1, <2>1, <2>2
<1>9. Quiet
  BY <1>2 DEF Quiet, RunUnchanged, pcbVars
<1> QED BY <1>4, <1>8, <1>9, QuietStep DEF IndInv

-----------------------------------------------------------------------------
(* Dispatching a process and taking it out of EXEC.                        *)

\* Nobody is responsible for a process that is queued, waits in a list of
\* blocked processes, or has not been created.
LEMMA Unowned ==
  ASSUME IndInv, NEW p \in Proc,
         \/ Queued(p)
         \/ Free(p) /\ state[p] \in {"BLOCK", "SUSP_BLOCK", "SUSP_READY", "UNBORN"}
  PROVE  \A u \in Thread : ~Owns(u, p)
<1>0. /\ Free(p) /\ state[p] \in {"READY", "BLOCK", "SUSP_BLOCK", "SUSP_READY", "UNBORN"}
      /\ state[p] = "READY" => Queued(p)
  BY DEF IndInv, Placed, Listed
<1> SUFFICES ASSUME NEW u \in Thread, Owns(u, p) PROVE FALSE
  OBVIOUS
<1>1. CASE u \in CPU /\ pcb[u] = p
  <2>1. CpuControl(u) /\ OwnProcess(u) /\ p # NoProc /\ u # NoThread
    BY <1>1, CpuFacts, ThreadFacts
  <2>2. pc[u] \in OnCpu \cup Between
    BY <2>1, <1>1 DEF CpuControl, Inheriting
  <2>3. lock_owner[p] # u
    BY <1>0, <2>1 DEF Free
  <2>4. pc[u] \in Between => pc[u] \in {"ready_exec", "to_exec", "update_lowest", "enter", "to_exit"}
    BY DEF Between
  <2> QED BY <1>0, <1>1, <2>1, <2>2, <2>3, <2>4 DEF OwnProcess
<1>2. CASE u \in CPU /\ target[u] = p /\ pc[u] \in Replacing \cup {"new_ready"}
  BY <1>0, <1>2, CpuFacts, ThreadFacts DEF NextProcess
<1>3. CASE target[u] = p /\ pc[u] \in Moving
  BY <1>0, <1>3, ThreadFacts DEF IndInv, Placed, ThreadOK, MovedProcess, Free, Moving
<1> QED BY <1>1, <1>2, <1>3 DEF Owns, Moving

\* What Levelled needs of a step that changes READY.
LEMMA LevelledStep ==
  ASSUME Levelled, UNCHANGED priority,
         Multilevel => \A p \in Proc : state'[p] \in Live =>
           state[p] \in Live \/ priority[p] \in Level,
         Multilevel => \A l \in Level : \A i \in DOMAIN queues'[l] :
           \/ \E j \in DOMAIN queues[l] : queues'[l][i] = queues[l][j]
           \/ priority[queues'[l][i]] = l
  PROVE  Levelled'
<1> SUFFICES ASSUME Multilevel
             PROVE  /\ \A p \in Proc : state'[p] \in Live => priority[p] \in Level
                    /\ \A l \in Level : \A i \in DOMAIN queues'[l] :
                         priority[queues'[l][i]] = l
  BY DEF Levelled
<1>1. \A p \in Proc : state'[p] \in Live => priority[p] \in Level
  BY DEF Levelled
<1>2. \A l \in Level : \A i \in DOMAIN queues'[l] : priority[queues'[l][i]] = l
  BY DEF Levelled
<1> QED BY <1>1, <1>2

\* A thread takes the head of READY in its hands, or closes.
LEMMA manage_request_process_Inv ==
  ASSUME IndInv, NEW c \in CPU, manage_request_process(c)
  PROVE  IndInv'
<1>0. /\ pc[c] = "request" /\ pcb[c] = NoProc /\ target[c] = NoProc /\ c \in Thread
      /\ c \notin IO /\ c \notin {Suspender, Resumer, Resumption}
      /\ UNCHANGED <<pcbVars, listVars, ioVars, preempted_priority, target>>
  BY CpuFacts, ThreadFacts DEF manage_request_process, CpuControl, Replacing, Inheriting
<1>t. /\ pc \in [Thread -> PC] /\ pcb \in [CPU -> Proc \cup {NoProc}]
      /\ reason \in [CPU -> Reason] /\ keep_running \in [CPU -> BOOLEAN]
  BY DEF IndInv, TypeOK
<1>1. CASE AllEmpty(queues)
  <2>1. /\ pc' = [pc EXCEPT ![c] = "closed"] /\ pcb' = [pcb EXCEPT ![c] = NoProc]
        /\ reason' = [reason EXCEPT ![c] = "OTHER"]
        /\ keep_running' = [keep_running EXCEPT ![c] = TRUE]
        /\ UNCHANGED readyVars
    BY <1>1 DEF manage_request_process, close_thread_cpu, Goto
  <2>2. /\ pc' \in [Thread -> PC] /\ pcb' \in [CPU -> Proc \cup {NoProc}]
        /\ reason' \in [CPU -> Reason] /\ keep_running' \in [CPU -> BOOLEAN]
    BY <2>1, <1>t DEF PC, Reason
  <2>3. TypeOK'
    BY <2>1, <2>2, <1>0 DEF IndInv, TypeOK, readyVars, pcbVars, listVars, ioVars
  <2>4. \A u \in Thread \ {c} : SameThread(u)
    BY <2>1, <1>0, <1>t DEF SameThread, ioVars
  <2>5. \A q \in Proc : SameProcess(q)
    BY <2>1, <1>0 DEF SameProcess, Queued, readyVars, pcbVars, listVars
  <2>6. Drops(c)
    BY <2>1, <2>4, <2>5, <1>0, <1>t DEF Drops
  <2>7. Quiet
    BY <2>1, <1>0, <1>t, ThreadFacts DEF Quiet, pcbVars
  <2> QED BY <2>3, <2>6, <2>7, DropsPlaced, QuietStep DEF IndInv
<1>2. CASE ~AllEmpty(queues)
  <2>1. PICK p \in Proc :
          /\ transition_take_ready_next(p)
          /\ pcb' = [pcb EXCEPT ![c] = p] /\ pc' = [pc EXCEPT ![c] = "ready_exec"]
          /\ UNCHANGED <<reason, keep_running>>
    BY <1>2 DEF manage_request_process, Goto
  <2>2. /\ Queued(p) /\ ~Queued(p)'
        /\ queues' \in [Level -> Seq(Proc)]
        /\ ready_process_count' \in Nat /\ highest_priority' \in Nat
        /\ preempt_all' = preempt_all
        /\ \A q \in Proc \ {p} : Queued(q)' <=> Queued(q)
        /\ ReadyCount' /\ HighestIsExact'
        /\ \A l \in Level : \A i \in DOMAIN queues'[l] :
              \E j \in DOMAIN queues[l] : queues'[l][i] = queues[l][j]
    BY <2>1, TakeNext DEF IndInv
  <2>3. TypeOK'
    <3>1. pc' \in [Thread -> PC] /\ pcb' \in [CPU -> Proc \cup {NoProc}]
      BY <2>1, <1>t DEF PC
    <3> QED BY <2>1, <2>2, <3>1, <1>0
            DEF IndInv, TypeOK, pcbVars, listVars, ioVars
  <2>4. Frame(c, {p})
    <3>1. \A u \in Thread \ {c} : SameThread(u)
      BY <2>1, <1>0, <1>t DEF SameThread, ioVars
    <3>2. \A q \in Proc \ {p} : SameProcess(q)
      BY <2>2, <1>0 DEF SameProcess, pcbVars, listVars
    <3> QED BY <3>1, <3>2, <2>2, Unowned DEF Frame
  <2>5. pc'[c] = "ready_exec" /\ pcb'[c] = p /\ target'[c] = NoProc
    BY <2>1, <1>0, <1>t
  <2>6. state'[p] = "READY" /\ Free(p)' /\ Listed(p)'
    <3>1. Listed(p) /\ state[p] = "READY" /\ Free(p)
      BY <2>2 DEF IndInv, Placed, Listed
    <3>2. /\ state' = state /\ lock_owner' = lock_owner /\ exec' = exec
          /\ block' = block /\ susp_block' = susp_block /\ susp_ready' = susp_ready
      BY <1>0 DEF pcbVars, listVars
    <3> QED BY <3>1, <3>2, <2>2 DEF Listed, Free
  <2>7. ThreadOK(c)'
    <3>1. CpuControl(c)'
      BY <2>5, ThreadFacts DEF CpuControl, OnCpu, Between, Inheriting
    <3>2. OwnProcess(c)'
      BY <2>2, <2>5, <2>6 DEF OwnProcess, OnCpu
    <3>3. NextProcess(c)' /\ MovedProcess(c)'
      BY <2>5 DEF NextProcess, MovedProcess, Moving
    <3> QED BY <1>0, <3>1, <3>2, <3>3 DEF ThreadOK
  <2>8. NotLost(p)'
    BY <2>5, <1>0 DEF NotLost, Holds, HeldByCpu
  <2>9. \A q \in Proc : Owns(c, q)' => q = p
    BY <2>5, ThreadFacts DEF Owns, Moving
  <2>10. \A q \in Proc : ~Holds(c, q)
    BY <1>0, ThreadFacts DEF Holds, HeldByCpu, Carries
  <2>11. Placed'
    BY <1>0, <2>4, <2>6, <2>7, <2>8, <2>9, <2>10, FramePlaced DEF IndInv
  <2>12. Instances'
    BY <1>0 DEF IndInv, Instances, Refs, pcbVars
  <2>13. Levelled'
    <3>1. Levelled /\ priority' = priority /\ state' = state
      BY <1>0 DEF IndInv, pcbVars
    <3> QED BY <2>2, <3>1, LevelledStep
  <2> QED BY <2>2, <2>3, <2>11, <2>12, <2>13 DEF IndInv
<1> QED BY <1>1, <1>2

\* The dispatched process becomes EXEC while it is in the thread's hands.
LEMMA transition_ready_exec_Inv ==
  ASSUME IndInv, NEW c \in CPU, transition_ready_exec(c)
  PROVE  IndInv'
<1>0. /\ c \in Thread /\ c \notin IO /\ c \notin {Suspender, Resumer, Resumption}
      /\ pc \in [Thread -> PC] /\ state \in [Proc -> State] /\ exec \in [Proc -> Nat]
      /\ block \in [Proc -> Nat] /\ susp_block \in [Proc -> Nat]
      /\ susp_ready \in [Proc -> Nat]
  BY ThreadFacts DEF IndInv, TypeOK
<1>1. PICK p \in Proc :
      /\ p = pcb[c] /\ p # NoProc /\ state[p] = "READY" /\ Free(p) /\ ~Queued(p)
      /\ target[c] = NoProc /\ pc[c] = "ready_exec"
      /\ \A u \in Thread \ {c} : ~Owns(u, p)
  BY CpuFacts, ThreadFacts
     DEF transition_ready_exec, CpuControl, OwnProcess, Replacing, Inheriting
<1>2. Listed(p) /\ exec[p] = 0 /\ block[p] = 0 /\ susp_block[p] = 0 /\ susp_ready[p] = 0
  BY <1>0, <1>1 DEF IndInv, Placed, Listed
<1>3. /\ state' = [state EXCEPT ![p] = "EXEC"] /\ pc' = [pc EXCEPT ![c] = "to_exec"]
      /\ UNCHANGED <<readyVars, priority, lock_owner, active_instances, listVars,
                     ioVars, cpuVars, target>>
  BY <1>1 DEF transition_ready_exec, Goto
<1>4. TypeOK'
  <2>1. state' \in [Proc -> State] /\ pc' \in [Thread -> PC]
    BY <1>0, <1>1, <1>3 DEF State, PC
  <2> QED BY <1>3, <2>1 DEF IndInv, TypeOK, readyVars, listVars, ioVars, cpuVars
<1>5. Frame(c, {p})
  <2>1. \A u \in Thread \ {c} : SameThread(u)
    BY <1>0, <1>3 DEF SameThread, cpuVars, ioVars
  <2>2. \A q \in Proc \ {p} : SameProcess(q)
    BY <1>0, <1>3 DEF SameProcess, Queued, readyVars, listVars
  <2> QED BY <1>1, <2>1, <2>2 DEF Frame
<1>6. /\ pc'[c] = "to_exec" /\ pcb'[c] = p /\ target'[c] = NoProc
      /\ state'[p] = "EXEC" /\ Free(p)' /\ exec'[p] = 0 /\ ~Queued(p)'
      /\ block'[p] = 0 /\ susp_block'[p] = 0 /\ susp_ready'[p] = 0
  BY <1>0, <1>1, <1>2, <1>3 DEF cpuVars, listVars, readyVars, Free, Queued
<1>7. ThreadOK(c)'
  <2>1. CpuControl(c)'
    BY <1>1, <1>6 DEF CpuControl, OnCpu, Between, Inheriting
  <2>2. OwnProcess(c)'
    BY <1>6 DEF OwnProcess, OnCpu
  <2>3. NextProcess(c)' /\ MovedProcess(c)'
    BY <1>6 DEF NextProcess, MovedProcess, Moving
  <2> QED BY <1>0, <2>1, <2>2, <2>3 DEF ThreadOK
<1>8. Listed(p)'
  BY <1>6 DEF Listed
<1>9. NotLost(p)'
  BY <1>6, <1>0 DEF NotLost, Holds, HeldByCpu
<1>10. /\ \A q \in Proc : Owns(c, q)' => q = p
       /\ \A q \in Proc : Holds(c, q) => q = p
  BY <1>1, <1>6, ThreadFacts DEF Owns, Holds, HeldByCpu, Carries, Moving
<1>11. Placed'
  BY <1>0, <1>1, <1>5, <1>7, <1>8, <1>9, <1>10, FramePlaced DEF IndInv
<1>12. Quiet
  BY <1>0, <1>1, <1>3, ThreadFacts DEF Quiet, cpuVars, Live, Gone
<1> QED BY <1>4, <1>11, <1>12, QuietStep DEF IndInv

\* The dispatched process enters the EXEC list.
LEMMA transition_to_exec_Inv ==
  ASSUME IndInv, NEW c \in CPU, transition_to_exec(c)
  PROVE  IndInv'
<1>0. /\ c \in Thread /\ c \notin IO /\ c \notin {Suspender, Resumer, Resumption}
      /\ pc \in [Thread -> PC] /\ exec \in [Proc -> Nat]
      /\ pcb \in [CPU -> Proc \cup {NoProc}] /\ reason \in [CPU -> Reason]
      /\ keep_running \in [CPU -> BOOLEAN]
      /\ lowest_priority \in Nat /\ priority \in [Proc -> Priority]
  BY ThreadFacts DEF IndInv, TypeOK
<1>1. PICK p \in Proc :
      /\ p = pcb[c] /\ p # NoProc /\ state[p] = "EXEC" /\ Free(p) /\ exec[p] = 0
      /\ target[c] = NoProc /\ pc[c] = "to_exec"
      /\ \A u \in Thread \ {c} : ~Owns(u, p)
  BY CpuFacts, ThreadFacts
     DEF transition_to_exec, CpuControl, OwnProcess, Replacing, Inheriting
<1>2. /\ exec' = [exec EXCEPT ![p] = 1]
      /\ lowest_priority' \in {lowest_priority, priority[p]}
      /\ UNCHANGED <<readyVars, pcbVars, block, susp_block, susp_ready, ioVars,
                     preempted_priority, target>>
  BY <1>0, <1>1 DEF transition_to_exec, Plus
<1>3. PICK label \in {"send_preemption", "run", "closed"} :
        /\ pc' = [pc EXCEPT ![c] = label]
        /\ \/ /\ label = "send_preemption" /\ reason[c] = "HIGHER_PRIORITY"
              /\ UNCHANGED <<pcb, reason, keep_running>>
           \/ /\ label = "run" /\ reason' = [reason EXCEPT ![c] = "NO_PREEMPTION"]
              /\ UNCHANGED <<pcb, keep_running>>
           \/ /\ label = "closed" /\ pcb' = [pcb EXCEPT ![c] = NoProc]
              /\ reason' = [reason EXCEPT ![c] = "OTHER"]
              /\ keep_running' = [keep_running EXCEPT ![c] = TRUE]
  BY DEF transition_to_exec, close_thread_cpu, Goto
<1>4. TypeOK'
  <2>1. exec' \in [Proc -> Nat] /\ lowest_priority' \in Nat
    BY <1>0, <1>1, <1>2, PriorityNat
  <2>2. /\ pc' \in [Thread -> PC] /\ reason' \in [CPU -> Reason]
        /\ pcb' \in [CPU -> Proc \cup {NoProc}] /\ keep_running' \in [CPU -> BOOLEAN]
    BY <1>0, <1>3 DEF PC, Reason
  <2> QED BY <1>2, <2>1, <2>2 DEF IndInv, TypeOK, readyVars, pcbVars, ioVars
<1>5. Frame(c, {p})
  <2>1. \A u \in Thread \ {c} : SameThread(u)
    BY <1>0, <1>2, <1>3 DEF SameThread, ioVars
  <2>2. \A q \in Proc \ {p} : SameProcess(q)
    BY <1>0, <1>2 DEF SameProcess, Queued, readyVars, pcbVars
  <2> QED BY <1>1, <2>1, <2>2 DEF Frame
<1>6. /\ pc'[c] = label /\ target'[c] = NoProc
      /\ label = "closed" => pcb'[c] = NoProc
      /\ label # "closed" => pcb'[c] = p /\ reason'[c] # "OTHER"
  BY <1>0, <1>1, <1>2, <1>3
<1>7. state'[p] = "EXEC" /\ Free(p)' /\ exec'[p] = 1
  BY <1>0, <1>1, <1>2 DEF pcbVars, Free
<1>8. ThreadOK(c)'
  <2>1. CpuControl(c)'
    BY <1>1, <1>6 DEF CpuControl, OnCpu, Between, Inheriting
  <2>2. OwnProcess(c)'
    BY <1>6, <1>7 DEF OwnProcess, OnCpu
  <2>3. NextProcess(c)' /\ MovedProcess(c)'
    BY <1>6 DEF NextProcess, MovedProcess, Moving
  <2> QED BY <1>0, <2>1, <2>2, <2>3 DEF ThreadOK
<1>9. Listed(p)'
  <2>1. Listed(p)
    BY <1>1 DEF IndInv, Placed
  <2>2. /\ Queued(p)' <=> Queued(p)
        /\ block' = block /\ susp_block' = susp_block /\ susp_ready' = susp_ready
    BY <1>2 DEF Queued, readyVars
  <2> QED BY <1>1, <1>7, <2>1, <2>2 DEF Listed
<1>10. NotLost(p)'
  BY <1>7 DEF NotLost
<1>11. /\ \A q \in Proc : Owns(c, q)' => q = p
       /\ \A q \in Proc : Holds(c, q) => q = p
  BY <1>1, <1>6, ThreadFacts DEF Owns, Holds, HeldByCpu, Carries, Moving
<1>12. Placed'
  BY <1>0, <1>1, <1>5, <1>8, <1>9, <1>10, <1>11, FramePlaced DEF IndInv
<1>13. Quiet
  BY <1>2 DEF Quiet, pcbVars
<1> QED BY <1>4, <1>12, <1>13, QuietStep DEF IndInv

\* A process leaves the EXEC list, in the hands of its own CPU thread.
LEMMA leave_exec_Inv ==
  ASSUME IndInv, NEW c \in CPU, leave_exec(c)
  PROVE  IndInv'
<1>0. /\ c \in Thread /\ c \notin IO /\ c \notin {Suspender, Resumer, Resumption}
      /\ pc \in [Thread -> PC] /\ state \in [Proc -> State] /\ exec \in [Proc -> Nat]
      /\ lock_owner \in [Proc -> Thread \cup {NoThread}] /\ c # NoThread
      /\ mutex_list \in SUBSET Proc
      /\ target[c] \in Proc \cup {NoProc}
  BY ThreadFacts DEF IndInv, TypeOK
<1>1. pc[c] \in {"exec_ready", "exec_block", "mutex_block", "exec_exit"}
  BY DEF leave_exec, Destination
<1>2. PICK p \in Proc :
      /\ p = pcb[c] /\ p # NoProc /\ state[p] = "EXEC" /\ Free(p) /\ exec[p] = 1
      /\ target[c] # NoProc => pc[c] = "exec_ready"
      /\ \A u \in Thread \ {c} : ~Owns(u, p)
  BY <1>1, CpuFacts, ThreadFacts
     DEF CpuControl, OwnProcess, Replacing, OnCpu, Inheriting
<1>3. PICK dest \in {"READY", "BLOCK", "EXIT"} :
        dest = Destination[pc[c]] /\ (pc[c] = "exec_ready" => dest = "READY")
  BY <1>1 DEF Destination
<1>4. /\ state' = [state EXCEPT ![p] = dest]
      /\ lock_owner' = [lock_owner EXCEPT ![p] = c]
      /\ exec' = [exec EXCEPT ![p] = 0] /\ pc' = [pc EXCEPT ![c] = "update_lowest"]
      /\ UNCHANGED <<cpuVars, target>>
      /\ UNCHANGED <<readyVars, priority, active_instances, lowest_priority,
                     block, susp_block, susp_ready, io_list, io_closed, io, holders>>
      /\ mutex_list' \in {mutex_list, mutex_list \cup {p}}
  BY <1>0, <1>2, <1>3 DEF leave_exec, Minus, Goto
<1>5. TypeOK'
  <2>1. /\ state' \in [Proc -> State] /\ exec' \in [Proc -> Nat]
        /\ lock_owner' \in [Proc -> Thread \cup {NoThread}]
        /\ pc' \in [Thread -> PC] /\ mutex_list' \in SUBSET Proc
    BY <1>0, <1>2, <1>3, <1>4 DEF State, PC
  <2> QED BY <1>4, <2>1 DEF IndInv, TypeOK, readyVars, cpuVars
<1>6. Frame(c, {p})
  <2>1. \A u \in Thread \ {c} : SameThread(u)
    BY <1>0, <1>4 DEF SameThread, cpuVars, ioVars
  <2>2. \A q \in Proc \ {p} : SameProcess(q)
    BY <1>0, <1>4 DEF SameProcess, Queued, readyVars
  <2> QED BY <1>2, <2>1, <2>2 DEF Frame
<1>7. /\ pc'[c] = "update_lowest" /\ pcb'[c] = p /\ target'[c] = target[c]
      /\ state'[p] = dest /\ lock_owner'[p] = c /\ exec'[p] = 0
  BY <1>0, <1>2, <1>4 DEF cpuVars
<1>8. ThreadOK(c)'
  <2>1. CpuControl(c)'
    BY <1>2, <1>7 DEF CpuControl, OnCpu, Between, Replacing, Inheriting
  <2>2. OwnProcess(c)'
    BY <1>2, <1>3, <1>7 DEF OwnProcess, OnCpu
  <2>3. NextProcess(c)'
    <3>1. CASE target[c] = NoProc
      BY <3>1, <1>7 DEF NextProcess
    <3>2. CASE target[c] # NoProc
      <4>1. PICK w \in Proc : /\ w = target[c] /\ state[w] = "READY"
                              /\ Free(w) /\ ~Queued(w)
        BY <3>2, <1>0, <1>2, CpuFacts DEF NextProcess, Replacing
      <4>2. SameProcess(w)
        BY <4>1, <1>2, <1>6 DEF Frame
      <4> QED BY <4>1, <4>2, <1>7 DEF NextProcess, SameProcess, Free
    <3> QED BY <3>1, <3>2
  <2>4. MovedProcess(c)'
    BY <1>7 DEF MovedProcess, Moving
  <2> QED BY <1>0, <2>1, <2>2, <2>3, <2>4 DEF ThreadOK
<1>9. Listed(p)'
  <2>1. Listed(p)
    BY <1>2 DEF IndInv, Placed
  <2>2. /\ Queued(p)' <=> Queued(p)
        /\ block' = block /\ susp_block' = susp_block /\ susp_ready' = susp_ready
    BY <1>4 DEF Queued, readyVars
  <2> QED BY <1>2, <1>3, <1>7, <2>1, <2>2 DEF Listed
<1>10. NotLost(p)'
  <2>1. Holds(c, p)'
    BY <1>7 DEF Holds, HeldByCpu
  <2> QED BY <1>0, <2>1 DEF NotLost
<1>11. \A q \in Proc : Owns(c, q)' => q = p \/ Owns(c, q)
  BY <1>2, <1>7, ThreadFacts DEF Owns, Replacing, Moving
<1>12. \A q \in Proc \ {p} : Holds(c, q) => Holds(c, q)'
  BY <1>1, <1>7 DEF Holds, HeldByCpu, Carries
<1>13. Placed'
  BY <1>0, <1>2, <1>6, <1>8, <1>9, <1>10, <1>11, <1>12, FramePlaced DEF IndInv
<1>14. Quiet
  BY <1>0, <1>2, <1>3, <1>4, ThreadFacts DEF Quiet, cpuVars, Live, Gone
<1> QED BY <1>5, <1>13, <1>14, QuietStep DEF IndInv

\* The worst priority is recomputed while the process is in no list.
LEMMA update_lowest_exec_priority_Inv ==
  ASSUME IndInv, NEW c \in CPU, update_lowest_exec_priority(c)
  PROVE  IndInv'
<1>0. /\ c \in Thread /\ c \notin IO /\ c \notin {Suspender, Resumer, Resumption}
      /\ pc \in [Thread -> PC] /\ priority \in [Proc -> Priority]
      /\ lowest_priority \in Nat
  BY ThreadFacts DEF IndInv, TypeOK
<1>1. /\ pc[c] = "update_lowest" /\ pc' = [pc EXCEPT ![c] = "enter"]
      /\ lowest_priority' \in {lowest_priority, Lowest(exec, priority)}
      /\ UNCHANGED <<readyVars, pcbVars, exec, block, susp_block, susp_ready,
                     ioVars, cpuVars, target>>
  BY DEF update_lowest_exec_priority, Goto
<1>2. TypeOK'
  <2>1. pc' \in [Thread -> PC] /\ lowest_priority' \in Nat
    BY <1>0, <1>1, LowestNat DEF PC
  <2> QED BY <1>1, <2>1 DEF IndInv, TypeOK, readyVars, pcbVars, ioVars, cpuVars
<1>3. Frame(c, {})
  <2>1. \A u \in Thread \ {c} : SameThread(u)
    BY <1>0, <1>1 DEF SameThread, cpuVars, ioVars
  <2>2. \A q \in Proc : SameProcess(q)
    BY <1>1 DEF SameProcess, Queued, readyVars, pcbVars
  <2> QED BY <2>1, <2>2 DEF Frame
<1>4. /\ pc'[c] = "enter" /\ pcb' = pcb /\ target' = target /\ reason' = reason
      /\ state' = state /\ lock_owner' = lock_owner /\ queues' = queues
  BY <1>0, <1>1 DEF cpuVars, pcbVars, readyVars
<1>5. ThreadOK(c)'
  <2>1. CpuControl(c)'
    BY <1>1, <1>4, CpuFacts DEF CpuControl, OnCpu, Between, Replacing, Inheriting
  <2>2. OwnProcess(c)'
    BY <1>1, <1>4, CpuFacts DEF OwnProcess, OnCpu
  <2>3. NextProcess(c)'
    BY <1>1, <1>4, CpuFacts DEF NextProcess, Replacing, Free, Queued
  <2>4. MovedProcess(c)'
    BY <1>4 DEF MovedProcess, Moving
  <2> QED BY <1>0, <2>1, <2>2, <2>3, <2>4 DEF ThreadOK
<1>6. \A q \in Proc : /\ Owns(c, q)' => Owns(c, q)
                      /\ Holds(c, q) => Holds(c, q)'
  BY <1>1, <1>4 DEF Owns, Holds, HeldByCpu, Carries, Replacing, Moving
<1>7. Placed'
  BY <1>0, <1>3, <1>5, <1>6, FramePlaced DEF IndInv
<1>8. Quiet
  BY <1>0, <1>1, ThreadFacts DEF Quiet, pcbVars, cpuVars
<1> QED BY <1>2, <1>7, <1>8, QuietStep DEF IndInv

-----------------------------------------------------------------------------
(* The insertion that ends a transition.                                   *)

\* What inserting a process, whose state_mutex is held, does to the lists.
LEMMA EnterListStep ==
  ASSUME IndInv, NEW p \in Proc, ~Free(p), EnterList(p),
         state[p] \in {"READY", "BLOCK", "SUSP_BLOCK", "SUSP_READY", "EXIT"},
         UNCHANGED <<state, exec, priority>>
  PROVE  /\ \A q \in Proc \ {p} : SameProcess(q)
         /\ Free(p)' /\ Listed(p)' /\ NotLost(p)'
         /\ ReadyCount' /\ HighestIsExact'
         /\ queues' \in [Level -> Seq(Proc)] /\ ready_process_count' \in Nat
         /\ highest_priority' \in Nat /\ preempt_all' \in BOOLEAN
         /\ lock_owner' \in [Proc -> Thread \cup {NoThread}]
         /\ block' \in [Proc -> Nat] /\ susp_block' \in [Proc -> Nat]
         /\ susp_ready' \in [Proc -> Nat]
         /\ Multilevel => \A l \in Level : \A i \in DOMAIN queues'[l] :
              \/ \E j \in DOMAIN queues[l] : queues'[l][i] = queues[l][j]
              \/ priority[queues'[l][i]] = l
<1>0. /\ TypeOK /\ ReadyCount /\ HighestIsExact /\ Levelled
      /\ queues \in [Level -> Seq(Proc)] /\ ready_process_count \in Nat
      /\ highest_priority \in Nat /\ preempt_all \in BOOLEAN
      /\ lock_owner \in [Proc -> Thread \cup {NoThread}]
      /\ block \in [Proc -> Nat] /\ susp_block \in [Proc -> Nat]
      /\ susp_ready \in [Proc -> Nat] /\ exec \in [Proc -> Nat]
      /\ priority[p] \in Nat
  BY PriorityNat DEF IndInv, TypeOK
<1>1. /\ ~Queued(p) /\ exec[p] = 0 /\ block[p] = 0 /\ susp_block[p] = 0
      /\ susp_ready[p] = 0
  BY <1>0 DEF IndInv, Placed, Listed
<1>2. /\ lock_owner' = [lock_owner EXCEPT ![p] = NoThread]
      /\ state' = state /\ exec' = exec /\ priority' = priority
  BY DEF EnterList
<1>3. lock_owner' \in [Proc -> Thread \cup {NoThread}] /\ Free(p)'
  BY <1>0, <1>2 DEF Free
<1>4. CASE state[p] = "READY"
  <2>1. /\ transition_to_ready(p, priority[p])
        /\ UNCHANGED <<block, susp_block, susp_ready>>
    BY <1>4 DEF EnterList
  <2>2. Multilevel => priority[p] \in Level
    BY <1>0, <1>4 DEF Levelled, Live
  <2>3. /\ queues' \in [Level -> Seq(Proc)]
        /\ ready_process_count' \in Nat /\ highest_priority' \in Nat
        /\ preempt_all' = preempt_all
        /\ \A q \in Proc : Queued(q)' <=> Queued(q) \/ q = p
        /\ ReadyCount' /\ HighestIsExact'
        /\ \A l \in Level : \A i \in DOMAIN queues'[l] :
             \/ i \in DOMAIN queues[l] /\ queues'[l][i] = queues[l][i]
             \/ l = LevelOf(priority[p]) /\ queues'[l][i] = p
    <3> DEFINE n == priority[p]
    <3>1. n \in Nat /\ (Multilevel => n \in Level) /\ transition_to_ready(p, n)
      BY <1>0, <2>1, <2>2
    <3> HIDE DEF n
    <3>2. /\ queues' \in [Level -> Seq(Proc)]
          /\ ready_process_count' \in Nat /\ highest_priority' \in Nat
          /\ preempt_all' = preempt_all
          /\ \A q \in Proc : Queued(q)' <=> Queued(q) \/ q = p
          /\ ReadyCount' /\ HighestIsExact'
          /\ \A l \in Level : \A i \in DOMAIN queues'[l] :
               \/ i \in DOMAIN queues[l] /\ queues'[l][i] = queues[l][i]
               \/ l = LevelOf(n) /\ queues'[l][i] = p
      BY <3>1, <1>0, <1>1, ToReady
    <3> QED BY <3>2 DEF n
  <2>4. Multilevel => \A l \in Level : \A i \in DOMAIN queues'[l] :
          \/ \E j \in DOMAIN queues[l] : queues'[l][i] = queues[l][j]
          \/ priority[queues'[l][i]] = l
    BY <2>3 DEF LevelOf
  <2>5. Listed(p)' /\ NotLost(p)'
    BY <1>1, <1>2, <1>3, <1>4, <2>1, <2>3 DEF Listed, NotLost
  <2>6. \A q \in Proc \ {p} : SameProcess(q)
    BY <1>0, <1>2, <2>1, <2>3 DEF SameProcess
  <2> QED BY <1>0, <1>3, <2>1, <2>3, <2>4, <2>5, <2>6
<1>5. CASE state[p] # "READY"
  <2>1. /\ UNCHANGED readyVars
        /\ \/ state[p] = "BLOCK" /\ block' = [block EXCEPT ![p] = block[p] + 1]
              /\ UNCHANGED <<susp_block, susp_ready>>
           \/ state[p] = "SUSP_BLOCK" /\ susp_block' = [susp_block EXCEPT ![p] = susp_block[p] + 1]
              /\ UNCHANGED <<block, susp_ready>>
           \/ state[p] = "SUSP_READY" /\ susp_ready' = [susp_ready EXCEPT ![p] = susp_ready[p] + 1]
              /\ UNCHANGED <<block, susp_block>>
           \/ state[p] = "EXIT" /\ UNCHANGED <<block, susp_block, susp_ready>>
    BY <1>5 DEF EnterList, Plus
  <2>2. /\ queues' = queues /\ ready_process_count' = ready_process_count
        /\ highest_priority' = highest_priority /\ preempt_all' = preempt_all
    BY <2>1 DEF readyVars
  <2>3. /\ ReadyCount' /\ HighestIsExact' /\ \A q \in Proc : Queued(q)' <=> Queued(q)
    BY <1>0, <2>2 DEF ReadyCount, HighestIsExact, Queued
  <2>4. /\ block' \in [Proc -> Nat] /\ susp_block' \in [Proc -> Nat]
        /\ susp_ready' \in [Proc -> Nat]
        /\ \A q \in Proc \ {p} : /\ block'[q] = block[q]
                                 /\ susp_block'[q] = susp_block[q]
                                 /\ susp_ready'[q] = susp_ready[q]
        /\ block'[p] = IF state[p] = "BLOCK" THEN 1 ELSE 0
        /\ susp_block'[p] = IF state[p] = "SUSP_BLOCK" THEN 1 ELSE 0
        /\ susp_ready'[p] = IF state[p] = "SUSP_READY" THEN 1 ELSE 0
    <3>1. CASE state[p] = "BLOCK"
      <4>1. block' = [block EXCEPT ![p] = 1] /\ UNCHANGED <<susp_block, susp_ready>>
        BY <3>1, <1>1, <2>1
      <4> QED BY <3>1, <4>1, <1>0, <1>1
    <3>2. CASE state[p] = "SUSP_BLOCK"
      <4>1. susp_block' = [susp_block EXCEPT ![p] = 1] /\ UNCHANGED <<block, susp_ready>>
        BY <3>2, <1>1, <2>1
      <4> QED BY <3>2, <4>1, <1>0, <1>1
    <3>3. CASE state[p] = "SUSP_READY"
      <4>1. susp_ready' = [susp_ready EXCEPT ![p] = 1] /\ UNCHANGED <<block, susp_block>>
        BY <3>3, <1>1, <2>1
      <4> QED BY <3>3, <4>1, <1>0, <1>1
    <3>4. CASE state[p] = "EXIT"
      BY <3>4, <1>0, <1>1, <2>1
    <3> QED BY <1>5, <3>1, <3>2, <3>3, <3>4
  <2>5. Listed(p)' /\ NotLost(p)'
    BY <1>1, <1>2, <1>3, <1>5, <2>3, <2>4 DEF Listed, NotLost, Live
  <2>6. \A q \in Proc \ {p} : SameProcess(q)
    BY <1>0, <1>2, <2>3, <2>4 DEF SameProcess
  <2> QED BY <1>0, <1>3, <2>2, <2>3, <2>4, <2>5, <2>6
<1> QED BY <1>4, <1>5

\* A process that left EXEC enters the list of its new state.
LEMMA enter_list_Inv ==
  ASSUME IndInv, NEW c \in CPU, enter_list(c)
  PROVE  IndInv'
<1>0. /\ c \in Thread /\ c \notin IO /\ c \notin {Suspender, Resumer, Resumption}
      /\ c # NoThread
      /\ pc \in [Thread -> PC] /\ pcb \in [CPU -> Proc \cup {NoProc}]
      /\ target \in [Thread -> Proc \cup {NoProc}]
      /\ reason \in [CPU -> Reason] /\ keep_running \in [CPU -> BOOLEAN]
  BY ThreadFacts DEF IndInv, TypeOK
<1>1. PICK p \in Proc :
        /\ p = pcb[c] /\ p # NoProc /\ state[p] \in {"READY", "BLOCK", "EXIT"}
        /\ lock_owner[p] = c /\ pc[c] = "enter"
        /\ target[c] # NoProc => state[p] = "READY"
        /\ \A u \in Thread \ {c} : ~Owns(u, p)
  BY CpuFacts, ThreadFacts DEF enter_list, CpuControl, OwnProcess, Inheriting
<1>2. /\ EnterList(p)
      /\ UNCHANGED <<state, priority, active_instances, exec, lowest_priority,
                     ioVars, preempted_priority>>
  BY <1>1 DEF enter_list
<1>3. /\ \A q \in Proc \ {p} : SameProcess(q)
      /\ Free(p)' /\ Listed(p)' /\ NotLost(p)' /\ ReadyCount' /\ HighestIsExact'
      /\ queues' \in [Level -> Seq(Proc)] /\ ready_process_count' \in Nat
      /\ highest_priority' \in Nat /\ preempt_all' \in BOOLEAN
      /\ lock_owner' \in [Proc -> Thread \cup {NoThread}]
      /\ block' \in [Proc -> Nat] /\ susp_block' \in [Proc -> Nat]
      /\ susp_ready' \in [Proc -> Nat]
      /\ Multilevel => \A l \in Level : \A i \in DOMAIN queues'[l] :
           \/ \E j \in DOMAIN queues[l] : queues'[l][i] = queues[l][j]
           \/ priority[queues'[l][i]] = l
  <2>1. ~Free(p) /\ state[p] \in {"READY", "BLOCK", "SUSP_BLOCK", "SUSP_READY", "EXIT"}
    BY <1>0, <1>1 DEF Free
  <2> QED BY <1>2, <2>1, EnterListStep
<1>4. PICK label \in {"ready_exec", "closed", "send_preemption", "to_exit"} :
        /\ pc' = [pc EXCEPT ![c] = label]
        /\ \/ /\ label = "ready_exec" /\ target[c] # NoProc
              /\ pcb' = [pcb EXCEPT ![c] = target[c]]
              /\ target' = [target EXCEPT ![c] = NoProc]
              /\ reason' = [reason EXCEPT ![c] = "HIGHER_PRIORITY"]
              /\ keep_running' = keep_running
           \/ /\ label = "closed" /\ target[c] = NoProc
              /\ pcb' = [pcb EXCEPT ![c] = NoProc] /\ target' = target
              /\ reason' = [reason EXCEPT ![c] = "OTHER"]
              /\ keep_running' = [keep_running EXCEPT ![c] = TRUE]
           \/ /\ label = "send_preemption" /\ target[c] = NoProc
              /\ pcb' = [pcb EXCEPT ![c] = NoProc] /\ target' = target
              /\ reason' = [reason EXCEPT ![c] = "OTHER"]
              /\ keep_running' = keep_running
           \/ /\ label = "to_exit" /\ target[c] = NoProc /\ state[p] = "EXIT"
              /\ UNCHANGED <<pcb, target, reason, keep_running>>
  <2>1. CASE state[p] = "READY"
    BY <2>1, <1>1 DEF enter_list, EndExecReady, EndHandler, close_thread_cpu, Goto
  <2>2. CASE state[p] = "BLOCK"
    BY <2>2, <1>1 DEF enter_list, EndHandler, Goto
  <2>3. CASE state[p] = "EXIT"
    BY <2>3, <1>1 DEF enter_list, Goto, cpuVars
  <2> QED BY <1>1, <2>1, <2>2, <2>3
<1>5. TypeOK'
  <2>1. /\ pc' \in [Thread -> PC] /\ pcb' \in [CPU -> Proc \cup {NoProc}]
        /\ target' \in [Thread -> Proc \cup {NoProc}]
        /\ reason' \in [CPU -> Reason] /\ keep_running' \in [CPU -> BOOLEAN]
    BY <1>0, <1>4 DEF PC, Reason
  <2> QED BY <1>2, <1>3, <2>1 DEF IndInv, TypeOK, ioVars
<1>6. Frame(c, {p})
  <2>1. \A u \in Thread \ {c} : SameThread(u)
    BY <1>0, <1>2, <1>4 DEF SameThread, ioVars
  <2> QED BY <1>1, <1>3, <2>1 DEF Frame
<1>7. /\ pc'[c] = label /\ target'[c] = NoProc
      /\ label = "ready_exec" => pcb'[c] = target[c] /\ target[c] # NoProc
      /\ label = "to_exit" => pcb'[c] = p /\ state[p] = "EXIT"
      /\ label \in {"closed", "send_preemption"} => pcb'[c] = NoProc
      /\ label = "send_preemption" => reason'[c] = "OTHER"
      /\ target[c] # NoProc => label = "ready_exec"
  BY <1>0, <1>1, <1>4
<1>8. ThreadOK(c)'
  <2>1. CpuControl(c)'
    BY <1>1, <1>7 DEF CpuControl, OnCpu, Between, Inheriting
  <2>2. OwnProcess(c)'
    <3>1. CASE label = "ready_exec"
      <4>1. PICK w \in Proc : /\ w = target[c] /\ state[w] = "READY"
                              /\ Free(w) /\ ~Queued(w)
        BY <3>1, <1>0, <1>1, <1>7, CpuFacts DEF NextProcess, Replacing
      <4>2. w # p
        BY <4>1, <1>0, <1>1 DEF Free
      <4>3. SameProcess(w)
        BY <4>2, <1>3
      <4> QED BY <3>1, <4>1, <4>3, <1>7 DEF OwnProcess, SameProcess, Free, OnCpu
    <3>2. CASE label = "to_exit"
      BY <3>2, <1>2, <1>3, <1>7 DEF OwnProcess, OnCpu
    <3>3. CASE label \in {"closed", "send_preemption"}
      BY <3>3, <1>7 DEF OwnProcess
    <3> QED BY <1>4, <3>1, <3>2, <3>3
  <2>3. NextProcess(c)' /\ MovedProcess(c)'
    BY <1>7, <1>4 DEF NextProcess, MovedProcess, Moving
  <2> QED BY <1>0, <2>1, <2>2, <2>3 DEF ThreadOK
<1>9. \A q \in Proc : Owns(c, q)' => q = p \/ Owns(c, q)
  BY <1>1, <1>7, ThreadFacts DEF Owns, Replacing, Moving
<1>10. \A q \in Proc \ {p} : Holds(c, q) => Holds(c, q)'
  <2> SUFFICES ASSUME NEW q \in Proc \ {p}, Holds(c, q) PROVE Holds(c, q)'
    OBVIOUS
  <2>1. target[c] = q
    BY <1>1 DEF Holds, HeldByCpu
  <2>2. pc'[c] = "ready_exec" /\ pcb'[c] = q
    BY <2>1, <1>7, ThreadFacts
  <2> QED BY <2>2 DEF Holds, HeldByCpu
<1>11. Placed'
  <2>1. {p} \in SUBSET Proc /\ \A q \in {p} : Listed(q)' /\ NotLost(q)'
    BY <1>3
  <2>2. \A q \in Proc : Owns(c, q)' => q \in {p} \/ Owns(c, q)
    BY <1>9
  <2> QED BY <1>0, <1>6, <1>8, <1>10, <2>1, <2>2, FramePlaced DEF IndInv
<1>12. Instances'
  <2>1. target'[Suspender] = target[Suspender] /\ target'[Resumer] = target[Resumer]
    BY <1>0, <1>4, ThreadFacts
  <2> QED BY <2>1, <1>2 DEF IndInv, Instances, Refs
<1>13. Levelled'
  <2>1. Levelled /\ priority' = priority /\ state' = state
    BY <1>2 DEF IndInv
  <2> QED BY <1>3, <2>1, LevelledStep
<1> QED BY <1>3, <1>5, <1>11, <1>12, <1>13 DEF IndInv

\* A process is freed only when the suspender and the resumer hold no
\* reference to it.
LEMMA transition_to_exit_Inv ==
  ASSUME IndInv, NEW c \in CPU, transition_to_exit(c)
  PROVE  IndInv'
<1>0. /\ c \in Thread /\ c \notin IO /\ c \notin {Suspender, Resumer, Resumption}
      /\ pc \in [Thread -> PC] /\ pcb \in [CPU -> Proc \cup {NoProc}]
      /\ reason \in [CPU -> Reason] /\ state \in [Proc -> State]
      /\ Resumption \in Thread
  BY ThreadFacts DEF IndInv, TypeOK
<1>1. PICK p \in Proc :
        /\ p = pcb[c] /\ p # NoProc /\ state[p] = "EXIT" /\ Free(p)
        /\ pc[c] = "to_exit" /\ target[c] = NoProc /\ active_instances[p] = 0
        /\ \A u \in Thread \ {c} : ~Owns(u, p)
  BY CpuFacts, ThreadFacts
     DEF transition_to_exit, CpuControl, OwnProcess, Replacing, Inheriting
<1>2. /\ state' = [state EXCEPT ![p] = "DESTROYED"]
      /\ pcb' = [pcb EXCEPT ![c] = NoProc]
      /\ reason' = [reason EXCEPT ![c] = "OTHER"]
      /\ UNCHANGED <<readyVars, priority, lock_owner, active_instances, listVars,
                     ioVars, keep_running, preempted_priority, target>>
  BY <1>1 DEF transition_to_exit
<1>3. PICK label \in {pc[Resumption], "sweep"} :
        /\ pc' = [pc EXCEPT ![c] = "send_preemption", ![Resumption] = label]
        /\ label # pc[Resumption] => pc[Resumption] = "idle"
  BY <1>0 DEF transition_to_exit
<1>4. /\ pc'[c] = "send_preemption"
      /\ \A u \in Thread \ {c, Resumption} : pc'[u] = pc[u]
      /\ pc'[Resumption] = pc[Resumption] \/
           (pc[Resumption] = "idle" /\ pc'[Resumption] = "sweep")
  BY <1>0, <1>3
<1>5. TypeOK'
  <2>1. /\ pc' \in [Thread -> PC] /\ pcb' \in [CPU -> Proc \cup {NoProc}]
        /\ reason' \in [CPU -> Reason] /\ state' \in [Proc -> State]
    BY <1>0, <1>2, <1>3 DEF PC, Reason, State
  <2> QED BY <1>2, <2>1 DEF IndInv, TypeOK, readyVars, listVars, ioVars
<1>6. Frame(c, {p})
  <2>1. \A u \in Thread \ {c} : SameThread(u)
    BY <1>0, <1>2, <1>4 DEF SameThread, ioVars
  <2>2. \A q \in Proc \ {p} : SameProcess(q)
    BY <1>0, <1>2 DEF SameProcess, Queued, readyVars, listVars
  <2> QED BY <1>1, <2>1, <2>2 DEF Frame
<1>7. /\ pcb'[c] = NoProc /\ target'[c] = NoProc /\ reason'[c] = "OTHER"
      /\ state'[p] = "DESTROYED"
  BY <1>0, <1>1, <1>2
<1>8. ThreadOK(c)'
  <2>1. CpuControl(c)' /\ OwnProcess(c)' /\ NextProcess(c)' /\ MovedProcess(c)'
    BY <1>4, <1>7
       DEF CpuControl, OwnProcess, NextProcess, MovedProcess, OnCpu, Inheriting,
           Moving
  <2> QED BY <1>0, <2>1 DEF ThreadOK
<1>9. Listed(p)' /\ NotLost(p)'
  <2>1. Listed(p)
    BY DEF IndInv, Placed
  <2>2. /\ Queued(p)' <=> Queued(p)
        /\ lock_owner' = lock_owner /\ exec' = exec
        /\ block' = block /\ susp_block' = susp_block /\ susp_ready' = susp_ready
    BY <1>2 DEF Queued, readyVars, listVars
  <2> QED BY <1>1, <1>7, <2>1, <2>2 DEF Listed, NotLost, Live, Free
<1>10. /\ \A q \in Proc : ~Owns(c, q)'
       /\ \A q \in Proc : Holds(c, q) => q = p
  BY <1>1, <1>4, <1>7, ThreadFacts DEF Owns, Holds, HeldByCpu, Carries, Moving
<1>11. Placed'
  BY <1>0, <1>6, <1>8, <1>9, <1>10, FramePlaced DEF IndInv
<1>12. Quiet
  BY <1>0, <1>1, <1>2, <1>4, ThreadFacts DEF Quiet, Live, Gone
<1> QED BY <1>5, <1>11, <1>12, QuietStep DEF IndInv

-----------------------------------------------------------------------------
(* Starting a process, and taking one out of READY to replace another.     *)

\* A new process is in the hands of the thread that creates it.
LEMMA handle_syscall_start_process_Inv ==
  ASSUME IndInv, NEW c \in CPU, NEW p \in Proc, NEW n \in Priority,
         handle_syscall_start_process(c, p, n)
  PROVE  IndInv'
<1>0. /\ c \in Thread /\ c \notin IO /\ c \notin {Suspender, Resumer, Resumption}
      /\ pc \in [Thread -> PC] /\ state \in [Proc -> State]
      /\ target \in [Thread -> Proc \cup {NoProc}]
      /\ priority \in [Proc -> Priority] /\ queues \in [Level -> Seq(Proc)]
      /\ p # NoProc
  BY ThreadFacts DEF IndInv, TypeOK
<1>1. PICK r \in Proc :
        /\ r = pcb[c] /\ pc[c] = "run" /\ target[c] = NoProc /\ reason[c] # "OTHER"
        /\ state[r] = "EXEC" /\ Free(r) /\ exec[r] = 1
  BY CpuFacts, RunFacts, ThreadFacts
     DEF handle_syscall_start_process, OnCpu, OwnProcess, Resting, Inheriting
<1>2. /\ state[p] = "UNBORN" /\ r # p
      /\ state' = [state EXCEPT ![p] = "NEW"]
      /\ priority' = [priority EXCEPT ![p] = n]
      /\ target' = [target EXCEPT ![c] = p]
      /\ pc' = [pc EXCEPT ![c] = "new_ready"]
      /\ UNCHANGED <<readyVars, lock_owner, active_instances, listVars, ioVars, cpuVars>>
  BY <1>1 DEF handle_syscall_start_process, Goto
<1>3. Listed(p) /\ Free(p) /\ ~Queued(p) /\ \A u \in Thread : ~Owns(u, p)
  <2>1. Listed(p)
    BY DEF IndInv, Placed
  <2>2. Free(p) /\ ~Queued(p)
    BY <1>2, <2>1 DEF Listed
  <2> QED BY <1>2, <2>1, <2>2, Unowned
<1>4. TypeOK'
  <2>1. /\ state' \in [Proc -> State] /\ priority' \in [Proc -> Priority]
        /\ target' \in [Thread -> Proc \cup {NoProc}] /\ pc' \in [Thread -> PC]
    BY <1>0, <1>2 DEF State, PC
  <2> QED BY <1>2, <2>1 DEF IndInv, TypeOK, readyVars, listVars, ioVars, cpuVars
<1>5. Frame(c, {p})
  <2>1. \A u \in Thread \ {c} : SameThread(u)
    BY <1>0, <1>2 DEF SameThread, cpuVars, ioVars
  <2>2. \A q \in Proc \ {p} : SameProcess(q)
    BY <1>0, <1>2 DEF SameProcess, Queued, readyVars, listVars
  <2> QED BY <1>3, <2>1, <2>2 DEF Frame
<1>6. /\ pc'[c] = "new_ready" /\ pcb'[c] = r /\ target'[c] = p
      /\ reason'[c] # "OTHER" /\ state'[p] = "NEW" /\ Free(p)'
  BY <1>0, <1>1, <1>2, <1>3 DEF cpuVars, Free
<1>7. ThreadOK(c)'
  <2>1. CpuControl(c)'
    BY <1>0, <1>6, ThreadFacts DEF CpuControl, OnCpu, Inheriting
  <2>2. OwnProcess(c)'
    <3>1. SameProcess(r)
      BY <1>2, <1>5 DEF Frame
    <3> QED BY <1>1, <1>6, <3>1 DEF OwnProcess, SameProcess, Free, OnCpu
  <2>3. NextProcess(c)' /\ MovedProcess(c)'
    BY <1>6 DEF NextProcess, MovedProcess, Replacing, Moving
  <2> QED BY <1>0, <2>1, <2>2, <2>3 DEF ThreadOK
<1>8. Listed(p)' /\ NotLost(p)'
  <2>1. /\ Queued(p)' <=> Queued(p)
        /\ exec' = exec /\ block' = block /\ susp_block' = susp_block
        /\ susp_ready' = susp_ready
    BY <1>2 DEF Queued, readyVars, listVars
  <2> QED BY <1>2, <1>3, <1>6, <2>1 DEF Listed, NotLost, Live
<1>9. /\ \A q \in Proc : Owns(c, q)' => q = p \/ Owns(c, q)
      /\ \A q \in Proc : ~Holds(c, q)
  BY <1>1, <1>6, ThreadFacts DEF Owns, Holds, HeldByCpu, Carries, Moving
<1>10. Placed'
  BY <1>0, <1>5, <1>7, <1>8, <1>9, FramePlaced DEF IndInv
<1>11. Instances'
  <2>1. \A t \in {Suspender, Resumer} :
          target'[t] = target[t] /\ target[t] # p /\ target[t] \in Proc \cup {NoProc}
    BY <1>0, <1>2, ThreadFacts DEF IndInv, Instances, Gone
  <2>2. \A t \in {Suspender, Resumer} :
          target[t] # NoProc => state'[target[t]] = state[target[t]]
    BY <2>1, <1>0, <1>2
  <2> QED BY <1>2, <2>1, <2>2 DEF IndInv, Instances, Refs
<1>12. Levelled'
  <2> SUFFICES ASSUME Multilevel
               PROVE  /\ \A q \in Proc : state'[q] \in Live => priority'[q] \in Level
                      /\ \A l \in Level : \A i \in DOMAIN queues[l] :
                           priority'[queues[l][i]] = l
    BY <1>2 DEF Levelled, readyVars, cpuVars
  <2>1. \A q \in Proc : q # p => priority'[q] = priority[q] /\ state'[q] = state[q]
    BY <1>0, <1>2
  <2>2. \A q \in Proc : state'[q] \in Live => priority'[q] \in Level
    BY <2>1, <1>6 DEF IndInv, Levelled, Live
  <2>3. \A l \in Level : \A i \in DOMAIN queues[l] : priority'[queues[l][i]] = l
    <3> SUFFICES ASSUME NEW l \in Level, NEW i \in DOMAIN queues[l]
                 PROVE  priority'[queues[l][i]] = l
      OBVIOUS
    <3>1. queues[l][i] \in Proc
      BY <1>0
    <3>2. queues[l][i] # p
      BY <1>3 DEF Queued, InQueues
    <3> QED BY <3>1, <3>2, <2>1 DEF IndInv, Levelled
  <2> QED BY <2>2, <2>3
<1>13. ReadyCount' /\ HighestIsExact'
  BY <1>2 DEF IndInv, ReadyCount, HighestIsExact, Queued, readyVars
<1> QED BY <1>4, <1>10, <1>11, <1>12, <1>13 DEF IndInv

\* A new process enters READY or ends.
LEMMA transition_new_ready_Inv ==
  ASSUME IndInv, NEW c \in CPU, transition_new_ready(c)
  PROVE  IndInv'
<1>0. /\ c \in Thread /\ c \notin IO /\ c \notin {Suspender, Resumer, Resumption}
      /\ pc \in [Thread -> PC] /\ state \in [Proc -> State]
      /\ target \in [Thread -> Proc \cup {NoProc}]
      /\ TypeOK /\ ReadyCount /\ HighestIsExact /\ Levelled
      /\ \A q \in Proc : priority[q] \in Nat
      /\ preempt_all \in BOOLEAN
  BY ThreadFacts, PriorityNat DEF IndInv, TypeOK
<1>1. PICK r \in Proc :
        /\ r = pcb[c] /\ pc[c] = "new_ready" /\ reason[c] # "OTHER"
        /\ state[r] = "EXEC" /\ Free(r) /\ exec[r] = 1
  BY CpuFacts, ThreadFacts
     DEF transition_new_ready, CpuControl, OnCpu, OwnProcess, Inheriting
<1>2. PICK p \in Proc : p = target[c] /\ state[p] = "NEW" /\ Free(p) /\ p # r
  BY <1>0, <1>1, CpuFacts DEF CpuControl, NextProcess, Inheriting
<1>3. /\ \A u \in Thread \ {c} : ~Owns(u, p)
      /\ ~Queued(p) /\ Listed(p)
  <2>1. Owns(c, p)
    BY <1>1, <1>2 DEF Owns, Moving
  <2> QED BY <1>0, <1>2, <2>1 DEF IndInv, Placed, Exclusive, Listed
<1>4. /\ target' = [target EXCEPT ![c] = NoProc]
      /\ pc' = [pc EXCEPT ![c] = "queue_blocked"]
      /\ UNCHANGED <<priority, lock_owner, active_instances, listVars, ioVars, cpuVars>>
  BY DEF transition_new_ready, Goto
<1>5. \/ /\ Multilevel => priority[p] \in Level
         /\ state' = [state EXCEPT ![p] = "READY"]
         /\ transition_to_ready(p, priority[p])
      \/ state' = [state EXCEPT ![p] = "DESTROYED"] /\ UNCHANGED readyVars
  <2>1. check_priority_valid(priority[p]) => (Multilevel => priority[p] \in Level)
    BY <1>0, LevelsAssumption DEF check_priority_valid, Level
  <2> QED BY <1>2, <2>1 DEF transition_new_ready
<1>6. /\ queues' \in [Level -> Seq(Proc)] /\ ready_process_count' \in Nat
      /\ highest_priority' \in Nat /\ preempt_all' \in BOOLEAN
      /\ \A q \in Proc \ {p} : (Queued(q)' <=> Queued(q)) /\ state'[q] = state[q]
      /\ state'[p] \in {"READY", "DESTROYED"} /\ state' \in [Proc -> State]
      /\ Queued(p)' <=> state'[p] = "READY"
      /\ ReadyCount' /\ HighestIsExact'
      /\ Multilevel => \A l \in Level : \A i \in DOMAIN queues'[l] :
           \/ \E j \in DOMAIN queues[l] : queues'[l][i] = queues[l][j]
           \/ priority[queues'[l][i]] = l
      /\ Multilevel /\ state'[p] = "READY" => priority[p] \in Level
  <2>1. CASE /\ Multilevel => priority[p] \in Level
             /\ state' = [state EXCEPT ![p] = "READY"]
             /\ transition_to_ready(p, priority[p])
    <3> DEFINE n == priority[p]
    <3>1. n \in Nat /\ (Multilevel => n \in Level) /\ transition_to_ready(p, n)
      BY <1>0, <2>1
    <3> HIDE DEF n
    <3>2. /\ queues' \in [Level -> Seq(Proc)]
          /\ ready_process_count' \in Nat /\ highest_priority' \in Nat
          /\ preempt_all' = preempt_all
          /\ \A q \in Proc : Queued(q)' <=> Queued(q) \/ q = p
          /\ ReadyCount' /\ HighestIsExact'
          /\ \A l \in Level : \A i \in DOMAIN queues'[l] :
               \/ i \in DOMAIN queues[l] /\ queues'[l][i] = queues[l][i]
               \/ l = LevelOf(n) /\ queues'[l][i] = p
      BY <3>1, <1>0, <1>3, ToReady
    <3>3. Multilevel => \A l \in Level : \A i \in DOMAIN queues'[l] :
            \/ \E j \in DOMAIN queues[l] : queues'[l][i] = queues[l][j]
            \/ priority[queues'[l][i]] = l
      BY <3>2 DEF LevelOf, n
    <3>4. /\ \A q \in Proc \ {p} : state'[q] = state[q]
          /\ state'[p] = "READY" /\ state' \in [Proc -> State]
      BY <1>0, <2>1 DEF State
    <3> QED BY <1>0, <2>1, <3>2, <3>3, <3>4
  <2>2. CASE state' = [state EXCEPT ![p] = "DESTROYED"] /\ UNCHANGED readyVars
    <3>1. /\ queues' = queues /\ ready_process_count' = ready_process_count
          /\ highest_priority' = highest_priority /\ preempt_all' = preempt_all
      BY <2>2 DEF readyVars
    <3>2. ReadyCount' /\ HighestIsExact' /\ \A q \in Proc : Queued(q)' <=> Queued(q)
      BY <1>0, <3>1 DEF ReadyCount, HighestIsExact, Queued
    <3>3. /\ \A q \in Proc \ {p} : state'[q] = state[q]
          /\ state'[p] = "DESTROYED" /\ state' \in [Proc -> State]
      BY <1>0, <2>2 DEF State
    <3>4. /\ queues' \in [Level -> Seq(Proc)] /\ ready_process_count' \in Nat
          /\ highest_priority' \in Nat /\ preempt_all' \in BOOLEAN
      BY <1>0, <3>1 DEF TypeOK
    <3> QED BY <1>3, <3>1, <3>2, <3>3, <3>4
  <2> QED BY <1>5, <2>1, <2>2
<1>7. TypeOK'
  <2>1. target' \in [Thread -> Proc \cup {NoProc}] /\ pc' \in [Thread -> PC]
    BY <1>0, <1>4 DEF PC
  <2> QED BY <1>4, <1>6, <2>1 DEF IndInv, TypeOK, listVars, ioVars, cpuVars
<1>8. Frame(c, {p})
  <2>1. \A u \in Thread \ {c} : SameThread(u)
    BY <1>0, <1>4 DEF SameThread, cpuVars, ioVars
  <2>2. \A q \in Proc \ {p} : SameProcess(q)
    BY <1>4, <1>6 DEF SameProcess, listVars
  <2> QED BY <1>3, <2>1, <2>2 DEF Frame
<1>9. /\ pc'[c] = "queue_blocked" /\ pcb'[c] = r /\ target'[c] = NoProc
      /\ reason'[c] # "OTHER"
  BY <1>0, <1>1, <1>4 DEF cpuVars
<1>10. ThreadOK(c)'
  <2>1. CpuControl(c)'
    BY <1>9, ThreadFacts DEF CpuControl, OnCpu, Inheriting
  <2>2. OwnProcess(c)'
    <3>1. SameProcess(r)
      BY <1>2, <1>8 DEF Frame
    <3> QED BY <1>1, <1>9, <3>1 DEF OwnProcess, SameProcess, Free, OnCpu
  <2>3. NextProcess(c)' /\ MovedProcess(c)'
    BY <1>9 DEF NextProcess, MovedProcess, Moving
  <2> QED BY <1>0, <2>1, <2>2, <2>3 DEF ThreadOK
<1>11. Listed(p)' /\ NotLost(p)'
  <2>1. /\ exec' = exec /\ block' = block /\ susp_block' = susp_block
        /\ susp_ready' = susp_ready /\ lock_owner' = lock_owner
    BY <1>4 DEF listVars
  <2> QED BY <1>2, <1>3, <1>6, <2>1 DEF Listed, NotLost, Live, Free
<1>12. /\ \A q \in Proc : Owns(c, q)' => Owns(c, q)
       /\ \A q \in Proc : Holds(c, q) => q = p
  BY <1>1, <1>2, <1>9, ThreadFacts DEF Owns, Holds, HeldByCpu, Carries, Moving
<1>13. Placed'
  BY <1>0, <1>8, <1>10, <1>11, <1>12, FramePlaced DEF IndInv
<1>14. Instances'
  <2>1. \A t \in {Suspender, Resumer} :
          target'[t] = target[t] /\ target[t] # p /\ target[t] \in Proc \cup {NoProc}
    BY <1>0, <1>2, <1>4, ThreadFacts DEF IndInv, Instances, Gone
  <2>2. \A t \in {Suspender, Resumer} :
          target[t] # NoProc => state'[target[t]] = state[target[t]]
    BY <2>1, <1>6
  <2> QED BY <1>4, <2>1, <2>2 DEF IndInv, Instances, Refs
<1>15. Levelled'
  <2>1. Multilevel => \A q \in Proc : state'[q] \in Live =>
          state[q] \in Live \/ priority[q] \in Level
    BY <1>6 DEF Live
  <2>2. Levelled /\ UNCHANGED priority
    BY <1>0, <1>4
  <2> QED BY <1>6, <2>1, <2>2, LevelledStep
<1> QED BY <1>6, <1>7, <1>13, <1>14, <1>15 DEF IndInv

\* A replacement is taken out of READY, or nothing happens.
LEMMA manage_preemption_priority_Inv ==
  ASSUME IndInv, NEW c \in CPU, manage_preemption_priority(c)
  PROVE  IndInv'
<1>0. /\ c \in Thread /\ c \notin IO /\ c \notin {Suspender, Resumer, Resumption}
      /\ pc \in [Thread -> PC] /\ target \in [Thread -> Proc \cup {NoProc}]
      /\ preempted_priority \in [CPU -> Nat]
  BY ThreadFacts DEF IndInv, TypeOK
<1>1. PICK r \in Proc :
        /\ r = pcb[c] /\ pc[c] = "preempt" /\ target[c] = NoProc /\ reason[c] # "OTHER"
        /\ state[r] = "EXEC" /\ Free(r) /\ exec[r] = 1 /\ r # NoProc
  BY CpuFacts, RunFacts, ThreadFacts
     DEF manage_preemption_priority, OnCpu, OwnProcess, Resting, Inheriting
<1>2. /\ preempted_priority' = [preempted_priority EXCEPT ![c] = 0]
      /\ UNCHANGED <<pcbVars, listVars, ioVars, pcb, reason, keep_running>>
  BY DEF manage_preemption_priority
<1>3. \/ /\ pc' = [pc EXCEPT ![c] = "send_preemption"]
         /\ UNCHANGED <<readyVars, target>>
      \/ /\ pc' = [pc EXCEPT ![c] = "exec_ready"]
         /\ \E p \in Proc : /\ transition_take_ready_next(p)
                            /\ target' = [target EXCEPT ![c] = p]
  BY DEF manage_preemption_priority, Goto
<1>4. CASE /\ pc' = [pc EXCEPT ![c] = "send_preemption"]
           /\ UNCHANGED <<readyVars, target>>
  <2>1. TypeOK'
    <3>1. pc' \in [Thread -> PC] /\ preempted_priority' \in [CPU -> Nat]
      BY <1>0, <1>2, <1>4 DEF PC
    <3> QED BY <1>2, <1>4, <3>1 DEF IndInv, TypeOK, readyVars, pcbVars, listVars, ioVars
  <2>2. \A u \in Thread \ {c} : SameThread(u)
    BY <1>0, <1>2, <1>4 DEF SameThread, ioVars
  <2>3. \A q \in Proc : SameProcess(q)
    BY <1>2, <1>4 DEF SameProcess, Queued, readyVars, pcbVars, listVars
  <2>4. pc'[c] = "send_preemption" /\ target'[c] = NoProc
    BY <1>0, <1>1, <1>4
  <2>5. Stays(c)
    BY <1>1, <1>2, <2>2, <2>3, <2>4 DEF Stays, OnCpu, Goes, Resting, Inheriting
  <2>6. Quiet
    BY <1>2, <1>4 DEF Quiet, pcbVars
  <2> QED BY <2>1, <2>5, <2>6, StaysPlaced, QuietStep DEF IndInv
<1>5. CASE /\ pc' = [pc EXCEPT ![c] = "exec_ready"]
           /\ \E p \in Proc : /\ transition_take_ready_next(p)
                              /\ target' = [target EXCEPT ![c] = p]
  <2>1. PICK p \in Proc : /\ transition_take_ready_next(p)
                          /\ target' = [target EXCEPT ![c] = p]
    BY <1>5
  <2>2. /\ Queued(p) /\ ~Queued(p)'
        /\ queues' \in [Level -> Seq(Proc)]
        /\ ready_process_count' \in Nat /\ highest_priority' \in Nat
        /\ preempt_all' = preempt_all
        /\ \A q \in Proc \ {p} : Queued(q)' <=> Queued(q)
        /\ ReadyCount' /\ HighestIsExact'
        /\ \A l \in Level : \A i \in DOMAIN queues'[l] :
              \E j \in DOMAIN queues[l] : queues'[l][i] = queues[l][j]
    BY <2>1, TakeNext DEF IndInv
  <2>3. TypeOK'
    <3>1. /\ pc' \in [Thread -> PC] /\ preempted_priority' \in [CPU -> Nat]
          /\ target' \in [Thread -> Proc \cup {NoProc}]
      BY <1>0, <1>2, <1>5, <2>1 DEF PC
    <3> QED BY <1>2, <2>2, <3>1 DEF IndInv, TypeOK, pcbVars, listVars, ioVars
  <2>4. Frame(c, {p})
    <3>1. \A u \in Thread \ {c} : SameThread(u)
      BY <1>0, <1>2, <1>5, <2>1 DEF SameThread, ioVars
    <3>2. \A q \in Proc \ {p} : SameProcess(q)
      BY <1>2, <2>2 DEF SameProcess, pcbVars, listVars
    <3> QED BY <2>2, <3>1, <3>2, Unowned DEF Frame
  <2>5. pc'[c] = "exec_ready" /\ pcb'[c] = r /\ target'[c] = p /\ p # NoProc
    BY <1>0, <1>1, <1>2, <1>5, <2>1, ThreadFacts
  <2>6. state'[p] = "READY" /\ Free(p)' /\ Listed(p)' /\ p # r
    <3>1. Listed(p) /\ state[p] = "READY" /\ Free(p)
      BY <2>2 DEF IndInv, Placed, Listed
    <3>2. /\ state' = state /\ lock_owner' = lock_owner /\ exec' = exec
          /\ block' = block /\ susp_block' = susp_block /\ susp_ready' = susp_ready
      BY <1>2 DEF pcbVars, listVars
    <3> QED BY <1>1, <2>2, <3>1, <3>2 DEF Listed, Free
  <2>7. ThreadOK(c)'
    <3>1. CpuControl(c)'
      BY <1>1, <2>5 DEF CpuControl, OnCpu, Between, Replacing, Inheriting
    <3>2. OwnProcess(c)'
      <4>1. SameProcess(r)
        BY <2>4, <2>6 DEF Frame
      <4> QED BY <1>1, <2>5, <4>1 DEF OwnProcess, SameProcess, Free, OnCpu
    <3>3. NextProcess(c)' /\ MovedProcess(c)'
      BY <2>2, <2>5, <2>6 DEF NextProcess, MovedProcess, Moving
    <3> QED BY <1>0, <3>1, <3>2, <3>3 DEF ThreadOK
  <2>8. NotLost(p)'
    <3>1. Holds(c, p)'
      BY <2>5 DEF Holds, Carries
    <3> QED BY <1>0, <3>1 DEF NotLost
  <2>9. /\ \A q \in Proc : Owns(c, q)' => q = p \/ Owns(c, q)
        /\ \A q \in Proc : ~Holds(c, q)
    BY <1>1, <2>5, ThreadFacts DEF Owns, Holds, HeldByCpu, Carries, Moving
  <2>10. Placed'
    BY <1>0, <2>4, <2>6, <2>7, <2>8, <2>9, FramePlaced DEF IndInv
  <2>11. Instances'
    <3>1. target'[Suspender] = target[Suspender] /\ target'[Resumer] = target[Resumer]
      BY <1>0, <2>1, ThreadFacts
    <3> QED BY <1>2, <3>1 DEF IndInv, Instances, Refs, pcbVars
  <2>12. Levelled'
    <3>1. Levelled /\ priority' = priority /\ state' = state
      BY <1>2 DEF IndInv, pcbVars
    <3> QED BY <2>2, <3>1, LevelledStep
  <2> QED BY <2>2, <2>3, <2>10, <2>11, <2>12 DEF IndInv
<1> QED BY <1>3, <1>4, <1>5

-----------------------------------------------------------------------------
(* Moving the holder of a mutex to its new level.                          *)

\* update_priority takes the holder out of READY, or moves nothing.
LEMMA update_priority_Inv ==
  ASSUME IndInv, LevelsKept, NEW c \in CPU, update_priority(c)
  PROVE  IndInv'
<1>0. /\ c \in Thread /\ c \notin IO /\ c \notin {Suspender, Resumer, Resumption}
      /\ pc \in [Thread -> PC] /\ target \in [Thread -> Proc \cup {NoProc}]
      /\ lock_owner \in [Proc -> Thread \cup {NoThread}] /\ c # NoThread
      /\ queues \in [Level -> Seq(Proc)] /\ TypeOK /\ ReadyCount
      /\ \A q \in Proc : priority[q] \in Nat
  BY ThreadFacts, PriorityNat DEF IndInv, TypeOK
<1>1. PICK r \in Proc :
        /\ r = pcb[c] /\ pc[c] = "update_priority" /\ reason[c] # "OTHER"
        /\ state[r] = "EXEC" /\ Free(r) /\ exec[r] = 1 /\ r # NoProc
        /\ Multilevel /\ target[c] # NoProc
  BY CpuFacts, ThreadFacts
     DEF update_priority, CpuControl, OwnProcess, OnCpu, Inheriting
<1>2. UNCHANGED <<state, priority, active_instances, listVars, ioVars, cpuVars>>
  BY DEF update_priority
<1>3. \/ propagate_priority_transitive(c) /\ UNCHANGED <<readyVars, lock_owner>>
      \/ /\ state[target[c]] = "READY"
         /\ transition_take_ready(target[c], priority[target[c]])
         /\ lock_owner' = [lock_owner EXCEPT ![target[c]] = c]
         /\ pc' = [pc EXCEPT ![c] = "update_enter"] /\ target' = target
  BY DEF update_priority, Goto
<1>4. CASE propagate_priority_transitive(c) /\ UNCHANGED <<readyVars, lock_owner>>
  <2>1. /\ pc' \in [Thread -> PC] /\ target' \in [Thread -> Proc \cup {NoProc}]
        /\ \/ pc'[c] = "inherit" /\ target'[c] # NoProc
           \/ pc'[c] = "mutex_lowest" /\ target'[c] = NoProc
        /\ \A u \in Thread \ {c} : pc'[u] = pc[u] /\ target'[u] = target[u]
    BY <1>0, <1>4, PropagateStep
  <2>2. TypeOK'
    BY <1>2, <1>4, <2>1 DEF IndInv, TypeOK, readyVars, listVars, ioVars, cpuVars
  <2>3. Stays(c)
    <3>1. \A u \in Thread \ {c} : SameThread(u)
      BY <1>2, <2>1 DEF SameThread, ioVars, cpuVars
    <3>2. \A p \in Proc : SameProcess(p)
      BY <1>2, <1>4 DEF SameProcess, Queued, readyVars, listVars
    <3>3. Goes(c)
      BY <2>1 DEF Goes, Resting, OnCpu, Inheriting
    <3> QED BY <1>1, <1>2, <3>1, <3>2, <3>3 DEF Stays, OnCpu, cpuVars
  <2>4. Quiet
    BY <1>2, <1>4, <2>1, ThreadFacts DEF Quiet
  <2> QED BY <2>2, <2>3, <2>4, StaysPlaced, QuietStep DEF IndInv
<1>5. CASE /\ state[target[c]] = "READY"
           /\ transition_take_ready(target[c], priority[target[c]])
           /\ lock_owner' = [lock_owner EXCEPT ![target[c]] = c]
           /\ pc' = [pc EXCEPT ![c] = "update_enter"] /\ target' = target
  <2>1. PICK p \in Proc : p = target[c]
    BY <1>0, <1>1
  <2>2. PICK n \in Nat : n = priority[p]
    BY <1>0
  <2>3. /\ state[p] = "READY" /\ transition_take_ready(p, n)
        /\ lock_owner' = [lock_owner EXCEPT ![p] = c]
        /\ pc' = [pc EXCEPT ![c] = "update_enter"] /\ target' = target
    BY <1>5, <2>1, <2>2
  <2>4. Queued(p)
    BY <1>0, <1>1, <2>1, <2>3 DEF LevelsKept
  <2>5. n \in Level /\ \E i \in DOMAIN queues[n] : queues[n][i] = p
    <3>1. PICK l \in Level : \E i \in DOMAIN queues[l] : queues[l][i] = p
      BY <2>4 DEF Queued, InQueues
    <3>2. priority[p] = l
      BY <1>1, <3>1 DEF IndInv, Levelled
    <3> QED BY <2>2, <3>1, <3>2
  <2>6. /\ queues' \in [Level -> Seq(Proc)]
        /\ ready_process_count' \in Nat /\ highest_priority' \in Nat
        /\ preempt_all' = preempt_all
        /\ \A q \in Proc : Queued(q)' <=> Queued(q) /\ q # p
        /\ ReadyCount' /\ HighestIsExact'
        /\ \A l \in Level : \A i \in DOMAIN queues'[l] :
             \E j \in DOMAIN queues[l] : queues'[l][i] = queues[l][j]
    BY <1>0, <1>1, <2>3, <2>4, <2>5, TakeReady
  <2>7. TypeOK'
    <3>1. /\ pc' \in [Thread -> PC]
          /\ lock_owner' \in [Proc -> Thread \cup {NoThread}]
      BY <1>0, <2>3 DEF PC
    <3> QED BY <1>2, <2>3, <2>6, <3>1
            DEF IndInv, TypeOK, listVars, ioVars, cpuVars
  <2>8. Frame(c, {p})
    <3>1. \A u \in Thread \ {c} : SameThread(u)
      BY <1>0, <1>2, <2>3 DEF SameThread, ioVars, cpuVars
    <3>2. \A q \in Proc \ {p} : SameProcess(q)
      BY <1>0, <1>2, <2>3, <2>6 DEF SameProcess, listVars
    <3> QED BY <2>4, <3>1, <3>2, Unowned DEF Frame
  <2>9. /\ pc'[c] = "update_enter" /\ pcb'[c] = r /\ target'[c] = p
        /\ reason'[c] # "OTHER" /\ state'[p] = "READY" /\ lock_owner'[p] = c
        /\ p # r /\ p # NoProc /\ ~Queued(p)'
    BY <1>0, <1>1, <1>2, <2>1, <2>3, <2>6, ThreadFacts DEF cpuVars
  <2>10. Listed(p)'
    <3>1. Listed(p)
      BY DEF IndInv, Placed
    <3>2. /\ exec' = exec /\ block' = block /\ susp_block' = susp_block
          /\ susp_ready' = susp_ready
      BY <1>2 DEF listVars
    <3> QED BY <2>3, <2>9, <3>1, <3>2 DEF Listed
  <2>11. ThreadOK(c)'
    <3>1. CpuControl(c)'
      BY <1>1, <2>9 DEF CpuControl, OnCpu, Inheriting
    <3>2. OwnProcess(c)'
      <4>1. SameProcess(r)
        BY <2>8, <2>9 DEF Frame
      <4> QED BY <1>1, <2>9, <4>1 DEF OwnProcess, SameProcess, Free, OnCpu
    <3>3. NextProcess(c)' /\ MovedProcess(c)'
      BY <2>9 DEF NextProcess, MovedProcess, Replacing, Moving
    <3> QED BY <1>0, <3>1, <3>2, <3>3 DEF ThreadOK
  <2>12. NotLost(p)'
    <3>1. Holds(c, p)'
      BY <2>9 DEF Holds, Carries
    <3> QED BY <1>0, <3>1 DEF NotLost
  <2>13. /\ \A q \in Proc : Owns(c, q)' => q = p \/ Owns(c, q)
         /\ \A q \in Proc : ~Holds(c, q)
    BY <1>1, <2>9, ThreadFacts DEF Owns, Holds, HeldByCpu, Carries, Replacing, Moving
  <2>14. Placed'
    BY <1>0, <2>8, <2>10, <2>11, <2>12, <2>13, FramePlaced DEF IndInv
  <2>15. Instances'
    BY <1>2, <2>3 DEF IndInv, Instances, Refs
  <2>16. Levelled'
    <3>1. Levelled /\ priority' = priority /\ state' = state
      BY <1>2 DEF IndInv
    <3> QED BY <2>6, <3>1, LevelledStep
  <2> QED BY <2>6, <2>7, <2>14, <2>15, <2>16 DEF IndInv
<1> QED BY <1>3, <1>4, <1>5

\* update_priority puts the holder in its new level.
LEMMA update_priority_end_Inv ==
  ASSUME IndInv, NEW c \in CPU, update_priority_end(c)
  PROVE  IndInv'
<1>0. /\ c \in Thread /\ c \notin IO /\ c \notin {Suspender, Resumer, Resumption}
      /\ c # NoThread /\ TypeOK /\ target[c] \in Proc \cup {NoProc}
  BY ThreadFacts DEF IndInv, TypeOK
<1>1. PICK r \in Proc :
        /\ r = pcb[c] /\ pc[c] = "update_enter" /\ reason[c] # "OTHER"
        /\ state[r] = "EXEC" /\ Free(r) /\ exec[r] = 1 /\ r # NoProc
        /\ target[c] # NoProc
  BY CpuFacts, ThreadFacts
     DEF update_priority_end, CpuControl, OwnProcess, OnCpu, Inheriting
<1>2. PICK p \in Proc :
        /\ p = target[c] /\ state[p] = "READY" /\ lock_owner[p] = c /\ p # r
        /\ \A u \in Thread \ {c} : ~Owns(u, p)
  <2>1. state[target[c]] = "READY" /\ lock_owner[target[c]] = c
    BY <1>1, CpuFacts DEF MovedProcess, Moving
  <2>2. Owns(c, target[c])
    BY <1>1 DEF Owns, Moving
  <2> QED BY <1>0, <1>1, <2>1, <2>2 DEF IndInv, Placed, Exclusive
<1>3. /\ EnterList(p) /\ propagate_priority_transitive(c)
      /\ UNCHANGED <<state, priority, active_instances, exec, lowest_priority,
                     ioVars, cpuVars>>
  BY <1>2 DEF update_priority_end
<1>4. /\ pc' \in [Thread -> PC] /\ target' \in [Thread -> Proc \cup {NoProc}]
      /\ \/ pc'[c] = "inherit" /\ target'[c] # NoProc
         \/ pc'[c] = "mutex_lowest" /\ target'[c] = NoProc
      /\ \A u \in Thread \ {c} : pc'[u] = pc[u] /\ target'[u] = target[u]
  BY <1>0, <1>3, PropagateStep
<1>5. /\ \A q \in Proc \ {p} : SameProcess(q)
      /\ Free(p)' /\ Listed(p)' /\ NotLost(p)' /\ ReadyCount' /\ HighestIsExact'
      /\ queues' \in [Level -> Seq(Proc)] /\ ready_process_count' \in Nat
      /\ highest_priority' \in Nat /\ preempt_all' \in BOOLEAN
      /\ lock_owner' \in [Proc -> Thread \cup {NoThread}]
      /\ block' \in [Proc -> Nat] /\ susp_block' \in [Proc -> Nat]
      /\ susp_ready' \in [Proc -> Nat]
      /\ Multilevel => \A l \in Level : \A i \in DOMAIN queues'[l] :
           \/ \E j \in DOMAIN queues[l] : queues'[l][i] = queues[l][j]
           \/ priority[queues'[l][i]] = l
  <2>1. ~Free(p) /\ state[p] \in {"READY", "BLOCK", "SUSP_BLOCK", "SUSP_READY", "EXIT"}
    BY <1>0, <1>2 DEF Free
  <2> QED BY <1>3, <2>1, EnterListStep
<1>6. TypeOK'
  BY <1>3, <1>4, <1>5 DEF IndInv, TypeOK, ioVars, cpuVars
<1>7. Frame(c, {p})
  <2>1. \A u \in Thread \ {c} : SameThread(u)
    BY <1>3, <1>4 DEF SameThread, ioVars, cpuVars
  <2> QED BY <1>2, <1>5, <2>1 DEF Frame
<1>8. ThreadOK(c)'
  <2>0. pcb'[c] = r /\ reason'[c] # "OTHER"
    BY <1>1, <1>3 DEF cpuVars
  <2>1. CpuControl(c)'
    BY <1>1, <1>4, <2>0 DEF CpuControl, OnCpu, Inheriting
  <2>2. OwnProcess(c)'
    <3>1. SameProcess(r)
      BY <1>2, <1>5
    <3> QED BY <1>1, <1>4, <2>0, <3>1 DEF OwnProcess, SameProcess, Free, OnCpu
  <2>3. NextProcess(c)' /\ MovedProcess(c)'
    BY <1>4 DEF NextProcess, MovedProcess, Replacing, Moving
  <2> QED BY <1>0, <2>1, <2>2, <2>3 DEF ThreadOK
<1>9. /\ \A q \in Proc : Owns(c, q)' => Owns(c, q)
      /\ \A q \in Proc : Holds(c, q) => q = p
  BY <1>1, <1>2, <1>3, <1>4, ThreadFacts
     DEF Owns, Holds, HeldByCpu, Carries, Replacing, Moving, cpuVars
<1>10. Placed'
  <2>1. {p} \in SUBSET Proc /\ \A q \in {p} : Listed(q)' /\ NotLost(q)'
    BY <1>5
  <2> QED BY <1>0, <1>7, <1>8, <1>9, <2>1, FramePlaced DEF IndInv
<1>11. Instances'
  BY <1>3, <1>4, ThreadFacts DEF IndInv, Instances, Refs
<1>12. Levelled'
  <2>1. Levelled /\ priority' = priority /\ state' = state
    BY <1>3 DEF IndInv
  <2> QED BY <1>5, <2>1, LevelledStep
<1> QED BY <1>5, <1>6, <1>10, <1>11, <1>12 DEF IndInv

\* MUTEX_UNLOCK chooses the waiter to wake and changes priorities.
LEMMA handle_syscall_mutex_unlock_Inv ==
  ASSUME IndInv, LevelsKept, NEW c \in CPU, NEW n \in Priority,
         handle_syscall_mutex_unlock(c, n)
  PROVE  IndInv'
<1>0. /\ c \in Thread /\ c \notin IO /\ c \notin {Suspender, Resumer, Resumption}
      /\ pc \in [Thread -> PC] /\ target \in [Thread -> Proc \cup {NoProc}]
      /\ priority \in [Proc -> Priority] /\ lowest_priority \in Nat
      /\ mutex_list \in SUBSET Proc /\ holders \in SUBSET Proc
      /\ \A m \in Priority : m \in Nat
  BY ThreadFacts, PriorityNat DEF IndInv, TypeOK
<1>1. PICK r \in Proc :
        /\ r = pcb[c] /\ pc[c] = "run" /\ target[c] = NoProc /\ reason[c] # "OTHER"
        /\ state[r] = "EXEC" /\ Free(r) /\ exec[r] = 1 /\ r # NoProc
  BY CpuFacts, RunFacts, ThreadFacts
     DEF handle_syscall_mutex_unlock, OnCpu, OwnProcess, Resting, Inheriting
<1>2. /\ UsesMutexes
      /\ lowest_priority' \in {lowest_priority, Lowest(exec, priority')}
      /\ UNCHANGED <<readyVars, state, lock_owner, active_instances, exec, block,
                     susp_block, susp_ready, io_list, io_closed, io, cpuVars>>
      /\ Multilevel => n < Levels
  BY DEF handle_syscall_mutex_unlock, check_priority_valid
<1>3. \/ /\ priority' = [priority EXCEPT ![r] = n]
         /\ holders' \in {holders, holders \ {r}}
         /\ pc' = [pc EXCEPT ![c] = "queue_blocked"]
         /\ UNCHANGED <<mutex_list, target>>
      \/ \E w \in mutex_list, m \in Priority :
           /\ mutex_list' = mutex_list \ {w} /\ m <= priority[w]
           /\ holders' \in {holders \cup {w}, (holders \ {r}) \cup {w}}
           /\ priority' = [priority EXCEPT ![r] = n, ![w] = m]
           /\ target' = [target EXCEPT ![c] = w]
           /\ pc' = [pc EXCEPT ![c] = "unlock"]
  BY <1>1 DEF handle_syscall_mutex_unlock, Goto
<1>4. /\ priority' \in [Proc -> Priority] /\ pc' \in [Thread -> PC]
      /\ target' \in [Thread -> Proc \cup {NoProc}] /\ mutex_list' \in SUBSET Proc
      /\ holders' \in SUBSET Proc
  BY <1>0, <1>3 DEF PC
<1>5. TypeOK'
  <2>1. lowest_priority' \in Nat
    BY <1>0, <1>2, <1>4, LowestNat
  <2> QED BY <1>2, <1>4, <2>1 DEF IndInv, TypeOK, readyVars, cpuVars
<1>6. /\ \A u \in Thread \ {c} : pc'[u] = pc[u] /\ target'[u] = target[u]
      /\ \/ pc'[c] = "queue_blocked" /\ target'[c] = NoProc
         \/ pc'[c] = "unlock" /\ target'[c] # NoProc
  BY <1>0, <1>1, <1>3, ThreadFacts
<1>7. Frame(c, {})
  <2>1. \A u \in Thread \ {c} : SameThread(u)
    BY <1>2, <1>6 DEF SameThread, cpuVars, ioVars
  <2>2. \A q \in Proc : SameProcess(q)
    BY <1>2 DEF SameProcess, Queued, readyVars
  <2> QED BY <2>1, <2>2 DEF Frame
<1>8. ThreadOK(c)'
  <2>0. pcb'[c] = r /\ reason'[c] # "OTHER"
    BY <1>1, <1>2 DEF cpuVars
  <2>1. CpuControl(c)'
    BY <1>1, <1>6, <2>0 DEF CpuControl, OnCpu, Inheriting
  <2>2. OwnProcess(c)'
    BY <1>1, <1>2, <1>6, <2>0 DEF OwnProcess, Free, OnCpu
  <2>3. NextProcess(c)' /\ MovedProcess(c)'
    BY <1>6 DEF NextProcess, MovedProcess, Replacing, Moving
  <2> QED BY <1>0, <2>1, <2>2, <2>3 DEF ThreadOK
<1>9. /\ \A q \in Proc : Owns(c, q)' => Owns(c, q)
      /\ \A q \in Proc : ~Holds(c, q)
  BY <1>1, <1>2, <1>6, ThreadFacts
     DEF Owns, Holds, HeldByCpu, Carries, Replacing, cpuVars, Moving
<1>10. Placed'
  BY <1>0, <1>7, <1>8, <1>9, FramePlaced DEF IndInv
<1>11. Instances'
  BY <1>0, <1>2, <1>6, ThreadFacts DEF IndInv, Instances, Refs
<1>12. Levelled'
  <2>1. ASSUME NEW w \in mutex_list, NEW m \in Priority, m <= priority[w],
               priority' = [priority EXCEPT ![r] = n, ![w] = m], Multilevel,
               NEW p \in Proc, state[p] \in Live
        PROVE  priority'[p] = priority[p] \/ priority'[p] \in Level
    <3>1. priority'[p] \in {priority[p], n, m}
          /\ (priority'[p] = m => m = n \/ m = priority[p] \/ p = w)
      BY <2>1, <1>0
    <3>2. n \in Level
      BY <2>1, <1>0, <1>2, LevelsAssumption DEF Level
    <3>3. p = w => m \in Level
      <4>1. p = w => priority[w] \in Level /\ m \in Nat /\ m <= priority[w]
        BY <2>1, <1>0 DEF IndInv, Levelled
      <4> QED BY <4>1, LevelsAssumption DEF Level
    <3> QED BY <3>1, <3>2, <3>3
  <2>2. ASSUME priority' = [priority EXCEPT ![r] = n], Multilevel,
               NEW p \in Proc
        PROVE  priority'[p] = priority[p] \/ priority'[p] \in Level
    BY <2>2, <1>0, <1>2, LevelsAssumption DEF Level
  <2>3. Multilevel => \A p \in Proc : state[p] \in Live =>
          priority'[p] = priority[p] \/ priority'[p] \in Level
    BY <1>3, <2>1, <2>2
  <2>4. UNCHANGED <<queues, state>>
    BY <1>2 DEF readyVars
  <2> QED BY <2>3, <2>4, PriorityLevelled
<1>13. ReadyCount' /\ HighestIsExact'
  BY <1>2 DEF IndInv, ReadyCount, HighestIsExact, Queued, readyVars
<1> QED BY <1>5, <1>10, <1>11, <1>12, <1>13 DEF IndInv
=============================================================================

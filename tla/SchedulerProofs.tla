--------------------------- MODULE SchedulerProofs ---------------------------
(***************************************************************************)
(* IndInv is an invariant of Scheduler, and the safety properties of the   *)
(* seven-state machine follow from it: for any number of processes, CPUs,  *)
(* IO interfaces and READY levels, and for either algorithm.               *)
(***************************************************************************)
EXTENDS SchedulerCpuProofs

-----------------------------------------------------------------------------
(* Steps that move a process on behalf of another: the wake-ups of IO and  *)
(* MUTEX_UNLOCK, suspension and resumption.                                *)

\* What the invariant says of the process a thread works on.
LEMMA TargetFacts ==
  ASSUME IndInv, NEW t \in Thread
  PROVE  /\ ThreadOK(t)
         /\ pc[t] \in {"unlock", "unlock_enter", "suspend", "resume", "release"} =>
              target[t] \in Proc /\ target[t] # NoProc
<1>1. ThreadOK(t) /\ target[t] \in Proc \cup {NoProc}
  BY DEF IndInv, TypeOK, Placed
<1>2. CASE t \in CPU
  BY <1>1, <1>2, ThreadFacts DEF ThreadOK, CpuControl, Inheriting, OnCpu, Between
<1>3. CASE t \in IO
  BY <1>1, <1>3, ThreadFacts DEF ThreadOK, IoControl
<1>4. CASE t \in {Suspender, Resumer, Resumption}
  BY <1>1, <1>4, ThreadFacts DEF ThreadOK, WorkerControl
<1> QED BY <1>2, <1>3, <1>4 DEF Thread

\* A removal: p leaves BLOCK, SUSP. BLOCK or SUSP. READY and t takes its
\* state_mutex.
Removes(t, p, to) ==
  /\ p = target[t] /\ Free(p)
  /\ state[p] \in {"BLOCK", "SUSP_BLOCK", "SUSP_READY"}
  /\ to \in {"READY", "SUSP_READY", "SUSP_BLOCK"}
  /\ state' = [state EXCEPT ![p] = to]
  /\ lock_owner' = [lock_owner EXCEPT ![p] = t]
  /\ pc' = [pc EXCEPT ![t] = "unlock_enter"]
  /\ \/ state[p] = "BLOCK" /\ block' = Minus(block, p)
        /\ UNCHANGED <<susp_block, susp_ready>>
     \/ state[p] = "SUSP_BLOCK" /\ susp_block' = Minus(susp_block, p)
        /\ UNCHANGED <<block, susp_ready>>
     \/ state[p] = "SUSP_READY" /\ susp_ready' = Minus(susp_ready, p)
        /\ UNCHANGED <<block, susp_block>>
  /\ UNCHANGED <<readyVars, priority, active_instances, exec, lowest_priority,
                 ioVars, cpuVars, target>>

\* A removal preserves the invariant.
LEMMA RemovesInv ==
  ASSUME IndInv, NEW t \in Thread, NEW p \in Proc, NEW to, Removes(t, p, to),
         pc[t] \in {"unlock", "suspend", "resume"}
  PROVE  IndInv'
<1>0. /\ pc \in [Thread -> PC] /\ state \in [Proc -> State]
      /\ lock_owner \in [Proc -> Thread \cup {NoThread}]
      /\ block \in [Proc -> Nat] /\ susp_block \in [Proc -> Nat]
      /\ susp_ready \in [Proc -> Nat] /\ p # NoProc /\ t # NoThread
  BY ThreadFacts DEF IndInv, TypeOK
<1>1. Listed(p) /\ ThreadOK(t)
  BY DEF IndInv, Placed
<1>2. \A u \in Thread : ~Owns(u, p)
  BY Unowned DEF Removes
<1>3. /\ block' \in [Proc -> Nat] /\ susp_block' \in [Proc -> Nat]
      /\ susp_ready' \in [Proc -> Nat]
      /\ block'[p] = 0 /\ susp_block'[p] = 0 /\ susp_ready'[p] = 0
      /\ \A q \in Proc \ {p} : /\ block'[q] = block[q]
                               /\ susp_block'[q] = susp_block[q]
                               /\ susp_ready'[q] = susp_ready[q]
  <2>1. /\ state[p] # "BLOCK" => block[p] = 0
        /\ state[p] # "SUSP_BLOCK" => susp_block[p] = 0
        /\ state[p] # "SUSP_READY" => susp_ready[p] = 0
        /\ block[p] \in {0, 1} /\ susp_block[p] \in {0, 1} /\ susp_ready[p] \in {0, 1}
    BY <1>0, <1>1 DEF Listed
  <2>2. CASE state[p] = "BLOCK"
    <3>1. block' = [block EXCEPT ![p] = 0] /\ UNCHANGED <<susp_block, susp_ready>>
      BY <2>1, <2>2 DEF Removes, Minus
    <3> QED BY <1>0, <2>1, <2>2, <3>1
  <2>3. CASE state[p] = "SUSP_BLOCK"
    <3>1. susp_block' = [susp_block EXCEPT ![p] = 0] /\ UNCHANGED <<block, susp_ready>>
      BY <2>1, <2>3 DEF Removes, Minus
    <3> QED BY <1>0, <2>1, <2>3, <3>1
  <2>4. CASE state[p] = "SUSP_READY"
    <3>1. susp_ready' = [susp_ready EXCEPT ![p] = 0] /\ UNCHANGED <<block, susp_block>>
      BY <2>1, <2>4 DEF Removes, Minus
    <3> QED BY <1>0, <2>1, <2>4, <3>1
  <2> QED BY <2>2, <2>3, <2>4 DEF Removes
<1>4. /\ to \in {"READY", "SUSP_READY", "SUSP_BLOCK"} /\ p = target[t]
      /\ state' = [state EXCEPT ![p] = to]
      /\ lock_owner' = [lock_owner EXCEPT ![p] = t]
      /\ pc' = [pc EXCEPT ![t] = "unlock_enter"]
      /\ UNCHANGED <<readyVars, priority, active_instances, exec, lowest_priority,
                     ioVars, cpuVars, target>>
  BY DEF Removes
<1>5. TypeOK'
  <2>1. /\ pc' \in [Thread -> PC] /\ state' \in [Proc -> State]
        /\ lock_owner' \in [Proc -> Thread \cup {NoThread}]
    BY <1>0, <1>4 DEF PC, State
  <2> QED BY <1>3, <1>4, <2>1 DEF IndInv, TypeOK, readyVars, ioVars, cpuVars
<1>6. Frame(t, {p})
  <2>1. \A u \in Thread \ {t} : SameThread(u)
    BY <1>0, <1>4 DEF SameThread, ioVars, cpuVars
  <2>2. \A q \in Proc \ {p} : SameProcess(q)
    BY <1>0, <1>3, <1>4 DEF SameProcess, Queued, readyVars
  <2> QED BY <1>2, <2>1, <2>2 DEF Frame
<1>7. /\ pc'[t] = "unlock_enter" /\ target' = target /\ pcb' = pcb /\ reason' = reason
      /\ state'[p] = to /\ lock_owner'[p] = t
  BY <1>0, <1>4 DEF cpuVars
<1>8. ThreadOK(t)'
  <2>1. MovedProcess(t)'
    BY <1>4, <1>7 DEF MovedProcess, Moving
  <2>2. t \in CPU => CpuControl(t)' /\ OwnProcess(t)' /\ NextProcess(t)'
    <3> SUFFICES ASSUME t \in CPU
                 PROVE  CpuControl(t)' /\ OwnProcess(t)' /\ NextProcess(t)'
      OBVIOUS
    <3>1. /\ CpuControl(t) /\ OwnProcess(t) /\ pc[t] = "unlock"
      BY <1>1 DEF ThreadOK, CpuControl, Inheriting, OnCpu, Between
    <3>2. CpuControl(t)'
      BY <1>0, <1>4, <1>7, <3>1 DEF CpuControl, Inheriting, OnCpu
    <3>3. PICK r \in Proc : /\ r = pcb[t] /\ r # p /\ state[r] = "EXEC"
                            /\ Free(r) /\ exec[r] = 1
      BY <3>1, <1>2, CpuFacts, ThreadFacts
         DEF CpuControl, Inheriting, OwnProcess, OnCpu, Owns, Moving
    <3>4. SameProcess(r)
      BY <3>3, <1>6 DEF Frame
    <3>5. OwnProcess(t)'
      BY <3>3, <3>4, <1>7 DEF OwnProcess, SameProcess, Free, OnCpu
    <3>6. NextProcess(t)'
      BY <1>7 DEF NextProcess, Replacing
    <3> QED BY <3>2, <3>5, <3>6
  <2>3. t \in IO => IoControl(t)'
    BY <1>0, <1>4, <1>7 DEF IoControl
  <2>4. t \in {Suspender, Resumer, Resumption} => WorkerControl(t)'
    BY <1>0, <1>4, <1>7, ThreadFacts DEF WorkerControl
  <2> QED BY <2>1, <2>2, <2>3, <2>4 DEF ThreadOK
<1>9. Listed(p)' /\ NotLost(p)'
  <2>1. Holds(t, p)'
    BY <1>4, <1>7 DEF Holds, Carries
  <2>2. exec' = exec /\ (Queued(p)' <=> Queued(p))
    BY <1>4 DEF Queued, readyVars
  <2>3. ~Queued(p) /\ ~(exec[p] > 0)
    BY <1>1 DEF Removes, Listed
  <2> QED BY <1>0, <1>3, <1>4, <1>7, <2>1, <2>2, <2>3 DEF Listed, NotLost
<1>10. \A q \in Proc : Owns(t, q)' => q = p \/ Owns(t, q)
  BY <1>4, <1>7 DEF Owns, Moving, Replacing
<1>11. \A q \in Proc : ~Holds(t, q)
  BY DEF Holds, HeldByCpu, Carries
<1>12. Placed'
  BY <1>6, <1>8, <1>9, <1>10, <1>11, FramePlaced DEF IndInv
<1>13. Quiet
  <2>1. \A q \in Proc : /\ state'[q] \in Live => state[q] \in Live
                        /\ state'[q] \in Gone => state[q] \in Gone
    BY <1>0, <1>4 DEF Removes, Live, Gone
  <2> QED BY <1>4, <2>1 DEF Quiet
<1> QED BY <1>5, <1>12, <1>13, QuietStep DEF IndInv

\* An insertion: t gives p back to the list of its state and goes on at
\* label, with the other process (other) set there.
Inserts(t, p, label, other) ==
  /\ p = target[t] /\ pc[t] = "unlock_enter" /\ EnterList(p)
  /\ pc' = [pc EXCEPT ![t] = label]
  /\ target' = [target EXCEPT ![t] = other]
  /\ \/ t \in CPU /\ label = "queue_blocked" /\ other = NoProc
     \/ t \in IO /\ label = "finished" /\ other = p
     \/ t \in IO /\ label = "draining" /\ other = NoProc
     \/ t \in {Suspender, Resumer} /\ label = "release" /\ other = p
     \/ t = Resumption /\ label = "sweep" /\ other = NoProc
  /\ UNCHANGED <<state, priority, active_instances, exec, lowest_priority,
                 ioVars, cpuVars>>

\* An insertion preserves the invariant.
LEMMA InsertsInv ==
  ASSUME IndInv, NEW t \in Thread, NEW p \in Proc, NEW label, NEW other,
         Inserts(t, p, label, other)
  PROVE  IndInv'
<1>0. /\ pc \in [Thread -> PC] /\ target \in [Thread -> Proc \cup {NoProc}]
      /\ p # NoProc /\ t # NoThread
  BY ThreadFacts DEF IndInv, TypeOK
<1>1. /\ ThreadOK(t) /\ lock_owner[p] = t
      /\ state[p] \in {"READY", "SUSP_READY", "SUSP_BLOCK"}
  BY DEF IndInv, Placed, ThreadOK, MovedProcess, Moving, Inserts
<1>2. \A u \in Thread \ {t} : ~Owns(u, p)
  BY DEF IndInv, Placed, Exclusive, Owns, Moving, Inserts
<1>3. /\ \A q \in Proc \ {p} : SameProcess(q)
      /\ Free(p)' /\ Listed(p)' /\ NotLost(p)' /\ ReadyCount' /\ HighestIsExact'
      /\ queues' \in [Level -> Seq(Proc)] /\ ready_process_count' \in Nat
      /\ highest_priority' \in Nat /\ preempt_all' \in BOOLEAN
      /\ lock_owner' \in [Proc -> Thread \cup {NoThread}]
      /\ block' \in [Proc -> Nat] /\ susp_block' \in [Proc -> Nat]
      /\ susp_ready' \in [Proc -> Nat]
      /\ Multilevel => \A l \in Level : \A i \in DOMAIN queues'[l] :
           \/ \E j \in DOMAIN queues[l] : queues'[l][i] = queues[l][j]
           \/ priority[queues'[l][i]] = l
  <2>1. ~Free(p) /\ state[p] \in {"READY", "BLOCK", "SUSP_BLOCK", "SUSP_READY", "EXIT"}
    BY <1>0, <1>1 DEF Free
  <2>2. EnterList(p) /\ UNCHANGED <<state, exec, priority>>
    BY DEF Inserts
  <2> QED BY <2>1, <2>2, EnterListStep
<1>4. /\ p = target[t] /\ pc[t] = "unlock_enter"
      /\ pc' = [pc EXCEPT ![t] = label] /\ target' = [target EXCEPT ![t] = other]
      /\ \/ t \in CPU /\ label = "queue_blocked" /\ other = NoProc
         \/ t \in IO /\ label = "finished" /\ other = p
         \/ t \in IO /\ label = "draining" /\ other = NoProc
         \/ t \in {Suspender, Resumer} /\ label = "release" /\ other = p
         \/ t = Resumption /\ label = "sweep" /\ other = NoProc
      /\ UNCHANGED <<state, priority, active_instances, exec, lowest_priority,
                     ioVars, cpuVars>>
  BY DEF Inserts
<1>5. pc'[t] = label /\ target'[t] = other
  BY <1>0, <1>4
<1>6. TypeOK'
  <2>1. pc' \in [Thread -> PC] /\ target' \in [Thread -> Proc \cup {NoProc}]
    BY <1>0, <1>4 DEF PC
  <2> QED BY <1>3, <1>4, <2>1 DEF IndInv, TypeOK, ioVars, cpuVars
<1>7. Frame(t, {p})
  <2>1. \A u \in Thread \ {t} : SameThread(u)
    BY <1>0, <1>4 DEF SameThread, ioVars, cpuVars
  <2> QED BY <1>2, <1>3, <2>1 DEF Frame
<1>8. ThreadOK(t)'
  <2>1. MovedProcess(t)'
    BY <1>4, <1>5 DEF MovedProcess, Moving
  <2>2. t \in CPU => CpuControl(t)' /\ OwnProcess(t)' /\ NextProcess(t)'
    <3> SUFFICES ASSUME t \in CPU
                 PROVE  CpuControl(t)' /\ OwnProcess(t)' /\ NextProcess(t)'
      OBVIOUS
    <3>0. label = "queue_blocked" /\ other = NoProc /\ pcb' = pcb /\ reason' = reason
      BY <1>4, ThreadFacts DEF cpuVars
    <3>1. PICK r \in Proc : /\ r = pcb[t] /\ state[r] = "EXEC" /\ reason[t] # "OTHER"
                            /\ Free(r) /\ exec[r] = 1 /\ r # p
      BY <1>0, <1>1, <1>4, CpuFacts, ThreadFacts
         DEF CpuControl, Inheriting, OwnProcess, OnCpu, Free
    <3>2. CpuControl(t)'
      BY <1>5, <3>0, <3>1, ThreadFacts DEF CpuControl, Inheriting, OnCpu
    <3>3. SameProcess(r)
      BY <1>3, <3>1
    <3>4. OwnProcess(t)'
      BY <1>5, <3>0, <3>1, <3>3 DEF OwnProcess, SameProcess, Free, OnCpu
    <3>5. NextProcess(t)'
      BY <1>5, <3>0 DEF NextProcess
    <3> QED BY <3>2, <3>4, <3>5
  <2>3. t \in IO => IoControl(t)'
    BY <1>4, <1>5, ThreadFacts DEF IoControl
  <2>4. t \in {Suspender, Resumer, Resumption} => WorkerControl(t)'
    BY <1>0, <1>4, <1>5, ThreadFacts DEF WorkerControl
  <2> QED BY <2>1, <2>2, <2>3, <2>4 DEF ThreadOK
<1>9. \A q \in Proc : Owns(t, q)' => Owns(t, q)
  BY <1>4, <1>5, ThreadFacts DEF Owns, Moving, Replacing, cpuVars
<1>10. \A q \in Proc : Holds(t, q) => q = p
  BY <1>4 DEF Holds, HeldByCpu
<1>11. Placed'
  <2>1. {p} \in SUBSET Proc /\ \A q \in {p} : Listed(q)' /\ NotLost(q)'
    BY <1>3
  <2>2. \A q \in Proc \ {p} : Holds(t, q) => Holds(t, q)'
    BY <1>10
  <2> QED BY <1>7, <1>8, <1>9, <2>1, <2>2, FramePlaced DEF IndInv
<1>12. Instances'
  <2>1. target'[Suspender] = target[Suspender] /\ target'[Resumer] = target[Resumer]
    BY <1>0, <1>4, ThreadFacts
  <2> QED BY <2>1, <1>4 DEF IndInv, Instances, Refs
<1>13. Levelled'
  <2>1. Levelled /\ priority' = priority /\ state' = state
    BY <1>4 DEF IndInv
  <2> QED BY <1>3, <2>1, LevelledStep
<1> QED BY <1>3, <1>6, <1>11, <1>12, <1>13 DEF IndInv

\* A step of an IO thread, of the suspender, of the resumer or of the sweep
\* that moves no process: t goes to label, with other as its process.
Idles(t, label, other) ==
  /\ t \notin CPU /\ pc[t] \notin Moving /\ label \notin Moving
  /\ other \in Proc \cup {NoProc}
  /\ t \in IO =>
       /\ label \in {"idle", "serving", "draining", "closed", "unlock", "finished"}
       /\ other = NoProc <=> label \in {"idle", "draining", "closed"}
  /\ t = Suspender => label \in {"idle", "suspend", "release"}
  /\ t = Resumer => label \in {"idle", "resume", "release"}
  /\ t = Resumption => label \in {"idle", "sweep", "sweep_head", "resume", "crashed"}
  /\ t \in {Suspender, Resumer, Resumption} =>
       /\ label \in {"idle", "sweep", "sweep_head"} => other = NoProc
       /\ other = NoProc => label \in {"idle", "sweep", "sweep_head", "crashed"}
  /\ pc' = [pc EXCEPT ![t] = label]
  /\ target' = [target EXCEPT ![t] = other]
  /\ io_list' \in [IO -> SUBSET Proc] /\ io_closed' \in [IO -> BOOLEAN]
  /\ UNCHANGED <<readyVars, state, priority, lock_owner, listVars, io,
                 mutex_list, holders, cpuVars>>

\* Such a step keeps every process in its place.
LEMMA IdlesPlaced ==
  ASSUME IndInv, NEW t \in Thread, NEW label, NEW other, Idles(t, label, other)
  PROVE  /\ Placed' /\ ReadyCount' /\ Levelled' /\ HighestIsExact'
         /\ active_instances' \in [Proc -> Nat] => TypeOK'
<1>0. /\ pc \in [Thread -> PC] /\ target \in [Thread -> Proc \cup {NoProc}]
      /\ t \notin CPU /\ pc[t] \notin Moving /\ label \notin Moving
      /\ pc' = [pc EXCEPT ![t] = label] /\ target' = [target EXCEPT ![t] = other]
      /\ UNCHANGED <<readyVars, state, priority, lock_owner, listVars, io,
                     mutex_list, holders, cpuVars>>
  BY DEF IndInv, TypeOK, Idles, Moving
<1>1. pc'[t] = label /\ target'[t] = other
  BY <1>0
<1>2. \A u \in Thread \ {t} : SameThread(u)
  BY <1>0 DEF SameThread, ioVars, cpuVars
<1>3. \A q \in Proc : SameProcess(q)
  BY <1>0 DEF SameProcess, Queued, readyVars, listVars
<1>4. Frame(t, {})
  BY <1>2, <1>3 DEF Frame
<1>5. ThreadOK(t)'
  <2>1. MovedProcess(t)'
    BY <1>0, <1>1 DEF MovedProcess, Moving
  <2>2. t \in IO => IoControl(t)'
    BY <1>1 DEF IoControl, Idles, Moving
  <2>3. t \in {Suspender, Resumer, Resumption} => WorkerControl(t)'
    BY <1>1, ThreadFacts DEF WorkerControl, Idles, Moving
  <2> QED BY <1>0, <2>1, <2>2, <2>3 DEF ThreadOK
<1>6. \A q \in Proc : ~Owns(t, q)' /\ ~Holds(t, q)
  BY <1>0, <1>1 DEF Owns, Moving, Holds, Carries
<1>7. Placed'
  BY <1>4, <1>5, <1>6, FramePlaced DEF IndInv
<1>8. ReadyCount' /\ HighestIsExact'
  BY <1>0 DEF IndInv, ReadyCount, HighestIsExact, Queued, readyVars
<1>9. Levelled'
  <2>1. queues' = queues /\ priority' = priority /\ state' = state
    BY <1>0 DEF readyVars
  <2> QED BY <2>1 DEF IndInv, Levelled
<1>10. ASSUME active_instances' \in [Proc -> Nat] PROVE TypeOK'
  <2>1. label \in PC
    BY DEF Idles, Moving, PC, Thread
  <2>2. pc' \in [Thread -> PC] /\ target' \in [Thread -> Proc \cup {NoProc}]
    BY <1>0, <2>1 DEF Idles, Moving
  <2> QED BY <1>0, <1>10, <2>2
     DEF Idles, Moving, IndInv, TypeOK, readyVars, listVars, cpuVars
<1> QED BY <1>7, <1>8, <1>9, <1>10

\* If it takes and drops no counted reference the invariant is preserved.
LEMMA IdlesInv ==
  ASSUME IndInv, NEW t \in Thread, NEW label, NEW other, Idles(t, label, other),
         UNCHANGED active_instances,
         t \in {Suspender, Resumer} => other = target[t]
  PROVE  IndInv'
<1>1. active_instances' \in [Proc -> Nat]
  BY DEF IndInv, TypeOK
<1>2. target'[Suspender] = target[Suspender] /\ target'[Resumer] = target[Resumer]
  BY ThreadFacts DEF Idles, Moving, IndInv, TypeOK
<1>3. state' = state
  BY DEF Idles, Moving
<1>4. Instances'
  BY <1>2, <1>3 DEF IndInv, Instances, Refs
<1> QED BY <1>1, <1>4, IdlesPlaced DEF IndInv

-----------------------------------------------------------------------------
(* The actions of the IO threads, and the wake-ups of MUTEX_UNLOCK.        *)

\* A wake-up takes the process out of BLOCK or SUSP. BLOCK.
LEMMA transition_unlock_Inv ==
  ASSUME IndInv, NEW t \in Thread, transition_unlock(t)
  PROVE  IndInv'
<1>1. PICK p \in Proc : p = target[t]
  BY TargetFacts DEF transition_unlock
<1>2. pc[t] = "unlock" /\ \E to : Removes(t, p, to)
  BY <1>1 DEF transition_unlock, Removes, Goto
<1> QED BY <1>2, RemovesInv

\* A wake-up of a process in any other state changes nothing else.
LEMMA transition_unlock_refused_Inv ==
  ASSUME IndInv, NEW t \in CPU \cup IO, transition_unlock_refused(t)
  PROVE  IndInv'
<1>0. t \in Thread /\ (t \in CPU \/ t \in IO) /\ t \notin CPU \cap IO
  BY ThreadFacts
<1>1. CASE t \in IO
  <2>0. target[t] \in Proc /\ target \in [Thread -> Proc \cup {NoProc}]
        /\ target[t] # NoProc
    BY <1>0, TargetFacts DEF transition_unlock_refused, IndInv, TypeOK
  <2>1. PICK label, other :
          /\ \/ label = "finished" /\ other = target[t]
             \/ label = "draining" /\ other = NoProc
          /\ pc' = [pc EXCEPT ![t] = label] /\ target' = [target EXCEPT ![t] = other]
    <3>1. CASE ~io_closed[t]
      <4>1. pc' = [pc EXCEPT ![t] = "finished"] /\ target' = target
        BY <1>1, <3>1 DEF transition_unlock_refused, AfterUnlock, Goto
      <4>2. target' = [target EXCEPT ![t] = target[t]]
        BY <1>0, <2>0, <4>1
      <4> QED BY <4>1, <4>2
    <3>2. CASE io_closed[t]
      BY <1>1, <3>2, ThreadFacts DEF transition_unlock_refused, AfterUnlock, Goto
    <3> QED BY <3>1, <3>2
  <2>2. Idles(t, label, other)
    <3>1. /\ pc[t] = "unlock"
          /\ UNCHANGED <<readyVars, state, priority, lock_owner, listVars,
                         io_list, io_closed, io, mutex_list, holders, cpuVars>>
      BY DEF transition_unlock_refused, RunUnchanged, pcbVars, ioVars
    <3>2. io_list' \in [IO -> SUBSET Proc] /\ io_closed' \in [IO -> BOOLEAN]
      BY <3>1 DEF IndInv, TypeOK
    <3> QED BY <1>1, <2>0, <2>1, <3>1, <3>2, ThreadFacts DEF Idles, Moving
  <2>3. active_instances' = active_instances
    BY DEF transition_unlock_refused, RunUnchanged, pcbVars
  <2> QED BY <1>0, <1>1, <2>2, <2>3, ThreadFacts, IdlesInv
<1>2. CASE t \in CPU
  <2>1. /\ pc' = [pc EXCEPT ![t] = "queue_blocked"]
        /\ target' = [target EXCEPT ![t] = NoProc]
        /\ pc[t] = "unlock" /\ UNCHANGED <<RunUnchanged, cpuVars>>
    BY <1>2, ThreadFacts DEF transition_unlock_refused, AfterUnlock, Goto
  <2>2. /\ pc \in [Thread -> PC] /\ target \in [Thread -> Proc \cup {NoProc}]
    BY DEF IndInv, TypeOK
  <2>3. /\ pc' \in [Thread -> PC] /\ target' \in [Thread -> Proc \cup {NoProc}]
        /\ pc'[t] = "queue_blocked" /\ target'[t] = NoProc
        /\ \A u \in Thread \ {t} : pc'[u] = pc[u] /\ target'[u] = target[u]
    BY <1>0, <2>1, <2>2 DEF PC
  <2>4. TypeOK'
    BY <2>1, <2>3
       DEF IndInv, TypeOK, RunUnchanged, readyVars, pcbVars, listVars, ioVars, cpuVars
  <2>5. pcb[t] # NoProc /\ reason[t] # "OTHER"
    BY <1>2, <2>1, CpuFacts DEF CpuControl, Inheriting, OnCpu
  <2>6. Stays(t)
    <3>1. \A u \in Thread \ {t} : SameThread(u)
      BY <2>1, <2>3 DEF SameThread, RunUnchanged, ioVars, cpuVars
    <3>2. \A q \in Proc : SameProcess(q)
      BY <2>1 DEF SameProcess, Queued, RunUnchanged, readyVars, pcbVars, listVars
    <3> QED BY <2>1, <2>3, <2>5, <3>1, <3>2
       DEF Stays, Inheriting, Resting, Goes, OnCpu, cpuVars
  <2>7. Quiet
    <3>1. target'[Suspender] = target[Suspender] /\ target'[Resumer] = target[Resumer]
      BY <1>2, <2>3, ThreadFacts
    <3> QED BY <2>1, <3>1 DEF Quiet, RunUnchanged, pcbVars
  <2> QED BY <1>2, <2>4, <2>6, <2>7, StaysPlaced, QuietStep DEF IndInv
<1> QED BY <1>0, <1>1, <1>2

\* The second half of a wake-up inserts the process it removed.
LEMMA transition_unlock_end_Inv ==
  ASSUME IndInv, NEW t \in CPU \cup IO, transition_unlock_end(t)
  PROVE  IndInv'
<1>0. t \in Thread
  BY ThreadFacts
<1>1. PICK p \in Proc : p = target[t]
  BY <1>0, TargetFacts DEF transition_unlock_end
<1>2. PICK label, other :
        /\ \/ t \in CPU /\ label = "queue_blocked" /\ other = NoProc
           \/ t \in IO /\ label = "finished" /\ other = p
           \/ t \in IO /\ label = "draining" /\ other = NoProc
        /\ pc' = [pc EXCEPT ![t] = label] /\ target' = [target EXCEPT ![t] = other]
  <2>1. CASE t \in IO /\ ~io_closed[t]
    <3>1. pc' = [pc EXCEPT ![t] = "finished"] /\ target' = target
      BY <2>1 DEF transition_unlock_end, AfterUnlock, Goto
    <3>2. target' = [target EXCEPT ![t] = p]
      BY <1>0, <1>1, <3>1 DEF IndInv, TypeOK
    <3> QED BY <2>1, <3>1, <3>2
  <2>2. CASE ~(t \in IO /\ ~io_closed[t])
    BY <2>2, ThreadFacts DEF transition_unlock_end, AfterUnlock, Goto
  <2> QED BY <2>1, <2>2
<1>3. Inserts(t, p, label, other)
  BY <1>1, <1>2 DEF transition_unlock_end, Inserts
<1> QED BY <1>0, <1>3, InsertsInv

\* Serving a request, finishing it, failing and draining move no process.
LEMMA io_thread_Inv ==
  ASSUME IndInv, NEW d \in IO, io_thread(d)
  PROVE  IndInv'
<1>1. PICK p \in io_list[d] : target' = [target EXCEPT ![d] = p]
  BY DEF io_thread
<1>2. p \in Proc
  BY DEF IndInv, TypeOK
<1>3. Idles(d, "serving", p)
  BY <1>1, <1>2, ThreadFacts
     DEF io_thread, Idles, Moving, Goto, RunUnchanged, pcbVars, ioVars, IndInv, TypeOK
<1>4. active_instances' = active_instances
  BY DEF io_thread, RunUnchanged, pcbVars
<1> QED BY <1>3, <1>4, ThreadFacts, IdlesInv

\* A finished request leaves the list of the interface.
LEMMA finalize_io_Inv ==
  ASSUME IndInv, NEW d \in IO, finalize_io(d)
  PROVE  IndInv'
<1>1. target[d] \in Proc /\ target[d] # NoProc /\ target \in [Thread -> Proc \cup {NoProc}]
  BY ThreadFacts DEF IndInv, TypeOK, Placed, ThreadOK, IoControl, finalize_io
<1>2. target' = [target EXCEPT ![d] = target[d]]
  BY <1>1 DEF finalize_io
<1>3. io_list' \in [IO -> SUBSET Proc]
  BY DEF finalize_io, IndInv, TypeOK
<1>4. Idles(d, "unlock", target[d])
  BY <1>1, <1>2, <1>3, ThreadFacts
     DEF finalize_io, Idles, Moving, Goto, pcbVars, IndInv, TypeOK
<1>5. active_instances' = active_instances
  BY DEF finalize_io, pcbVars
<1> QED BY <1>4, <1>5, ThreadFacts, IdlesInv

\* The log line lets go of the process.
LEMMA log_finished_Inv ==
  ASSUME IndInv, NEW d \in IO, log_finished(d)
  PROVE  IndInv'
<1>1. Idles(d, "idle", NoProc)
  BY ThreadFacts
    
        DEF log_finished, Idles, Moving, Goto, RunUnchanged, pcbVars, ioVars,
            IndInv, TypeOK
<1>2. active_instances' = active_instances
  BY DEF log_finished, RunUnchanged, pcbVars
<1> QED BY <1>1, <1>2, ThreadFacts, IdlesInv

\* A failed interface refuses further requests.
LEMMA io_failure_Inv ==
  ASSUME IndInv, NEW d \in IO, io_failure(d)
  PROVE  IndInv'
<1>1. io_closed' \in [IO -> BOOLEAN]
  BY Zenon DEF io_failure, IndInv, TypeOK
<1>2. Idles(d, "draining", NoProc)
  BY <1>1, ThreadFacts DEF io_failure, Idles, Moving, Goto, pcbVars, IndInv, TypeOK
<1>3. active_instances' = active_instances
  BY DEF io_failure, pcbVars
<1> QED BY <1>2, <1>3, ThreadFacts, IdlesInv

\* A closing interface hands over its waiters one by one.
LEMMA close_thread_io_Inv ==
  ASSUME IndInv, NEW d \in IO, close_thread_io(d)
  PROVE  IndInv'
<1>0. /\ pc[d] = "draining" /\ active_instances' = active_instances
      /\ UNCHANGED <<readyVars, pcbVars, listVars, io_closed, io, mutex_list,
                     holders, cpuVars>>
      /\ target \in [Thread -> Proc \cup {NoProc}] /\ io_list \in [IO -> SUBSET Proc]
      /\ io_closed \in [IO -> BOOLEAN]
  BY DEF close_thread_io, pcbVars, IndInv, TypeOK
<1>1. CASE \E p \in io_list[d] :
             /\ io_list' = [io_list EXCEPT ![d] = @ \ {p}]
             /\ target' = [target EXCEPT ![d] = p]
             /\ Goto(d, "unlock")
  <2>1. PICK p \in io_list[d] : /\ io_list' = [io_list EXCEPT ![d] = @ \ {p}]
                                /\ target' = [target EXCEPT ![d] = p]
                                /\ Goto(d, "unlock")
    BY <1>1
  <2>2. p \in Proc /\ io_list' \in [IO -> SUBSET Proc]
    BY <1>0, <2>1
  <2>3. Idles(d, "unlock", p)
    BY <1>0, <2>1, <2>2, ThreadFacts DEF Idles, Moving, Goto, pcbVars
  <2> QED BY <1>0, <2>3, ThreadFacts, IdlesInv
<1>2. CASE Goto(d, "closed") /\ UNCHANGED <<io_list, target>>
  <2>1. target[d] = NoProc
    BY <1>0, ThreadFacts DEF IndInv, Placed, ThreadOK, IoControl
  <2>2. target' = [target EXCEPT ![d] = NoProc]
    BY <1>0, <1>2, <2>1
  <2>3. Idles(d, "closed", NoProc)
    BY <1>0, <1>2, <2>2, ThreadFacts DEF Idles, Moving, Goto, pcbVars
  <2> QED BY <1>0, <2>3, ThreadFacts, IdlesInv
<1> QED BY <1>1, <1>2 DEF close_thread_io

-----------------------------------------------------------------------------
(* The actions of the suspender, the resumer and the resumption sweep, and *)
(* the gate of a compaction.                                               *)

\* Taking a counted reference to a process found in a list.
LEMMA get_process_Inv ==
  ASSUME IndInv, NEW t \in {Suspender, Resumer}, NEW list, NEW label,
         \A p \in Proc : list[p] > 0 => state[p] \in Live,
         t = Suspender => label = "suspend", t = Resumer => label = "resume",
         get_process(t, list, label)
  PROVE  IndInv'
<1>0. /\ t \in Thread /\ t \notin CPU /\ t \notin IO /\ t # Resumption
      /\ target \in [Thread -> Proc \cup {NoProc}]
      /\ active_instances \in [Proc -> Nat] /\ state' = state
  BY ThreadFacts DEF IndInv, TypeOK, get_process
<1>1. PICK p \in Proc :
        /\ state[p] \in Live
        /\ target' = [target EXCEPT ![t] = p]
        /\ active_instances' = [active_instances EXCEPT ![p] = @ + 1]
  BY DEF get_process
<1>2. target[t] = NoProc /\ pc[t] = "idle" /\ p # NoProc
  BY <1>0, ThreadFacts DEF IndInv, Placed, ThreadOK, WorkerControl, get_process
<1>3. Idles(t, label, p)
  <2>1. io_list' \in [IO -> SUBSET Proc] /\ io_closed' \in [IO -> BOOLEAN]
    BY DEF get_process, ioVars, IndInv, TypeOK
  <2> QED BY <1>0, <1>1, <1>2, <2>1, ThreadFacts
     DEF get_process, Idles, Moving, Goto, ioVars
<1>4. active_instances' \in [Proc -> Nat]
  BY <1>0, <1>1
<1>5. Instances'
  <2>1. PICK u \in {Suspender, Resumer} : u # t /\ u \in Thread
    BY ThreadFacts
  <2>2. {Suspender, Resumer} = {t, u}
    BY <2>1
  <2>3. target'[t] = p /\ target'[u] = target[u] /\ target[u] \in Proc \cup {NoProc}
    BY <1>0, <1>1, <2>1
  <2>4. \A q \in Proc : active_instances[q] = Refs(q, t) + Refs(q, u)
    BY <2>1 DEF IndInv, Instances, Refs
  <2>5. \A q \in Proc : /\ active_instances'[q] = IF q = p THEN active_instances[q] + 1
                                                  ELSE active_instances[q]
    BY <1>0, <1>1
  <2>6. \A q \in Proc : active_instances'[q] = Refs(q, t)' + Refs(q, u)'
    BY <1>2, <2>3, <2>4, <2>5, ThreadFacts DEF Refs
  <2>7. \A q \in Proc : active_instances'[q] = Refs(q, Suspender)' + Refs(q, Resumer)'
    BY <2>1, <2>6 DEF Refs
  <2>8. \A v \in {Suspender, Resumer} : target'[v] # NoProc => state'[target'[v]] \notin Gone
    BY <1>0, <1>1, <2>2, <2>3 DEF IndInv, Instances, Live, Gone
  <2> QED BY <2>7, <2>8 DEF Instances
<1> QED BY <1>0, <1>3, <1>4, <1>5, IdlesPlaced DEF IndInv

\* The suspender takes what it finds in BLOCK, the resumer in SUSP. READY.
LEMMA get_process_blocked_Inv ==
  ASSUME IndInv, get_process_blocked
  PROVE  IndInv'
<1>1. \A p \in Proc : block[p] > 0 => state[p] \in Live
  BY DEF IndInv, Placed, Listed, Live
<1> QED BY <1>1, ThreadFacts, get_process_Inv DEF get_process_blocked

\* The same for the resumer.
LEMMA get_process_susp_ready_Inv ==
  ASSUME IndInv, get_process_susp_ready
  PROVE  IndInv'
<1>1. \A p \in Proc : susp_ready[p] > 0 => state[p] \in Live
  BY DEF IndInv, Placed, Listed, Live
<1> QED BY <1>1, ThreadFacts, get_process_Inv DEF get_process_susp_ready

\* Suspending, or giving the attempt up.
LEMMA run_suspend_process_Inv ==
  ASSUME IndInv, run_suspend_process
  PROVE  IndInv'
<1>0. Suspender \in Thread
  BY ThreadFacts
<1>1. PICK p \in Proc : p = target[Suspender]
  BY <1>0, TargetFacts DEF run_suspend_process
<1>2. CASE state[target[Suspender]] = "BLOCK" /\ Goto(Suspender, "unlock_enter")
           /\ state' = [state EXCEPT ![target[Suspender]] = "SUSP_BLOCK"]
           /\ block' = Minus(block, target[Suspender])
           /\ lock_owner' = [lock_owner EXCEPT ![target[Suspender]] = Suspender]
  <2>1. Removes(Suspender, p, "SUSP_BLOCK") /\ pc[Suspender] = "suspend"
    BY <1>1, <1>2 DEF run_suspend_process, Removes, Goto
  <2> QED BY <1>0, <2>1, RemovesInv
<1>3. CASE Goto(Suspender, "release") /\ UNCHANGED <<state, block, lock_owner>>
  <2>0. target' = [target EXCEPT ![Suspender] = p]
    BY <1>0, <1>1 DEF run_suspend_process, IndInv, TypeOK
  <2>1. io_list' \in [IO -> SUBSET Proc] /\ io_closed' \in [IO -> BOOLEAN]
    BY DEF run_suspend_process, ioVars, IndInv, TypeOK
  <2>2. Idles(Suspender, "release", p)
    BY <1>1, <1>3, <2>0, <2>1, ThreadFacts
       DEF run_suspend_process, Idles, Moving, Goto, listVars, ioVars
  <2> QED BY <1>0, <1>1, <2>2, ThreadFacts, IdlesInv DEF run_suspend_process
<1> QED BY <1>2, <1>3 DEF run_suspend_process

\* Resuming, or giving the attempt up.
LEMMA resume_suspended_process_Inv ==
  ASSUME IndInv, resume_suspended_process
  PROVE  IndInv'
<1>0. Resumer \in Thread
  BY ThreadFacts
<1>1. PICK p \in Proc : p = target[Resumer]
  BY <1>0, TargetFacts DEF resume_suspended_process
<1>2. CASE ResumeTarget(Resumer)
  <2>1. Removes(Resumer, p, "READY") /\ pc[Resumer] = "resume"
    BY <1>1, <1>2 DEF resume_suspended_process, ResumeTarget, Removes, Goto
  <2> QED BY <1>0, <2>1, RemovesInv
<1>3. CASE Goto(Resumer, "release") /\ UNCHANGED <<state, susp_ready, lock_owner>>
  <2>0. target' = [target EXCEPT ![Resumer] = p]
    BY <1>0, <1>1 DEF resume_suspended_process, IndInv, TypeOK
  <2>1. io_list' \in [IO -> SUBSET Proc] /\ io_closed' \in [IO -> BOOLEAN]
    BY DEF resume_suspended_process, ioVars, IndInv, TypeOK
  <2>2. Idles(Resumer, "release", p)
    BY <1>1, <1>3, <2>0, <2>1, ThreadFacts
       DEF resume_suspended_process, Idles, Moving, Goto, listVars, ioVars
  <2> QED BY <1>0, <1>1, <2>2, ThreadFacts, IdlesInv DEF resume_suspended_process
<1> QED BY <1>2, <1>3 DEF resume_suspended_process

\* The insertion that ends a suspension or a resumption.
LEMMA suspension_end_Inv ==
  ASSUME IndInv, NEW t \in {Suspender, Resumer}, suspension_end(t)
  PROVE  IndInv'
<1>0. t \in Thread
  BY ThreadFacts
<1>1. PICK p \in Proc : p = target[t]
  BY <1>0, TargetFacts DEF suspension_end
<1>2. target' = [target EXCEPT ![t] = p]
  BY <1>0, <1>1 DEF suspension_end, IndInv, TypeOK
<1>3. Inserts(t, p, "release", p)
  BY <1>1, <1>2 DEF suspension_end, Inserts, Goto
<1> QED BY <1>0, <1>3, InsertsInv

\* Dropping a counted reference.
LEMMA decrement_active_instances_Inv ==
  ASSUME IndInv, NEW t \in {Suspender, Resumer}, decrement_active_instances(t)
  PROVE  IndInv'
<1>0. /\ t \in Thread /\ t \notin CPU /\ t \notin IO /\ t # Resumption
      /\ target \in [Thread -> Proc \cup {NoProc}]
      /\ active_instances \in [Proc -> Nat] /\ state' = state
  BY ThreadFacts DEF IndInv, TypeOK, decrement_active_instances
<1>1. PICK p \in Proc : p = target[t] /\ p # NoProc
  BY <1>0, TargetFacts DEF decrement_active_instances
<1>2. /\ active_instances' = [active_instances EXCEPT ![p] = @ - 1]
      /\ target' = [target EXCEPT ![t] = NoProc]
  BY <1>1 DEF decrement_active_instances
<1>3. Idles(t, "idle", NoProc)
  <2>1. io_list' \in [IO -> SUBSET Proc] /\ io_closed' \in [IO -> BOOLEAN]
    BY DEF decrement_active_instances, ioVars, IndInv, TypeOK
  <2> QED BY <1>0, <1>2, <2>1, ThreadFacts
          DEF decrement_active_instances, Idles, Moving, Goto, ioVars
<1>4. PICK u \in {Suspender, Resumer} : u # t /\ u \in Thread
  BY ThreadFacts
<1>5. \A q \in Proc : active_instances[q] = Refs(q, t) + Refs(q, u)
  BY <1>4 DEF IndInv, Instances, Refs
<1>6. active_instances' \in [Proc -> Nat]
  <2>1. active_instances[p] \in Nat /\ active_instances[p] >= 1
    BY <1>0, <1>1, <1>5 DEF Refs
  <2> QED BY <1>0, <1>2, <2>1
<1>7. Instances'
  <2>2. {Suspender, Resumer} = {t, u}
    BY <1>4
  <2>3. target'[t] = NoProc /\ target'[u] = target[u] /\ NoProc \notin Proc
    BY <1>0, <1>2, <1>4, ThreadFacts
  <2>5. \A q \in Proc : /\ active_instances'[q] = IF q = p THEN active_instances[q] - 1
                                                  ELSE active_instances[q]
    BY <1>0, <1>2
  <2>6. \A q \in Proc : active_instances'[q] = Refs(q, t)' + Refs(q, u)'
    BY <1>1, <1>5, <2>3, <2>5 DEF Refs
  <2>7. \A q \in Proc : active_instances'[q] = Refs(q, Suspender)' + Refs(q, Resumer)'
    BY <1>4, <2>6 DEF Refs
  <2>8. \A v \in {Suspender, Resumer} : target'[v] # NoProc => state'[target'[v]] \notin Gone
    BY <1>0, <2>2, <2>3 DEF IndInv, Instances
  <2> QED BY <2>7, <2>8 DEF Instances
<1> QED BY <1>0, <1>3, <1>6, <1>7, IdlesPlaced DEF IndInv

\* A step of the sweep that moves no process.
LEMMA SweepInv ==
  ASSUME IndInv, NEW label, NEW other \in Proc \cup {NoProc},
         pc[Resumption] \in {"idle", "sweep", "sweep_head"},
         pc' = [pc EXCEPT ![Resumption] = label],
         target' = [target EXCEPT ![Resumption] = other],
         \/ other = NoProc /\ label \in {"idle", "sweep", "sweep_head", "crashed"}
         \/ other # NoProc /\ label = "resume",
         UNCHANGED <<RunUnchanged, cpuVars>>
  PROVE  IndInv'
<1>1. /\ Resumption \in Thread /\ active_instances' = active_instances
      /\ UNCHANGED <<readyVars, state, priority, lock_owner, listVars, io_list,
                     io_closed, io, mutex_list, holders, cpuVars>>
  BY ThreadFacts DEF RunUnchanged, pcbVars, ioVars
<1>2. io_list' \in [IO -> SUBSET Proc] /\ io_closed' \in [IO -> BOOLEAN]
  BY <1>1 DEF IndInv, TypeOK
<1>3. Idles(Resumption, label, other)
  BY <1>1, <1>2, ThreadFacts DEF Idles, Moving
<1> QED BY <1>1, <1>3, ThreadFacts, IdlesInv

\* The thread of the sweep has no process until it has read the head.
LEMMA SweepTarget ==
  ASSUME IndInv, pc[Resumption] \in {"idle", "sweep", "sweep_head"}
  PROVE  target[Resumption] = NoProc /\ target = [target EXCEPT ![Resumption] = NoProc]
<1>1. target[Resumption] = NoProc
  BY ThreadFacts DEF IndInv, Placed, ThreadOK, WorkerControl
<1> QED BY <1>1, ThreadFacts DEF IndInv, TypeOK

\* The sweep starts ...
LEMMA create_resumption_routine_thread_Inv ==
  ASSUME IndInv, create_resumption_routine_thread
  PROVE  IndInv'
<1>1. /\ pc[Resumption] = "idle" /\ pc' = [pc EXCEPT ![Resumption] = "sweep"]
      /\ target' = target /\ UNCHANGED <<RunUnchanged, cpuVars>>
  BY DEF create_resumption_routine_thread, Goto
<1> QED BY <1>1, SweepTarget, SweepInv

\* ... finds SUSP. READY empty or not ...
LEMMA resumption_routine_Inv ==
  ASSUME IndInv, resumption_routine
  PROVE  IndInv'
<1>1. /\ pc[Resumption] = "sweep" /\ target' = target
      /\ UNCHANGED <<RunUnchanged, cpuVars>>
      /\ \/ pc' = [pc EXCEPT ![Resumption] = "sweep_head"]
         \/ pc' = [pc EXCEPT ![Resumption] = "idle"]
  BY DEF resumption_routine, Goto
<1> QED BY <1>1, SweepTarget, SweepInv

\* ... and reads its head.
LEMMA sweep_head_Inv ==
  ASSUME IndInv, sweep_head
  PROVE  IndInv'
<1>1. pc[Resumption] = "sweep_head" /\ UNCHANGED <<RunUnchanged, cpuVars>>
  BY DEF sweep_head
<1>2. CASE \E p \in Proc : /\ target' = [target EXCEPT ![Resumption] = p]
                           /\ pc' = [pc EXCEPT ![Resumption] = "resume"]
  <2>1. PICK p \in Proc : /\ target' = [target EXCEPT ![Resumption] = p]
                          /\ pc' = [pc EXCEPT ![Resumption] = "resume"]
    BY <1>2
  <2>2. p # NoProc
    BY ThreadFacts
  <2> QED BY <1>1, <2>1, <2>2, SweepInv
<1>3. CASE target' = target /\ pc' = [pc EXCEPT ![Resumption] = "crashed"]
  BY <1>1, <1>3, SweepTarget, SweepInv
<1> QED BY <1>2, <1>3 DEF sweep_head, Goto

\* The sweep resumes the process it has read, or finds that it cannot.
LEMMA remove_of_the_list_Inv ==
  ASSUME IndInv, remove_of_the_list
  PROVE  IndInv'
<1>0. /\ Resumption \in Thread /\ target \in [Thread -> Proc \cup {NoProc}]
      /\ pc[Resumption] = "resume" /\ active_instances' = active_instances
      /\ UNCHANGED <<readyVars, priority, exec, lowest_priority, block, susp_block,
                     ioVars, cpuVars>>
  BY ThreadFacts DEF remove_of_the_list, IndInv, TypeOK
<1>1. PICK p \in Proc : p = target[Resumption] /\ p # NoProc
  BY <1>0, TargetFacts
<1>2. CASE ResumeTarget(Resumption) /\ UNCHANGED target
  <2>1. Removes(Resumption, p, "READY")
    BY <1>0, <1>1, <1>2 DEF remove_of_the_list, ResumeTarget, Removes, Goto
  <2> QED BY <1>0, <2>1, RemovesInv
<1>3. CASE ~(ResumeTarget(Resumption) /\ UNCHANGED target)
  <2>1. UNCHANGED <<state, susp_ready, lock_owner>>
    BY <1>3 DEF remove_of_the_list
  <2>2. PICK other, label :
          /\ target' = [target EXCEPT ![Resumption] = other]
          /\ pc' = [pc EXCEPT ![Resumption] = label]
          /\ \/ other = p /\ label = "crashed"
             \/ other = NoProc /\ label \in {"idle", "sweep"}
    <3>1. CASE state[p] = "DESTROYED"
      <4>1. target' = target /\ pc' = [pc EXCEPT ![Resumption] = "crashed"]
        BY <1>1, <1>3, <3>1 DEF remove_of_the_list, Goto
      <4> QED BY <1>0, <1>1, <4>1
    <3>2. CASE state[p] = "SUSP_READY"
      BY <1>1, <1>3, <3>2 DEF remove_of_the_list, Goto
    <3>3. CASE state[p] \notin {"DESTROYED", "SUSP_READY"}
      BY <1>1, <1>3, <3>3 DEF remove_of_the_list, Goto
    <3> QED BY <3>1, <3>2, <3>3
  <2>3. io_list' \in [IO -> SUBSET Proc] /\ io_closed' \in [IO -> BOOLEAN]
    BY <1>0 DEF ioVars, IndInv, TypeOK
  <2>4. Idles(Resumption, label, other)
    BY <1>0, <1>1, <2>1, <2>2, <2>3, ThreadFacts DEF Idles, Moving, ioVars, listVars
  <2> QED BY <1>0, <2>4, ThreadFacts, IdlesInv
<1> QED BY <1>2, <1>3

\* The insertion that ends the sweep's resumption.
LEMMA remove_of_the_list_end_Inv ==
  ASSUME IndInv, remove_of_the_list_end
  PROVE  IndInv'
<1>0. Resumption \in Thread
  BY ThreadFacts
<1>1. PICK p \in Proc : p = target[Resumption]
  BY <1>0, TargetFacts DEF remove_of_the_list_end
<1>2. Inserts(Resumption, p, "sweep", NoProc)
  BY <1>1 DEF remove_of_the_list_end, Inserts, Goto
<1> QED BY <1>0, <1>2, InsertsInv

\* Nothing but preempt_all changes; the step counts as one of the sweep.
LEMMA compaction_gate_Inv ==
  ASSUME IndInv, compaction_gate
  PROVE  IndInv'
<1>1. /\ queues' = queues /\ ready_process_count' = ready_process_count
      /\ highest_priority' = highest_priority /\ preempt_all' \in BOOLEAN
      /\ UNCHANGED <<pcbVars, listVars, ioVars, cpuVars, pc, target>>
  BY DEF compaction_gate, lock_queue_ready, unlock_queue_ready
<1>2. TypeOK'
  BY <1>1 DEF IndInv, TypeOK, pcbVars, listVars, ioVars, cpuVars
<1>3. Placed'
  <2>1. Frame(Resumption, {})
    BY <1>1
       DEF Frame, SameThread, ioVars, SameProcess, Queued, pcbVars, listVars,
           cpuVars
  <2>2. \A q \in Proc : /\ Owns(Resumption, q)' <=> Owns(Resumption, q)
                        /\ Holds(Resumption, q)' <=> Holds(Resumption, q)
    BY <1>1 DEF Owns, Moving, Holds, HeldByCpu, Carries, cpuVars
  <2>3. ThreadOK(Resumption)'
    BY <1>1, ThreadFacts
       DEF IndInv, Placed, ThreadOK, WorkerControl, MovedProcess, Moving, pcbVars
  <2> QED BY <2>1, <2>2, <2>3, ThreadFacts, FramePlaced DEF IndInv
<1>4. ReadyCount' /\ HighestIsExact' /\ Instances' /\ Levelled'
  BY <1>1 DEF IndInv, ReadyCount, HighestIsExact, Queued, Instances, Refs, Levelled,
              pcbVars, cpuVars
<1> QED BY <1>2, <1>3, <1>4 DEF IndInv

-----------------------------------------------------------------------------
(* The invariant, and what follows from it.                                *)

\* The invariant holds when server_listen has created the first process.
LEMMA InitInv == Init => IndInv
<1> SUFFICES ASSUME Init PROVE IndInv
  OBVIOUS
<1>1. PICK first \in Proc :
        /\ queues = [l \in Level |-> IF l = 0 THEN <<first>> ELSE <<>>]
        /\ state = [p \in Proc |-> IF p = first THEN "READY" ELSE "UNBORN"]
  BY DEF Init
<1>2. /\ ready_process_count = 1 /\ highest_priority = 0 /\ preempt_all = FALSE
      /\ priority = [p \in Proc |-> 0] /\ lock_owner = [p \in Proc |-> NoThread]
      /\ active_instances = [p \in Proc |-> 0] /\ exec = [p \in Proc |-> 0]
      /\ lowest_priority = 0 /\ block = [p \in Proc |-> 0]
      /\ susp_block = [p \in Proc |-> 0] /\ susp_ready = [p \in Proc |-> 0]
      /\ io_list = [d \in IO |-> {}] /\ io_closed = [d \in IO |-> FALSE]
      /\ io = [c \in CPU |-> NoThread] /\ mutex_list = {} /\ holders = {}
      /\ pc = [t \in Thread |-> IF t \in CPU THEN "closed" ELSE "idle"]
      /\ pcb = [c \in CPU |-> NoProc] /\ target = [t \in Thread |-> NoProc]
      /\ reason = [c \in CPU |-> "OTHER"] /\ keep_running = [c \in CPU |-> TRUE]
      /\ preempted_priority = [c \in CPU |-> 0]
  BY DEF Init
<1>3. queues \in [Level -> Seq(Proc)]
  <2>1. <<first>> \in Seq(Proc) /\ <<>> \in Seq(Proc)
    OBVIOUS
  <2> QED BY <1>1, <2>1
<1>4. TypeOK
  <2>1. io_closed \in [IO -> BOOLEAN] /\ keep_running \in [CPU -> BOOLEAN]
    BY <1>2, Zenon
  <2>2. priority \in [Proc -> Priority]
    BY <1>2, PriorityAssumption
  <2>3. state \in [Proc -> State] /\ pc \in [Thread -> PC] /\ reason \in [CPU -> Reason]
    BY <1>1, <1>2 DEF State, PC, Reason
  <2> QED BY <1>2, <1>3, <2>1, <2>2, <2>3 DEF TypeOK
<1>5. \A p : Queued(p) <=> p = first
  <2>1. \A l \in Level : DOMAIN queues[l] = IF l = 0 THEN {1} ELSE {}
    BY <1>1
  <2>2. 0 \in Level /\ queues[0][1] = first
    BY <1>1, LevelFacts
  <2> QED BY <2>1, <2>2 DEF Queued, InQueues
<1>6. Placed
  <2>1. \A t \in Thread : ThreadOK(t) /\ \A p \in Proc : ~Owns(t, p)
    <3> TAKE t \in Thread
    <3>1. target[t] = NoProc /\ (t \in CPU => pcb[t] = NoProc)
          /\ pc[t] = IF t \in CPU THEN "closed" ELSE "idle"
      BY <1>2
    <3>2. t \in CPU => reason[t] = "OTHER"
      BY <1>2
    <3>3. MovedProcess(t) /\ \A p \in Proc : ~Owns(t, p)
      BY <3>1, ThreadFacts DEF MovedProcess, Moving, Owns
    <3>4. t \in CPU => CpuControl(t) /\ OwnProcess(t) /\ NextProcess(t)
      BY <3>1, <3>2 DEF CpuControl, Inheriting, OwnProcess, NextProcess, OnCpu
    <3>5. t \in IO => IoControl(t)
      BY <3>1, ThreadFacts DEF IoControl
    <3>6. t \in {Suspender, Resumer, Resumption} => WorkerControl(t)
      BY <3>1, ThreadFacts DEF WorkerControl
    <3> QED BY <3>3, <3>4, <3>5, <3>6 DEF ThreadOK
  <2>2. \A p \in Proc : Listed(p) /\ NotLost(p)
    BY <1>1, <1>2, <1>5 DEF Listed, NotLost, Free, Live
  <2> QED BY <2>1, <2>2 DEF Placed, Exclusive
<1>7. Instances
  BY <1>2, ThreadFacts DEF Instances, Refs
<1>8. ReadyCount
  <2>1. NoRepeats(queues)
    <3>1. \A l \in Level : DOMAIN queues[l] = IF l = 0 THEN {1} ELSE {}
      BY <1>1
    <3> QED BY <3>1 DEF NoRepeats
  <2>2. {p \in Proc : Queued(p)} = {first}
    BY <1>5
  <2> QED BY <1>2, <2>1, <2>2, FS_Singleton DEF ReadyCount
<1>9. Levelled
  <2>1. \A l \in Level : DOMAIN queues[l] = IF l = 0 THEN {1} ELSE {}
    BY <1>1
  <2>2. \A l \in Level : \A i \in DOMAIN queues[l] : l = 0 /\ queues[l][i] \in Proc
    BY <1>1, <2>1
  <2> QED BY <1>2, <2>2, LevelFacts DEF Levelled
<1>10. HighestIsExact
  <2>1. queues[0] # <<>> /\ 0 \in Level /\ \A k \in Level : ~(k < 0)
    BY <1>1, LevelFacts
  <2> QED BY <1>2, <2>1 DEF HighestIsExact, IsFirstLevel
<1> QED BY <1>4, <1>6, <1>7, <1>8, <1>9, <1>10 DEF IndInv

\* Every step of a CPU thread preserves it ...
LEMMA CpuInv ==
  ASSUME IndInv, LevelsKept, NEW c \in CPU,
         handle_new_cpu(c) \/ CpuStep(c) \/ Syscall(c)
  PROVE  IndInv'
<1>0. c \in Thread /\ c \in CPU \cup IO
  BY ThreadFacts
<1>1. CASE handle_new_cpu(c)
  BY <1>1, handle_new_cpu_Inv
<1>2. CASE CpuStep(c)
  BY <1>0, <1>2, manage_request_process_Inv, transition_ready_exec_Inv,
     transition_to_exec_Inv, leave_exec_Inv, update_lowest_exec_priority_Inv,
     enter_list_Inv, transition_to_exit_Inv, transition_new_ready_Inv,
     enqueue_io_request_Inv, replace_priority_Inv, update_priority_Inv,
     update_priority_end_Inv, mutex_lock_lowest_Inv, manage_queue_blocked_Inv,
     manage_end_quantum_Inv, is_lowest_priority_in_exec_Inv, manage_preemption_priority_Inv,
     send_preemption_Inv, transition_unlock_Inv, transition_unlock_refused_Inv,
     transition_unlock_end_Inv
     DEF CpuStep
<1>3. CASE Syscall(c)
  BY <1>3, handle_cycle_cpu_ok_Inv, handle_syscall_memory_free_Inv,
     handle_invalid_syscall_Inv, handle_syscall_exit_Inv, handle_syscall_io_Inv,
     handle_syscall_start_process_Inv, mutex_lock_Inv,
     handle_syscall_mutex_lock_Inv, handle_syscall_mutex_unlock_Inv
     DEF Syscall
<1> QED BY <1>1, <1>2, <1>3

\* ... and so does every step of every other thread.
LEMMA WorkerInv ==
  ASSUME IndInv,
         \/ \E d \in IO : IoStep(d)
         \/ SuspenderStep \/ ResumerStep \/ ResumptionStep
         \/ create_resumption_routine_thread \/ compaction_gate
  PROVE  IndInv'
<1>1. ASSUME NEW d \in IO, IoStep(d) PROVE IndInv'
  <2>0. d \in Thread /\ d \in CPU \cup IO
    BY ThreadFacts
  <2> QED BY <1>1, <2>0, io_thread_Inv, finalize_io_Inv, io_failure_Inv,
          close_thread_io_Inv, transition_unlock_Inv,
          transition_unlock_refused_Inv, transition_unlock_end_Inv, log_finished_Inv
          DEF IoStep
<1>2. CASE SuspenderStep \/ ResumerStep
  <2>0. Suspender \in {Suspender, Resumer} /\ Resumer \in {Suspender, Resumer}
    OBVIOUS
  <2> QED BY <1>2, <2>0, get_process_blocked_Inv, get_process_susp_ready_Inv,
          run_suspend_process_Inv, resume_suspended_process_Inv,
          suspension_end_Inv, decrement_active_instances_Inv
          DEF SuspenderStep, ResumerStep
<1>3. CASE ResumptionStep
  BY <1>3, resumption_routine_Inv, sweep_head_Inv, remove_of_the_list_Inv,
     remove_of_the_list_end_Inv DEF ResumptionStep
<1>4. CASE create_resumption_routine_thread \/ compaction_gate
  BY <1>4, create_resumption_routine_thread_Inv, compaction_gate_Inv
<1> QED BY <1>1, <1>2, <1>3, <1>4

\* A step that changes no variable changes nothing of the invariant.
LEMMA StutterInv ==
  ASSUME IndInv, UNCHANGED vars
  PROVE  IndInv'
<1>1. UNCHANGED <<queues, ready_process_count, highest_priority, preempt_all,
        state, priority, lock_owner, active_instances, exec, lowest_priority,
        block, susp_block, susp_ready, io_list, io_closed, io, mutex_list, holders,
        pc, pcb, target, reason, keep_running, preempted_priority>>
  BY DEF vars, readyVars, pcbVars, listVars, ioVars, cpuVars
<1>2. TypeOK'
  BY <1>1, Zenon DEF IndInv, TypeOK
<1>3. \A t \in Thread : ThreadOK(t)'
  BY <1>1
     DEF IndInv, Placed, ThreadOK, CpuControl, Inheriting, IoControl, WorkerControl,

              OwnProcess, NextProcess, MovedProcess, Moving, Free, Queued
<1>4. \A t \in Thread : \A p \in Proc : /\ Owns(t, p)' <=> Owns(t, p)
                                        /\ Holds(t, p)' <=> Holds(t, p)
  BY <1>1 DEF Owns, Moving, Holds, HeldByCpu, Carries
<1>5. \A p \in Proc : Listed(p)' /\ NotLost(p)'
  BY <1>1, <1>4 DEF IndInv, Placed, Listed, NotLost, Free, Queued
<1>6. Placed'
  BY <1>3, <1>4, <1>5 DEF IndInv, Placed, Exclusive
<1>7. Instances' /\ ReadyCount' /\ Levelled' /\ HighestIsExact'
  BY <1>1 DEF IndInv, Instances, Refs, ReadyCount, Levelled, HighestIsExact, Queued
<1> QED BY <1>2, <1>6, <1>7 DEF IndInv

\* No thread ever loses track of the process it is moving, and the counters
\* and caches of the scheduler are exact, whatever the number of processes,
\* CPUs, IO interfaces and levels, as long as priority inheritance keeps the
\* levels of READY in order.
THEOREM Inductive == Spec /\ [][LevelsKept]_vars => []IndInv
<1>1. Init => IndInv
  BY InitInv
<1>2. IndInv /\ [Next]_vars /\ [LevelsKept]_vars => IndInv'
  <2> SUFFICES ASSUME IndInv, [Next]_vars, [LevelsKept]_vars
               PROVE  IndInv'
    OBVIOUS
  <2>1. CASE UNCHANGED vars
    BY <2>1, StutterInv
  <2>2. CASE Next /\ LevelsKept
    BY <2>2, CpuInv, WorkerInv DEF Next
  <2> QED BY <2>1, <2>2
<1> QED BY <1>1, <1>2, PTL DEF Spec

\* A process in somebody's hands is in no list.
LEMMA InHandUnlisted ==
  ASSUME IndInv, NEW p \in Proc, InHand(p)
  PROVE  /\ ~Queued(p) /\ exec[p] = 0 /\ block[p] = 0
         /\ susp_block[p] = 0 /\ susp_ready[p] = 0
<1>0. /\ exec[p] \in Nat /\ block[p] \in Nat /\ susp_block[p] \in Nat
      /\ susp_ready[p] \in Nat /\ p # NoProc /\ Listed(p)
  BY ThreadFacts DEF IndInv, TypeOK, Placed
<1>1. \/ ~Free(p)
      \/ state[p] = "READY" /\ ~Queued(p)
      \/ state[p] = "EXEC" /\ exec[p] = 0
      \/ state[p] \in {"NEW", "EXIT"}
  <2>1. CASE \E c \in CPU : HeldByCpu(c, p)
    <3>1. PICK c \in CPU : HeldByCpu(c, p)
      BY <2>1
    <3>2. OwnProcess(c) /\ pcb[c] = p /\ c # NoThread
          /\ pc[c] \in {"ready_exec", "to_exec", "update_lowest", "enter", "to_exit"}
      BY <3>1, CpuFacts, ThreadFacts DEF HeldByCpu
    <3> QED BY <1>0, <3>2 DEF OwnProcess, Free
  <2>2. CASE \E t \in Thread : Carries(t) /\ target[t] = p
    <3>1. PICK t \in Thread : Carries(t) /\ target[t] = p
      BY <2>2
    <3>2. CASE pc[t] \in Moving
      BY <3>1, <3>2, ThreadFacts
         DEF IndInv, Placed, ThreadOK, MovedProcess, Moving, Free
    <3>3. CASE pc[t] \notin Moving
      <4>1. t \in CPU /\ NextProcess(t)
            /\ pc[t] \in {"exec_ready", "update_lowest", "enter", "new_ready"}
        BY <3>1, <3>3, CpuFacts DEF Carries, Moving
      <4> QED BY <1>0, <3>1, <4>1 DEF NextProcess, Replacing
    <3> QED BY <3>2, <3>3
  <2> QED BY <2>1, <2>2 DEF InHand
<1> QED BY <1>0, <1>1 DEF Listed

\* A process found in a list of the scheduler is there once, in the state
\* the list stands for, and in nobody's hands: the transitions of queues.c,
\* run by any number of threads, keep the lists and the states in step.
THEOREM ListsMatch == Spec /\ [][LevelsKept]_vars => []ListsMatchState
<1>1. IndInv => ListsMatchState
  <2> SUFFICES ASSUME IndInv, NEW p \in Proc
               PROVE  /\ Queued(p) => state[p] = "READY" /\ ~InHand(p)
                      /\ exec[p] > 0 => exec[p] = 1 /\ state[p] = "EXEC" /\ ~InHand(p)
                      /\ block[p] > 0 => block[p] = 1 /\ state[p] = "BLOCK" /\ ~InHand(p)
                      /\ susp_block[p] > 0 =>
                           susp_block[p] = 1 /\ state[p] = "SUSP_BLOCK" /\ ~InHand(p)
                      /\ susp_ready[p] > 0 =>
                           susp_ready[p] = 1 /\ state[p] = "SUSP_READY" /\ ~InHand(p)
    BY DEF ListsMatchState
  <2>1. Listed(p)
    BY DEF IndInv, Placed
  <2>2. InHand(p) => /\ ~Queued(p) /\ ~(exec[p] > 0) /\ ~(block[p] > 0)
                     /\ ~(susp_block[p] > 0) /\ ~(susp_ready[p] > 0)
    BY InHandUnlisted
  <2> QED BY <2>1, <2>2 DEF Listed
<1> QED BY <1>1, Inductive, PTL

\* An admitted process that has not ended is in the list of its state or in
\* the hands of a thread that will insert it.
THEOREM NotLostEver == Spec /\ [][LevelsKept]_vars => []NoProcessLost
<1>1. IndInv => NoProcessLost
  <2> SUFFICES ASSUME IndInv, NEW p \in Proc, state[p] \in Live, ~InHand(p)
               PROVE  \/ state[p] = "READY" /\ Queued(p)
                      \/ state[p] = "EXEC" /\ exec[p] > 0
                      \/ state[p] = "BLOCK" /\ block[p] > 0
                      \/ state[p] = "SUSP_BLOCK" /\ susp_block[p] > 0
                      \/ state[p] = "SUSP_READY" /\ susp_ready[p] > 0
    BY DEF NoProcessLost
  <2>1. NotLost(p)
    BY DEF IndInv, Placed
  <2>2. ~\E t \in Thread : Holds(t, p)
    BY DEF InHand, Holds
  <2> QED BY <2>1, <2>2 DEF NotLost
<1> QED BY <1>1, Inductive, PTL

\* Two CPU threads never work with the same process.
THEOREM OneCpuEach == Spec /\ [][LevelsKept]_vars => []OneCpu
<1>1. IndInv => OneCpu
  <2> SUFFICES ASSUME IndInv, NEW c \in CPU, NEW d \in CPU,
                      pcb[c] # NoProc, pcb[c] = pcb[d]
               PROVE  c = d
    BY DEF OneCpu
  <2>1. c \in Thread /\ d \in Thread /\ pcb[c] \in Proc
    BY CpuFacts, ThreadFacts
  <2> QED BY <2>1 DEF IndInv, Placed, Exclusive, Owns, Moving
<1> QED BY <1>1, Inductive, PTL

\* READY holds no process twice and ready_process_count, on which the CPU
\* threads wait, counts its entries.
THEOREM CountIsExact == Spec /\ [][LevelsKept]_vars => []ReadyCount
<1>1. IndInv => ReadyCount
  BY DEF IndInv
<1> QED BY <1>1, Inductive, PTL

\* The cached best priority is exact in every state with a process in READY,
\* although it is recomputed only when a level runs empty.
THEOREM CacheIsExact == Spec /\ [][LevelsKept]_vars => []HighestIsExact
<1>1. IndInv => HighestIsExact
  BY DEF IndInv
<1> QED BY <1>1, Inductive, PTL

\* Every variable keeps its type.
THEOREM TypeCorrect == Spec /\ [][LevelsKept]_vars => []TypeOK
<1>1. IndInv => TypeOK
  BY DEF IndInv
<1> QED BY <1>1, Inductive, PTL

-----------------------------------------------------------------------------
(* Preemption by priority.                                                 *)

\* A step that is not its own leaves a CPU thread where it is.
Own(c) == handle_new_cpu(c) \/ CpuStep(c) \/ Syscall(c)
Rests(c) ==
  /\ pc'[c] = pc[c] /\ pcb'[c] = pcb[c]
  /\ preempted_priority'[c] = preempted_priority[c]

LEMMA OthersRest ==
  ASSUME TypeOK, Next, NEW c \in CPU, ~Own(c)
  PROVE  Rests(c)
<1>0. /\ pc \in [Thread -> PC] /\ pcb \in [CPU -> Proc \cup {NoProc}]
      /\ preempted_priority \in [CPU -> Nat] /\ c \in Thread /\ c # Resumption
  BY ThreadFacts DEF TypeOK
<1>1. ASSUME NEW d \in CPU, Own(d) PROVE Rests(c)
  <2>0. d # c
    BY <1>1
  <2>1. CASE handle_new_cpu(d)
    BY <1>0, <2>0, <2>1 DEF handle_new_cpu, Goto, Rests, cpuVars
  <2>2. CASE Syscall(d)
    BY <1>0, <2>0, <2>2
       DEF Syscall, handle_cycle_cpu_ok, handle_syscall_memory_free,
           handle_invalid_syscall, handle_syscall_exit, handle_syscall_io,
           handle_syscall_start_process, mutex_lock, handle_syscall_mutex_lock,
           handle_syscall_mutex_unlock, Goto, Rests, cpuVars
  <2>3. CASE CpuStep(d)
    <3>1. CASE manage_request_process(d) \/ transition_to_exec(d) \/ send_preemption(d)
      BY <1>0, <2>0, <3>1 DEF manage_request_process, transition_to_exec,
                              send_preemption, close_thread_cpu, Goto, Rests
    <3>2. CASE leave_exec(d) \/ enter_list(d)
      BY <1>0, <2>0, <3>2 DEF leave_exec, enter_list, EndExecReady, EndHandler,
                              close_thread_cpu, Goto, Rests, cpuVars
    <3>3. CASE \/ transition_unlock(d) \/ transition_unlock_refused(d)
               \/ transition_unlock_end(d)
      BY <1>0, <2>0, <3>3 DEF transition_unlock, transition_unlock_refused,
                              transition_unlock_end, AfterUnlock, Goto, Rests, cpuVars
    <3>4. CASE \/ transition_ready_exec(d) \/ update_lowest_exec_priority(d)
               \/ transition_to_exit(d) \/ transition_new_ready(d)
               \/ enqueue_io_request(d) \/ mutex_lock_lowest(d)
      BY <1>0, <2>0, <3>4 DEF transition_ready_exec, update_lowest_exec_priority,
           transition_to_exit, transition_new_ready, enqueue_io_request,
           mutex_lock_lowest, Goto, Rests, cpuVars
    <3>5. CASE \/ manage_queue_blocked(d) \/ manage_end_quantum(d)
               \/ is_lowest_priority_in_exec(d) \/ manage_preemption_priority(d)
      BY <1>0, <2>0, <3>5 DEF manage_queue_blocked, manage_end_quantum,
           is_lowest_priority_in_exec, manage_preemption_priority, Goto, Rests, cpuVars
    <3>6. CASE \/ \E n \in Priority : replace_priority(d, n)
               \/ update_priority(d) \/ update_priority_end(d)
      BY <1>0, <2>0, <3>6 DEF replace_priority, update_priority, update_priority_end,
           propagate_priority_transitive, Goto, Rests, cpuVars
    <3> QED BY <2>3, <3>1, <3>2, <3>3, <3>4, <3>5, <3>6 DEF CpuStep
  <2> QED BY <1>1, <2>1, <2>2, <2>3 DEF Own
<1>2. ASSUME NEW d \in IO, IoStep(d) PROVE Rests(c)
  BY <1>0, <1>2, ThreadFacts
     DEF IoStep, io_thread, finalize_io, io_failure, close_thread_io, log_finished,
         transition_unlock, transition_unlock_refused, transition_unlock_end,
         AfterUnlock, Goto, Rests, cpuVars
<1>3. SuspenderStep \/ ResumerStep => Rests(c)
  BY <1>0, ThreadFacts
     DEF SuspenderStep, ResumerStep, get_process_blocked, get_process_susp_ready,
         get_process, run_suspend_process, resume_suspended_process, ResumeTarget,
         suspension_end, decrement_active_instances, Goto, Rests, cpuVars
<1>4. ResumptionStep => Rests(c)
  BY <1>0, ThreadFacts
     DEF ResumptionStep, resumption_routine, sweep_head, remove_of_the_list,
         ResumeTarget, remove_of_the_list_end, Goto, Rests, cpuVars
<1>5. create_resumption_routine_thread \/ compaction_gate => Rests(c)
  BY <1>0, ThreadFacts
     DEF create_resumption_routine_thread, compaction_gate, Goto, Rests, cpuVars
<1> QED BY <1>1, <1>2, <1>3, <1>4, <1>5 DEF Next, Own

\* Only is_lowest_priority_in_exec takes a thread to its preemption check,
\* and only manage_preemption_priority takes it on to transition_exec_ready.
LEMMA PreemptionSteps ==
  ASSUME TypeOK, NEW c \in CPU, Own(c)
  PROVE  /\ pc'[c] = "preempt" => is_lowest_priority_in_exec(c)
         /\ pc[c] = "preempt" => manage_preemption_priority(c)
<1>0. pc \in [Thread -> PC] /\ c \in Thread /\ c # Resumption
  BY ThreadFacts DEF TypeOK
<1>1. CASE handle_new_cpu(c)
  BY <1>0, <1>1 DEF handle_new_cpu, Goto
<1>2. CASE Syscall(c)
  BY <1>0, <1>2
     DEF Syscall, handle_cycle_cpu_ok, handle_syscall_memory_free,
         handle_invalid_syscall, handle_syscall_exit, handle_syscall_io,
         handle_syscall_start_process, mutex_lock, handle_syscall_mutex_lock,
         handle_syscall_mutex_unlock, Goto
<1>3. CASE CpuStep(c)
  <2>1. CASE manage_request_process(c) \/ transition_to_exec(c) \/ send_preemption(c)
    BY <1>0, <2>1 DEF manage_request_process, transition_to_exec,
                      send_preemption, close_thread_cpu, Goto
  <2>2. CASE leave_exec(c) \/ enter_list(c)
    BY <1>0, <2>2 DEF leave_exec, Destination, enter_list, EndExecReady, EndHandler,
                      close_thread_cpu, Goto
  <2>3. CASE \/ transition_unlock(c) \/ transition_unlock_refused(c)
             \/ transition_unlock_end(c)
    BY <1>0, <2>3 DEF transition_unlock, transition_unlock_refused,
                      transition_unlock_end, AfterUnlock, Goto
  <2>4. CASE \/ transition_ready_exec(c) \/ update_lowest_exec_priority(c)
             \/ transition_to_exit(c) \/ transition_new_ready(c)
             \/ enqueue_io_request(c) \/ mutex_lock_lowest(c)
    BY <1>0, <2>4 DEF transition_ready_exec, update_lowest_exec_priority,
         transition_to_exit, transition_new_ready, enqueue_io_request,
         mutex_lock_lowest, Goto
  <2>5. CASE \/ manage_queue_blocked(c) \/ manage_end_quantum(c)
             \/ manage_preemption_priority(c)
    BY <1>0, <2>5 DEF manage_queue_blocked, manage_end_quantum,
         manage_preemption_priority, Goto
  <2>6. CASE \/ \E n \in Priority : replace_priority(c, n)
             \/ update_priority(c) \/ update_priority_end(c)
    BY <1>0, <2>6 DEF replace_priority, update_priority, update_priority_end,
         propagate_priority_transitive, Goto
  <2>7. CASE is_lowest_priority_in_exec(c)
    BY <2>7 DEF is_lowest_priority_in_exec
  <2> QED BY <1>3, <2>1, <2>2, <2>3, <2>4, <2>5, <2>6, <2>7 DEF CpuStep
<1> QED BY <1>1, <1>2, <1>3 DEF Own

\* What the preemption check has read stays fresh if nobody changes it.
LEMMA FreshStep ==
  ASSUME TypeOK, Fresh, Next, PreemptionKept
  PROVE  Fresh'
<1> SUFFICES ASSUME NEW c \in CPU, pc'[c] = "preempt"
             PROVE  preempted_priority'[c] = priority'[pcb'[c]]
  BY DEF Fresh
<1>1. CASE Own(c)
  <2>1. is_lowest_priority_in_exec(c)
    BY <1>1, PreemptionSteps
  <2>2. preempted_priority \in [CPU -> Nat] /\ pc \in [Thread -> PC] /\ c \in Thread
    BY ThreadFacts DEF TypeOK
  <2> QED BY <2>1, <2>2 DEF is_lowest_priority_in_exec, Goto, RunUnchanged, pcbVars
<1>2. CASE ~Own(c)
  <2>1. Rests(c)
    BY <1>2, OthersRest
  <2> QED BY <2>1 DEF Rests, Fresh, PreemptionKept
<1> QED BY <1>1, <1>2

\* With multilevel queues a running process is replaced only by one of
\* strictly better priority, although manage_preemption_priority compares a
\* priority read before it locked READY with a cached one: unless priority
\* inheritance disturbs the levels, or changes what has been read.
THEOREM PreemptsForBetter ==
  Spec /\ [][LevelsKept]_vars /\ [][PreemptionKept]_vars => BetterPreempts
<1>1. ASSUME IndInv, Fresh, Next, Multilevel, NEW c \in CPU,
             pc[c] = "preempt", pc'[c] = "exec_ready"
      PROVE  priority[target'[c]] < priority[pcb[c]]
  <2>0. TypeOK
    BY <1>1 DEF IndInv
  <2>1. manage_preemption_priority(c)
    <3>1. Own(c)
      BY <1>1, <2>0, OthersRest DEF Rests
    <3> QED BY <1>1, <2>0, <3>1, PreemptionSteps
  <2>2. PICK p \in Proc : /\ preempted_priority[c] > highest_priority
                          /\ transition_take_ready_next(p)
                          /\ target' = [target EXCEPT ![c] = p]
    BY <1>1, <2>1, ThreadFacts DEF manage_preemption_priority, Goto, IndInv, TypeOK
  <2>3. target'[c] = p
    BY <1>1, <2>2, ThreadFacts DEF IndInv, TypeOK
  <2>4. /\ highest_priority \in Level /\ 1 \in DOMAIN queues[highest_priority]
        /\ p = queues[highest_priority][1]
    BY <1>1, <2>2, TakeNext DEF IndInv
  <2>5. priority[p] = highest_priority
    BY <1>1, <2>4 DEF IndInv, Levelled
  <2>6. preempted_priority[c] = priority[pcb[c]]
    BY <1>1 DEF Fresh
  <2>7. highest_priority \in Nat /\ preempted_priority[c] \in Nat
    BY <1>1 DEF IndInv, TypeOK
  <2> QED BY <2>2, <2>3, <2>5, <2>6, <2>7
<1>2. IndInv /\ Fresh /\ [Next]_vars =>
        [Multilevel =>
           \A c \in CPU : pc[c] = "preempt" /\ pc'[c] = "exec_ready" =>
             priority[target'[c]] < priority[pcb[c]]]_vars
  BY <1>1
<1>3. Spec /\ [][LevelsKept]_vars => []IndInv
  BY Inductive
<1>4. Init => Fresh
  BY ThreadFacts DEF Init, Fresh
<1>5. IndInv /\ Fresh /\ [Next]_vars /\ [PreemptionKept]_vars => Fresh'
  <2>1. IndInv /\ Fresh /\ Next /\ PreemptionKept => Fresh'
    BY FreshStep DEF IndInv
  <2>2. Fresh /\ UNCHANGED vars => Fresh'
    BY DEF Fresh, vars, pcbVars, cpuVars
  <2> QED BY <2>1, <2>2
<1> QED BY <1>2, <1>3, <1>4, <1>5, PTL DEF Spec, BetterPreempts

-----------------------------------------------------------------------------
(* Without MUTEX_* syscalls, and with a single READY queue, nothing has to *)
(* be asked of priority inheritance.                                       *)

\* No thread is in the middle of priority inheritance.
NoInheritance == \A c \in CPU : pc[c] \notin Inheriting

\* Without mutexes only a process that is being created gets a priority.
LEMMA PriorityKept ==
  ASSUME IndInv, NoInheritance, Next, ~UsesMutexes
  PROVE  \A p \in Proc : state[p] \in Live => priority'[p] = priority[p]
<1>0. priority \in [Proc -> Priority]
  BY DEF IndInv, TypeOK
<1>1. ASSUME NEW d \in CPU, Own(d)
      PROVE  \A p \in Proc : state[p] \in Live => priority'[p] = priority[p]
  <2>1. CASE handle_new_cpu(d)
    BY <2>1 DEF handle_new_cpu, RunUnchanged, pcbVars
  <2>2. CASE Syscall(d)
    <3>1. CASE \E p \in Proc, n \in Priority : handle_syscall_start_process(d, p, n)
      BY <1>0, <3>1 DEF handle_syscall_start_process, Live
    <3>2. CASE ~\E p \in Proc, n \in Priority : handle_syscall_start_process(d, p, n)
      BY <2>2, <3>2
         DEF Syscall, handle_cycle_cpu_ok, handle_syscall_memory_free,
             handle_invalid_syscall, handle_syscall_exit, handle_syscall_io,
             mutex_lock, handle_syscall_mutex_lock, handle_syscall_mutex_unlock,
             RunUnchanged, pcbVars
    <3> QED BY <3>1, <3>2
  <2>3. CASE CpuStep(d)
    <3>1. ~\E n \in Priority : replace_priority(d, n)
      BY DEF NoInheritance, Inheriting, replace_priority
    <3>2. ~update_priority(d) /\ ~update_priority_end(d)
      BY DEF NoInheritance, Inheriting, update_priority, update_priority_end
    <3>3. priority' = priority
      BY <2>3, <3>1, <3>2
         DEF CpuStep, manage_request_process, transition_ready_exec,
             transition_to_exec, leave_exec, update_lowest_exec_priority,
             enter_list, transition_to_exit, transition_new_ready,
             enqueue_io_request, mutex_lock_lowest, manage_queue_blocked,
             manage_end_quantum, is_lowest_priority_in_exec,
             manage_preemption_priority, send_preemption, transition_unlock,
             transition_unlock_refused, transition_unlock_end, RunUnchanged, pcbVars
    <3> QED BY <3>3
  <2> QED BY <1>1, <2>1, <2>2, <2>3 DEF Own
<1>2. ASSUME NEW d \in IO, IoStep(d) PROVE priority' = priority
  BY <1>2 DEF IoStep, io_thread, finalize_io, io_failure, close_thread_io,
              log_finished, transition_unlock, transition_unlock_refused,
              transition_unlock_end, RunUnchanged, pcbVars
<1>3. SuspenderStep \/ ResumerStep => priority' = priority
  BY DEF SuspenderStep, ResumerStep, get_process_blocked, get_process_susp_ready,
         get_process, run_suspend_process, resume_suspended_process,
         suspension_end, decrement_active_instances
<1>4. \/ ResumptionStep \/ create_resumption_routine_thread \/ compaction_gate
      => priority' = priority
  BY DEF ResumptionStep, resumption_routine, sweep_head, remove_of_the_list,
         remove_of_the_list_end, create_resumption_routine_thread,
         compaction_gate, RunUnchanged, pcbVars
<1> QED BY <1>1, <1>2, <1>3, <1>4 DEF Next, Own

\* Without mutexes no thread ever begins to inherit.
LEMMA NoInheritanceStep ==
  ASSUME TypeOK, NoInheritance, Next, ~UsesMutexes
  PROVE  NoInheritance'
<1> SUFFICES ASSUME NEW c \in CPU PROVE pc'[c] \notin Inheriting
  BY DEF NoInheritance
<1>0. pc \in [Thread -> PC] /\ c \in Thread /\ c # Resumption
      /\ pc[c] \notin Inheriting
  BY ThreadFacts DEF TypeOK, NoInheritance
<1>1. CASE ~Own(c)
  BY <1>0, <1>1, OthersRest DEF Rests
<1>2. CASE handle_new_cpu(c)
  BY <1>0, <1>2 DEF handle_new_cpu, Goto, Inheriting
<1>3. CASE Syscall(c)
  BY <1>0, <1>3
     DEF Syscall, handle_cycle_cpu_ok, handle_syscall_memory_free,
         handle_invalid_syscall, handle_syscall_exit, handle_syscall_io,
         handle_syscall_start_process, mutex_lock, handle_syscall_mutex_lock,
         handle_syscall_mutex_unlock, Goto, Inheriting
<1>4. CASE CpuStep(c)
  <2>1. CASE manage_request_process(c) \/ transition_to_exec(c) \/ send_preemption(c)
    BY <1>0, <2>1 DEF manage_request_process, transition_to_exec,
                      send_preemption, close_thread_cpu, Goto, Inheriting
  <2>2. CASE leave_exec(c) \/ enter_list(c)
    BY <1>0, <2>2 DEF leave_exec, enter_list, EndExecReady, EndHandler,
                      close_thread_cpu, Goto, Inheriting
  <2>3. CASE \/ transition_unlock(c) \/ transition_unlock_refused(c)
             \/ transition_unlock_end(c)
    BY <1>0, <2>3 DEF transition_unlock, transition_unlock_refused,
                      transition_unlock_end, AfterUnlock, Goto, Inheriting
  <2>4. CASE \/ transition_ready_exec(c) \/ update_lowest_exec_priority(c)
             \/ transition_to_exit(c) \/ transition_new_ready(c)
             \/ enqueue_io_request(c) \/ mutex_lock_lowest(c)
    BY <1>0, <2>4 DEF transition_ready_exec, update_lowest_exec_priority,
         transition_to_exit, transition_new_ready, enqueue_io_request,
         mutex_lock_lowest, Goto, Inheriting
  <2>5. CASE \/ manage_queue_blocked(c) \/ manage_end_quantum(c)
             \/ is_lowest_priority_in_exec(c) \/ manage_preemption_priority(c)
    BY <1>0, <2>5 DEF manage_queue_blocked, manage_end_quantum,
         is_lowest_priority_in_exec, manage_preemption_priority, Goto, Inheriting
  <2>6. ~\/ \E n \in Priority : replace_priority(c, n)
         \/ update_priority(c) \/ update_priority_end(c)
    BY <1>0 DEF replace_priority, update_priority, update_priority_end, Inheriting
  <2> QED BY <1>4, <2>1, <2>2, <2>3, <2>4, <2>5, <2>6 DEF CpuStep
<1> QED BY <1>1, <1>2, <1>3, <1>4 DEF Own

\* Without MUTEX_* syscalls no step changes the priority of a process in
\* READY or in EXEC ...
LEMMA KeptWithoutMutexes ==
  ASSUME IndInv, NoInheritance, Next, ~UsesMutexes
  PROVE  LevelsKept /\ PreemptionKept
<1>1. ASSUME NEW p \in Proc, Queued(p) PROVE priority'[p] = priority[p]
  <2>1. state[p] \in Live
    BY <1>1 DEF IndInv, Placed, Listed, Live
  <2> QED BY <2>1, PriorityKept
<1>2. ASSUME NEW c \in CPU, pc[c] = "preempt"
      PROVE  priority'[pcb[c]] = priority[pcb[c]]
  <2>1. pcb[c] \in Proc /\ state[pcb[c]] \in Live
    BY <1>2, CpuFacts DEF CpuControl, OwnProcess, OnCpu, Live
  <2> QED BY <2>1, PriorityKept
<1>3. \A c \in CPU : pc[c] # "update_priority"
  BY DEF NoInheritance, Inheriting
<1> QED BY <1>1, <1>2, <1>3 DEF LevelsKept, PreemptionKept

\* ... so that every result above holds of such programs, and with a single
\* READY queue of all programs, without any further condition.
THEOREM Unconditional ==
  ASSUME ~(Multilevel /\ UsesMutexes)
  PROVE  Spec => []IndInv /\ BetterPreempts
<1>1. CASE ~Multilevel
  <2>1. [Next]_vars => [LevelsKept]_vars
    BY <1>1 DEF LevelsKept
  <2>2. [Next]_vars =>
          [Multilevel =>
             \A c \in CPU : pc[c] = "preempt" /\ pc'[c] = "exec_ready" =>
               priority[target'[c]] < priority[pcb[c]]]_vars
    BY <1>1
  <2> QED BY <2>1, <2>2, Inductive, PTL DEF Spec, BetterPreempts
<1>2. CASE ~UsesMutexes
  <2>1. Init => IndInv /\ NoInheritance
    <3>1. Init => NoInheritance
      BY ThreadFacts DEF Init, NoInheritance, Inheriting
    <3> QED BY <3>1, InitInv
  <2>2. IndInv /\ NoInheritance /\ [Next]_vars =>
          [LevelsKept]_vars /\ [PreemptionKept]_vars
    BY <1>2, KeptWithoutMutexes
  <2>3. IndInv /\ NoInheritance /\ [Next]_vars => (IndInv /\ NoInheritance)'
    <3>1. ASSUME IndInv, NoInheritance, Next PROVE (IndInv /\ NoInheritance)'
      BY <1>2, <3>1, KeptWithoutMutexes, NoInheritanceStep, CpuInv, WorkerInv
         DEF Next, IndInv
    <3>2. ASSUME IndInv, NoInheritance, UNCHANGED vars PROVE (IndInv /\ NoInheritance)'
      BY <3>2, StutterInv DEF NoInheritance, vars
    <3> QED BY <3>1, <3>2
  <2> QED BY <2>1, <2>2, <2>3, PreemptsForBetter, PTL DEF Spec
<1> QED BY <1>1, <1>2
=============================================================================

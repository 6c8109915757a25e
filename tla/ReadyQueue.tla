----------------------------- MODULE ReadyQueue -----------------------------
(***************************************************************************)
(* The READY structure of the Kernel Scheduler                             *)
(* (scheduler/ready_queue.c): one list per priority level, or a single     *)
(* list when the algorithm is plain FIFO or RR, with the cached count and  *)
(* cached best priority that every CPU thread consults.                    *)
(*                                                                         *)
(* Each operator below is one critical section of `queue_mutex`.  The      *)
(* condition variables are not part of this module: a thread that would    *)
(* wait is simply not enabled.                                             *)
(***************************************************************************)
EXTENDS Integers, Sequences, SequencesExt

CONSTANTS
  Levels,      \* queue_count
  Multilevel   \* multilevel_queue: the algorithm is SA_MULTILEVEL_QUEUES

ASSUME LevelsAssumption == Levels \in Nat \ {0}
ASSUME MultilevelAssumption ==
  Multilevel \in BOOLEAN /\ (~Multilevel => Levels = 1)

VARIABLES
  queues,               \* queues[l]: the pcbs of level l, in arrival order
  ready_process_count,
  highest_priority,
  preempt_all           \* set while a compaction drains the CPUs

readyVars == <<queues, ready_process_count, highest_priority, preempt_all>>

Level == 0 .. Levels - 1

INT_MAX == 2147483647

\* The list a pcb of this priority belongs to.
LevelOf(priority) == IF Multilevel THEN priority ELSE 0

check_priority_valid(priority) == Multilevel => priority < Levels

IsFirstLevel(q, l) == q[l] # <<>> /\ \A k \in Level : k < l => q[k] = <<>>

AllEmpty(q) == \A l \in Level : q[l] = <<>>

\* update_highest_priority_ready_no_mutex: the new value of the cache, given
\* the lists and the count that the function reads.
HighestReady(q, count) ==
  IF count > 0 /\ Multilevel /\ ~AllEmpty(q)
  THEN CHOOSE l \in Level : IsFirstLevel(q, l)
  ELSE Levels

\* Mutant: only the first process of a level is counted.
transition_to_ready_Uncounted(p, priority) ==
  /\ queues' = [queues EXCEPT ![LevelOf(priority)] = Append(@, p)]
  /\ ready_process_count' =
       ready_process_count + IF queues[LevelOf(priority)] = <<>> THEN 1 ELSE 0
  /\ highest_priority' =
       IF ready_process_count = 0 \/ highest_priority > priority
       THEN priority ELSE highest_priority
  /\ UNCHANGED preempt_all

transition_to_ready(p, priority) ==
  /\ queues' = [queues EXCEPT ![LevelOf(priority)] = Append(@, p)]
  /\ ready_process_count' = ready_process_count + 1
  /\ highest_priority' =
       IF ready_process_count = 0 \/ highest_priority > priority
       THEN priority ELSE highest_priority
  /\ UNCHANGED preempt_all

\* Mutant: the head is read and stays in the list.
transition_take_ready_next_Peek(p) ==
  /\ \E l \in Level : IsFirstLevel(queues, l) /\ p = Head(queues[l])
  /\ UNCHANGED readyVars

\* Mutant: the cached priority is not refreshed.
transition_take_ready_next_Stale(p) ==
  /\ \E l \in Level : /\ IsFirstLevel(queues, l)
                       /\ p = Head(queues[l])
                       /\ queues' = [queues EXCEPT ![l] = Tail(@)]
  /\ ready_process_count' = ready_process_count - 1
  /\ UNCHANGED <<highest_priority, preempt_all>>

\* transition_take_ready_next_no_mutex when it returns p: the head of the
\* first non-empty level; the cached priority is refreshed only when that
\* level runs empty.
transition_take_ready_next(p) ==
  \E l \in Level :
    /\ IsFirstLevel(queues, l)
    /\ p = Head(queues[l])
    /\ LET left == [queues EXCEPT ![l] = Tail(@)]
       IN  /\ queues' = left
           /\ highest_priority' =
                IF left[l] = <<>>
                THEN HighestReady(left, ready_process_count - 1)
                ELSE highest_priority
    /\ ready_process_count' = ready_process_count - 1
    /\ UNCHANGED preempt_all

\* Mutant: the count is not changed.
transition_take_ready_Counted(p, priority) ==
  LET l == LevelOf(priority)
  IN  /\ \E i \in DOMAIN queues[l] :
           /\ queues[l][i] = p
           /\ queues' = [queues EXCEPT ![l] = RemoveAt(@, i)]
      /\ highest_priority' = HighestReady(queues', ready_process_count)
      /\ UNCHANGED <<ready_process_count, preempt_all>>

\* transition_take_ready: the first entry of p in the level of this priority
\* is removed if there is one; the cached priority is refreshed before the
\* count is changed.
transition_take_ready(p, priority) ==
  LET l == LevelOf(priority)
  IN  /\ \/ \E i \in DOMAIN queues[l] :
               /\ queues[l][i] = p /\ \A j \in 1 .. i - 1 : queues[l][j] # p
               /\ queues' = [queues EXCEPT ![l] = RemoveAt(@, i)]
         \/ /\ \A i \in DOMAIN queues[l] : queues[l][i] # p
            /\ UNCHANGED queues
      /\ highest_priority' = HighestReady(queues', ready_process_count)
      /\ ready_process_count' = ready_process_count - 1
      /\ UNCHANGED preempt_all

lock_queue_ready ==
  /\ preempt_all' = TRUE
  /\ UNCHANGED <<queues, ready_process_count, highest_priority>>

unlock_queue_ready ==
  /\ preempt_all' = FALSE
  /\ UNCHANGED <<queues, ready_process_count, highest_priority>>

-----------------------------------------------------------------------------
(* What the properties say about the lists.                                *)

InQueues(q, p) == \E l \in Level : \E i \in DOMAIN q[l] : q[l][i] = p

NoRepeats(q) ==
  \A k, l \in Level : \A i \in DOMAIN q[k], j \in DOMAIN q[l] :
    q[k][i] = q[l][j] => k = l /\ i = j
=============================================================================

----------------------------- MODULE SevenStates -----------------------------
(***************************************************************************)
(* What the Kernel Scheduler promises about processes, without lists,      *)
(* locks or threads: a process moves along the seven-state diagram only;   *)
(* a CPU runs at most one process and a process is run by at most one CPU; *)
(* a process that is in EXEC is taken out of it only by the CPU that runs  *)
(* it.  A CPU that disconnects abandons its process in EXEC.               *)
(* Scheduler is shown to implement this specification.                     *)
(***************************************************************************)
CONSTANTS Proc, CPU, NoProc

VARIABLES
  st,       \* the state of each process
  running   \* the process each CPU runs

Init ==
  \E first \in Proc :
    /\ st = [p \in Proc |-> IF p = first THEN "READY" ELSE "UNBORN"]
    /\ running = [c \in CPU |-> NoProc]

Move(p, from, to) == st[p] = from /\ st' = [st EXCEPT ![p] = to]

\* Long-term scheduling, and the end of a process.
Create(p) == Move(p, "UNBORN", "NEW") /\ UNCHANGED running
Admit(p) == Move(p, "NEW", "READY") /\ UNCHANGED running
Reject(p) == Move(p, "NEW", "DESTROYED") /\ UNCHANGED running
Destroy(p) == Move(p, "EXIT", "DESTROYED") /\ UNCHANGED running

\* Short-term scheduling.
Dispatch(c, p) ==
  /\ running[c] = NoProc
  /\ \A d \in CPU : running[d] # p
  /\ Move(p, "READY", "EXEC")
  /\ running' = [running EXCEPT ![c] = p]

Leave(c, p) ==
  /\ running[c] = p
  /\ \E to \in {"READY", "BLOCK", "EXIT"} : Move(p, "EXEC", to)
  /\ running' = [running EXCEPT ![c] = NoProc]

Abandon(c) == running' = [running EXCEPT ![c] = NoProc] /\ UNCHANGED st

\* Medium-term scheduling.
Wake(p) ==
  /\ Move(p, "BLOCK", "READY") \/ Move(p, "SUSP_BLOCK", "SUSP_READY")
  /\ UNCHANGED running
Suspend(p) == Move(p, "BLOCK", "SUSP_BLOCK") /\ UNCHANGED running
Resume(p) == Move(p, "SUSP_READY", "READY") /\ UNCHANGED running

Next ==
  \/ \E p \in Proc : \/ Create(p) \/ Admit(p) \/ Reject(p) \/ Destroy(p)
                     \/ Wake(p) \/ Suspend(p) \/ Resume(p)
  \/ \E c \in CPU : Abandon(c) \/ \E p \in Proc : Dispatch(c, p) \/ Leave(c, p)

Spec == Init /\ [][Next]_<<st, running>>
=============================================================================

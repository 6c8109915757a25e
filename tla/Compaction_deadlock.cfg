CONSTANTS
  Cpu = {c1, c2}
  Suspender = suspender
  Resumer = resumer
  Routine = {r1}
  Unlocker = {u1}
  Pid = {p1, p2}
  None = none
SPECIFICATION Spec
INVARIANT NoCircularWait

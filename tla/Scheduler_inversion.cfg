CONSTANTS
  p1 = p1
  p2 = p2
  p3 = p3
  c1 = c1
  c2 = c2
  d1 = d1
  Suspender = Suspender
  Resumer = Resumer
  Resumption = Resumption
  NoProc = NoProc
  NoThread = NoThread
  Proc = {p1, p2, p3}
  CPU = {c1, c2}
  IO = {}
  Levels = 2
  Multilevel = TRUE
  Priority = {0, 1}
  RoundRobin = {1}
  Preemption = TRUE
  UsesMutexes = TRUE
  Contention <- Holder
  MemoryEvents = FALSE
SPECIFICATION Spec
CHECK_DEADLOCK FALSE
SYMMETRY Symmetry
INVARIANTS ReadyCount

CONSTANTS
  p1 = p1
  p2 = p2
  p3 = p3
  c1 = c1
  c2 = c2
  d1 = d1
  Suspender = Suspender
  Resumer = Resumer
  Resumption = Resumption
  NoProc = NoProc
  NoThread = NoThread
  Proc = {p1, p2}
  CPU = {c1, c2}
  IO = {d1}
  Levels = 1
  Multilevel = FALSE
  Priority = {0}
  RoundRobin = {0}
  Preemption = FALSE
  UsesMutexes = FALSE
  Contention <- Holder
  MemoryEvents = FALSE
SPECIFICATION Spec
CHECK_DEADLOCK FALSE
SYMMETRY Symmetry
INVARIANTS TypeOK ListsMatchState NoProcessLost NoDangling WaitsOnce
PROPERTIES RefinesSevenStates

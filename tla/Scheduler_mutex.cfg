CONSTANTS
  p1 = p1
  p2 = p2
  p3 = p3
  c1 = c1
  c2 = c2
  d1 = d1
  Suspender = Suspender
  Resumer = Resumer
  Resumption = Resumption
  NoProc = NoProc
  NoThread = NoThread
  Proc = {p1, p2}
  CPU = {c1}
  IO = {}
  Levels = 2
  Multilevel = TRUE
  Priority = {0, 1}
  RoundRobin = {}
  Preemption = TRUE
  UsesMutexes = TRUE
  Contention = {"BLOCK", "SUSP_BLOCK", "SUSP_READY"}
  MemoryEvents = FALSE
SPECIFICATION FairSpec
CHECK_DEADLOCK FALSE
INVARIANTS IndInv NoDangling
PROPERTIES BetterPreempts MovesComplete

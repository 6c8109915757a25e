CONSTANTS
  c1 = c1
  c2 = c2
  Cpu = {c1, c2}
  Pid = {1, 2}
  Scenarios <- MCScenarios
  StickSizes <- MCSticks
  STRATEGY = "WORST"
  BYTE = 4
  WORD_BYTES = 2
  ByteRegs <- MCByteRegs
  WordRegs <- MCWordRegs
  MAX_SEGMENT_SIZE = 3
SPECIFICATION Spec
INVARIANTS CpuTypeOK Conversation LockStep OneExecutor ContextExact TableFresh SticksKnown MemoryExact AlwaysAnswered KmFindsProcess
PROPERTIES TurnsEnd LossReported
CONSTRAINT InOrder
CHECK_DEADLOCK FALSE

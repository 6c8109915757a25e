CONSTANTS
  p1 = p1
  p2 = p2
  p3 = p3
  Pid = {p1, p2}
  SegId = {0}
  Sizes = {1, 2}
  Inputs <- OneByteInputs
  StickSizes <- TableSticks
  STRATEGY = "BEST"
  BLOCK_SIZE = 1
  BLOCKS = 3
  MaxWrites = 1
SPECIFICATION Spec
SYMMETRY Symmetry
INVARIANTS ContentsKept
CHECK_DEADLOCK FALSE

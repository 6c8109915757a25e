CONSTANTS
  p1 = p1
  p2 = p2
  p3 = p3
  Pid = {p1}
  SegId = {0, 1}
  Sizes = {1}
  Inputs = {}
  StickSizes <- TableSticks
  STRATEGY = "BEST"
  BLOCK_SIZE = 1
  BLOCKS = 3
  MaxWrites = 0
SPECIFICATION Spec
SYMMETRY Symmetry
INVARIANTS ListenerSurvives
CHECK_DEADLOCK FALSE

CONSTANTS
  p1 = p1
  p2 = p2
  p3 = p3
  Pid = {p1, p2}
  SegId = {0}
  Sizes = {3}
  Inputs <- FittingInputs
  StickSizes <- ContentSticks
  STRATEGY = "WORST"
  BLOCK_SIZE = 2
  BLOCKS = 4
  MaxWrites = 2
SPECIFICATION Spec
SYMMETRY Symmetry
INVARIANTS TableIsOwned ContentsKept BlocksInOrder
CHECK_DEADLOCK FALSE

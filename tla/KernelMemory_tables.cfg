CONSTANTS
  p1 = p1
  p2 = p2
  p3 = p3
  Pid = {p1, p2}
  SegId = {0, 1}
  Sizes = {1, 2}
  Inputs = {}
  StickSizes <- TableSticks
  STRATEGY = "BEST"
  BLOCK_SIZE = 2
  BLOCKS = 1
  MaxWrites = 0
SPECIFICATION Spec
SYMMETRY Symmetry
INVARIANTS KMTypeOK Tiling HolesMerged HoleSelection OwnedIsSomewhere
PROPERTY OthersUntouched
CHECK_DEADLOCK FALSE

SPECIFICATION Spec
CONSTANTS
  Blocks = {b1, b2, b3}
  NULL = NULL
  Values = {1, 2}
  Widths = {1, 3}
  FirstDouble = 5
  MaxSize = 16
INVARIANTS
  CapacityHonest
  ContentsKept
  OneBlock
PROPERTIES
  FailureHarmless

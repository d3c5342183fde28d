SPECIFICATION LibftSpec
CONSTANTS
  Size = 6
  Byte = {0, 1, 2}
  NULL = NULL
  Inputs <- MCInputs
  WordSize = 2
  Values <- MCValues
  Texts <- MCTexts
  MaxCalls = 2
  Fields <- MCFields
  Strings <- MCStrings
  n1 = n1
  n2 = n2
  n3 = n3
  n4 = n4
  Node <- MCNode
  MaxFailed = 2
  BufSize = 3
  IndSize = 2
  Fds = {1, 2, 3}
  MaxChars = 5
SYMMETRY Symmetry
INVARIANTS
  WritesAsInC
  ReadsAsInC
  TextReadsBack
  OutputInOrder
PROPERTIES
  ListsKept
CHECK_DEADLOCK FALSE

SPECIFICATION Spec
CONSTANTS
  Size = 3
  OtherFds = {}
  MayFail = {1, 2}
  MayCut = TRUE
  MaxChars = 4
  MaxFailed = 3
INVARIANTS
  NeverMixed
  EveryFailureReported

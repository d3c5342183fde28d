SPECIFICATION Spec
CONSTANTS
  Size = 2
  OtherFds = {3}
  MayFail = {}
  MayCut = FALSE
  MaxChars = 6
  MaxFailed = 0
INVARIANTS
  TypeOK
  IdleEmpty
  CountsOwn
PROPERTIES
  ImplementsStreams

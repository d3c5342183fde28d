SPECIFICATION FairSpec
CONSTANTS
  MachHeaderMin = 1
  MachHeader = 2
  LoadCmd = 1
  SegCmd = 2
  Section = 1
  SymtabCmd = 2
  Nlist = 1
  Word64 = 64
  MaxCmds = 2
  Sizes <- MCSizes
  LoadCmds <- MCLoadCmds
  Sects <- MCOtoolSects
  Syms <- MCSyms
  OutOfBounds <- MCOutOfBounds
  Targets <- MCWalkTargets
  AllocMayFail = TRUE
INVARIANTS
  ReadsInWindow
  DumpedAsAsked
  NothingLeftBehind
PROPERTIES
  ImplementsCall

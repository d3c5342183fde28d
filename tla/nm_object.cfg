SPECIFICATION Spec
CONSTANTS
  MachHeaderMin = 1
  MachHeader = 2
  LoadCmd = 1
  SegCmd = 2
  Section = 1
  SymtabCmd = 2
  Nlist = 1
  Word64 = 64
  MaxCmds = 3
  Sizes <- MCSizes
  LoadCmds <- MCLoadCmds
  Sects <- MCNmSects
  Syms <- MCSyms
  OutOfBounds <- MCOutOfBounds
  Targets <- MCNmTargets
  AllocMayFail = FALSE
INVARIANTS
  TypeOK
  NamesTerminated
  LettersFromFile
  ListingSorted
  ListingComplete
PROPERTIES
  CommandsAdvance

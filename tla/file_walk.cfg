SPECIFICATION Spec
CONSTANTS
  Base = 2
  FileSizes <- MCFileSizes
  Word64 = 32
  MachHeaderMin = 1
  FatHeader = 1
  FatArch = 1
  ArMagic = 1
  ArHeader = 1
  U32 = 1
  MaxLongName = 2
  FatTables <- MCFatTables
  Headers <- MCHeaders
  SymdefWords = {0, 1, 3}
  StackLimit = 4
INVARIANTS
  WindowsNest
  
  OneOrAll
  ErrorsSurface
  ArchitectureNamed
PROPERTIES
  ImplementsCall

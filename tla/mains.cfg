SPECIFICATION FairSpec
CONSTANTS
  NmArgvs <- MCNmArgvs
  OtoolArgvs <- MCOtoolArgvs
  Errnos = {1, 2}
  EMFILE = 24
  ENOMEM = 12
  WriteErrnos = {5}
  MaxFds = 2
INVARIANTS
  FlagsThenFiles
  EveryFileAnswered
  ResourcesReturned
PROPERTIES
  ImplementsCall

SPECIFICATION Spec
CONSTANTS
  NmArgvs <- MCFewArgvs
  OtoolArgvs = {}
  Errnos = {2}
  EMFILE = 24
  ENOMEM = 12
  WriteErrnos = {5}
  MaxFds = 1
INVARIANTS
  NamedWhenSeveral

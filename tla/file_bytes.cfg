SPECIFICATION Spec
CONSTANTS
  NameLen = 2
  Letters = {0, 97}
  MaxLong = 12
  Word64 = 512
  Sizes <- MCSizes
  Addrs <- MCAddrs
  Cpus <- MCCpus
  FewCpus <- MCFewCpus
INVARIANTS
  FieldsAsWritten
  MemberAsStated
  DumpReadsBack
CHECK_DEADLOCK FALSE

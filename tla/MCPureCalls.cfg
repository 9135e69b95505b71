\* One call of each function without state, on all the inputs listed.
CONSTANTS
  None = None
  Items = {"m", "p", "n"}
  Addresses4 <- FewAddresses4
  Addresses6 <- FewAddresses6
  GroupValues = {"0", "1"}
  Paths <- FewPaths
  Nodes <- ShortNodes
  Services <- ShortServices
  Patterns <- ShortPatterns
  Argvs <- ShortArgvs
SPECIFICATION CallSpec
INVARIANTS
  MasksCohere
  PrintReadsBack
  HostIsSplit
  PatternReadsBack
  ArgumentsReadBack
CHECK_DEADLOCK FALSE

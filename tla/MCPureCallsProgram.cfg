\* As MCPureCalls.cfg: the program's name and its options.
CONSTANTS
  None = None
  Items = {"m", "p", "n"}
  Addresses4 <- FewAddresses4
  Addresses6 <- FewAddresses6
  GroupValues = {"0", "1"}
  Paths <- FewPaths
  Nodes <- ShortNodes
  Services <- ShortServices
  Patterns <- ShortPatterns
  Argvs <- ShortArgvs
SPECIFICATION CallSpec
INVARIANT CommandLineAccepted
CHECK_DEADLOCK FALSE

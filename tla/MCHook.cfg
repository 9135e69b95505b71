\* Two fibers make three calls each on one socket, whose number is reused.
CONSTANTS
  f1 = f1  f2 = f2  sock = sock
  None = None
  Fibers = {f1, f2}
  Fds = {sock}
  Side <- Written
  MaxCalls = 3
  CtlMayFail = TRUE
SPECIFICATION Spec
INVARIANTS
  TimeoutIsOwn
  ParkedCanWake
  NothingLeftBehind
  UserNonblockIsReal
SYMMETRY SymFibers

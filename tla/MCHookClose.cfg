\* epoll_ctl() fails only for a descriptor that is already watched.
CONSTANTS
  f1 = f1  f2 = f2  sock = sock
  None = None
  Fibers = {f1, f2}
  Fds = {sock}
  Side <- Written
  MaxCalls = 2
  CtlMayFail = FALSE
SPECIFICATION Spec
INVARIANT ClosingWakesAll
SYMMETRY SymFibers

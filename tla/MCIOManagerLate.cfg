\* Two tasks and one other thread.
CONSTANTS
  th1 = th1  f1 = f1  f2 = f2
  None = None
  Fibers = {f1, f2}
  Threads = {th1}
SPECIFICATION Spec
SYMMETRY Symmetry
PROPERTY NobodyLeft
CHECK_DEADLOCK FALSE

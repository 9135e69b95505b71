\* Two tasks and one other thread.
CONSTANTS
  th1 = th1  f1 = f1  f2 = f2
  None = None
  Fibers = {f1, f2}
  Threads = {th1}
SPECIFICATION FairSpec
PROPERTY NewTaskEndsWait
CHECK_DEADLOCK FALSE

\* One task and one other thread.
CONSTANTS
  th1 = th1  f1 = f1
  None = None
  Fibers = {f1}
  Threads = {th1}
SPECIFICATION FairSpec
PROPERTY TickleEndsIdle
CHECK_DEADLOCK FALSE

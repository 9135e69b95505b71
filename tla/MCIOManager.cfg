\* Two tasks and two other threads, which run whenever they can.
CONSTANTS
  th1 = th1  th2 = th2  f1 = f1  f2 = f2
  None = None
  Fibers = {f1, f2}
  Threads = {th1, th2}
SPECIFICATION FairSpec
INVARIANTS
  WakeUpComing
PROPERTIES
  IdleEndsDrained
  QueuedTaskRuns
CHECK_DEADLOCK FALSE

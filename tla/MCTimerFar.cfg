\* One timer that is more than MAX_TIMEOUT, and more than 2^31 ms, away.
CONSTANTS
  th1 = th1
  None = None
  Timers = {1}
  Threads = {th1}
  Periods = {1, 7}
  Start = 1
  MaxClock = 2
  Hour = 1
  MaxWait = 2
  Width = 16
  IntEnd = 4
SPECIFICATION Spec
INVARIANT WaitIsBounded

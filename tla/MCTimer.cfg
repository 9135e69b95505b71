\* Two timers, two threads, a clock that may be set back by more than Hour, and
\* a period that is too long for an int.
CONSTANTS
  th1 = th1  th2 = th2
  None = None
  Timers = {1, 2}
  Threads = {th1, th2}
  Periods = {1, 7}
  Start = 1
  MaxClock = 2
  Hour = 1
  MaxWait = 2
  Width = 16
  IntEnd = 4
SPECIFICATION Spec
INVARIANTS
  SetHoldsActive
  NeverOversleeps
PROPERTIES
  OneShotOnce
  NeverEarly
  ListsAllExpired
  KeepsPromise
SYMMETRY SymThreads
VIEW LiveVars

\* One waiter in each direction, and a call that cancels them.
CONSTANTS
  t1 = t1  t2 = t2  w1 = w1  w2 = w2  w3 = w3
  None = None
  Fds = {40}
  Callers = {t1, t2}
  Waiters = {w1, w2, w3}
  InitSize = 32
  MaxGen = 2
SPECIFICATION Spec
INVARIANT NobodyLost
SYMMETRY SymWaiters

\* Two schedulers, fibers that yield, wait, throw and are queued twice.
CONSTANTS
  s1 = s1  s2 = s2  f1 = f1  f2 = f2  f3 = f3  c1 = c1  c2 = c2  c3 = c3
  AnyThread = AnyThread
  None = None
  Sched <- TwoScheds
  Fibers = {f1, f2}
  Funcs = {c1, c2}
  Pins <- PinsBoth
  ExtraThreads <- NoExtraThreads
  Ops = {"ready", "hold", "throw", "dup"}
  MaxQueue = 2
SPECIFICATION Spec
INVARIANTS
  CountsMatchWorker
  ClosuresConserved
  NoFailedAssert
  OneThreadPerFiber
  ReadyIsQueued
  FuncFiberPrivate
PROPERTY IdleEndsDrained
SYMMETRY SymFibers

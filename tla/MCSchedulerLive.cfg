\* One scheduler with fair threads; fibers yield and wait for events.
CONSTANTS
  s1 = s1  s2 = s2  f1 = f1  f2 = f2  f3 = f3  c1 = c1  c2 = c2  c3 = c3
  AnyThread = AnyThread
  None = None
  Sched <- OneSched
  Fibers = {f1, f2}
  Funcs = {c1, c2}
  Pins <- PinsAny
  ExtraThreads <- NoExtraThreads
  Ops = {"ready", "hold"}
  MaxQueue = 2
SPECIFICATION FairSpec
PROPERTIES
  QueuedClosureStarts
  WokenFiberResumes

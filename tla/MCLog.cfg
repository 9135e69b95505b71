\* Two threads, the listener of the log system and one of a user's.
CONSTANTS
  t1 = t1  t2 = t2  init = init  user = user
  logs = logs  bad = bad  a = a  b = b
  None = None
  Threads = {t1, t2}
  Keys = {logs, bad}
  LegalKeys = {logs}
  StaticKeys = {logs}
  Listeners = {init, user}
  LogIniter = init
  Logs = logs
  Used = {logs}
  Names = {a, b}
  Values <- SomeValues
  Default <- Nothing
  Docs <- SomeDocs
SPECIFICATION Spec
INVARIANTS
  ListenersHaveHeard
  LoggersFollow
SYMMETRY SymThreads

\* A daemon that is restarted three times, with and without failing waitpid().
CONSTANTS
  Pids = {1, 2, 3}
  MaxCrashes = 3
  MaxTime = 2
  NoPid = NoPid
SPECIFICATION Spec
INVARIANTS
  InfoIsTrue
  OneChild
PROPERTY CrashedIsReplaced

-------------------------------- MODULE MCHook --------------------------------
EXTENDS Hook, TLC

CONSTANTS f1, f2, sock

\* The socket is written and connected; EPOLLIN is watched all the same.
Written == [fd \in Fds |-> "WRITE"]
SymFibers == Permutations(Fibers)
===============================================================================

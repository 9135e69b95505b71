----------------------------- MODULE MCFdContext -----------------------------
EXTENDS FdContext, TLC

SymWaiters == Permutations(Waiters) \cup Permutations(Callers)
=============================================================================

----------------------------- MODULE MCIOManager -----------------------------
EXTENDS IOManager, TLC

Symmetry == Permutations(Fibers) \cup Permutations(Threads)
=============================================================================

----------------------------- MODULE MCScheduler -----------------------------
(***************************************************************************)
(* Instances of Scheduler for TLC.                                         *)
(***************************************************************************)
EXTENDS Scheduler, TLC

CONSTANTS s1, s2, f1, f2, f3, c1, c2, c3

OneSched == {s1}
TwoScheds == {s1, s2}
NoExtraThreads == [s \in Sched |-> 0]
OneExtraThread == [s \in Sched |-> 1]
PinsAny == {AnyThread}
PinsBoth == {s1, AnyThread}
SymFibers == Permutations(Fibers)
=============================================================================

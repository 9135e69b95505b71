------------------------------ MODULE MCTimer ------------------------------
EXTENDS Timer, TLC

\* Symmetry: threads are interchangeable; timers are not, they are ordered.
SymThreads == Permutations(Threads)

\* A Timer that has lost its callback is never read again, but for that loss:
\* states that differ only in what is left in it are one state to TLC.
Lived == [t \in Timers |-> IF cb[t] \/ ~Made(t)
                          THEN <<ms[t], next[t], recurring[t]>> ELSE <<>>]
\* How the worker sleeps matters no more once the clock was set back or a
\* wake-up is on its way, which it is until the worker wakes.
Sleeping == IF setBack \/ Told THEN <<>> ELSE <<timeout, left, since, slept>>
LiveVars == <<clock, Lived, cb, timers, tickled, previous, caller, pc,
              Sleeping, now, cbs, sawPipe, notified, fault, spent, setBack>>
=============================================================================

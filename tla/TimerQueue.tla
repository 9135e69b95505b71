------------------------------ MODULE TimerQueue ------------------------------
(***************************************************************************)
(* What TimerManager promises whoever adds a timer (timer.h), without the  *)
(* set, its order, locks, threads or the worker's rounds: from the end of  *)
(* addTimer() on a callback is handed out when it is due, a recurring one  *)
(* again and again, another one once, until cancel() takes it back.        *)
(***************************************************************************)
EXTENDS Integers

CONSTANT Timers

VARIABLES
  entries,  \* of the timers whose callback is to come: when, and how often
  gone,     \* whether a timer's callback will not come (again)
  handed,   \* callbacks handed out, on their way into the scheduler
  clock,
  setBack   \* the clock was set back

vars == <<entries, gone, handed, clock, setBack>>

Armed == DOMAIN entries
Entry == [at: Nat, recurring: BOOLEAN]
Keeps(S) == \A t \in S : entries'[t] = entries[t]
StillArmed(S) == DOMAIN entries' = S

Init == /\ Armed = {} /\ gone = [t \in Timers |-> FALSE] /\ handed = {}
        /\ clock \in Nat /\ setBack = FALSE

\* addTimer()
Add(t) ==
  /\ t \notin Armed /\ ~gone[t]
  /\ StillArmed(Armed \cup {t}) /\ Keeps(Armed) /\ entries'[t] \in Entry
  /\ UNCHANGED <<gone, handed, clock, setBack>>

\* refresh(), reset()
Move(t) ==
  /\ t \in Armed
  /\ StillArmed(Armed) /\ Keeps(Armed \ {t}) /\ entries'[t] \in Entry
  /\ entries'[t].recurring = entries[t].recurring
  /\ UNCHANGED <<gone, handed, clock, setBack>>

\* cancel()
Cancel(t) ==
  /\ t \in Armed
  /\ StillArmed(Armed \ {t}) /\ Keeps(Armed \ {t})
  /\ gone' = [gone EXCEPT ![t] = TRUE]
  /\ UNCHANGED <<handed, clock, setBack>>

\* listExpiredCb(): what it hands out was due, unless the clock was set back.
List ==
  /\ handed = {} /\ handed' \subseteq Armed
  /\ \A t \in handed' : entries[t].at <= clock \/ setBack
  /\ LET again == {t \in handed' : entries[t].recurring} IN
     /\ gone' = [t \in Timers |-> gone[t] \/ t \in handed' \ again]
     /\ StillArmed(Armed \ (handed' \ again)) /\ Keeps(Armed \ handed')
     /\ \A t \in again : entries'[t] \in Entry /\ entries'[t].recurring
  /\ UNCHANGED <<clock, setBack>>

\* The callbacks are in the scheduler's queue.
Scheduled == handed' = {} /\ UNCHANGED <<entries, gone, clock, setBack>>

Time == /\ clock' \in Nat
        /\ setBack' = (setBack \/ clock' < clock)
        /\ UNCHANGED <<entries, gone, handed>>

Next == \/ Scheduled \/ Time \/ List
        \/ \E t \in Timers : Add(t) \/ Move(t) \/ Cancel(t)

Spec == Init /\ [][Next]_vars
================================================================================

------------------------------- MODULE Waiters -------------------------------
(***************************************************************************)
(* What the event interface of IOManager gives whoever waits for a         *)
(* descriptor (iomanager.h, addEvent() to cancelAll()), without            *)
(* descriptors, masks, locks or epoll: a registered waiter is scheduled    *)
(* once, or removed without being scheduled, or is lost with no way back,  *)
(* when the other waiter of the same context is scheduled.  As long as it  *)
(* is not scheduled or removed it counts as pending, lost or not.          *)
(***************************************************************************)
EXTENDS Integers, FiniteSets

CONSTANTS Waiters, Contexts

VARIABLES
  status,   \* of each waiter
  room,     \* who is in each context
  pending   \* how many are in one

Init == /\ status = [w \in Waiters |-> "new"]
        /\ room = [o \in Contexts |-> {}]
        /\ pending = 0

\* addEvent()
Register(w) ==
  /\ pending' = pending + 1
  /\ status[w] = "new"
  /\ status' = [status EXCEPT ![w] = "waiting"]
  /\ \E o \in Contexts : room' = [room EXCEPT ![o] = @ \cup {w}]

Leave(w, o) == w \in room[o] /\ room' = [room EXCEPT ![o] = @ \ {w}]

\* cancelEvent(), cancelAll(), close(), or the event itself: nobody who is in
\* the context with w will ever be triggered.
Trigger(w) ==
  /\ pending' = pending - 1
  /\ status[w] = "waiting"
  /\ \E o \in Contexts :
       /\ Leave(w, o)
       /\ status' = [v \in Waiters |-> IF v = w THEN "woken"
                                       ELSE IF v \in room[o] THEN "lost"
                                       ELSE status[v]]

\* delEvent()
Remove(w) ==
  /\ pending' = pending - 1
  /\ status[w] = "waiting"
  /\ status' = [status EXCEPT ![w] = "removed"]
  /\ \E o \in Contexts : Leave(w, o)

Next == \E w \in Waiters : Register(w) \/ Trigger(w) \/ Remove(w)

Spec == Init /\ [][Next]_<<status, room, pending>>
=============================================================================

----------------------------- MODULE IOManager_proofs -----------------------------
(***************************************************************************)
(* Proofs about IOManager for any number of tasks and threads.             *)
(*                                                                         *)
(* What stopping() found stays true while the worker goes on asking, but   *)
(* for the timers and events that other threads add behind its back; and   *)
(* from the scan that found the queue empty to epoll_wait(), the first     *)
(* task queued has somebody who wakes the worker, or came before the       *)
(* worker was counted.                                                     *)
(***************************************************************************)
EXTENDS IOManager, FiniteSetTheorems, TLAPS

\* Threads that triggered an event and have not counted it off.
Owed == {th \in Threads : caller[th].cancels}
Counted == pending = Cardinality(Registered) + Cardinality(Owed)

\* The queue holds queued fibers, each once.
Queue == /\ \A i \in DOMAIN tasks : fstate[tasks[i]] = "queued"
         /\ \A i, j \in DOMAIN tasks : tasks[i] = tasks[j] => i = j

\* One fiber runs at most, and only in the worker's hands.
Runs == \A f \in Fibers : fstate[f] = "running" =>
          pc = "run" /\ \A g \in Fibers : fstate[g] = "running" => g = f

InIdle == {"askTimers", "askPending", "askTasks", "wait", "expire", "events",
           "drain", "leave"}
Counts == idle = IF pc \in InIdle THEN 1 ELSE 0

\* What has been asked is still so, but for what came late.
Asked == /\ pc \in Asking => Timed \subseteq late
         /\ pc = "askTasks" => Registered \subseteq late

Calling == \A th \in Threads : caller[th].at = "decrement" => caller[th].cancels

\* Somebody wakes the worker, or its wait times out.
Rises == \/ edge
         \/ \E f \in Fibers : Queued(f) /\
              \/ f \in unheard
              \/ \E th \in Threads : /\ caller[th].fiber = f
                                     /\ caller[th].at \in {"tickle", "write"}
Falling == {"empty", "askTimers", "askPending", "askTasks", "wait"}
Wakes == pc \in Falling /\ tasks # <<>> => Rises

IInv == /\ TypeOK /\ Counted /\ Queue /\ Runs /\ Counts /\ Asked /\ Calling
        /\ Wakes

(***************************************************************************)
(* Counting                                                                *)
(***************************************************************************)
LEMMA Finite ==
  /\ IsFiniteSet(Registered) /\ Cardinality(Registered) \in Nat
  /\ IsFiniteSet(Owed) /\ Cardinality(Owed) \in Nat
<1>1. Registered \in SUBSET Fibers /\ Owed \in SUBSET Threads
  BY DEF Registered, Timed, In, Owed
<1> QED  BY <1>1, IOManagerAssumption, FS_Subset, FS_CardinalityType

LEMMA Zero == ASSUME Counted, pending = 0 PROVE Registered = {}
<1>1. Cardinality(Registered) = 0  BY Finite DEF Counted
<1> QED  BY <1>1, Finite, FS_EmptySet

\* A waiter comes, is triggered, or is counted off by the thread that did it.
LEMMA Balance ==
  ASSUME Counted,
         \/ Registered' = Registered /\ Owed' = Owed /\ pending' = pending
         \/ \E f : /\ f \notin Registered /\ Registered' = Registered \cup {f}
                   /\ Owed' = Owed /\ pending' = pending + 1
         \/ \E f : /\ f \in Registered /\ Registered' = Registered \ {f}
                   /\ Owed' = Owed /\ pending' = pending - 1
         \/ \E f, th : /\ f \in Registered /\ Registered' = Registered \ {f}
                       /\ th \notin Owed /\ Owed' = Owed \cup {th}
                       /\ pending' = pending
         \/ \E th : /\ th \in Owed /\ Owed' = Owed \ {th}
                    /\ Registered' = Registered /\ pending' = pending - 1
  PROVE  Counted' /\ pending' \in Nat
<1> DEFINE E == Registered
           E2 == Registered'
           O == Owed
           O2 == Owed'
<1>1. /\ IsFiniteSet(E) /\ Cardinality(E) \in Nat
      /\ IsFiniteSet(O) /\ Cardinality(O) \in Nat
      /\ pending = Cardinality(E) + Cardinality(O)
  BY Finite DEF Counted
<1> SUFFICES /\ pending' = Cardinality(E2) + Cardinality(O2)
             /\ pending' \in Nat
  BY DEF Counted
<1> HIDE DEF E, E2, O, O2
<1>2. CASE E2 = E /\ O2 = O /\ pending' = pending  BY <1>1, <1>2
<1>3. ASSUME NEW f, f \notin E, E2 = E \cup {f}, O2 = O, pending' = pending + 1
      PROVE  pending' = Cardinality(E2) + Cardinality(O2) /\ pending' \in Nat
  <2>1. Cardinality(E2) = Cardinality(E) + 1  BY <1>1, <1>3, FS_AddElement
  <2> QED  BY <1>1, <1>3, <2>1
<1>4. ASSUME NEW f, f \in E, E2 = E \ {f}, O2 = O, pending' = pending - 1
      PROVE  pending' = Cardinality(E2) + Cardinality(O2) /\ pending' \in Nat
  <2>1. /\ Cardinality(E2) = Cardinality(E) - 1 /\ IsFiniteSet(E2)
        /\ Cardinality(E2) \in Nat
    BY <1>1, <1>4, FS_RemoveElement, FS_CardinalityType
  <2> QED  BY <1>1, <1>4, <2>1
<1>5. ASSUME NEW f, NEW th, f \in E, E2 = E \ {f}, th \notin O, O2 = O \cup {th},
             pending' = pending
      PROVE  pending' = Cardinality(E2) + Cardinality(O2) /\ pending' \in Nat
  <2>1. Cardinality(E2) = Cardinality(E) - 1  BY <1>1, <1>5, FS_RemoveElement
  <2>2. Cardinality(O2) = Cardinality(O) + 1  BY <1>1, <1>5, FS_AddElement
  <2> QED  BY <1>1, <1>5, <2>1, <2>2
<1>6. ASSUME NEW th, th \in O, O2 = O \ {th}, E2 = E, pending' = pending - 1
      PROVE  pending' = Cardinality(E2) + Cardinality(O2) /\ pending' \in Nat
  <2>1. /\ Cardinality(O2) = Cardinality(O) - 1 /\ IsFiniteSet(O2)
        /\ Cardinality(O2) \in Nat
    BY <1>1, <1>6, FS_RemoveElement, FS_CardinalityType
  <2> QED  BY <1>1, <1>6, <2>1
<1> QED  BY <1>2, <1>3, <1>4, <1>5, <1>6 DEF E, E2, O, O2

(***************************************************************************)
(* The queue                                                               *)
(***************************************************************************)
LEMMA Pushed ==
  ASSUME TypeOK, Queue, NEW f \in Fibers, fstate[f] # "queued", Push(f)
  PROVE  /\ tasks' \in Seq(Fibers) /\ fstate' \in [Fibers -> FiberState]
         /\ Queue' /\ Queued(f)' /\ tasks' # <<>>
         /\ \A g \in Fibers : Queued(g) => Queued(g)'
         /\ fstate'[f] = "queued"
         /\ \A g \in Fibers : g # f => fstate'[g] = fstate[g]
<1>1. tasks' = Append(tasks, f) /\ fstate' = [fstate EXCEPT ![f] = "queued"]
  BY DEF Push
<1>2. /\ fstate' \in [Fibers -> FiberState] /\ fstate'[f] = "queued"
      /\ \A g \in Fibers : g # f => fstate'[g] = fstate[g]
  BY <1>1 DEF TypeOK, FiberState
<1>3. /\ tasks' \in Seq(Fibers) /\ DOMAIN tasks' = DOMAIN tasks \cup {Len(tasks) + 1}
      /\ tasks'[Len(tasks) + 1] = f /\ Len(tasks) + 1 \notin DOMAIN tasks
      /\ \A i \in DOMAIN tasks : tasks'[i] = tasks[i] /\ tasks[i] \in Fibers
  BY <1>1 DEF TypeOK
<1>4. \A i \in DOMAIN tasks : tasks[i] # f  BY DEF Queue
<1>5. Queue'
  <2>1. \A i \in DOMAIN tasks' : fstate'[tasks'[i]] = "queued"
    BY <1>2, <1>3, <1>4 DEF Queue
  <2>2. \A i, j \in DOMAIN tasks' : tasks'[i] = tasks'[j] => i = j
    BY <1>3, <1>4 DEF Queue
  <2> QED  BY <2>1, <2>2 DEF Queue
<1>6. Queued(f)' /\ tasks' # <<>> /\ \A g \in Fibers : Queued(g) => Queued(g)'
  BY <1>3 DEF Queued
<1> QED  BY <1>2, <1>3, <1>5, <1>6

\* From the front: the fiber is in the queue no more.
LEMMA Popped ==
  ASSUME TypeOK, Queue, tasks # <<>>, tasks' = Tail(tasks),
         fstate' = [fstate EXCEPT ![Head(tasks)] = "running"]
  PROVE  /\ tasks' \in Seq(Fibers) /\ fstate' \in [Fibers -> FiberState]
         /\ Queue' /\ Head(tasks) \in Fibers /\ fstate[Head(tasks)] = "queued"
         /\ fstate'[Head(tasks)] = "running"
         /\ \A g \in Fibers : g # Head(tasks) => fstate'[g] = fstate[g]
<1>1. /\ tasks' \in Seq(Fibers) /\ 1 \in DOMAIN tasks /\ Head(tasks) = tasks[1]
      /\ \A i \in DOMAIN tasks' : i + 1 \in DOMAIN tasks /\ tasks'[i] = tasks[i + 1]
      /\ \A i \in DOMAIN tasks : tasks[i] \in Fibers
  BY DEF TypeOK
<1>2. Head(tasks) \in Fibers /\ fstate[Head(tasks)] = "queued"
  BY <1>1 DEF Queue
<1>3. /\ fstate' \in [Fibers -> FiberState] /\ fstate'[Head(tasks)] = "running"
      /\ \A g \in Fibers : g # Head(tasks) => fstate'[g] = fstate[g]
  BY <1>2 DEF TypeOK, FiberState
<1>4. \A i \in DOMAIN tasks' : tasks'[i] # Head(tasks)
  <2> SUFFICES ASSUME NEW i \in DOMAIN tasks', tasks'[i] = Head(tasks)
               PROVE  FALSE
    OBVIOUS
  <2>1. i + 1 = 1  BY <1>1 DEF Queue
  <2>2. i \in Nat /\ i >= 1  BY <1>1
  <2> QED  BY <2>1, <2>2
<1>5. Queue'
  <2>1. \A i \in DOMAIN tasks' : fstate'[tasks'[i]] = "queued"
    BY <1>1, <1>3, <1>4 DEF Queue
  <2>2. \A i, j \in DOMAIN tasks' : tasks'[i] = tasks'[j] => i = j
    <3> SUFFICES ASSUME NEW i \in DOMAIN tasks', NEW j \in DOMAIN tasks',
                        tasks'[i] = tasks'[j]
                 PROVE  i = j
      OBVIOUS
    <3>1. i + 1 = j + 1  BY <1>1 DEF Queue
    <3>2. i \in Nat /\ j \in Nat  BY <1>1
    <3> QED  BY <3>1, <3>2
  <2> QED  BY <2>1, <2>2 DEF Queue
<1> QED  BY <1>1, <1>2, <1>3, <1>5

(***************************************************************************)
(* schedule() and cancelEvent() by other threads                           *)
(***************************************************************************)
USE DEF workerVars, pipeVars, timerVars

LEMMA PushFromKeeps ==
  ASSUME IInv, NEW th \in Threads, NEW f \in Fibers,
         Schedule(th, f) \/ CancelEvent(th, f)
  PROVE  IInv'
<1> USE DEF IInv
<1>1. PICK cancels \in BOOLEAN :
        /\ PushFrom(th, f, cancels) /\ caller[th] = Free
        /\ fstate[f] = IF cancels THEN "event" ELSE "new"
  BY DEF Schedule, CancelEvent
<1> DEFINE c == IF NeedTickle
                THEN [at |-> "tickle", fiber |-> f, cancels |-> cancels]
                ELSE IF cancels
                THEN [at |-> "decrement", fiber |-> f, cancels |-> TRUE]
                ELSE Free
<1>2. /\ Push(f) /\ caller' = [caller EXCEPT ![th] = c]
      /\ UNCHANGED <<pending, idle, idleEnded, pc, sawPipe, ready, unread, edge,
                     unheard, tickled, limited, late>>
  BY <1>1 DEF PushFrom
<1>3. /\ c \in CallState /\ c.cancels = cancels
      /\ c.at = "decrement" => c.cancels
      /\ tasks = <<>> => c.at = "tickle" /\ c.fiber = f
  BY DEF CallState, Free, NeedTickle
<1> HIDE DEF c
<1>4. /\ tasks' \in Seq(Fibers) /\ fstate' \in [Fibers -> FiberState]
      /\ Queue' /\ Queued(f)' /\ tasks' # <<>>
      /\ \A g \in Fibers : Queued(g) => Queued(g)'
      /\ fstate'[f] = "queued"
      /\ \A g \in Fibers : g # f => fstate'[g] = fstate[g]
  BY <1>1, <1>2, Pushed
<1>5. /\ caller' \in [Threads -> CallState] /\ caller'[th] = c
      /\ \A t \in Threads : t # th => caller'[t] = caller[t]
  BY <1>2, <1>3 DEF TypeOK
<1>6. TypeOK'  BY <1>2, <1>4, <1>5 DEF TypeOK
<1>7. Counted'
  <2>1. caller[th].cancels = FALSE  BY <1>1 DEF Free
  <2>2. CASE cancels
    <3>1. f \in Registered /\ Registered' = Registered \ {f}
      BY <1>1, <1>4, <2>2 DEF Registered, Timed, In
    <3>2. th \notin Owed /\ Owed' = Owed \cup {th}
      BY <1>3, <1>5, <2>1, <2>2 DEF Owed
    <3> QED  BY <1>2, <3>1, <3>2, Balance
  <2>3. CASE ~cancels
    <3>1. Registered' = Registered  BY <1>1, <1>4, <2>3 DEF Registered, Timed, In
    <3>2. Owed' = Owed  BY <1>3, <1>5, <2>1, <2>3 DEF Owed
    <3> QED  BY <1>2, <3>1, <3>2, Balance
  <2> QED  BY <2>2, <2>3
<1>8. Runs' /\ Counts' /\ Asked'
  BY <1>1, <1>2, <1>4 DEF Runs, Counts, Asked, Registered, Timed, In
<1>9. Calling'  BY <1>3, <1>5 DEF Calling
<1>10. Wakes'
  <2>1. CASE tasks = <<>>
    BY <1>3, <1>4, <1>5, <2>1 DEF Wakes, Rises
  <2>2. CASE tasks # <<>> /\ pc \in Falling
    <3>1. Rises  BY <2>2 DEF Wakes
    <3>2. CASE edge  BY <1>2, <3>2 DEF Wakes, Rises
    <3>3. ASSUME NEW g \in Fibers, Queued(g), g \in unheard PROVE Rises'
      BY <1>2, <1>4, <3>3 DEF Rises
    <3>4. ASSUME NEW g \in Fibers, Queued(g), NEW t \in Threads,
                 caller[t].fiber = g, caller[t].at \in {"tickle", "write"}
          PROVE  Rises'
      <4>1. t # th  BY <1>1, <3>4 DEF Free
      <4> QED  BY <1>4, <1>5, <3>4, <4>1 DEF Rises
    <3> QED  BY <3>1, <3>2, <3>3, <3>4 DEF Rises, Wakes
  <2>3. CASE pc \notin Falling  BY <1>2, <2>3 DEF Wakes
  <2> QED  BY <2>1, <2>2, <2>3
<1> QED  BY <1>4, <1>6, <1>7, <1>8, <1>9, <1>10

LEMMA OthersKeep == ASSUME IInv, NEW th \in Threads, Others(th) PROVE IInv'
<1> USE DEF IInv
<1>1. UNCHANGED <<tasks, fstate, idle, idleEnded, pc, sawPipe, ready, tickled,
                  limited, late>>
  BY DEF Others, Tickle, Write, CountOff
<1>2. Queue' /\ Runs' /\ Counts' /\ Asked'
  BY <1>1 DEF Queue, Runs, Counts, Asked, Registered, Timed, In
<1>3. caller[th] \in CallState  BY DEF TypeOK
<1>4. ASSUME NEW c \in CallState, caller' = [caller EXCEPT ![th] = c],
             c.cancels = caller[th].cancels, c.at = "decrement" => c.cancels,
             pending' = pending, unread' \in BOOLEAN, edge' \in BOOLEAN,
             unheard' \subseteq Fibers, Wakes'
      PROVE  IInv'
  <2>1. /\ caller' \in [Threads -> CallState] /\ caller'[th] = c
        /\ \A t \in Threads : t # th => caller'[t] = caller[t]
    BY <1>4 DEF TypeOK
  <2>2. TypeOK'  BY <1>1, <1>4, <2>1 DEF TypeOK
  <2>3. Owed' = Owed /\ Registered' = Registered
    BY <1>1, <1>4, <2>1 DEF Owed, Registered, Timed, In
  <2>4. Counted'  BY <1>4, <2>3, Balance
  <2>5. Calling'  BY <1>4, <2>1 DEF Calling
  <2> QED  BY <1>2, <1>4, <2>2, <2>4, <2>5
<1> DEFINE after == IF caller[th].cancels
                    THEN [caller[th] EXCEPT !.at = "decrement"] ELSE Free
<1>5. /\ after \in CallState /\ after.cancels = caller[th].cancels
      /\ after.at = "decrement" => after.cancels
  BY <1>3 DEF CallState, Free
<1>6. CASE Write(th)
  <2>1. /\ caller' = [caller EXCEPT ![th] = after]
        /\ unread' = TRUE /\ edge' = TRUE /\ UNCHANGED <<pending, unheard>>
    BY <1>6 DEF Write, AfterTickle
  <2> HIDE DEF after
  <2>2. Wakes' /\ unread' \in BOOLEAN /\ edge' \in BOOLEAN /\ unheard' \subseteq Fibers
    BY <2>1 DEF Wakes, Rises, TypeOK
  <2> QED  BY <1>4, <1>5, <2>1, <2>2
<1>7. CASE Tickle(th)
  <2>1. caller[th].at = "tickle" /\ UNCHANGED <<pending, unread, edge>>
    BY <1>7 DEF Tickle
  <2>2. CASE idle > 0
    <3> DEFINE c == [caller[th] EXCEPT !.at = "write"]
    <3>1. caller' = [caller EXCEPT ![th] = c] /\ UNCHANGED unheard
      BY <1>7, <2>2 DEF Tickle
    <3>2. /\ c \in CallState /\ c.cancels = caller[th].cancels
          /\ c.at = "write" /\ c.fiber = caller[th].fiber
      BY <1>3 DEF CallState
    <3> HIDE DEF c
    <3>3. /\ caller'[th] = c
          /\ \A t \in Threads : t # th => caller'[t] = caller[t]
      BY <3>1 DEF TypeOK
    <3>4. Wakes'
      BY <1>1, <2>1, <3>1, <3>2, <3>3 DEF Wakes, Rises, Queued
    <3> QED  BY <1>4, <2>1, <3>1, <3>2, <3>4 DEF TypeOK
  <2>3. CASE ~ (idle > 0)
    <3>1. /\ caller' = [caller EXCEPT ![th] = after]
          /\ unheard' = IF Queued(caller[th].fiber)
                        THEN unheard \cup {caller[th].fiber} ELSE unheard
      BY <1>7, <2>3 DEF Tickle, AfterTickle
    <3> HIDE DEF after
    <3>2. unheard' \subseteq Fibers
      <4>1. Queued(caller[th].fiber) => caller[th].fiber \in Fibers
        BY DEF Queued, TypeOK
      <4> QED  BY <3>1, <4>1 DEF TypeOK
    <3>3. \A t \in Threads : t # th => caller'[t] = caller[t]
      BY <3>1 DEF TypeOK
    <3>4. Wakes'
      BY <1>1, <2>1, <3>1, <3>3 DEF Wakes, Rises, Queued
    <3> QED  BY <1>4, <1>5, <2>1, <3>1, <3>2, <3>4 DEF TypeOK
  <2> QED  BY <2>2, <2>3
<1>8. CASE CountOff(th)
  <2>1. /\ caller[th].at = "decrement" /\ caller' = [caller EXCEPT ![th] = Free]
        /\ pending' = pending - 1 /\ UNCHANGED <<unread, edge, unheard>>
    BY <1>8 DEF CountOff
  <2>2. Free \in CallState /\ Free.cancels = FALSE /\ Free.at = "free"
    BY DEF Free, CallState
  <2>3. /\ caller' \in [Threads -> CallState] /\ caller'[th] = Free
        /\ \A t \in Threads : t # th => caller'[t] = caller[t]
    BY <2>1, <2>2 DEF TypeOK
  <2>4. th \in Owed /\ Owed' = Owed \ {th}
    BY <2>1, <2>2, <2>3 DEF Owed, Calling
  <2>5. Registered' = Registered  BY <1>1 DEF Registered, Timed, In
  <2>6. Counted' /\ pending' \in Nat  BY <2>1, <2>4, <2>5, Balance
  <2>7. TypeOK'  BY <1>1, <2>1, <2>3, <2>6 DEF TypeOK
  <2>8. Calling'  BY <2>2, <2>3 DEF Calling
  <2>9. Wakes'  BY <1>1, <2>1, <2>3 DEF Wakes, Rises, Queued
  <2> QED  BY <1>2, <2>6, <2>7, <2>8, <2>9
<1> QED  BY <1>6, <1>7, <1>8 DEF Others

(***************************************************************************)
(* Timers and events of other threads                                      *)
(***************************************************************************)
LEMMA OutsideKeeps ==
  ASSUME IInv, NEW f \in Fibers, NEW s \in {"foreign", "near", "far", "done"},
         fstate[f] \in {"new", "foreign", "near", "far"},
         fstate' = [fstate EXCEPT ![f] = s],
         \/ caller' = caller
         \/ \E th \in Threads, c \in CallState :
              /\ caller[th] = Free /\ caller' = [caller EXCEPT ![th] = c]
              /\ c.at = "decrement" => c.cancels,
         UNCHANGED <<tasks, idle, idleEnded, pc, sawPipe, ready, unread, edge,
                     unheard, limited>>,
         tickled' \in BOOLEAN, late' \subseteq Fibers,
         Counted', pending' \in Nat, Asked'
  PROVE  IInv'
<1> USE DEF IInv
<1>1. /\ fstate' \in [Fibers -> FiberState] /\ fstate'[f] = s
      /\ \A g \in Fibers : g # f => fstate'[g] = fstate[g]
  BY DEF TypeOK, FiberState
<1>2. /\ caller' \in [Threads -> CallState]
      /\ \A t \in Threads : caller'[t].at = "decrement" => caller'[t].cancels
      /\ \A t \in Threads : caller[t] # Free => caller'[t] = caller[t]
  BY DEF TypeOK, Calling
<1>3. TypeOK'  BY <1>1, <1>2 DEF TypeOK
<1>4. Queue'
  <2>1. \A i \in DOMAIN tasks : tasks[i] \in Fibers /\ tasks[i] # f
    BY DEF Queue, TypeOK
  <2> QED  BY <1>1, <2>1 DEF Queue
<1>5. Runs' /\ Counts' /\ Calling'  BY <1>1, <1>2 DEF Runs, Counts, Calling
<1>6. Wakes'
  <2>1. \A t \in Threads : caller[t].at \in {"tickle", "write"} =>
          caller'[t] = caller[t]
    BY <1>2 DEF Free
  <2> QED  BY <2>1 DEF Wakes, Rises, Queued
<1> QED  BY <1>3, <1>4, <1>5, <1>6

LEMMA CancelForeignKeeps ==
  ASSUME IInv, NEW th \in Threads, NEW f \in Fibers, CancelForeign(th, f)
  PROVE  IInv'
<1> DEFINE c == [at |-> "decrement", fiber |-> f, cancels |-> TRUE]
<1>1. /\ caller[th] = Free /\ fstate[f] = "foreign"
      /\ fstate' = [fstate EXCEPT ![f] = "done"]
      /\ caller' = [caller EXCEPT ![th] = c]
      /\ UNCHANGED <<tasks, pending, idle, idleEnded, pc, sawPipe, ready, unread,
                     edge, unheard, tickled, limited, late>>
  BY DEF CancelForeign
<1>2. c \in CallState /\ c.at = "decrement" /\ c.cancels  BY DEF CallState
<1> HIDE DEF c
<1>3. /\ fstate'[f] = "done" /\ \A g \in Fibers : g # f => fstate'[g] = fstate[g]
      /\ caller'[th] = c /\ \A t \in Threads : t # th => caller'[t] = caller[t]
  BY <1>1 DEF IInv, TypeOK
<1>4. /\ f \in Registered /\ Registered' = Registered \ {f} /\ Timed' = Timed
  BY <1>1, <1>3 DEF Registered, Timed, In
<1>5. th \notin Owed /\ Owed' = Owed \cup {th}
  BY <1>1, <1>2, <1>3 DEF Owed, Free
<1>6. Counted' /\ pending' \in Nat  BY <1>1, <1>4, <1>5, Balance DEF IInv
<1>7. Asked'  BY <1>1, <1>4 DEF IInv, Asked
<1> QED  BY <1>1, <1>2, <1>6, <1>7, OutsideKeeps DEF IInv, TypeOK

LEMMA InsertKeeps ==
  ASSUME IInv, NEW th \in Threads, NEW f \in Fibers, NEW s \in {"near", "far"},
         NEW b \in BOOLEAN, AddTimerFrom(th, f, s, b) \/ Reset(th, f, s, b)
  PROVE  IInv'
<1> DEFINE c == IF b /\ ~tickled
                THEN [at |-> "tickle", fiber |-> None, cancels |-> FALSE]
                ELSE Free
<1>1. /\ caller[th] = Free /\ fstate[f] \in {"new", "near", "far"}
      /\ fstate' = [fstate EXCEPT ![f] = s] /\ tickled' = (tickled \/ b)
      /\ caller' = [caller EXCEPT ![th] = c]
      /\ UNCHANGED <<tasks, pending, idle, idleEnded, pc, sawPipe, ready, unread,
                     edge, unheard, limited>>
  BY DEF AddTimerFrom, Reset, InsertFrom, Insert, Timed, In
<1>2. c \in CallState /\ c.at # "decrement" /\ ~c.cancels  BY DEF CallState, Free
<1> HIDE DEF c
<1>3. /\ fstate'[f] = s /\ \A g \in Fibers : g # f => fstate'[g] = fstate[g]
      /\ caller'[th] = c /\ \A t \in Threads : t # th => caller'[t] = caller[t]
  BY <1>1 DEF IInv, TypeOK
<1>4. Registered' = Registered /\ Timed' = Timed \cup {f}
  BY <1>1, <1>3 DEF Registered, Timed, In
<1>5. Owed' = Owed  BY <1>1, <1>2, <1>3 DEF Owed, Free
<1>6. Counted' /\ pending' \in Nat  BY <1>1, <1>4, <1>5, Balance DEF IInv
<1>7. late' \subseteq Fibers /\ Asked'
  <2>1. CASE AddTimerFrom(th, f, s, b)
    BY <1>1, <1>4, <2>1 DEF AddTimerFrom, IInv, TypeOK, Asked
  <2>2. CASE Reset(th, f, s, b)
    BY <1>1, <1>4, <2>2 DEF Reset, IInv, TypeOK, Asked
  <2> QED  BY <2>1, <2>2
<1>8. tickled' \in BOOLEAN  BY <1>1 DEF IInv, TypeOK
<1> QED  BY <1>1, <1>2, <1>6, <1>7, <1>8, OutsideKeeps

LEMMA LonelyKeeps ==
  ASSUME IInv, NEW f \in Fibers,
         Refresh(f) \/ CancelTimer(f) \/ AddForeign(f) \/ Approach(f)
  PROVE  IInv'
<1>1. PICK s \in {"foreign", "near", "far", "done"} :
        /\ fstate' = [fstate EXCEPT ![f] = s]
        /\ fstate[f] = (IF s = "foreign" THEN "new" ELSE fstate[f])
        /\ s = "foreign" => /\ pending' = pending + 1
                            /\ late' = IF pc = "askTasks" THEN late \cup {f}
                                       ELSE late
        /\ s # "foreign" => /\ fstate[f] \in {"near", "far"}
                            /\ pending' = pending /\ late' = late
        /\ UNCHANGED <<tasks, idle, idleEnded, pc, sawPipe, ready, unread, edge,
                       caller, unheard, tickled, limited>>
  BY DEF Refresh, CancelTimer, AddForeign, Approach, Timed, In
<1>2. fstate'[f] = s /\ \A g \in Fibers : g # f => fstate'[g] = fstate[g]
  BY <1>1 DEF IInv, TypeOK
<1>3. Owed' = Owed  BY <1>1 DEF Owed
<1>4. Timed' \subseteq Timed
  BY <1>1, <1>2 DEF Timed, In
<1>5. Registered' = IF s = "foreign" THEN Registered \cup {f} ELSE Registered
  BY <1>1, <1>2 DEF Registered, In
<1>6. s = "foreign" => f \notin Registered
  BY <1>1 DEF Registered, In
<1>7. Counted' /\ pending' \in Nat
  BY <1>1, <1>3, <1>5, <1>6, Balance DEF IInv
<1>8. late' \subseteq Fibers /\ late \subseteq late'
  BY <1>1 DEF IInv, TypeOK
<1>9. Asked'  BY <1>1, <1>4, <1>5, <1>8 DEF IInv, Asked
<1> QED  BY <1>1, <1>7, <1>8, <1>9, OutsideKeeps DEF IInv, TypeOK

(***************************************************************************)
(* The worker in run()                                                     *)
(***************************************************************************)
\* Steps that only move the worker.
LEMMA MovesKeep ==
  ASSUME IInv, UNCHANGED <<tasks, fstate, pending, caller, unheard>>,
         tickled' \in BOOLEAN, limited' \in BOOLEAN, late' \subseteq Fibers,
         pc # "run", pc' \in PC, idleEnded' \in BOOLEAN, sawPipe' \in BOOLEAN,
         unread' \in BOOLEAN, edge' \in BOOLEAN, ready' \subseteq Fibers,
         Counts', Asked', Wakes'
  PROVE  IInv'
<1> USE DEF IInv
<1>1. TypeOK'  BY DEF TypeOK, Counts
<1>2. Counted'  BY DEF Counted, Registered, Timed, In, Owed
<1>3. Queue' /\ Runs' /\ Calling'  BY DEF Queue, Runs, Calling
<1> QED  BY <1>1, <1>2, <1>3

LEMMA GoKeeps ==
  ASSUME IInv,
         \/ Stop \/ FindNothing \/ LeaveRun \/ EnterIdle
         \/ AskTimers \/ AskPending
         \/ EndIdle \/ KeepIdle
         \/ ExpireNoMore \/ SeePipe \/ Yield \/ LeaveIdle
  PROVE  IInv'
<1> USE DEF IInv
<1>1. /\ UNCHANGED <<tasks, fstate, pending, sawPipe, ready, unread, edge, caller,
                     unheard>>
      /\ pc # "run" /\ pc' \in PC /\ idleEnded' \in BOOLEAN
      /\ tickled' \in BOOLEAN /\ limited' \in BOOLEAN /\ late' \subseteq Fibers
  BY DEF Stop, FindNothing, LeaveRun, EnterIdle, AskTimers, AskPending, EndIdle,
         KeepIdle, ExpireNoMore, SeePipe, Yield, LeaveIdle, Go, PC, TypeOK
<1>2. Counts'
  <2>1. CASE AskTimers
    BY <2>1 DEF AskTimers, Go, Counts, InIdle
  <2>2. CASE AskPending
    BY <2>2 DEF AskPending, Go, Counts, InIdle
  <2>3. CASE ~(AskTimers \/ AskPending)
    BY <2>3 DEF Stop, FindNothing, LeaveRun, EnterIdle, EndIdle, KeepIdle,
         ExpireNoMore, SeePipe, Yield, LeaveIdle, Go, Counts, InIdle
  <2> QED  BY <2>1, <2>2, <2>3
<1>3. Asked'
  <2>1. CASE AskTimers
    BY <2>1 DEF AskTimers, Go, NothingLeft, Asked, Asking, Registered, Timed, In
  <2>2. CASE AskPending
    BY <2>2, Zero DEF AskPending, Go, NothingLeft, Asked, Asking, Registered,
       Timed, In
  <2>3. CASE ~(AskTimers \/ AskPending)
    BY <2>3 DEF Stop, FindNothing, LeaveRun, EnterIdle, EndIdle, KeepIdle,
                ExpireNoMore, SeePipe, Yield, LeaveIdle, Go, Asked, Asking
  <2> QED  BY <2>1, <2>2, <2>3
<1>4. Wakes'
  <2>1. Rises' <=> Rises  BY <1>1 DEF Rises, Queued
  <2>2. CASE FindNothing  BY <2>2 DEF FindNothing, Go, Wakes
  <2>3. CASE ~FindNothing /\ pc \in Falling
    BY <1>1, <2>1, <2>3 DEF Wakes
  <2>4. CASE ~FindNothing /\ pc \notin Falling
    BY <2>4 DEF Stop, LeaveRun, EnterIdle, AskTimers, AskPending, EndIdle, KeepIdle,
         ExpireNoMore, SeePipe, Yield, LeaveIdle, Go, Falling, Wakes
  <2> QED  BY <2>2, <2>3, <2>4
<1> QED  BY <1>1, <1>2, <1>3, <1>4, MovesKeep DEF TypeOK

LEMMA TakeKeeps == ASSUME IInv, Take PROVE IInv'
<1> USE DEF IInv
<1> DEFINE h == Head(tasks)
<1>1. /\ pc = "scan" /\ tasks # <<>> /\ tasks' = Tail(tasks)
      /\ fstate' = [fstate EXCEPT ![h] = "running"]
      /\ unheard' = unheard \ {h} /\ pc' = "run"
      /\ UNCHANGED <<pending, idle, idleEnded, sawPipe, ready, unread, edge, caller,
                     tickled, limited, late>>
  BY DEF Take
<1>2. /\ tasks' \in Seq(Fibers) /\ fstate' \in [Fibers -> FiberState]
      /\ Queue' /\ h \in Fibers /\ fstate[h] = "queued"
      /\ fstate'[h] = "running"
      /\ \A g \in Fibers : g # h => fstate'[g] = fstate[g]
  BY <1>1, Popped
<1>3. TypeOK'  BY <1>1, <1>2 DEF TypeOK, PC
<1>4. Registered' = Registered /\ Owed' = Owed  BY <1>1, <1>2 DEF Registered, Timed, In, Owed
<1>5. Counted'  BY <1>1, <1>4, Balance
<1>6. Runs'  BY <1>1, <1>2 DEF Runs
<1>7. Counts' /\ Asked' /\ Calling' /\ Wakes'
  BY <1>1 DEF Counts, InIdle, Asked, Asking, Calling, Wakes, Falling
<1> QED  BY <1>2, <1>3, <1>5, <1>6, <1>7

LEMMA LeaveKeeps ==
  ASSUME IInv, NEW f \in Fibers,
         \/ Finish(f) \/ AddEvent(f)
         \/ \E s \in {"near", "far"}, b \in BOOLEAN : AddTimer(f, s, b)
  PROVE  IInv'
<1> USE DEF IInv
<1>1. PICK s \in {"done", "event", "near", "far"} :
        /\ fstate[f] = "running" /\ fstate' = [fstate EXCEPT ![f] = s]
        /\ pending' = IF s = "event" THEN pending + 1 ELSE pending
        /\ pc' = "scan"
        /\ tickled' \in BOOLEAN
        /\ UNCHANGED <<tasks, idle, idleEnded, sawPipe, ready, unread, edge, caller,
                       unheard, limited, late>>
  BY DEF Finish, AddEvent, AddTimer, LeaveRunning, Insert, TypeOK
<1>2. /\ fstate' \in [Fibers -> FiberState] /\ fstate'[f] = s
      /\ \A g \in Fibers : g # f => fstate'[g] = fstate[g]
  BY <1>1 DEF TypeOK, FiberState
<1>3. pc = "run" /\ \A g \in Fibers : fstate[g] = "running" => g = f
  BY <1>1 DEF Runs
<1>4. Owed' = Owed  BY <1>1 DEF Owed
<1>5. Counted' /\ pending' \in Nat
  <2>1. CASE s = "event"
    <3>1. f \notin Registered /\ Registered' = Registered \cup {f}
      BY <1>1, <1>2, <2>1 DEF Registered, Timed, In
    <3> QED  BY <1>1, <1>4, <2>1, <3>1, Balance
  <2>2. CASE s # "event"
    <3>1. Registered' = Registered  BY <1>1, <1>2, <2>2 DEF Registered, Timed, In
    <3> QED  BY <1>1, <1>4, <2>2, <3>1, Balance
  <2> QED  BY <2>1, <2>2
<1>6. TypeOK'  BY <1>1, <1>2, <1>5 DEF TypeOK, PC
<1>7. Queue'
  <2>1. \A i \in DOMAIN tasks : tasks[i] \in Fibers /\ tasks[i] # f
    BY <1>1 DEF Queue, TypeOK
  <2> QED  BY <1>1, <1>2, <2>1 DEF Queue
<1>8. Runs'  BY <1>1, <1>2, <1>3 DEF Runs
<1>9. Counts' /\ Asked' /\ Calling' /\ Wakes'
  BY <1>1, <1>3 DEF Counts, InIdle, Asked, Asking, Calling, Wakes, Falling
<1> QED  BY <1>5, <1>6, <1>7, <1>8, <1>9

(***************************************************************************)
(* The worker in idle()                                                    *)
(***************************************************************************)
LEMMA EpollWaitKeeps == ASSUME IInv, EpollWait \/ Interrupted \/ ReadPipe PROVE IInv'
<1> USE DEF IInv
<1>1. CASE EpollWait
  <2>1. /\ UNCHANGED <<tasks, fstate, pending, idle, idleEnded, unread, caller, unheard,
                       tickled, limited, late>>
        /\ pc = "wait" /\ pc' = "expire" /\ sawPipe' = edge /\ edge' = FALSE
        /\ ready' \subseteq Fibers
    BY <1>1 DEF EpollWait, Registered, In
  <2>2. Counts' /\ Asked' /\ Wakes'
    BY <2>1 DEF Counts, InIdle, Asked, Asking, Wakes, Falling
  <2> QED  BY <2>1, <2>2, MovesKeep DEF TypeOK, PC
<1>2. CASE ReadPipe
  <2>1. /\ UNCHANGED <<tasks, fstate, pending, idle, idleEnded, pc, sawPipe, ready,
                       edge, caller, unheard, tickled, limited, late>>
        /\ pc = "drain" /\ unread' = FALSE
    BY <1>2 DEF ReadPipe
  <2>2. Counts' /\ Asked' /\ Wakes'
    BY <2>1 DEF Counts, InIdle, Asked, Asking, Wakes, Falling
  <2> QED  BY <2>1, <2>2, MovesKeep DEF TypeOK
<1>3. CASE Interrupted
  <2>1. /\ UNCHANGED <<tasks, fstate, pending, idle, idleEnded, pc, sawPipe, ready,
                       unread, edge, caller, unheard, tickled, late>>
        /\ pc = "wait" /\ limited' = TRUE
    BY <1>3 DEF Interrupted
  <2>2. Counts' /\ Asked' /\ Wakes'
    BY <2>1 DEF Counts, Asked, Asking, Wakes, Rises, Queued
  <2> QED  BY <2>1, <2>2, MovesKeep DEF TypeOK
<1> QED  BY <1>1, <1>2, <1>3

\* A callback or an event makes its fiber a task.
LEMMA PushFromIdleKeeps ==
  ASSUME IInv, NEW f \in Fibers, PushFromIdle(f), pc \in {"expire", "events"},
         \/ fstate[f] = "near" /\ pending' = pending
         \/ fstate[f] = "event" /\ pending' = pending - 1,
         ready' \subseteq Fibers,
         UNCHANGED <<idle, idleEnded, pc, sawPipe, caller, unheard, tickled,
                     limited, late>>
  PROVE  IInv'
<1> USE DEF IInv
<1>1. Push(f) /\ unread' \in BOOLEAN /\ edge' \in BOOLEAN
  BY DEF PushFromIdle, NeedTickle, TypeOK
<1>2. /\ tasks' \in Seq(Fibers) /\ fstate' \in [Fibers -> FiberState]
      /\ Queue' /\ fstate'[f] = "queued"
      /\ \A g \in Fibers : g # f => fstate'[g] = fstate[g]
  BY <1>1, Pushed
<1>3. Counted' /\ pending' \in Nat
  <2>1. Owed' = Owed  BY DEF Owed
  <2>2. CASE fstate[f] = "near"
    <3>1. Registered' = Registered  BY <1>2, <2>2 DEF Registered, Timed, In
    <3> QED  BY <2>1, <2>2, <3>1, Balance
  <2>3. CASE fstate[f] = "event"
    <3>1. f \in Registered /\ Registered' = Registered \ {f}
      BY <1>2, <2>3 DEF Registered, Timed, In
    <3> QED  BY <2>1, <2>3, <3>1, Balance
  <2> QED  BY <2>2, <2>3
<1>4. TypeOK'  BY <1>1, <1>2, <1>3 DEF TypeOK
<1>5. Runs'  BY <1>2 DEF Runs
<1>6. Counts' /\ Asked' /\ Calling' /\ Wakes'
  BY DEF Counts, InIdle, Asked, Asking, Calling, Wakes, Falling
<1> QED  BY <1>2, <1>3, <1>4, <1>5, <1>6

LEMMA ExpireKeeps == ASSUME IInv, NEW f \in Fibers, Expire(f) PROVE IInv'
<1>1. ready' \subseteq Fibers  BY DEF Expire, IInv, TypeOK
<1> QED  BY <1>1, PushFromIdleKeeps DEF Expire

LEMMA TriggerEventKeeps == ASSUME IInv, NEW f \in Fibers, TriggerEvent(f) PROVE IInv'
<1>1. /\ ready' \subseteq Fibers /\ pc = "events"
      /\ UNCHANGED <<idle, idleEnded, pc, sawPipe, caller, unheard, tickled,
                     limited, late>>
  BY DEF TriggerEvent, IInv, TypeOK
<1>2. CASE fstate[f] = "event"
  BY <1>1, <1>2, PushFromIdleKeeps
     DEF TriggerEvent, StillWaits, Registered, In
<1>4. CASE fstate[f] = "foreign"
  <2>1. /\ fstate' = [fstate EXCEPT ![f] = "done"] /\ pending' = pending - 1
        /\ UNCHANGED <<tasks, unread, edge>>
    BY <1>4 DEF TriggerEvent, StillWaits, Registered, In
  <2>2. /\ fstate' \in [Fibers -> FiberState] /\ fstate'[f] = "done"
        /\ \A g \in Fibers : g # f => fstate'[g] = fstate[g]
    BY <2>1 DEF IInv, TypeOK, FiberState
  <2>3. f \in Registered /\ Registered' = Registered \ {f} /\ Owed' = Owed
    BY <1>1, <1>4, <2>2 DEF Registered, In, Owed
  <2>4. Counted' /\ pending' \in Nat  BY <2>1, <2>3, Balance DEF IInv
  <2>5. TypeOK'  BY <1>1, <2>1, <2>2, <2>4 DEF IInv, TypeOK
  <2>6. Queue'
    <3>1. \A i \in DOMAIN tasks : tasks[i] \in Fibers /\ tasks[i] # f
      BY <1>4 DEF IInv, Queue, TypeOK
    <3> QED  BY <2>1, <2>2, <3>1 DEF IInv, Queue
  <2>7. Runs' /\ Calling'  BY <1>1, <2>2 DEF IInv, Runs, Calling
  <2>8. Counts' /\ Asked' /\ Wakes'
    BY <1>1 DEF IInv, Counts, InIdle, Asked, Asking, Wakes, Falling
  <2> QED  BY <2>4, <2>5, <2>6, <2>7, <2>8 DEF IInv
<1>3. CASE f \notin Registered
  <2>1. UNCHANGED <<tasks, fstate, pending, unread, edge>>
    BY <1>3 DEF TriggerEvent, StillWaits
  <2>2. Counts' /\ Asked' /\ Wakes'
    BY <1>1, <2>1 DEF IInv, Counts, InIdle, Asked, Asking, Wakes, Falling
  <2> QED  BY <1>1, <2>1, <2>2, MovesKeep DEF IInv, TypeOK
<1> QED  BY <1>2, <1>3, <1>4 DEF Registered, In

(***************************************************************************)
(* The invariant                                                           *)
(***************************************************************************)
LEMMA IInvInit == Init => IInv
<1> SUFFICES ASSUME Init PROVE IInv
  OBVIOUS
<1> USE DEF Init
<1>1. Free \in CallState /\ Free.cancels = FALSE /\ Free.at = "free"
  BY DEF Free, CallState
<1>2. TypeOK
  <2>1. fstate \in [Fibers -> FiberState] /\ caller \in [Threads -> CallState]
    BY <1>1 DEF FiberState
  <2>2. tasks \in Seq(Fibers) /\ pending \in Nat /\ idle \in {0, 1}
    OBVIOUS
  <2>3. /\ pc \in PC /\ ready \subseteq Fibers /\ unheard \subseteq Fibers
        /\ late \subseteq Fibers /\ tickled \in BOOLEAN /\ limited \in BOOLEAN
    BY DEF PC
  <2> QED  BY <2>1, <2>2, <2>3 DEF TypeOK
<1>3. Counted
  <2>1. Registered = {} /\ Owed = {}  BY <1>1 DEF Registered, Timed, In, Owed
  <2> QED  BY <2>1, FS_EmptySet DEF Counted
<1>4. Queue /\ Runs /\ Counts /\ Asked /\ Calling /\ Wakes
  BY <1>1 DEF Queue, Runs, Counts, InIdle, Asked, Asking, Calling, Wakes, Falling
<1> QED  BY <1>2, <1>3, <1>4 DEF IInv

LEMMA IInvNext == IInv /\ [Next]_vars => IInv'
<1> SUFFICES ASSUME IInv, [Next]_vars PROVE IInv'
  OBVIOUS
<1>1. CASE UNCHANGED vars
  BY <1>1 DEF vars, IInv, TypeOK, Counted, Registered, Timed, In, Owed, Queue, Runs, Counts, Asked,
              Asking, Calling, Wakes, Rises, Queued
<1>2. CASE Worker \/ Interrupted
  BY <1>2, GoKeeps, TakeKeeps, LeaveKeeps, EpollWaitKeeps, ExpireKeeps,
     TriggerEventKeeps DEF Worker
<1>3. ASSUME NEW th \in Threads, Others(th) PROVE IInv'
  BY <1>3, OthersKeep
<1>4. ASSUME NEW th \in Threads, NEW f \in Fibers,
             Schedule(th, f) \/ CancelEvent(th, f)
      PROVE  IInv'
  BY <1>4, PushFromKeeps
<1>5. ASSUME NEW th \in Threads, Calls(th) PROVE IInv'
  BY <1>4, <1>5, CancelForeignKeeps, InsertKeeps DEF Calls
<1> QED  BY <1>1, <1>2, <1>3, <1>5, LonelyKeeps DEF Next

LEMMA IInvAlways == Spec => []IInv
BY IInvInit, IInvNext, PTL DEF Spec

(***************************************************************************)
(* The theorems                                                            *)
(***************************************************************************)
\* Every variable keeps its type: m_pendingEventCount and m_idleThreadCount
\* (iomanager.cc, scheduler.cc) never go below zero.
THEOREM TypeCorrect == Spec => []TypeOK
<1>1. IInv => TypeOK  BY DEF IInv
<1> QED  BY <1>1, IInvAlways, PTL

\* A worker in epoll_wait() with a task queued is woken through the pipe, or
\* the task came before the worker was counted as idle (scheduler.h, schedule();
\* iomanager.cc, tickle()): the wait for MAX_TIMEOUT is for those only.
THEOREM WakeUpAlwaysComing == Spec => []WakeUpComing
<1>1. IInv => WakeUpComing  BY DEF IInv, Wakes, Rises, Falling, WakeUpComing
<1> QED  BY <1>1, IInvAlways, PTL

\* stopping() asks for timers, events and tasks one after the other; when it
\* lets the idle fiber end, no task is left, and the only timers and events
\* left are those that other threads added after stopping() had asked for
\* their like (iomanager.cc, stopping() and idle(); timer.cc, addTimer()).
THEOREM IdleEndsOnlyDrained == Spec => IdleEndsDrained
<1>1. IInv /\ [Next]_vars =>
        [~idleEnded /\ idleEnded' =>
           tasks = <<>> /\ Registered \cup Timed \subseteq late]_vars
  <2> SUFFICES ASSUME IInv, Next, ~idleEnded, idleEnded'
               PROVE  tasks = <<>> /\ Registered \cup Timed \subseteq late
    BY DEF vars
  <2>1. EndIdle
    <3>1. ASSUME NEW th \in Threads PROVE Others(th) => idleEnded' = idleEnded
      BY DEF Others, Tickle, Write, CountOff
    <3>2. ASSUME NEW th \in Threads PROVE Calls(th) => idleEnded' = idleEnded
      BY DEF Calls, Schedule, CancelEvent, PushFrom, CancelForeign, AddTimerFrom,
             Reset, InsertFrom
    <3>3. ASSUME NEW f \in Fibers
          PROVE  Refresh(f) \/ CancelTimer(f) \/ AddForeign(f) \/ Approach(f)
                   => idleEnded' = idleEnded
      BY DEF Refresh, CancelTimer, AddForeign, Approach
    <3>4. Worker  BY <3>1, <3>2, <3>3 DEF Next, Interrupted
    <3> QED
      BY <3>4 DEF Worker, Stop, Take, FindNothing, LeaveRun, EnterIdle, Finish,
                  AddEvent, AddTimer, LeaveRunning, AskTimers, AskPending, KeepIdle,
                  EpollWait, ExpireNoMore, SeePipe, ReadPipe, Yield, LeaveIdle,
                  Expire, TriggerEvent, Go
  <2> QED  BY <2>1 DEF EndIdle, NothingLeft, Go, IInv, Asked, Asking
<1> QED  BY <1>1, IInvAlways, PTL DEF Spec, IdleEndsDrained
===================================================================================

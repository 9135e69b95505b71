-------------------------- MODULE Scheduler_proofs --------------------------
(***************************************************************************)
(* Proofs about Scheduler for any number of schedulers, fibers and         *)
(* closures.                                                               *)
(*                                                                         *)
(* The argument is that of a single owner.  As long as no fiber migrates   *)
(* with switchTo(), every reference to a fiber (queue entry, task taken,   *)
(* func_fiber, event context) belongs to one scheduler, its home, and one  *)
(* thread serves that scheduler.                                           *)
(*                                                                         *)
(* That no closure is lost or entered twice is a second argument, which    *)
(* migration does not disturb: see Holds and KInv.                         *)
(***************************************************************************)
EXTENDS Scheduler, SequenceTheorems, FiniteSetTheorems, TLAPS

InFiber == {"exec", "swapping", "back", "settle"}

\* Every reference to a fiber is held by the fiber's home.
Homes ==
  /\ \A s \in Sched, f \in Fibers : Queued(s, f) => home[f] = s
  /\ \A s \in Sched : cur[s].fiber # None => home[cur[s].fiber] = s
  /\ \A s \in Sched : funcFiber[s] # None => home[funcFiber[s]] = s
  /\ \A f \in Fibers : wake[f] # None => wake[f] = home[f]

\* A worker that is in a fiber knows which.
Entered == \A s \in Sched : pc[s] \in InFiber => Running(s) # None

\* The state of a fiber says what its home's thread is doing with it.
States ==
  /\ \A s \in Sched :
       /\ pc[s] = "exec" => fstate[Running(s)] = "EXEC"
       /\ pc[s] = "swapping" => fstate[Running(s)] = "HOLD"
       /\ pc[s] \in {"back", "settle"} =>
            fstate[Running(s)] \notin {"INIT", "EXEC"}
  /\ \A f \in Fibers : fstate[f] = "EXEC" \/ mustHold[f] =>
       /\ home[f] # None
       /\ pc[home[f]] = "exec"
       /\ Running(home[f]) = f

\* Nobody but the run() that owns the fiber refers to it.
Private(f) ==
  /\ wake[f] = None
  /\ \A t \in Sched : cur[t].fiber # f
  /\ \A t \in Sched : ~Queued(t, f)

\* run() has lent its func_fiber to the function that is suspended in it.
Lent(s) ==
  /\ pc[s] \in InFiber
  /\ IsFuncTask(s)
  /\ pc[s] = "exec" => mustHold[funcFiber[s]]
  /\ pc[s] \in {"back", "settle"} => fstate[funcFiber[s]] \notin Finished

FuncFibers == \A s \in Sched : funcFiber[s] # None =>
  /\ ~Lent(s) => Private(funcFiber[s])
  /\ ~(pc[s] \in InFiber /\ IsFuncTask(s)) => fstate[funcFiber[s]] = "INIT"

IInv == TypeOK /\ Homes /\ Entered /\ States /\ FuncFibers /\ NoFailedAssert
-----------------------------------------------------------------------------
\* Every entry of the new queues is an old entry, or t in the queue of s.
Adds(s, t) ==
  /\ tasks' \in [Sched -> Seq(Task)]
  /\ \A r \in Sched : \A i \in DOMAIN tasks'[r] :
       \/ \E j \in DOMAIN tasks[r] : tasks'[r][i] = tasks[r][j]
       \/ r = s /\ tasks'[r][i] = t

\* schedule() adds one entry to one queue.
LEMMA PushAdds ==
  ASSUME TypeOK, NEW s \in Sched, NEW t \in Task, Push(s, t)
  PROVE  Adds(s, t)
<1> DEFINE q == tasks[s]
<1>1. q \in Seq(Task) /\ tasks \in [Sched -> Seq(Task)]  BY DEF TypeOK
<1>2. /\ Append(q, t) \in Seq(Task)
      /\ Len(Append(q, t)) = Len(q) + 1
      /\ \A i \in 1 .. Len(q) : Append(q, t)[i] = q[i]
      /\ Append(q, t)[Len(q) + 1] = t
  BY <1>1, AppendProperties
<1>3. tasks' = [tasks EXCEPT ![s] = Append(q, t)]
  BY <1>1 DEF Push, Behind
<1>4. DOMAIN Append(q, t) = 1 .. Len(q) + 1 /\ DOMAIN q = 1 .. Len(q)
  BY <1>1, <1>2, LenProperties
<1> QED  BY <1>1, <1>2, <1>3, <1>4 DEF Adds

\* Where the entry that is at k after the i-th was erased had been.
Was(i, k) == IF k < i THEN k ELSE k + 1

\* The scan of run() erases exactly one entry and keeps the order.
LEMMA EraseExact ==
  ASSUME NEW q \in Seq(Task), NEW i \in DOMAIN q
  PROVE  /\ Erase(q, i) \in Seq(Task)
         /\ \A k \in DOMAIN Erase(q, i) :
              /\ Was(i, k) \in DOMAIN q /\ Was(i, k) # i
              /\ Erase(q, i)[k] = q[Was(i, k)]
         /\ \A j \in DOMAIN q : j # i =>
              \E k \in DOMAIN Erase(q, i) : Was(i, k) = j
         /\ \A k, l \in DOMAIN Erase(q, i) : Was(i, k) = Was(i, l) => k = l
<1> DEFINE a == SubSeq(q, 1, i - 1)
           b == SubSeq(q, i + 1, Len(q))
<1>1. Len(q) \in Nat /\ DOMAIN q = 1 .. Len(q) /\ i \in 1 .. Len(q)
  BY LenProperties
<1>2. /\ a \in Seq(Task) /\ Len(a) = i - 1
      /\ \A k \in 1 .. i - 1 : a[k] = q[k]
  BY <1>1, SubSeqProperties
<1>3. /\ b \in Seq(Task) /\ Len(b) = Len(q) - i
      /\ \A k \in 1 .. Len(q) - i : b[k] = q[k + i]
  BY <1>1, SubSeqProperties
<1>4. Erase(q, i) = a \o b  BY DEF Erase, RemoveAt
<1> HIDE DEF a, b
<1>5. /\ a \o b \in Seq(Task)
      /\ Len(a \o b) = Len(q) - 1
      /\ \A k \in 1 .. Len(q) - 1 :
           (a \o b)[k] = IF k <= i - 1 THEN a[k] ELSE b[k - (i - 1)]
  <2>1. /\ a \o b \in Seq(Task)
        /\ Len(a \o b) = Len(a) + Len(b)
        /\ \A k \in 1 .. Len(a) + Len(b) :
             (a \o b)[k] = IF k <= Len(a) THEN a[k] ELSE b[k - Len(a)]
    BY <1>2, <1>3, ConcatProperties
  <2>2. Len(a) = i - 1 /\ Len(a) + Len(b) = Len(q) - 1
    BY <1>1, <1>2, <1>3
  <2> QED  BY <2>1, <2>2
<1>6. DOMAIN Erase(q, i) = 1 .. Len(q) - 1  BY <1>4, <1>5, LenProperties
<1>7. ASSUME NEW k \in 1 .. Len(q) - 1
      PROVE  Erase(q, i)[k] = q[Was(i, k)]
  <2>1. CASE k <= i - 1
    BY <2>1, <1>1, <1>2, <1>4, <1>5 DEF Was
  <2>2. CASE ~(k <= i - 1)
    <3>1. k - (i - 1) \in 1 .. Len(q) - i /\ (k - (i - 1)) + i = k + 1
          /\ ~(k < i)
      BY <2>2, <1>1
    <3>2. (a \o b)[k] = b[k - (i - 1)]  BY <2>2, <1>5
    <3>3. b[k - (i - 1)] = q[(k - (i - 1)) + i]  BY <3>1, <1>3
    <3>4. q[(k - (i - 1)) + i] = q[k + 1]  BY <3>1
    <3> QED  BY <1>4, <3>1, <3>2, <3>3, <3>4 DEF Was
  <2> QED  BY <2>1, <2>2
<1>8. ASSUME NEW k \in 1 .. Len(q) - 1
      PROVE  Was(i, k) \in 1 .. Len(q) /\ Was(i, k) # i
  BY <1>1 DEF Was
<1>9. ASSUME NEW j \in 1 .. Len(q), j # i
      PROVE  \E k \in 1 .. Len(q) - 1 : Was(i, k) = j
  <2>1. CASE j < i
    <3>1. j \in 1 .. Len(q) - 1 /\ Was(i, j) = j  BY <1>1, <2>1 DEF Was
    <3> QED  BY <3>1
  <2>2. CASE ~(j < i)
    <3>1. j - 1 \in 1 .. Len(q) - 1 /\ Was(i, j - 1) = j
      BY <1>1, <1>9, <2>2 DEF Was
    <3> QED  BY <3>1
  <2> QED  BY <2>1, <2>2
<1>10. \A k, l \in 1 .. Len(q) - 1 : Was(i, k) = Was(i, l) => k = l
  BY <1>1 DEF Was
<1>11. Erase(q, i) \in Seq(Task) /\ DOMAIN q = 1 .. Len(q)
  BY <1>1, <1>4, <1>5
<1> QED  BY <1>6, <1>7, <1>8, <1>9, <1>10, <1>11

\* Taking a task from a queue adds nothing to any queue.
LEMMA TakeAdds ==
  ASSUME TypeOK, NEW s \in Sched, NEW i \in DOMAIN tasks[s],
         tasks' = [tasks EXCEPT ![s] = Erase(@, i)]
  PROVE  /\ tasks' \in [Sched -> Seq(Task)]
         /\ \A r \in Sched : \A k \in DOMAIN tasks'[r] :
              \E j \in DOMAIN tasks[r] : tasks'[r][k] = tasks[r][j]
<1>1. tasks[s] \in Seq(Task) /\ tasks \in [Sched -> Seq(Task)]
  BY DEF TypeOK
<1> QED  BY <1>1, EraseExact

\* Type correctness and the two thread counts are inductive together, with
\* or without migrating fibers.
Basic == TypeOK /\ CountsMatchWorker

\* Types and counts are right in the initial state.
LEMMA BasicInit == Init => Basic
  BY SchedulerAssumption
  DEF Init, Basic, TypeOK, CountsMatchWorker, PC, FiberState, Task, NoTask

\* The tasks that schedule() and run() build are tasks.
LEMMA TaskTypes ==
  /\ NoTask \in Task
  /\ \A f \in Fibers, p \in Pins : FiberTask(f, p) \in Task
  /\ \A f \in Fibers \cup {None} : FiberTask(f, AnyThread) \in Task
  /\ \A c \in Funcs, p \in Pins : FuncTask(c, p) \in Task
  BY SchedulerAssumption DEF Task, NoTask, FiberTask, FuncTask

USE DEF queueVars, stopVars, workerVars, fiberVars, history

\* Counting an entered closure keeps the type of the history.
LEMMA CountType ==
  ASSUME TypeOK, NEW c PROVE Count(c) \in [Funcs -> Nat]
<1>1. started \in [Funcs -> Nat]  BY DEF TypeOK
<1>2. CASE c \in Funcs  BY <1>1, <1>2 DEF Count
<1>3. CASE c \notin Funcs  BY <1>1, <1>3 DEF Count
<1> QED  BY <1>2, <1>3

\* The end of the process changes nothing else.
LEMMA BasicEnd ==
  ASSUME Basic, NEW how \in {"assert", "ub"}, End(how) PROVE Basic'
  BY DEF Basic, End, TypeOK, CountsMatchWorker

\* schedule() and waking events keep types and counts.
LEMMA BasicSubmit == ASSUME Basic, Submit PROVE Basic'
<1> USE DEF Basic, CountsMatchWorker
<1>1. ASSUME NEW s \in Sched, NEW c \in Funcs, NEW p \in Pins,
             ScheduleFunc(s, c, p)
      PROVE  Basic'
  <2>1. Adds(s, FuncTask(c, p))
    BY <1>1, PushAdds, TaskTypes DEF ScheduleFunc
  <2> QED  BY <1>1, <2>1 DEF ScheduleFunc, Adds, TypeOK
<1>2. ASSUME NEW s \in Sched, NEW c \in Funcs, NEW p \in Pins,
             NEW f \in Fibers, ScheduleFiber(s, f, c, p)
      PROVE  Basic'
  <2>1. Adds(s, FiberTask(f, p))
    BY <1>2, PushAdds, TaskTypes DEF ScheduleFiber
  <2> QED  BY <1>2, <2>1 DEF ScheduleFiber, Adds, TypeOK, FiberState
<1>3. ASSUME NEW s \in Sched, NEW f \in Fibers, ScheduleAgain(s, f)
      PROVE  Basic'
  <2>1. Adds(s, FiberTask(f, AnyThread))
    BY <1>3, PushAdds, TaskTypes DEF ScheduleAgain
  <2> QED  BY <1>3, <2>1 DEF ScheduleAgain, Adds, TypeOK
<1>4. ASSUME NEW f \in Fibers, Wake(f)
      PROVE  Basic'
  <2>1. wake[f] \in Sched  BY <1>4 DEF Wake, TypeOK
  <2>2. Adds(wake[f], FiberTask(f, AnyThread))
    BY <1>4, <2>1, PushAdds, TaskTypes DEF Wake, WakeTarget
  <2> QED  BY <1>4, <2>2 DEF Wake, Adds, TypeOK
<1> QED  BY <1>1, <1>2, <1>3, <1>4 DEF Submit

\* Every step of run() keeps types and counts: each branch undoes the
\* increment it made.
LEMMA BasicWorker ==
  ASSUME Basic, NEW s \in Sched, Worker(s) PROVE Basic'
<1> USE DEF Basic, CountsMatchWorker, PC
<1>1. CASE Take(s)
  <2>1. PICK i \in FirstEligible(s) :
          /\ cur' = [cur EXCEPT ![s] = tasks[s][i]]
          /\ tasks' = [tasks EXCEPT ![s] = Erase(@, i)]
    BY <1>1 DEF Take
  <2>2. i \in DOMAIN tasks[s]  BY DEF FirstEligible, Eligible
  <2>3. tasks' \in [Sched -> Seq(Task)]  BY <2>1, <2>2, TakeAdds
  <2>4. tasks[s][i] \in Task
    <3>1. tasks[s] \in Seq(Task)  BY DEF TypeOK
    <3> QED  BY <2>2, <3>1, ElementOfSeq, LenProperties
  <2>5. cur' \in [Sched -> Task]  BY <2>1, <2>4 DEF TypeOK
  <2> QED  BY <1>1, <2>3, <2>5 DEF Take, Up, TypeOK
<1>2. CASE TakeNothing(s)  BY <1>2 DEF TakeNothing, TypeOK
<1>3. CASE SkipFinished(s)
  BY <1>3, TaskTypes DEF SkipFinished, Down, TypeOK
<1>4. CASE Resume(s)
  <2>1. CASE \E how \in {"assert", "ub"} : End(how)
    BY <2>1, BasicEnd
  <2>2. CASE ~\E how \in {"assert", "ub"} : End(how)
    <3>1. PICK f \in Fibers :
            /\ fstate' = [fstate EXCEPT ![f] = "EXEC"]
            /\ started' \in {Count(body[f]), started}
            /\ pc' = [pc EXCEPT ![s] = "exec"]
            /\ UNCHANGED <<queueVars, stopVars, cur, funcFiber, idleState,
                           idle, body, wake, mustHold, home, submitted, proc>>
      BY <1>4, <2>2 DEF Resume
    <3>2. started' \in [Funcs -> Nat]  BY <3>1 DEF Count, TypeOK
    <3>3. pc[s] = "taken"  BY <1>4 DEF Resume
    <3> QED  BY <3>1, <3>2, <3>3 DEF TypeOK, FiberState
  <2> QED  BY <2>1, <2>2
<1>5. CASE Launch(s)
  <2>1. CASE End("assert")  BY <2>1, BasicEnd
  <2>2. CASE ~End("assert")
    <3>1. PICK f \in Fibers :
            /\ funcFiber' = [funcFiber EXCEPT ![s] = f]
            /\ fstate' = [fstate EXCEPT ![f] = "EXEC"]
            /\ body' = [body EXCEPT ![f] = cur[s].func]
            /\ home' = [home EXCEPT ![f] = s]
            /\ started' = Count(cur[s].func)
            /\ cur' = [cur EXCEPT ![s] = NoTask]
            /\ pc' = [pc EXCEPT ![s] = "exec"]
            /\ UNCHANGED <<queueVars, stopVars, idleState, idle, wake,
                           mustHold, submitted, proc>>
      BY <1>5, <2>2 DEF Launch
    <3>2. started' \in [Funcs -> Nat]  BY <3>1, CountType
    <3>3. body' \in [Fibers -> Funcs \cup {None}]
      BY <3>1 DEF TypeOK, Task
    <3>4. pc[s] = "taken"  BY <1>5 DEF Launch
    <3> QED  BY <3>1, <3>2, <3>3, <3>4, TaskTypes DEF TypeOK, FiberState
  <2> QED  BY <2>1, <2>2
<1>6. CASE Back(s)  BY <1>6 DEF Back, Down, TypeOK
<1>7. CASE Settle(s)
  <2> DEFINE f == Running(s)
  <2>0. f \in Fibers \cup {None}  BY DEF TypeOK, Task, Running
  <2>1. tasks' \in [Sched -> Seq(Task)]
    <3>1. CASE Requeues(f)
      <4>1. Push(s, FiberTask(f, AnyThread))
        BY <1>7, <3>1 DEF Settle, Push
      <4> QED  BY <4>1, <2>0, PushAdds, TaskTypes DEF Adds
    <3>2. CASE ~Requeues(f)  BY <1>7, <3>2 DEF Settle, TypeOK
    <3> QED  BY <3>1, <3>2
  <2>2. fstate' \in [Fibers -> FiberState]
    <3>1. fstate' \in {[fstate EXCEPT ![f] = "INIT"],
                      [fstate EXCEPT ![f] = "HOLD"], fstate}
      BY <1>7 DEF Settle
    <3> QED  BY <3>1 DEF TypeOK, FiberState
  <2>3. body' \in [Fibers -> Funcs \cup {None}]
    BY <1>7 DEF Settle, TypeOK
  <2> QED  BY <1>7, <2>1, <2>2, <2>3, TaskTypes DEF Settle, TypeOK
<1>8. CASE EnterIdle(s)  BY <1>8 DEF EnterIdle, Up, TypeOK, FiberState
<1>9. CASE IdleCheck(s)  BY <1>9 DEF IdleCheck, TypeOK, FiberState
<1>10. CASE LeaveIdle(s)  BY <1>10 DEF LeaveIdle, Down, TypeOK
<1>11. CASE LeaveRun(s)  BY <1>11 DEF LeaveRun, TypeOK
<1> QED  BY <1>1, <1>2, <1>3, <1>4, <1>5, <1>6, <1>7, <1>8, <1>9, <1>10,
            <1>11 DEF Worker

\* Every step of a fiber keeps types and counts.
LEMMA BasicBody ==
  ASSUME Basic, NEW s \in Sched, Body(s) PROVE Basic'
<1> USE DEF Basic, CountsMatchWorker, PC
<1>1. CASE Return(s)  BY <1>1 DEF Return, TypeOK, FiberState
<1>2. CASE YieldToReady(s)
  BY <1>2 DEF YieldToReady, End, TypeOK, FiberState
<1>3. CASE Register(s)  BY <1>3 DEF Register, TypeOK
<1>4. CASE YieldToHold(s)
  <2>1. CASE End("assert")  BY <2>1, BasicEnd
  <2>2. CASE ~End("assert")
    <3> DEFINE f == Running(s)
    <3>1. /\ fstate' = [fstate EXCEPT ![f] = "HOLD"]
          /\ mustHold' = [mustHold EXCEPT ![f] = FALSE]
          /\ pc[s] = "exec" /\ pc' = [pc EXCEPT ![s] = "swapping"]
          /\ UNCHANGED <<queueVars, stopVars, cur, funcFiber, idleState,
                         idle, body, wake, home, history, proc>>
      BY <1>4, <2>2 DEF YieldToHold
    <3> QED  BY <3>1 DEF TypeOK, FiberState
  <2> QED  BY <2>1, <2>2
<1>5. CASE SwapOut(s)  BY <1>5 DEF SwapOut, TypeOK
<1>6. ASSUME NEW t \in Sched, SwitchTo(s, t) PROVE Basic'
  <2> DEFINE f == Running(s)
  <2>1. f \in Fibers \cup {None}  BY DEF TypeOK, Task, Running
  <2>2. Adds(t, FiberTask(f, AnyThread))
    BY <1>6, <2>1, PushAdds, TaskTypes DEF SwitchTo
  <2>3. home' \in [Fibers -> Sched \cup {None}]
        /\ mustHold' \in [Fibers -> BOOLEAN]
    BY <1>6 DEF SwitchTo, TypeOK
  <2> QED  BY <1>6, <2>2, <2>3 DEF SwitchTo, Adds, TypeOK
<1> QED  BY <1>1, <1>2, <1>3, <1>4, <1>5, <1>6 DEF Body

\* Types and counts are inductive.
LEMMA BasicNext == Basic /\ [Next]_vars => Basic'
<1> SUFFICES ASSUME Basic, [Next]_vars PROVE Basic'  OBVIOUS
<1>1. CASE Submit  BY <1>1, BasicSubmit
<1>2. ASSUME NEW s \in Sched, Start(s) PROVE Basic'
  BY <1>2 DEF Start, Basic, TypeOK, CountsMatchWorker
<1>3. ASSUME NEW s \in Sched, Stop(s) PROVE Basic'
  BY <1>3 DEF Stop, Basic, TypeOK, CountsMatchWorker, PC
<1>4. ASSUME NEW s \in Sched, Worker(s) PROVE Basic'
  BY <1>4, BasicWorker
<1>5. ASSUME NEW s \in Sched, Body(s) PROVE Basic'  BY <1>5, BasicBody
<1>6. CASE UNCHANGED vars
  BY <1>6 DEF vars, Basic, TypeOK, CountsMatchWorker
<1> QED  BY <1>1, <1>2, <1>3, <1>4, <1>5, <1>6 DEF Next, Ended

\* Every variable keeps its type, for any number of schedulers, fibers and
\* closures and whatever task bodies do; in particular the counters of run()
\* never go below zero.
THEOREM TypeCorrect == Spec => []TypeOK
<1>1. Basic => TypeOK  BY DEF Basic
<1> QED  BY <1>1, BasicInit, BasicNext, PTL DEF Spec

\* m_activeThreadCount and m_idleThreadCount always say what the worker is
\* doing, so stopping() never misses a task that is still being run.
THEOREM CountsCorrect == Spec => []CountsMatchWorker
<1>1. Basic => CountsMatchWorker  BY DEF Basic
<1> QED  BY <1>1, BasicInit, BasicNext, PTL DEF Spec
-----------------------------------------------------------------------------
(***************************************************************************)
(* Single owner: no fiber migrates, and start() makes no extra threads.    *)
(***************************************************************************)
NoMigration == "switch" \notin Ops /\ \A s \in Sched : ExtraThreads[s] = 0

\* The single-owner invariant holds initially.
LEMMA IInvInit == Init => IInv
<1> SUFFICES ASSUME Init PROVE IInv  OBVIOUS
<1>1. TypeOK  BY BasicInit DEF Basic
<1>2. Homes /\ Entered  BY DEF Init, Homes, Entered, InFiber, NoTask, Queued
<1>3. States  BY DEF Init, States
<1>4. FuncFibers /\ NoFailedAssert
  BY DEF Init, FuncFibers, NoFailedAssert
<1> QED  BY <1>1, <1>2, <1>3, <1>4 DEF IInv

\* What Adds says about fibers in queues.
LEMMA AddsQueued ==
  ASSUME TypeOK, NEW s \in Sched, NEW t \in Task, Adds(s, t)
  PROVE  \A r \in Sched, f \in Fibers :
           Queued(r, f)' => Queued(r, f) \/ (r = s /\ t.fiber = f)
  BY DEF Adds, Queued

\* schedule() of a function refers to no fiber.
LEMMA IInvScheduleFunc ==
  ASSUME IInv, TypeOK', NEW s \in Sched, NEW c \in Funcs, NEW p \in Pins,
         ScheduleFunc(s, c, p)
  PROVE  IInv'
<1> USE DEF IInv, ScheduleFunc
<1>1. \A r \in Sched, f \in Fibers : Queued(r, f)' => Queued(r, f)
  <2>1. FuncTask(c, p) \in Task /\ FuncTask(c, p).fiber = None
    BY TaskTypes DEF FuncTask
  <2>2. Adds(s, FuncTask(c, p))  BY <2>1, PushAdds
  <2> QED  BY <2>1, <2>2, AddsQueued, SchedulerAssumption
<1>2. Homes' /\ Entered' /\ States'
  BY <1>1 DEF Homes, Entered, States, Running
<1>3. FuncFibers'
  BY <1>1 DEF FuncFibers, Private, Lent, IsFuncTask, TypeOK
<1> QED  BY <1>2, <1>3 DEF NoFailedAssert

\* schedule() of a new fiber makes the scheduler its home.
LEMMA IInvScheduleFiber ==
  ASSUME IInv, TypeOK', NEW s \in Sched, NEW c \in Funcs, NEW p \in Pins,
         NEW f \in Fibers, ScheduleFiber(s, f, c, p)
  PROVE  IInv'
<1> USE DEF IInv, ScheduleFiber
<1>1. \A r \in Sched, g \in Fibers :
        Queued(r, g)' => Queued(r, g) \/ (r = s /\ g = f)
  <2>1. FiberTask(f, p) \in Task /\ FiberTask(f, p).fiber = f
    BY TaskTypes DEF FiberTask
  <2>2. Adds(s, FiberTask(f, p))  BY <2>1, PushAdds
  <2> QED  BY <2>1, <2>2, AddsQueued
<1>2. /\ \A t \in Sched : ~Queued(t, f) /\ cur[t].fiber # f /\ funcFiber[t] # f
      /\ wake[f] = None
  BY DEF Free, Referenced
<1>3. Homes'  BY <1>1, <1>2 DEF Homes, TypeOK, Task
<1>4. \A t \in Sched : Running(t) # f /\ Running(t)' = Running(t)
  BY <1>2 DEF Running
<1>5. Entered'  BY <1>4 DEF Entered
<1>6. States'  BY <1>4 DEF States, Entered, TypeOK, InFiber, Running, Task
<1>7. FuncFibers'
  BY <1>1, <1>2 DEF FuncFibers, Private, Lent, IsFuncTask, TypeOK
<1> QED  BY <1>3, <1>5, <1>6, <1>7 DEF NoFailedAssert

\* A second schedule() of a fiber goes to the queue it is in.
LEMMA IInvScheduleAgain ==
  ASSUME IInv, TypeOK', NEW s \in Sched, NEW f \in Fibers,
         ScheduleAgain(s, f)
  PROVE  IInv'
<1> USE DEF IInv, ScheduleAgain
<1>1. \A r \in Sched, g \in Fibers : Queued(r, g)' => Queued(r, g)
  <2>1. FiberTask(f, AnyThread) \in Task /\ FiberTask(f, AnyThread).fiber = f
    BY TaskTypes DEF FiberTask
  <2>2. Adds(s, FiberTask(f, AnyThread))  BY <2>1, PushAdds
  <2> QED  BY <2>1, <2>2, AddsQueued
<1>2. Homes' /\ Entered' /\ States'
  BY <1>1 DEF Homes, Entered, States, Running
<1>3. FuncFibers'
  BY <1>1 DEF FuncFibers, Private, Lent, IsFuncTask, TypeOK
<1> QED  BY <1>2, <1>3 DEF NoFailedAssert

\* An event returns the fiber to its home.
LEMMA IInvWake ==
  ASSUME IInv, TypeOK', NEW f \in Fibers, Wake(f)
  PROVE  IInv'
<1> USE DEF IInv, Wake
<1>1. wake[f] \in Sched /\ wake[f] = home[f]  BY DEF TypeOK, Homes
<1>2. \A r \in Sched, g \in Fibers :
        Queued(r, g)' => Queued(r, g) \/ (r = home[f] /\ g = f)
  <2>1. FiberTask(f, AnyThread) \in Task /\ FiberTask(f, AnyThread).fiber = f
    BY TaskTypes DEF FiberTask
  <2>2. Adds(wake[f], FiberTask(f, AnyThread))
    BY <1>1, <2>1, PushAdds DEF WakeTarget
  <2> QED  BY <1>1, <2>1, <2>2, AddsQueued
<1>3. Homes' /\ Entered' /\ States'
  BY <1>2 DEF Homes, Entered, States, Running, TypeOK
<1>4. FuncFibers'
  BY <1>2 DEF FuncFibers, Private, Lent, IsFuncTask, TypeOK
<1> QED  BY <1>3, <1>4 DEF NoFailedAssert

\* The fiber a thread is in belongs to that thread's scheduler ...
LEMMA RunningOwned ==
  ASSUME IInv, NEW s \in Sched, pc[s] \in InFiber
  PROVE  Running(s) \in Fibers /\ home[Running(s)] = s
  BY DEF IInv, Entered, Running, TypeOK, Task, Homes

\* ... and is a func_fiber only while a function task is run in it.
LEMMA RunningFuncFiber ==
  ASSUME IInv, NEW s \in Sched, NEW t \in Sched, pc[s] \in InFiber,
         funcFiber[t] # None, Running(s) = funcFiber[t]
  PROVE  s = t /\ IsFuncTask(s)
<1>1. s = t  BY RunningOwned DEF IInv, Homes
<1>2. ASSUME ~IsFuncTask(s) PROVE FALSE
  <2>1. cur[s].fiber = funcFiber[s]  BY <1>1, <1>2 DEF Running, IsFuncTask
  <2> QED  BY <1>1, <1>2, <2>1 DEF IInv, FuncFibers, Lent, Private
<1> QED  BY <1>1, <1>2

\* A step that only changes the state of the running fiber keeps func_fibers
\* private unless they are lent.
LEMMA FuncFibersKept ==
  ASSUME IInv, NEW s \in Sched, pc[s] \in InFiber, NEW p \in InFiber,
         pc' = [pc EXCEPT ![s] = p],
         UNCHANGED <<tasks, cur, funcFiber, wake>>,
         \A g \in Fibers : g # Running(s) =>
           fstate'[g] = fstate[g] /\ mustHold'[g] = mustHold[g],
         Lent(s) => Lent(s)'
  PROVE  FuncFibers'
<1> SUFFICES ASSUME NEW t \in Sched, funcFiber[t] # None
             PROVE  /\ ~Lent(t)' => Private(funcFiber[t])'
                    /\ ~(pc'[t] \in InFiber /\ IsFuncTask(t)') =>
                         fstate'[funcFiber[t]] = "INIT"
  BY DEF FuncFibers
<1>1. funcFiber[t] \in Fibers /\ pc \in [Sched -> PC]  BY DEF IInv, TypeOK
<1>2. Private(funcFiber[t]) => Private(funcFiber[t])'
  BY DEF Private, Queued
<1>3. IsFuncTask(t)' = IsFuncTask(t)  BY DEF IsFuncTask
<1>4. CASE funcFiber[t] = Running(s)
  <2>1. s = t /\ IsFuncTask(s)  BY <1>4, RunningFuncFiber
  <2> QED  BY <1>1, <1>2, <1>3, <2>1 DEF IInv, FuncFibers
<1>5. CASE funcFiber[t] # Running(s)
  <2>1. ~(t = s /\ IsFuncTask(t))  BY <1>5 DEF IsFuncTask, Running
  <2>2. Lent(t) => Lent(t)'
    BY <1>1, <1>3, <1>5, <2>1 DEF Lent
  <2> QED  BY <1>1, <1>2, <1>3, <1>5, <2>1, <2>2 DEF IInv, FuncFibers
<1> QED  BY <1>4, <1>5

\* stop() touches no fiber.
LEMMA IInvStop ==
  ASSUME IInv, TypeOK', NEW s \in Sched, Stop(s)
  PROVE  IInv'
<1> USE DEF IInv, Stop
<1>1. \A r \in Sched, g \in Fibers : Queued(r, g)' = Queued(r, g)
  BY DEF Queued
<1>2. Homes'  BY <1>1 DEF Homes, TypeOK, NoTask
<1>3. Entered'  BY DEF Entered, InFiber, Running, TypeOK, NoTask
<1>4. States'
  BY DEF States, Entered, InFiber, Running, TypeOK, Task, NoTask, PC
<1>5. FuncFibers'
  BY <1>1 DEF FuncFibers, Private, Lent, IsFuncTask, InFiber, Running, TypeOK,
              Task, NoTask, PC, States
<1>6. NoFailedAssert'  BY DEF NoFailedAssert
<1> QED  BY <1>2, <1>3, <1>4, <1>5, <1>6

\* A scan that finds nothing touches no fiber.
LEMMA IInvTakeNothing ==
  ASSUME IInv, TypeOK', NEW s \in Sched, TakeNothing(s)
  PROVE  IInv'
<1> USE DEF IInv, TakeNothing
<1>1. \A r \in Sched, g \in Fibers : Queued(r, g)' = Queued(r, g)
  BY DEF Queued
<1>2. Homes'  BY <1>1 DEF Homes, TypeOK, NoTask
<1>3. Entered'  BY DEF Entered, InFiber, Running, TypeOK, NoTask
<1>4. States'
  BY DEF States, Entered, InFiber, Running, TypeOK, Task, NoTask, PC
<1>5. FuncFibers'
  BY <1>1 DEF FuncFibers, Private, Lent, IsFuncTask, InFiber, Running, TypeOK,
              Task, NoTask, PC, States
<1>6. NoFailedAssert'  BY DEF NoFailedAssert
<1> QED  BY <1>2, <1>3, <1>4, <1>5, <1>6

\* Dropping a finished fiber only drops a reference.
LEMMA IInvSkipFinished ==
  ASSUME IInv, TypeOK', NEW s \in Sched, SkipFinished(s)
  PROVE  IInv'
<1> USE DEF IInv, SkipFinished
<1>1. \A r \in Sched, g \in Fibers : Queued(r, g)' = Queued(r, g)
  BY DEF Queued
<1>2. Homes'  BY <1>1 DEF Homes, TypeOK, NoTask
<1>3. Entered'  BY DEF Entered, InFiber, Running, TypeOK, NoTask
<1>4. States'
  BY DEF States, Entered, InFiber, Running, TypeOK, Task, NoTask, PC
<1>5. FuncFibers'
  BY <1>1 DEF FuncFibers, Private, Lent, IsFuncTask, InFiber, Running, TypeOK,
              Task, NoTask, PC, States
<1>6. NoFailedAssert'  BY DEF NoFailedAssert
<1> QED  BY <1>2, <1>3, <1>4, <1>5, <1>6

\* The return from swapIn() touches no fiber.
LEMMA IInvBack ==
  ASSUME IInv, TypeOK', NEW s \in Sched, Back(s)
  PROVE  IInv'
<1> USE DEF IInv, Back
<1>1. \A r \in Sched, g \in Fibers : Queued(r, g)' = Queued(r, g)
  BY DEF Queued
<1>2. Homes'  BY <1>1 DEF Homes, TypeOK, NoTask
<1>3. Entered'  BY DEF Entered, InFiber, Running, TypeOK, NoTask
<1>4. States'
  BY DEF States, Entered, InFiber, Running, TypeOK, Task, NoTask, PC
<1>5. FuncFibers'
  BY <1>1 DEF FuncFibers, Private, Lent, IsFuncTask, InFiber, Running, TypeOK,
              Task, NoTask, PC, States
<1>6. NoFailedAssert'  BY DEF NoFailedAssert
<1> QED  BY <1>2, <1>3, <1>4, <1>5, <1>6

\* Entering the idle fiber touches no task fiber.
LEMMA IInvEnterIdle ==
  ASSUME IInv, TypeOK', NEW s \in Sched, EnterIdle(s)
  PROVE  IInv'
<1> USE DEF IInv, EnterIdle
<1>1. \A r \in Sched, g \in Fibers : Queued(r, g)' = Queued(r, g)
  BY DEF Queued
<1>2. Homes'  BY <1>1 DEF Homes, TypeOK, NoTask
<1>3. Entered'  BY DEF Entered, InFiber, Running, TypeOK, NoTask
<1>4. States'
  BY DEF States, Entered, InFiber, Running, TypeOK, Task, NoTask, PC
<1>5. FuncFibers'
  BY <1>1 DEF FuncFibers, Private, Lent, IsFuncTask, InFiber, Running, TypeOK,
              Task, NoTask, PC, States
<1>6. NoFailedAssert'  BY DEF NoFailedAssert
<1> QED  BY <1>2, <1>3, <1>4, <1>5, <1>6

\* Nor does a round of idle().
LEMMA IInvIdleCheck ==
  ASSUME IInv, TypeOK', NEW s \in Sched, IdleCheck(s)
  PROVE  IInv'
<1> USE DEF IInv, IdleCheck
<1>1. \A r \in Sched, g \in Fibers : Queued(r, g)' = Queued(r, g)
  BY DEF Queued
<1>2. Homes'  BY <1>1 DEF Homes, TypeOK, NoTask
<1>3. Entered'  BY DEF Entered, InFiber, Running, TypeOK, NoTask
<1>4. States'
  BY DEF States, Entered, InFiber, Running, TypeOK, Task, NoTask, PC
<1>5. FuncFibers'
  BY <1>1 DEF FuncFibers, Private, Lent, IsFuncTask, InFiber, Running, TypeOK,
              Task, NoTask, PC, States
<1>6. NoFailedAssert'  BY DEF NoFailedAssert
<1> QED  BY <1>2, <1>3, <1>4, <1>5, <1>6

\* Nor does leaving the idle fiber.
LEMMA IInvLeaveIdle ==
  ASSUME IInv, TypeOK', NEW s \in Sched, LeaveIdle(s)
  PROVE  IInv'
<1> USE DEF IInv, LeaveIdle
<1>1. \A r \in Sched, g \in Fibers : Queued(r, g)' = Queued(r, g)
  BY DEF Queued
<1>2. Homes'  BY <1>1 DEF Homes, TypeOK, NoTask
<1>3. Entered'  BY DEF Entered, InFiber, Running, TypeOK, NoTask
<1>4. States'
  BY DEF States, Entered, InFiber, Running, TypeOK, Task, NoTask, PC
<1>5. FuncFibers'
  BY <1>1 DEF FuncFibers, Private, Lent, IsFuncTask, InFiber, Running, TypeOK,
              Task, NoTask, PC, States
<1>6. NoFailedAssert'  BY DEF NoFailedAssert
<1> QED  BY <1>2, <1>3, <1>4, <1>5, <1>6

\* Nor does the end of run().
LEMMA IInvLeaveRun ==
  ASSUME IInv, TypeOK', NEW s \in Sched, LeaveRun(s)
  PROVE  IInv'
<1> USE DEF IInv, LeaveRun
<1>1. \A r \in Sched, g \in Fibers : Queued(r, g)' = Queued(r, g)
  BY DEF Queued
<1>2. Homes'  BY <1>1 DEF Homes, TypeOK, NoTask
<1>3. Entered'  BY DEF Entered, InFiber, Running, TypeOK, NoTask
<1>4. States'
  BY DEF States, Entered, InFiber, Running, TypeOK, Task, NoTask, PC
<1>5. FuncFibers'
  BY <1>1 DEF FuncFibers, Private, Lent, IsFuncTask, InFiber, Running, TypeOK,
              Task, NoTask, PC, States
<1>6. NoFailedAssert'  BY DEF NoFailedAssert
<1> QED  BY <1>2, <1>3, <1>4, <1>5, <1>6

\* Saving the context changes who executes, not who owns.
LEMMA IInvSwapOut ==
  ASSUME IInv, TypeOK', NEW s \in Sched, SwapOut(s)
  PROVE  IInv'
<1> USE DEF IInv, SwapOut
<1>1. \A r \in Sched, g \in Fibers : Queued(r, g)' = Queued(r, g)
  BY DEF Queued
<1>2. Homes'  BY <1>1 DEF Homes, TypeOK, NoTask
<1>3. Entered'  BY DEF Entered, InFiber, Running, TypeOK, NoTask
<1>4. States'
  BY DEF States, Entered, InFiber, Running, TypeOK, Task, NoTask, PC
<1>5. FuncFibers'
  <2>1. Lent(s) => Lent(s)'
    BY DEF Lent, IsFuncTask, Running, InFiber, States, TypeOK, Finished
  <2> QED  BY <2>1, FuncFibersKept DEF InFiber
<1>6. NoFailedAssert'  BY DEF NoFailedAssert
<1> QED  BY <1>2, <1>3, <1>4, <1>5, <1>6

\* start() is harmless as long as it makes no thread.
LEMMA IInvStart ==
  ASSUME IInv, TypeOK', NEW s \in Sched, NoMigration, Start(s)
  PROVE  IInv'
<1> USE DEF IInv, Start
<1>1. \A r \in Sched, g \in Fibers : Queued(r, g)' = Queued(r, g)
  BY DEF Queued
<1>2. Homes'  BY <1>1 DEF Homes, TypeOK, NoTask
<1>3. Entered'  BY DEF Entered, InFiber, Running, TypeOK, NoTask
<1>4. States'
  BY DEF States, Entered, InFiber, Running, TypeOK, Task, NoTask, PC
<1>5. FuncFibers'
  BY <1>1 DEF FuncFibers, Private, Lent, IsFuncTask, InFiber, Running, TypeOK,
              Task, NoTask, PC, States
<1>6. NoFailedAssert'  BY SchedulerAssumption DEF NoFailedAssert, NoMigration
<1> QED  BY <1>2, <1>3, <1>4, <1>5, <1>6

\* A function that returns leaves its fiber to its home.
LEMMA IInvReturn ==
  ASSUME IInv, TypeOK', NEW s \in Sched, Return(s)
  PROVE  IInv'
<1> DEFINE f == Running(s)
<1> USE DEF IInv
<1>1. f \in Fibers /\ home[f] = s
  BY RunningOwned DEF Return, InFiber
<1>2. PICK v \in Finished :
        /\ pc[s] = "exec" /\ pc' = [pc EXCEPT ![s] = "back"]
        /\ fstate' = [fstate EXCEPT ![f] = v]
        /\ ~mustHold[f]
        /\ UNCHANGED <<tasks, cur, funcFiber, wake, mustHold, home, proc>>
  BY DEF Return, Finished
<1>3. \A t \in Sched : Running(t)' = Running(t)  BY <1>2 DEF Running
<1>4. Homes'  BY <1>2 DEF Homes, Queued
<1>5. Entered'  BY <1>2, <1>3 DEF Entered, InFiber, TypeOK
<1>6. States'
  <2>1. \A t \in Sched : t # s /\ pc[t] \in InFiber => Running(t) # f
    BY <1>1, RunningOwned
  <2> QED
    BY <1>1, <1>2, <1>3, <2>1 DEF States, TypeOK, InFiber, Finished
<1>7. FuncFibers'
  <2>1. Lent(s) => Lent(s)'
    BY <1>1, <1>2 DEF Lent, IsFuncTask, Running, InFiber, TypeOK
  <2>2. \A g \in Fibers : g # Running(s) =>
           fstate'[g] = fstate[g] /\ mustHold'[g] = mustHold[g]
    BY <1>2 DEF TypeOK
  <2> QED  BY <1>2, <2>1, <2>2, FuncFibersKept DEF InFiber
<1>8. NoFailedAssert'  BY <1>2 DEF NoFailedAssert
<1> QED  BY <1>4, <1>5, <1>6, <1>7, <1>8

\* A fiber that registers for an event names its home.
LEMMA IInvRegister ==
  ASSUME IInv, TypeOK', NEW s \in Sched, Register(s)
  PROVE  IInv'
<1> USE DEF IInv, Register
<1>1. \A r \in Sched, g \in Fibers : Queued(r, g)' = Queued(r, g)
  BY DEF Queued
<1>2. Homes'  BY <1>1 DEF Homes, TypeOK, Running, Entered, InFiber, Task, NoTask
<1>3. Entered'  BY DEF Entered, InFiber, Running, TypeOK, NoTask
<1>4. States'
  <2>1. /\ Running(s) \in Fibers /\ home[Running(s)] = s
    BY RunningOwned DEF InFiber
  <2>2. \A t \in Sched : Running(t)' = Running(t)  BY DEF Running
  <2> QED  BY <2>1, <2>2 DEF States, TypeOK
<1>5. FuncFibers'
  BY <1>1 DEF FuncFibers, Private, Lent, IsFuncTask, InFiber, Running, TypeOK,
              Task, NoTask, PC, States, Homes, Entered
<1>6. NoFailedAssert'  BY DEF NoFailedAssert
<1> QED  BY <1>2, <1>3, <1>4, <1>5, <1>6

\* YieldToReady() is called by the fiber that is EXEC.
LEMMA IInvYieldToReady ==
  ASSUME IInv, TypeOK', NEW s \in Sched, YieldToReady(s)
  PROVE  IInv'
<1> DEFINE f == Running(s)
<1> USE DEF IInv
<1>1. f \in Fibers /\ fstate[f] = "EXEC" /\ home[f] = s
  BY RunningOwned DEF YieldToReady, States, InFiber
<1>2. /\ pc[s] = "exec" /\ pc' = [pc EXCEPT ![s] = "back"]
      /\ fstate' = [fstate EXCEPT ![f] = "READY"]
      /\ UNCHANGED mustHold /\ ~mustHold[f]
      /\ UNCHANGED <<tasks, cur, funcFiber, wake, home, proc>>
  BY <1>1 DEF YieldToReady
<1>3. \A t \in Sched : Running(t)' = Running(t)  BY <1>2 DEF Running
<1>4. Homes'  BY <1>2 DEF Homes, Queued
<1>5. Entered'  BY <1>2, <1>3 DEF Entered, InFiber, TypeOK
<1>6. States'
  <2>1. \A t \in Sched : t # s /\ pc[t] \in InFiber => Running(t) # f
    BY <1>1, RunningOwned
  <2> QED  BY <1>1, <1>2, <1>3, <2>1 DEF States, TypeOK, InFiber
<1>7. FuncFibers'
  <2>1. Lent(s) => Lent(s)'
    BY <1>1, <1>2 DEF Lent, IsFuncTask, Running, InFiber, TypeOK, Finished
  <2>2. \A g \in Fibers : g # Running(s) =>
           fstate'[g] = fstate[g] /\ mustHold'[g] = mustHold[g]
    BY <1>2 DEF TypeOK
  <2> QED  BY <1>2, <2>1, <2>2, FuncFibersKept DEF InFiber
<1>8. NoFailedAssert'  BY <1>2 DEF NoFailedAssert
<1> QED  BY <1>4, <1>5, <1>6, <1>7, <1>8

\* So is YieldToHold().
LEMMA IInvYieldToHold ==
  ASSUME IInv, TypeOK', NEW s \in Sched, YieldToHold(s)
  PROVE  IInv'
<1> DEFINE f == Running(s)
<1> USE DEF IInv
<1>1. f \in Fibers /\ fstate[f] = "EXEC" /\ home[f] = s
  BY RunningOwned DEF YieldToHold, States, InFiber
<1>2. /\ pc[s] = "exec" /\ pc' = [pc EXCEPT ![s] = "swapping"]
      /\ fstate' = [fstate EXCEPT ![f] = "HOLD"]
      /\ mustHold' = [mustHold EXCEPT ![f] = FALSE] /\ mustHold[f]
      /\ UNCHANGED <<tasks, cur, funcFiber, wake, home, proc>>
  BY <1>1 DEF YieldToHold
<1>3. \A t \in Sched : Running(t)' = Running(t)  BY <1>2 DEF Running
<1>4. Homes'  BY <1>2 DEF Homes, Queued
<1>5. Entered'  BY <1>2, <1>3 DEF Entered, InFiber, TypeOK
<1>6. States'
  <2>1. \A t \in Sched : t # s /\ pc[t] \in InFiber => Running(t) # f
    BY <1>1, RunningOwned
  <2> QED  BY <1>1, <1>2, <1>3, <2>1 DEF States, TypeOK, InFiber
<1>7. FuncFibers'
  <2>1. Lent(s) => Lent(s)'
    BY <1>1, <1>2 DEF Lent, IsFuncTask, Running, InFiber, TypeOK, Finished
  <2>2. \A g \in Fibers : g # Running(s) =>
           fstate'[g] = fstate[g] /\ mustHold'[g] = mustHold[g]
    BY <1>2 DEF TypeOK
  <2> QED  BY <1>2, <2>1, <2>2, FuncFibersKept DEF InFiber
<1>8. NoFailedAssert'  BY <1>2 DEF NoFailedAssert
<1> QED  BY <1>4, <1>5, <1>6, <1>7, <1>8

\* Taking a task moves a reference from the queue to run().
LEMMA IInvTake ==
  ASSUME IInv, TypeOK', NEW s \in Sched, Take(s)
  PROVE  IInv'
<1> USE DEF IInv
<1>1. PICK i \in DOMAIN tasks[s] :
        /\ cur' = [cur EXCEPT ![s] = tasks[s][i]]
        /\ tasks' = [tasks EXCEPT ![s] = Erase(@, i)]
  BY DEF Take, FirstEligible, Eligible
<1>2. /\ pc[s] = "loop" /\ pc' = [pc EXCEPT ![s] = "taken"]
      /\ UNCHANGED <<funcFiber, fstate, wake, mustHold, home, proc>>
  BY DEF Take
<1>3. tasks[s][i] \in Task
  <2>1. tasks[s] \in Seq(Task)  BY DEF TypeOK
  <2> QED  BY <2>1, ElementOfSeq, LenProperties
<1>4. \A r \in Sched, g \in Fibers : Queued(r, g)' => Queued(r, g)
  <2>1. \A r \in Sched : \A k \in DOMAIN tasks'[r] :
          \E m \in DOMAIN tasks[r] : tasks'[r][k] = tasks[r][m]
    BY <1>1, TakeAdds
  <2> QED  BY <2>1 DEF Queued
<1>5. tasks[s][i].fiber # None =>
        tasks[s][i].fiber \in Fibers /\ Queued(s, tasks[s][i].fiber)
  BY <1>3 DEF Task, Queued
<1>6. Homes'  BY <1>1, <1>2, <1>4, <1>5 DEF Homes, TypeOK
<1>7. \A t \in Sched : t # s => Running(t)' = Running(t)
  BY <1>1, <1>2 DEF Running, TypeOK
<1>8. Entered'  BY <1>2, <1>7 DEF Entered, InFiber, TypeOK
<1>9. States'
  BY <1>2, <1>7 DEF States, InFiber, TypeOK
<1>10. FuncFibers'
  <2> SUFFICES ASSUME NEW t \in Sched, funcFiber[t] # None
               PROVE  /\ ~Lent(t)' => Private(funcFiber[t])'
                      /\ ~(pc'[t] \in InFiber /\ IsFuncTask(t)') =>
                           fstate'[funcFiber[t]] = "INIT"
    BY <1>2 DEF FuncFibers
  <2>1. Private(funcFiber[t]) => Private(funcFiber[t])'
    BY <1>1, <1>2, <1>4, <1>5 DEF Private, TypeOK
  <2>2. t # s => Lent(t)' = Lent(t) /\ IsFuncTask(t)' = IsFuncTask(t)
                   /\ pc'[t] = pc[t]
    BY <1>1, <1>2 DEF Lent, IsFuncTask, TypeOK
  <2>3. ~Lent(s) /\ pc[s] \notin InFiber  BY <1>2 DEF Lent, InFiber
  <2> QED  BY <1>2, <2>1, <2>2, <2>3 DEF FuncFibers
<1> QED  BY <1>2, <1>6, <1>8, <1>9, <1>10 DEF NoFailedAssert

\* swapIn() never finds its fiber in execution: the thread that would be
\* executing it is the fiber's home, and that one is here, in run().
LEMMA NotExecuting ==
  ASSUME IInv, NEW s \in Sched, NEW f \in Fibers, pc[s] \notin InFiber,
         home[f] = s
  PROVE  fstate[f] # "EXEC" /\ \A t \in Sched : ~Executing(t, f)
<1>1. fstate[f] # "EXEC"  BY DEF IInv, States, InFiber
<1>2. ASSUME NEW t \in Sched, Executing(t, f) PROVE FALSE
  <2>1. pc[t] \in InFiber /\ Running(t) = f
    BY <1>2 DEF Executing, InFiber
  <2> QED  BY <2>1, RunningOwned
<1> QED  BY <1>1, <1>2

\* swapIn() finds a fiber that nobody executes.
LEMMA IInvResume ==
  ASSUME IInv, TypeOK', NEW s \in Sched, Resume(s)
  PROVE  IInv'
<1> USE DEF IInv
<1>1. PICK f \in Fibers :
        /\ cur[s].fiber = f
        /\ fstate[f] \notin Finished
        /\ IF fstate[f] = "EXEC" THEN End("assert")
           ELSE IF \E t \in Sched : Executing(t, f) THEN End("ub")
           ELSE /\ fstate' = [fstate EXCEPT ![f] = "EXEC"]
                /\ pc' = [pc EXCEPT ![s] = "exec"]
                /\ UNCHANGED <<tasks, cur, funcFiber, wake, mustHold, home,
                               proc>>
  BY DEF Resume
<1>2. pc[s] = "taken" /\ home[f] = s
  BY <1>1, SchedulerAssumption DEF Resume, Homes
<1>3. fstate[f] # "EXEC" /\ \A t \in Sched : ~Executing(t, f)
  BY <1>2, NotExecuting DEF InFiber
<1>4. /\ fstate' = [fstate EXCEPT ![f] = "EXEC"]
      /\ pc' = [pc EXCEPT ![s] = "exec"]
      /\ UNCHANGED <<tasks, cur, funcFiber, wake, mustHold, home, proc>>
  BY <1>1, <1>3
<1>5. Homes'  BY <1>4 DEF Homes, Queued
<1>6. f # None  BY SchedulerAssumption
<1>7. Running(s) = f /\ \A t \in Sched : Running(t)' = Running(t)
  BY <1>1, <1>4, <1>6 DEF Running
<1>8. Entered'  BY <1>4, <1>6, <1>7 DEF Entered, TypeOK
<1>9. States'
  <2>1. \A t \in Sched : pc[t] \in InFiber => Running(t) # f
    BY <1>2, RunningOwned DEF InFiber
  <2>2. ASSUME NEW t \in Sched
        PROVE  /\ pc'[t] = "exec" => fstate'[Running(t)] = "EXEC"
               /\ pc'[t] = "swapping" => fstate'[Running(t)] = "HOLD"
               /\ pc'[t] \in {"back", "settle"} =>
                    fstate'[Running(t)] \notin {"INIT", "EXEC"}
    BY <1>4, <1>7, <2>1 DEF States, TypeOK, InFiber
  <2>3. ASSUME NEW g \in Fibers, fstate'[g] = "EXEC" \/ mustHold'[g]
        PROVE  home[g] # None /\ pc'[home[g]] = "exec"
               /\ Running(home[g]) = g
    <3>1. CASE g = f
      BY <1>2, <1>4, <1>7, <3>1, SchedulerAssumption DEF TypeOK
    <3>2. CASE g # f
      <4>1. home[g] # None /\ pc[home[g]] = "exec" /\ Running(home[g]) = g
        BY <1>4, <2>3, <3>2 DEF States, TypeOK
      <4> QED  BY <1>2, <1>4, <4>1 DEF TypeOK
    <3> QED  BY <3>1, <3>2
  <2> QED  BY <1>4, <1>7, <2>2, <2>3 DEF States, TypeOK
<1>10. FuncFibers'
  <2> SUFFICES ASSUME NEW t \in Sched, funcFiber[t] # None
               PROVE  /\ ~Lent(t)' => Private(funcFiber[t])'
                      /\ ~(pc'[t] \in InFiber /\ IsFuncTask(t)') =>
                           fstate'[funcFiber[t]] = "INIT"
    BY <1>4 DEF FuncFibers
  <2>1. funcFiber[t] \in Fibers /\ funcFiber[t] # f
    <3>1. home[funcFiber[t]] = t  BY DEF Homes
    <3>2. funcFiber[s] # f
      BY <1>1, <1>2, <1>6 DEF FuncFibers, Private, Lent, InFiber
    <3> QED  BY <1>2, <3>1, <3>2 DEF TypeOK
  <2>2. Private(funcFiber[t]) => Private(funcFiber[t])'
    BY <1>4 DEF Private, Queued
  <2>3. ~IsFuncTask(s) /\ \A r \in Sched : IsFuncTask(r)' = IsFuncTask(r)
    BY <1>1, <1>4, <1>6 DEF IsFuncTask
  <2>4. Lent(t) => Lent(t)'
    BY <1>2, <1>4, <2>1, <2>3 DEF Lent, TypeOK, InFiber
  <2> QED
    BY <1>2, <1>4, <2>1, <2>2, <2>3, <2>4 DEF FuncFibers, TypeOK
<1> QED  BY <1>4, <1>5, <1>8, <1>9, <1>10 DEF NoFailedAssert

\* The fiber made or reused for a function is private to run().
LEMMA IInvLaunch ==
  ASSUME IInv, TypeOK', NEW s \in Sched, Launch(s)
  PROVE  IInv'
<1> USE DEF IInv
<1>1. PICK f \in Fibers :
        /\ IF funcFiber[s] # None THEN f = funcFiber[s] ELSE Free(f)
        /\ IF fstate[f] \notin Finished \cup {"INIT"} THEN End("assert")
           ELSE /\ funcFiber' = [funcFiber EXCEPT ![s] = f]
                /\ fstate' = [fstate EXCEPT ![f] = "EXEC"]
                /\ home' = [home EXCEPT ![f] = s]
                /\ cur' = [cur EXCEPT ![s] = NoTask]
                /\ pc' = [pc EXCEPT ![s] = "exec"]
                /\ UNCHANGED <<tasks, wake, mustHold, proc>>
  BY DEF Launch
<1>2. pc[s] = "taken" /\ cur[s].fiber = None /\ f # None
  BY SchedulerAssumption DEF Launch
<1>3. /\ fstate[f] \in Finished \cup {"INIT"}
      /\ Private(f)
      /\ \A t \in Sched : t # s => funcFiber[t] # f
  <2>1. CASE funcFiber[s] # None
    BY <1>1, <1>2, <2>1 DEF FuncFibers, Lent, InFiber, Homes
  <2>2. CASE funcFiber[s] = None
    BY <1>1, <2>2 DEF Free, Referenced, Private
  <2> QED  BY <2>1, <2>2
<1>4. /\ funcFiber' = [funcFiber EXCEPT ![s] = f]
      /\ fstate' = [fstate EXCEPT ![f] = "EXEC"]
      /\ home' = [home EXCEPT ![f] = s]
      /\ cur' = [cur EXCEPT ![s] = NoTask]
      /\ pc' = [pc EXCEPT ![s] = "exec"]
      /\ UNCHANGED <<tasks, wake, mustHold, proc>>
  BY <1>1, <1>3
<1>5. Homes'
  BY <1>3, <1>4 DEF Homes, Private, Queued, TypeOK, NoTask, Task
<1>6. /\ Running(s)' = f
      /\ \A t \in Sched : t # s => Running(t)' = Running(t)
      /\ \A t \in Sched : pc[t] \in InFiber => Running(t) # f
  BY <1>2, <1>3, <1>4 DEF Running, TypeOK, NoTask, Private, InFiber
<1>7. Entered'  BY <1>2, <1>4, <1>6 DEF Entered, TypeOK
<1>8. States'
  BY <1>2, <1>3, <1>4, <1>6, SchedulerAssumption
  DEF States, TypeOK, InFiber, Finished
<1>9. FuncFibers'
  <2> SUFFICES ASSUME NEW t \in Sched, funcFiber'[t] # None
               PROVE  /\ ~Lent(t)' => Private(funcFiber[t])'
                      /\ ~(pc'[t] \in InFiber /\ IsFuncTask(t)') =>
                           fstate'[funcFiber'[t]] = "INIT"
    BY DEF FuncFibers
  <2>1. \A g \in Fibers : Private(g) => Private(g)'
    BY <1>4, SchedulerAssumption DEF Private, Queued, TypeOK, NoTask
  <2>2. CASE t = s
    BY <1>3, <1>4, <2>1, <2>2 DEF TypeOK, InFiber, IsFuncTask, NoTask
  <2>3. CASE t # s
    <3>1. funcFiber'[t] = funcFiber[t] /\ funcFiber[t] \in Fibers
          /\ funcFiber[t] # f
      BY <1>3, <1>4, <2>3 DEF TypeOK
    <3>2. Lent(t)' = Lent(t) /\ IsFuncTask(t)' = IsFuncTask(t)
          /\ pc'[t] = pc[t] /\ fstate'[funcFiber[t]] = fstate[funcFiber[t]]
      BY <1>4, <2>3, <3>1 DEF Lent, IsFuncTask, TypeOK
    <3> QED  BY <2>1, <3>1, <3>2 DEF FuncFibers
  <2> QED  BY <2>2, <2>3
<1> QED  BY <1>4, <1>5, <1>7, <1>8, <1>9 DEF NoFailedAssert

\* After a switch run() requeues, lends, recycles or forgets the fiber.
LEMMA IInvSettle ==
  ASSUME IInv, TypeOK', NEW s \in Sched, Settle(s)
  PROVE  IInv'
<1> USE DEF IInv
<1>1. PICK f \in Fibers :
        /\ f = Running(s) /\ f # None /\ home[f] = s
        /\ pc[s] = "settle" /\ fstate[f] \notin {"INIT", "EXEC"}
  BY RunningOwned, SchedulerAssumption DEF Settle, InFiber, States
<1> DEFINE v == IF Recycles(s, f) THEN "INIT"
                ELSE IF fstate[f] \notin Finished \cup {"READY"} THEN "HOLD"
                ELSE fstate[f]
<1>2. fstate' = [fstate EXCEPT ![f] = v]
  <2>1. fstate = [fstate EXCEPT ![f] = fstate[f]]  BY <1>1 DEF TypeOK
  <2>2. fstate' = CASE Recycles(s, f) -> [fstate EXCEPT ![f] = "INIT"]
                   [] fstate[f] \notin Finished \cup {"READY"} ->
                        [fstate EXCEPT ![f] = "HOLD"]
                   [] OTHER -> fstate
    BY <1>1 DEF Settle
  <2>3. CASE Recycles(s, f)
    <3>1. ~(fstate[f] \notin Finished \cup {"READY"})
      BY <2>3 DEF Recycles
    <3> QED  BY <2>2, <2>3, <3>1
  <2>4. CASE ~Recycles(s, f)  BY <2>1, <2>2, <2>4
  <2> QED  BY <2>3, <2>4
<1>3. /\ funcFiber' = IF LetsGo(s, f) THEN [funcFiber EXCEPT ![s] = None]
                      ELSE funcFiber
      /\ cur' = [cur EXCEPT ![s] = NoTask]
      /\ pc' = [pc EXCEPT ![s] = "loop"]
      /\ UNCHANGED <<wake, mustHold, home, proc>>
  BY <1>1 DEF Settle
<1>4. \A r \in Sched, g \in Fibers :
        Queued(r, g)' => Queued(r, g) \/ (r = s /\ g = f /\ Requeues(f))
  <2>1. CASE Requeues(f)
    <3>1. FiberTask(f, AnyThread) \in Task
          /\ FiberTask(f, AnyThread).fiber = f
      BY <1>1, TaskTypes DEF FiberTask
    <3>2. Adds(s, FiberTask(f, AnyThread))
      BY <1>1, <2>1, <3>1, PushAdds DEF Settle, Push
    <3> QED  BY <2>1, <3>1, <3>2, AddsQueued
  <2>2. CASE ~Requeues(f)  BY <1>1, <2>2 DEF Settle, Queued
  <2> QED  BY <2>1, <2>2
<1>5. Homes'
  BY <1>1, <1>3, <1>4 DEF Homes, TypeOK, NoTask
<1>6. \A t \in Sched : t # s => Running(t)' = Running(t)
  BY <1>3 DEF Running, TypeOK
<1>7. Entered'  BY <1>3, <1>6 DEF Entered, InFiber, TypeOK
<1>8. v # "EXEC"  BY <1>1, <1>2
<1>9. States'
  <2>1. \A t \in Sched : t # s /\ pc[t] \in InFiber => Running(t) # f
    BY <1>1, RunningOwned
  <2>2. \A g \in Fibers : home[g] = s => fstate[g] # "EXEC" /\ ~mustHold[g]
    BY <1>1 DEF States
  <2>3. \A g \in Fibers : fstate'[g] = "EXEC" => fstate[g] = "EXEC" /\ g # f
    BY <1>2, <1>8 DEF TypeOK
  <2>4. \A t \in Sched : t # s =>
          pc'[t] = pc[t] /\ (pc[t] \in InFiber =>
                               fstate'[Running(t)] = fstate[Running(t)])
    BY <1>2, <1>3, <2>1 DEF TypeOK
  <2>5. pc'[s] = "loop"  BY <1>3 DEF TypeOK
  <2> QED  BY <1>3, <1>6, <2>2, <2>3, <2>4, <2>5 DEF States, TypeOK, InFiber
<1>10. FuncFibers'
  <2> SUFFICES ASSUME NEW t \in Sched, funcFiber'[t] # None
               PROVE  /\ ~Lent(t)' => Private(funcFiber[t])'
                      /\ ~(pc'[t] \in InFiber /\ IsFuncTask(t)') =>
                           fstate'[funcFiber'[t]] = "INIT"
    BY DEF FuncFibers
  <2>1. funcFiber'[t] = funcFiber[t] /\ funcFiber[t] \in Fibers
        /\ (t = s => ~LetsGo(s, f))
    BY <1>3 DEF TypeOK
  <2>2. CASE funcFiber[t] = f
    <3>1. t = s /\ IsFuncTask(s)
      BY <1>1, <2>2, RunningFuncFiber DEF InFiber
    <3>2. fstate[f] \in Finished /\ ~Lent(s) /\ ~Requeues(f)
      BY <1>1, <2>1, <2>2, <3>1 DEF LetsGo, Lent, Requeues, Finished, IsFuncTask,
                              InFiber
    <3>3. v = "INIT"  BY <1>2, <3>1, <3>2 DEF Recycles
    <3>4. Private(f)  BY <2>1, <2>2, <3>1, <3>2 DEF FuncFibers
    <3>5. Private(f)'
      BY <1>1, <1>3, <1>4, <3>2, <3>4 DEF Private, TypeOK, NoTask
    <3> QED  BY <1>1, <1>2, <2>1, <2>2, <3>3, <3>5 DEF Private, TypeOK
  <2>3. CASE funcFiber[t] # f
    <3>1. Private(funcFiber[t]) => Private(funcFiber[t])'
      BY <1>1, <1>3, <1>4, <2>1, <2>3, SchedulerAssumption
      DEF Private, TypeOK, NoTask
    <3>2. fstate'[funcFiber[t]] = fstate[funcFiber[t]]
      BY <1>2, <2>1, <2>3 DEF TypeOK
    <3>3. CASE t = s
      <4>1. ~IsFuncTask(s)  BY <1>1, <2>3, <3>3 DEF IsFuncTask, Running
      <4> QED  BY <2>1, <3>1, <3>2, <3>3, <4>1 DEF FuncFibers, Lent
    <3>4. CASE t # s
      <4>1. Lent(t)' = Lent(t) /\ IsFuncTask(t)' = IsFuncTask(t)
            /\ pc'[t] = pc[t]
        BY <1>3, <2>1, <3>2, <3>4 DEF Lent, IsFuncTask, TypeOK
      <4> QED  BY <2>1, <3>1, <3>2, <4>1 DEF FuncFibers
    <3> QED  BY <3>3, <3>4
  <2> QED  BY <2>2, <2>3
<1> QED  BY <1>3, <1>5, <1>7, <1>9, <1>10 DEF NoFailedAssert

\* The single-owner invariant is inductive.
LEMMA IInvNext ==
  ASSUME NoMigration, IInv, TypeOK', [Next]_vars
  PROVE  IInv'
<1>1. CASE Submit
  BY <1>1, IInvScheduleFunc, IInvScheduleFiber, IInvScheduleAgain, IInvWake
  DEF Submit
<1>2. ASSUME NEW s \in Sched, Start(s) \/ Stop(s) PROVE IInv'
  BY <1>2, NoMigration, IInvStart, IInvStop
<1>3. ASSUME NEW s \in Sched, Worker(s) PROVE IInv'
  BY <1>3, IInvTake, IInvTakeNothing, IInvSkipFinished, IInvResume,
     IInvLaunch, IInvBack, IInvSettle, IInvEnterIdle, IInvIdleCheck,
     IInvLeaveIdle, IInvLeaveRun
  DEF Worker
<1>4. ASSUME NEW s \in Sched, Body(s) PROVE IInv'
  BY <1>4, NoMigration, IInvReturn, IInvYieldToReady, IInvRegister,
     IInvYieldToHold, IInvSwapOut
  DEF Body, SwitchTo, NoMigration
<1>5. CASE UNCHANGED vars
  BY <1>5 DEF vars, IInv, Homes, Entered, States, FuncFibers, Private, Lent,
              Queued, Running, IsFuncTask, NoFailedAssert, TypeOK
<1> QED  BY <1>1, <1>2, <1>3, <1>4, <1>5 DEF Next, Ended

\* Hence it always holds.
LEMMA IInvAlways == ASSUME NoMigration PROVE Spec => []IInv
<1>1. Basic /\ IInv /\ [Next]_vars => Basic' /\ IInv'
  BY NoMigration, BasicNext, IInvNext DEF Basic
<1> QED  BY <1>1, BasicInit, IInvInit, PTL DEF Spec

\* When every fiber is woken on the scheduler it registered with, no assertion
\* of swapIn(), resetFunc(), YieldToReady() or YieldToHold() ever fails and no
\* context is resumed before it is saved, however many schedulers, submitters
\* and double schedule() calls there are.
THEOREM AssertsHold == ASSUME NoMigration PROVE Spec => []NoFailedAssert
<1>1. IInv => NoFailedAssert  BY DEF IInv
<1> QED  BY <1>1, IInvAlways, PTL

\* Under the same condition two threads are never on the stack of one fiber.
THEOREM OneThread == ASSUME NoMigration PROVE Spec => []OneThreadPerFiber
<1>1. IInv => OneThreadPerFiber
  <2> SUFFICES ASSUME IInv PROVE OneThreadPerFiber  OBVIOUS
  <2>1. ASSUME NEW s \in Sched, NEW t \in Sched, NEW f \in Fibers,
               Executing(s, f), Executing(t, f)
        PROVE  s = t
    BY <2>1, RunningOwned DEF Executing, InFiber
  <2>2. ASSUME NEW f \in Fibers, fstate[f] = "EXEC"
        PROVE  \E s \in Sched : pc[s] = "exec" /\ Running(s) = f
    BY <2>2 DEF IInv, States, TypeOK
  <2> QED  BY <2>1, <2>2 DEF OneThreadPerFiber
<1> QED  BY <1>1, IInvAlways, PTL

\* And the fiber run() recycles for the next function is referred to by
\* nobody else.
THEOREM FuncFiberOwned == ASSUME NoMigration PROVE Spec => []FuncFiberPrivate
<1>1. IInv => FuncFiberPrivate
  BY DEF IInv, FuncFibers, FuncFiberPrivate, Private, Lent, InFiber, Homes
<1> QED  BY <1>1, IInvAlways, PTL
-----------------------------------------------------------------------------
(***************************************************************************)
(* Nothing is lost and nothing runs twice: with or without migration.      *)
(***************************************************************************)
\* What schedule() does to the queues, entry by entry.
LEMMA PushExact ==
  ASSUME TypeOK, NEW s \in Sched, NEW t \in Task, Push(s, t)
  PROVE  /\ Len(tasks[s]) + 1 \notin DOMAIN tasks[s]
         /\ DOMAIN tasks'[s] = DOMAIN tasks[s] \cup {Len(tasks[s]) + 1}
         /\ tasks'[s][Len(tasks[s]) + 1] = t
         /\ \A j \in DOMAIN tasks[s] : tasks'[s][j] = tasks[s][j]
         /\ \A r \in Sched : r # s => tasks'[r] = tasks[r]
<1> DEFINE q == tasks[s]
<1>1. q \in Seq(Task) /\ tasks \in [Sched -> Seq(Task)]  BY DEF TypeOK
<1>2. /\ Append(q, t) \in Seq(Task)
      /\ Len(Append(q, t)) = Len(q) + 1
      /\ \A i \in 1 .. Len(q) : Append(q, t)[i] = q[i]
      /\ Append(q, t)[Len(q) + 1] = t
  BY <1>1, AppendProperties
<1>3. tasks' = [tasks EXCEPT ![s] = Append(q, t)]
  BY <1>1 DEF Push, Behind
<1>4. /\ DOMAIN Append(q, t) = 1 .. Len(q) + 1
      /\ DOMAIN q = 1 .. Len(q) /\ Len(q) \in Nat
  BY <1>1, <1>2, LenProperties
<1>5. tasks'[s] = Append(q, t) /\ \A r \in Sched : r # s => tasks'[r] = tasks[r]
  BY <1>1, <1>3
<1> HIDE DEF q
<1>6. Len(q) + 1 \notin 1 .. Len(q)
      /\ 1 .. Len(q) + 1 = (1 .. Len(q)) \cup {Len(q) + 1}
  BY <1>4
<1>7. /\ Len(q) + 1 \notin DOMAIN q
      /\ DOMAIN tasks'[s] = DOMAIN q \cup {Len(q) + 1}
      /\ tasks'[s][Len(q) + 1] = t
      /\ \A j \in DOMAIN q : tasks'[s][j] = q[j]
  BY <1>2, <1>4, <1>5, <1>6
<1> QED  BY <1>5, <1>7 DEF q

\* What taking the i-th task leaves of the queues.
LEMMA TakeExact ==
  ASSUME TypeOK, NEW s \in Sched, NEW i \in DOMAIN tasks[s],
         tasks' = [tasks EXCEPT ![s] = Erase(@, i)]
  PROVE  /\ \A k \in DOMAIN tasks'[s] :
              /\ Was(i, k) \in DOMAIN tasks[s] /\ Was(i, k) # i
              /\ tasks'[s][k] = tasks[s][Was(i, k)]
         /\ \A j \in DOMAIN tasks[s] : j # i =>
              \E k \in DOMAIN tasks'[s] : Was(i, k) = j
         /\ \A k, l \in DOMAIN tasks'[s] : Was(i, k) = Was(i, l) => k = l
         /\ \A r \in Sched : r # s => tasks'[r] = tasks[r]
<1>1. tasks[s] \in Seq(Task) /\ tasks \in [Sched -> Seq(Task)]  BY DEF TypeOK
<1>2. tasks'[s] = Erase(tasks[s], i)
      /\ \A r \in Sched : r # s => tasks'[r] = tasks[r]
  BY <1>1
<1> QED  BY <1>1, <1>2, EraseExact

\* schedule() drops nothing from a queue ...
LEMMA PushKeeps ==
  ASSUME TypeOK, NEW s \in Sched, NEW t \in Task, Push(s, t)
  PROVE  /\ \A r \in Sched, f \in Fibers : Queued(r, f) => Queued(r, f)'
         /\ \A f \in Fibers : t.fiber = f => Queued(s, f)'
<1>1. \A r \in Sched : \A j \in DOMAIN tasks[r] :
        j \in DOMAIN tasks'[r] /\ tasks'[r][j] = tasks[r][j]
  <2> SUFFICES ASSUME NEW r \in Sched, NEW j \in DOMAIN tasks[r]
               PROVE  j \in DOMAIN tasks'[r] /\ tasks'[r][j] = tasks[r][j]
    OBVIOUS
  <2>1. CASE r = s  BY <2>1, PushExact
  <2>2. CASE r # s  BY <2>2, PushExact
  <2> QED  BY <2>1, <2>2
<1>2. \E j \in DOMAIN tasks'[s] : tasks'[s][j] = t
  BY PushExact
<1> QED  BY <1>1, <1>2 DEF Queued

\* ... and taking a task drops that task alone.
LEMMA TakeKeeps ==
  ASSUME TypeOK, NEW s \in Sched, NEW i \in DOMAIN tasks[s],
         tasks' = [tasks EXCEPT ![s] = Erase(@, i)]
  PROVE  \A r \in Sched, f \in Fibers :
           Queued(r, f) => Queued(r, f)' \/ (r = s /\ tasks[s][i].fiber = f)
<1>0. /\ \A k \in DOMAIN tasks'[s] :
           /\ Was(i, k) \in DOMAIN tasks[s] /\ Was(i, k) # i
           /\ tasks'[s][k] = tasks[s][Was(i, k)]
      /\ \A j \in DOMAIN tasks[s] : j # i =>
           \E k \in DOMAIN tasks'[s] : Was(i, k) = j
      /\ \A k, l \in DOMAIN tasks'[s] : Was(i, k) = Was(i, l) => k = l
      /\ \A r \in Sched : r # s => tasks'[r] = tasks[r]
  BY TakeExact, Zenon
<1>1. ASSUME NEW r \in Sched, NEW j \in DOMAIN tasks[r], ~(r = s /\ j = i)
      PROVE  \E k \in DOMAIN tasks'[r] : tasks'[r][k] = tasks[r][j]
  <2>1. CASE r = s
    <3>1. PICK k \in DOMAIN tasks'[s] : Was(i, k) = j
      BY <1>0, <1>1, <2>1
    <3>2. tasks'[s][k] = tasks[s][Was(i, k)]  BY <1>0
    <3> QED  BY <2>1, <3>1, <3>2
  <2>2. CASE r # s  BY <1>0, <2>2
  <2> QED  BY <2>1, <2>2
<1> QED  BY <1>1 DEF Queued

\* Where a fiber that yielded with YieldToReady waits to be resumed.
ReadyAt(s, f) == \/ Queued(s, f)
                 \/ pc[s] = "taken" /\ cur[s].fiber = f
                 \/ pc[s] \in {"back", "settle"} /\ Running(s) = f

\* Submitting and waking keep what is queued.
LEMMA ReadySubmit ==
  ASSUME TypeOK, ReadyIsQueued, Submit PROVE ReadyIsQueued'
<1>1. ASSUME NEW s \in Sched, NEW t \in Task, Push(s, t),
             UNCHANGED <<pc, cur, funcFiber>>,
             \A f \in Fibers : fstate'[f] = "READY" => fstate[f] = "READY"
      PROVE  ReadyIsQueued'
  BY <1>1, PushKeeps DEF ReadyIsQueued, Running
<1>2. ASSUME NEW s \in Sched, NEW c \in Funcs, NEW p \in Pins,
             ScheduleFunc(s, c, p)
      PROVE  ReadyIsQueued'
  BY <1>1, <1>2, TaskTypes DEF ScheduleFunc
<1>3. ASSUME NEW s \in Sched, NEW c \in Funcs, NEW p \in Pins,
             NEW f \in Fibers, ScheduleFiber(s, f, c, p)
      PROVE  ReadyIsQueued'
  <2>1. \A g \in Fibers : fstate'[g] = "READY" => fstate[g] = "READY"
    BY <1>3 DEF ScheduleFiber, TypeOK
  <2> QED  BY <1>1, <1>3, <2>1, TaskTypes DEF ScheduleFiber
<1>4. ASSUME NEW s \in Sched, NEW f \in Fibers, ScheduleAgain(s, f)
      PROVE  ReadyIsQueued'
  BY <1>1, <1>4, TaskTypes DEF ScheduleAgain
<1>5. ASSUME NEW f \in Fibers, Wake(f) PROVE ReadyIsQueued'
  <2>1. wake[f] \in Sched /\ Push(wake[f], FiberTask(f, AnyThread))
    BY <1>5 DEF Wake, WakeTarget, TypeOK
  <2> QED  BY <1>1, <1>5, <2>1, TaskTypes DEF Wake
<1> QED  BY <1>2, <1>3, <1>4, <1>5 DEF Submit

\* run() holds on to what it takes until it is resumed, and requeues what
\* yields.
LEMMA ReadyWorker ==
  ASSUME TypeOK, ReadyIsQueued, NEW s \in Sched, Worker(s)
  PROVE  ReadyIsQueued'
<1> SUFFICES ASSUME NEW f \in Fibers, fstate'[f] = "READY"
             PROVE  \E r \in Sched : ReadyAt(r, f)'
  BY DEF ReadyIsQueued, ReadyAt
<1>0. fstate[f] = "READY" => \E r \in Sched : ReadyAt(r, f)
  BY DEF ReadyIsQueued, ReadyAt
<1>1. CASE Take(s)
  <2>1. PICK i \in DOMAIN tasks[s] :
          /\ cur' = [cur EXCEPT ![s] = tasks[s][i]]
          /\ tasks' = [tasks EXCEPT ![s] = Erase(@, i)]
    BY <1>1 DEF Take, FirstEligible, Eligible
  <2>2. pc[s] = "loop" /\ pc' = [pc EXCEPT ![s] = "taken"]
        /\ UNCHANGED <<fstate, funcFiber>>
    BY <1>1 DEF Take
  <2>3. PICK r \in Sched : ReadyAt(r, f)  BY <1>0, <2>2
  <2>4. CASE Queued(r, f)
    <3>1. Queued(r, f)' \/ (r = s /\ tasks[s][i].fiber = f)
      BY <2>1, <2>4, TakeKeeps
    <3> QED  BY <2>1, <2>2, <3>1 DEF ReadyAt, TypeOK
  <2>5. CASE ~Queued(r, f)
    BY <2>1, <2>2, <2>3, <2>5 DEF ReadyAt, Running, TypeOK
  <2> QED  BY <2>4, <2>5
<1>2. CASE SkipFinished(s)
  <2>1. PICK r \in Sched : ReadyAt(r, f)  BY <1>0, <1>2 DEF SkipFinished
  <2> QED
    BY <1>2, <2>1 DEF SkipFinished, ReadyAt, Queued, Running, TypeOK, Finished
<1>3. CASE Resume(s)
  <2>1. CASE \E how \in {"assert", "ub"} : End(how)
    BY <1>0, <2>1 DEF End, ReadyAt, Queued, Running
  <2>2. CASE ~\E how \in {"assert", "ub"} : End(how)
    <3>1. PICK g \in Fibers :
            /\ pc[s] = "taken" /\ cur[s].fiber = g
            /\ fstate' = [fstate EXCEPT ![g] = "EXEC"]
            /\ pc' = [pc EXCEPT ![s] = "exec"]
            /\ UNCHANGED <<tasks, cur, funcFiber>>
      BY <1>3, <2>2 DEF Resume
    <3>2. fstate[f] = "READY" /\ f # g  BY <3>1 DEF TypeOK
    <3>3. PICK r \in Sched : ReadyAt(r, f)  BY <1>0, <3>2
    <3> QED  BY <3>1, <3>2, <3>3 DEF ReadyAt, Queued, Running, TypeOK
  <2> QED  BY <2>1, <2>2
<1>4. CASE Launch(s)
  <2>1. /\ fstate[f] = "READY" /\ UNCHANGED tasks
        /\ pc[s] = "taken" /\ cur[s].fiber = None
        /\ \A r \in Sched : r # s =>
             pc'[r] = pc[r] /\ cur'[r] = cur[r] /\ funcFiber'[r] = funcFiber[r]
    BY <1>4 DEF Launch, End, TypeOK
  <2>2. PICK r \in Sched : ReadyAt(r, f)  BY <1>0, <2>1
  <2> QED
    BY <2>1, <2>2, SchedulerAssumption DEF ReadyAt, Queued, Running
<1>5. CASE Settle(s)
  <2> DEFINE g == Running(s)
  <2>0. g \in Fibers \cup {None}  BY DEF TypeOK, Task, Running
  <2>1. /\ pc[s] = "settle" /\ pc' = [pc EXCEPT ![s] = "loop"]
        /\ cur' = [cur EXCEPT ![s] = NoTask]
        /\ \A r \in Sched : r # s => funcFiber'[r] = funcFiber[r]
    BY <1>5 DEF Settle, TypeOK
  <2>2. fstate[f] = "READY"
    <3>1. fstate' \in {[fstate EXCEPT ![g] = "INIT"],
                       [fstate EXCEPT ![g] = "HOLD"], fstate}
      BY <1>5 DEF Settle
    <3> QED  BY <3>1 DEF TypeOK
  <2>3. \A r \in Sched : Queued(r, f) => Queued(r, f)'
    <3>1. CASE Requeues(g)
      <4>1. Push(s, FiberTask(g, AnyThread))
        BY <1>5, <3>1 DEF Settle, Push
      <4> QED  BY <4>1, <2>0, PushKeeps, TaskTypes
    <3>2. CASE ~Requeues(g)  BY <1>5, <3>2 DEF Settle, Queued
    <3> QED  BY <3>1, <3>2
  <2>4. g = f => Queued(s, f)'
    <3>1. g = f => Push(s, FiberTask(f, AnyThread))
      BY <1>5, <2>2 DEF Settle, Push, Requeues
    <3>2. FiberTask(f, AnyThread).fiber = f  BY DEF FiberTask
    <3> QED  BY <3>1, <3>2, PushKeeps, TaskTypes
  <2>5. PICK r \in Sched : ReadyAt(r, f)  BY <1>0, <2>2
  <2>6. CASE r = s  BY <2>1, <2>3, <2>4, <2>5, <2>6 DEF ReadyAt
  <2>7. CASE r # s
    BY <2>1, <2>3, <2>5, <2>7 DEF ReadyAt, Running, TypeOK
  <2> QED  BY <2>6, <2>7
<1>6. CASE TakeNothing(s) \/ Back(s) \/ EnterIdle(s) \/ IdleCheck(s)
           \/ LeaveIdle(s) \/ LeaveRun(s)
  <2>1. /\ UNCHANGED <<tasks, cur, funcFiber, fstate>>
        /\ \A r \in Sched : r # s => pc'[r] = pc[r]
        /\ pc[s] = "back" => pc'[s] = "settle"
        /\ pc[s] \notin {"taken", "settle"}
    BY <1>6 DEF TakeNothing, Back, EnterIdle, IdleCheck, LeaveIdle, LeaveRun,
                TypeOK
  <2>2. PICK r \in Sched : ReadyAt(r, f)  BY <1>0, <2>1
  <2> QED  BY <2>1, <2>2 DEF ReadyAt, Queued, Running
<1> QED  BY <1>1, <1>2, <1>3, <1>4, <1>5, <1>6 DEF Worker

\* A fiber that yields is the one its thread is about to requeue.
LEMMA ReadyBody ==
  ASSUME TypeOK, ReadyIsQueued, NEW s \in Sched, Body(s)
  PROVE  ReadyIsQueued'
<1> SUFFICES ASSUME NEW f \in Fibers, fstate'[f] = "READY"
             PROVE  \E r \in Sched : ReadyAt(r, f)'
  BY DEF ReadyIsQueued, ReadyAt
<1>0. fstate[f] = "READY" => \E r \in Sched : ReadyAt(r, f)
  BY DEF ReadyIsQueued, ReadyAt
<1>1. CASE YieldToReady(s)
  <2>1. CASE fstate[f] = "READY"
    <3>1. PICK r \in Sched : ReadyAt(r, f)  BY <1>0, <2>1
    <3> QED
      BY <1>1, <3>1 DEF YieldToReady, End, ReadyAt, Queued, Running, TypeOK
  <2>2. CASE fstate[f] # "READY"
    <3>1. Running(s) = f /\ pc' = [pc EXCEPT ![s] = "back"]
          /\ UNCHANGED <<cur, funcFiber>>
      BY <1>1, <2>2 DEF YieldToReady, End, TypeOK
    <3> QED  BY <3>1 DEF ReadyAt, Running, TypeOK
  <2> QED  BY <2>1, <2>2
<1>2. CASE Return(s) \/ Register(s) \/ YieldToHold(s) \/ SwapOut(s)
  <2>1. /\ UNCHANGED <<tasks, cur, funcFiber>> /\ fstate[f] = "READY"
        /\ \A r \in Sched : r # s => pc'[r] = pc[r]
        /\ pc[s] \notin {"taken", "back", "settle"}
    BY <1>2 DEF Return, Register, YieldToHold, SwapOut, End, TypeOK
  <2>2. PICK r \in Sched : ReadyAt(r, f)  BY <1>0, <2>1
  <2> QED  BY <2>1, <2>2 DEF ReadyAt, Queued, Running
<1>3. ASSUME NEW t \in Sched, SwitchTo(s, t) PROVE \E r \in Sched : ReadyAt(r, f)'
  <2>1. Running(s) \in Fibers \cup {None}  BY DEF TypeOK, Task, Running
  <2>2. Push(t, FiberTask(Running(s), AnyThread))
        /\ UNCHANGED <<pc, cur, funcFiber, fstate>>
    BY <1>3 DEF SwitchTo
  <2>3. PICK r \in Sched : ReadyAt(r, f)  BY <1>0, <2>2
  <2> QED  BY <2>1, <2>2, <2>3, PushKeeps, TaskTypes DEF ReadyAt, Running
<1> QED  BY <1>1, <1>2, <1>3 DEF Body

\* A fiber that yielded with YieldToReady is never dropped: it is in a queue,
\* or with the worker that took it or is about to requeue it, with any number
\* of schedulers and whether or not fibers migrate.
THEOREM ReadyNotLost == Spec => []ReadyIsQueued
<1>1. Init => ReadyIsQueued  BY DEF Init, ReadyIsQueued
<1>2. TypeOK /\ ReadyIsQueued /\ [Next]_vars => ReadyIsQueued'
  <2> SUFFICES ASSUME TypeOK, ReadyIsQueued, [Next]_vars PROVE ReadyIsQueued'
    OBVIOUS
  <2>1. CASE Submit  BY <2>1, ReadySubmit
  <2>2. ASSUME NEW s \in Sched, Start(s) \/ Stop(s) PROVE ReadyIsQueued'
    <3>1. /\ UNCHANGED <<tasks, cur, funcFiber, fstate>>
          /\ pc[s] = "main" /\ \A r \in Sched : r # s => pc'[r] = pc[r]
      BY <2>2 DEF Start, Stop, TypeOK
    <3>2. \A r \in Sched, f \in Fibers : ReadyAt(r, f) => ReadyAt(r, f)'
      BY <3>1 DEF ReadyAt, Queued, Running
    <3> QED  BY <3>1, <3>2 DEF ReadyIsQueued, ReadyAt
  <2>3. ASSUME NEW s \in Sched, Worker(s) PROVE ReadyIsQueued'
    BY <2>3, ReadyWorker
  <2>4. ASSUME NEW s \in Sched, Body(s) PROVE ReadyIsQueued'
    BY <2>4, ReadyBody
  <2>5. CASE UNCHANGED vars
    BY <2>5 DEF vars, ReadyIsQueued, Queued, Running
  <2> QED  BY <2>1, <2>2, <2>3, <2>4, <2>5 DEF Next, Ended
<1> QED  BY <1>1, <1>2, TypeCorrect, PTL DEF Spec

(***************************************************************************)
(* Conservation of closures: each one that was handed in and not entered   *)
(* is in one place, and every step moves it to one place or enters it.     *)
(***************************************************************************)
\* A closure waits in an entry of a queue, in a task that was taken, or in a
\* fiber that was not resumed yet.
Holds(c, k, a, i) ==
  \/ k = "queue" /\ a \in Sched /\ i \in DOMAIN tasks[a] /\ tasks[a][i].func = c
  \/ k = "hand" /\ a \in Sched /\ i = 0 /\ cur[a].func = c
  \/ k = "fiber" /\ a \in Fibers /\ i = 0 /\ fstate[a] = "INIT" /\ body[a] = c

Somewhere(c) == \E k, a, i : Holds(c, k, a, i)
Once(c) == \A k, l, a, b, i, j :
  Holds(c, k, a, i) /\ Holds(c, l, b, j) => k = l /\ a = b /\ i = j
One(c) == Once(c) /\ submitted[c] = started[c] + IF Somewhere(c) THEN 1 ELSE 0

\* A task is a fiber or a function, and a function leaves the task before it
\* is entered.
OneKind(t) == t.fiber = None \/ t.func = None
Carried ==
  /\ \A s \in Sched : \A i \in DOMAIN tasks[s] : OneKind(tasks[s][i])
  /\ \A s \in Sched : OneKind(cur[s]) /\ (cur[s].func # None => pc[s] = "taken")

\* A fiber that was not resumed yet is queued or taken, so that its slot is
\* not given away, and it is neither a func_fiber nor the running fiber.
Fresh(f) == fstate[f] = "INIT" /\ body[f] # None
Wanted(s, f) == Queued(s, f) \/ (pc[s] = "taken" /\ cur[s].fiber = f)
FreshKept ==
  /\ \A f \in Fibers : Fresh(f) => \E s \in Sched : Wanted(s, f)
  /\ \A s \in Sched : funcFiber[s] \in Fibers => ~Fresh(funcFiber[s])
  /\ \A s \in Sched : pc[s] \in InFiber /\ Running(s) \in Fibers =>
       ~Fresh(Running(s))

KInv == Carried /\ FreshKept /\ \A c \in Funcs : One(c)

\* A step that moves no closure keeps the balance ...
LEMMA OneKept ==
  ASSUME NEW c \in Funcs, One(c),
         \A k, a, i : Holds(c, k, a, i)' <=> Holds(c, k, a, i),
         submitted'[c] = submitted[c], started'[c] = started[c]
  PROVE  One(c)'
<1>1. Somewhere(c)' <=> Somewhere(c)  BY DEF Somewhere
<1>2. Once(c)'  BY DEF One, Once
<1> QED  BY <1>1, <1>2 DEF One

\* ... so does one that gives a new closure its first place ...
LEMMA OneGained ==
  ASSUME TypeOK, NEW c \in Funcs, One(c), submitted[c] = 0,
         submitted'[c] = 1, started'[c] = started[c],
         Once(c)', Somewhere(c)'
  PROVE  One(c)'
  BY DEF One, TypeOK

\* (a closure that was not handed in has none) ...
LEMMA Nowhere ==
  ASSUME TypeOK, NEW c \in Funcs, One(c), submitted[c] = 0
  PROVE  \A k, a, i : ~Holds(c, k, a, i)
<1>1. ~Somewhere(c)  BY DEF One, TypeOK
<1> QED  BY <1>1 DEF Somewhere

\* ... and one that enters the closure it takes from its place.
LEMMA OneEntered ==
  ASSUME TypeOK, NEW c \in Funcs, One(c), Somewhere(c),
         \A k, a, i : ~Holds(c, k, a, i)',
         submitted'[c] = submitted[c], started'[c] = started[c] + 1
  PROVE  One(c)'
<1>1. started[c] \in Nat  BY DEF TypeOK
<1>2. submitted[c] = started[c] + 1  BY DEF One
<1>3. Once(c)' /\ ~Somewhere(c)'  BY DEF Once, Somewhere
<1> QED  BY <1>1, <1>2, <1>3 DEF One

\* schedule() of a fiber task moves no closure between the queues.
LEMMA FiberPushHolds ==
  ASSUME TypeOK, NEW s \in Sched, NEW t \in Task, t.func = None, Push(s, t),
         NEW c \in Funcs, NEW r \in Sched, NEW i
  PROVE  (i \in DOMAIN tasks'[r] /\ tasks'[r][i].func = c) <=>
         (i \in DOMAIN tasks[r] /\ tasks[r][i].func = c)
<1>1. c # None  BY SchedulerAssumption
<1>2. CASE r = s  BY <1>1, <1>2, PushExact
<1>3. CASE r # s  BY <1>3, PushExact
<1> QED  BY <1>2, <1>3

\* Submitting keeps every closure in one place.
LEMMA OneSubmit ==
  ASSUME TypeOK, KInv, Submit, NEW c \in Funcs PROVE One(c)'
<1>0. One(c) /\ c # None  BY SchedulerAssumption DEF KInv
<1>1. ASSUME NEW s \in Sched, NEW d \in Funcs, NEW p \in Pins,
             ScheduleFunc(s, d, p)
      PROVE  One(c)'
  <2>1. FuncTask(d, p) \in Task /\ FuncTask(d, p).func = d
    BY TaskTypes DEF FuncTask
  <2>2. /\ Push(s, FuncTask(d, p))
        /\ UNCHANGED <<cur, fstate, body, started>>
        /\ submitted' = [submitted EXCEPT ![d] = 1] /\ submitted[d] = 0
    BY <1>1 DEF ScheduleFunc
  <2> DEFINE n == Len(tasks[s]) + 1
  <2>3. /\ n \notin DOMAIN tasks[s]
        /\ DOMAIN tasks'[s] = DOMAIN tasks[s] \cup {n}
        /\ tasks'[s][n] = FuncTask(d, p)
        /\ \A j \in DOMAIN tasks[s] : tasks'[s][j] = tasks[s][j]
        /\ \A r \in Sched : r # s => tasks'[r] = tasks[r]
    BY <2>1, <2>2, PushExact
  <2> HIDE DEF n
  <2>4. CASE c = d
    <3>1. \A k, a, i : Holds(c, k, a, i)' <=>
            Holds(c, k, a, i) \/ (k = "queue" /\ a = s /\ i = n)
      BY <2>1, <2>2, <2>3, <2>4 DEF Holds
    <3>2. submitted[c] = 0 /\ submitted'[c] = 1 /\ started'[c] = started[c]
      BY <2>2, <2>4 DEF TypeOK
    <3>3. Once(c)' /\ Somewhere(c)'
      BY <1>0, <3>1, <3>2, Nowhere DEF Once, Somewhere
    <3> QED  BY <1>0, <3>2, <3>3, OneGained
  <2>5. CASE c # d
    <3>1. \A k, a, i : Holds(c, k, a, i)' <=> Holds(c, k, a, i)
      BY <2>1, <2>2, <2>3, <2>5 DEF Holds
    <3>2. submitted'[c] = submitted[c] /\ started'[c] = started[c]
      BY <2>2, <2>5 DEF TypeOK
    <3> QED  BY <1>0, <3>1, <3>2, OneKept
  <2> QED  BY <2>4, <2>5
<1>2. ASSUME NEW s \in Sched, NEW d \in Funcs, NEW p \in Pins,
             NEW f \in Fibers, ScheduleFiber(s, f, d, p)
      PROVE  One(c)'
  <2>1. FiberTask(f, p) \in Task /\ FiberTask(f, p).func = None
    BY TaskTypes DEF FiberTask
  <2>2. /\ Push(s, FiberTask(f, p)) /\ Free(f)
        /\ UNCHANGED <<cur, started>>
        /\ submitted' = [submitted EXCEPT ![d] = 1] /\ submitted[d] = 0
        /\ fstate' = [fstate EXCEPT ![f] = "INIT"]
        /\ body' = [body EXCEPT ![f] = d]
    BY <1>2 DEF ScheduleFiber
  <2>3. \A r \in Sched : \A i :
          (i \in DOMAIN tasks'[r] /\ tasks'[r][i].func = c) <=>
          (i \in DOMAIN tasks[r] /\ tasks[r][i].func = c)
    BY <2>1, <2>2, FiberPushHolds
  <2>4. ~Fresh(f)
    BY <2>2 DEF KInv, FreshKept, Wanted, Free, Referenced
  <2>5. \A g \in Fibers : g # f => fstate'[g] = fstate[g] /\ body'[g] = body[g]
    BY <2>2 DEF TypeOK
  <2>6. fstate'[f] = "INIT" /\ body'[f] = d  BY <2>2 DEF TypeOK
  <2>7. CASE c = d
    <3>1. \A k, a, i : Holds(c, k, a, i)' <=>
            Holds(c, k, a, i) \/ (k = "fiber" /\ a = f /\ i = 0)
      BY <2>2, <2>3, <2>5, <2>6, <2>7 DEF Holds
    <3>2. submitted[c] = 0 /\ submitted'[c] = 1 /\ started'[c] = started[c]
      BY <2>2, <2>7 DEF TypeOK
    <3>3. Once(c)' /\ Somewhere(c)'
      BY <1>0, <3>1, <3>2, Nowhere DEF Once, Somewhere
    <3> QED  BY <1>0, <3>2, <3>3, OneGained
  <2>8. CASE c # d
    <3>1. \A k, a, i : Holds(c, k, a, i)' <=> Holds(c, k, a, i)
      BY <1>0, <2>2, <2>3, <2>4, <2>5, <2>6, <2>8 DEF Holds, Fresh
    <3>2. submitted'[c] = submitted[c] /\ started'[c] = started[c]
      BY <2>2, <2>8 DEF TypeOK
    <3> QED  BY <1>0, <3>1, <3>2, OneKept
  <2> QED  BY <2>7, <2>8
<1>3. ASSUME NEW s \in Sched, NEW t \in Task, t.func = None, Push(s, t),
             UNCHANGED <<cur, fstate, body, submitted, started>>
      PROVE  One(c)'
  <2>1. \A r \in Sched : \A i :
          (i \in DOMAIN tasks'[r] /\ tasks'[r][i].func = c) <=>
          (i \in DOMAIN tasks[r] /\ tasks[r][i].func = c)
    BY <1>3, FiberPushHolds
  <2>2. \A k, a, i : Holds(c, k, a, i)' <=> Holds(c, k, a, i)
    BY <1>3, <2>1 DEF Holds
  <2> QED  BY <1>0, <1>3, <2>2, OneKept
<1>4. ASSUME NEW s \in Sched, NEW f \in Fibers, ScheduleAgain(s, f)
      PROVE  One(c)'
  BY <1>3, <1>4, TaskTypes DEF ScheduleAgain, FiberTask
<1>5. ASSUME NEW f \in Fibers, Wake(f) PROVE One(c)'
  <2>1. wake[f] \in Sched /\ Push(wake[f], FiberTask(f, AnyThread))
    BY <1>5 DEF Wake, WakeTarget, TypeOK
  <2> QED  BY <1>3, <1>5, <2>1, TaskTypes DEF Wake, FiberTask
<1> QED  BY <1>1, <1>2, <1>4, <1>5 DEF Submit

\* Neither does a step that pushes fiber tasks only and changes one fiber that
\* is not fresh.
LEMMA OneUndisturbed ==
  ASSUME TypeOK, NEW c \in Funcs, One(c), NEW f,
         f \in Fibers => ~Fresh(f) /\ ~Fresh(f)',
         \A g \in Fibers : g # f => fstate'[g] = fstate[g] /\ body'[g] = body[g],
         \A r \in Sched : \A i :
           (i \in DOMAIN tasks'[r] /\ tasks'[r][i].func = c) <=>
           (i \in DOMAIN tasks[r] /\ tasks[r][i].func = c),
         \A r \in Sched : cur'[r].func = c <=> cur[r].func = c,
         submitted'[c] = submitted[c], started'[c] = started[c]
  PROVE  One(c)'
<1>1. c # None  BY SchedulerAssumption
<1>2. \A k, a, i : Holds(c, k, a, i)' <=> Holds(c, k, a, i)
  BY <1>1 DEF Holds, Fresh
<1> QED  BY <1>2, OneKept

\* Taking a task takes its closure in hand.
LEMMA OneTake ==
  ASSUME TypeOK, KInv, NEW s \in Sched, Take(s), NEW c \in Funcs
  PROVE  One(c)'
<1>0. One(c) /\ c # None  BY SchedulerAssumption DEF KInv
<1>1. PICK n \in DOMAIN tasks[s] :
        /\ cur' = [cur EXCEPT ![s] = tasks[s][n]]
        /\ tasks' = [tasks EXCEPT ![s] = Erase(@, n)]
  BY DEF Take, FirstEligible, Eligible
<1>2. /\ pc[s] = "loop"
      /\ UNCHANGED <<fstate, body, submitted, started>>
  BY DEF Take
<1>3. /\ \A k \in DOMAIN tasks'[s] :
           /\ Was(n, k) \in DOMAIN tasks[s] /\ Was(n, k) # n
           /\ tasks'[s][k] = tasks[s][Was(n, k)]
      /\ \A j \in DOMAIN tasks[s] : j # n =>
           \E k \in DOMAIN tasks'[s] : Was(n, k) = j
      /\ \A k, l \in DOMAIN tasks'[s] : Was(n, k) = Was(n, l) => k = l
      /\ \A r \in Sched : r # s => tasks'[r] = tasks[r]
  BY <1>1, TakeExact, Zenon
<1>4. cur[s].func = None  BY <1>2 DEF KInv, Carried
<1>5. cur'[s] = tasks[s][n] /\ \A r \in Sched : r # s => cur'[r] = cur[r]
  BY <1>1 DEF TypeOK
<1>6. \A k, a, i : Holds(c, k, a, i)' =>
        \/ k = "queue" /\ a = s /\ i \in DOMAIN tasks'[s] /\ Was(n, i) # n
             /\ Holds(c, "queue", s, Was(n, i))
        \/ k = "hand" /\ a = s /\ i = 0 /\ Holds(c, "queue", s, n)
        \/ ~(k = "queue" /\ a = s) /\ ~(k = "hand" /\ a = s)
             /\ Holds(c, k, a, i)
  BY <1>2, <1>3, <1>5 DEF Holds
<1>7. \A k, a, i : Holds(c, k, a, i) =>
        \/ k = "queue" /\ a = s /\ i = n /\ Holds(c, "hand", s, 0)'
        \/ k = "queue" /\ a = s /\ i # n /\ \E j : Holds(c, "queue", s, j)'
        \/ Holds(c, k, a, i)'
  BY <1>0, <1>2, <1>3, <1>4, <1>5 DEF Holds
<1>8. Somewhere(c)' <=> Somewhere(c)
  <2>1. Somewhere(c)' => Somewhere(c)  BY <1>6 DEF Somewhere
  <2>2. Somewhere(c) => Somewhere(c)'  BY <1>7 DEF Somewhere
  <2> QED  BY <2>1, <2>2
<1>9. Once(c)'
  <2> SUFFICES ASSUME NEW k, NEW l, NEW a, NEW b, NEW i, NEW j,
                      Holds(c, k, a, i)', Holds(c, l, b, j)'
               PROVE  k = l /\ a = b /\ i = j
    BY DEF Once
  <2>1. Once(c)  BY <1>0 DEF One
  <2>2. CASE Holds(c, k, a, i) /\ ~(k = "queue" /\ a = s)
    <3>1. CASE Holds(c, l, b, j) /\ ~(l = "queue" /\ b = s)
      BY <2>1, <2>2, <3>1 DEF Once
    <3>2. CASE ~(Holds(c, l, b, j) /\ ~(l = "queue" /\ b = s))
      <4>1. \E m : Holds(c, "queue", s, m)  BY <1>6, <3>2
      <4> QED  BY <2>1, <2>2, <4>1 DEF Once
    <3> QED  BY <3>1, <3>2
  <2>3. CASE k = "queue" /\ a = s
    <3>1. i \in DOMAIN tasks'[s] /\ Was(n, i) # n
          /\ Holds(c, "queue", s, Was(n, i))
      BY <1>6, <2>3
    <3>2. CASE l = "queue" /\ b = s
      <4>1. j \in DOMAIN tasks'[s] /\ Holds(c, "queue", s, Was(n, j))
        BY <1>6, <3>2
      <4>2. Was(n, i) = Was(n, j)  BY <2>1, <3>1, <4>1 DEF Once
      <4> QED  BY <1>3, <2>3, <3>1, <3>2, <4>1, <4>2
    <3>3. CASE l = "hand" /\ b = s
      <4>1. Holds(c, "queue", s, n)  BY <1>6, <3>3
      <4> QED  BY <2>1, <3>1, <4>1 DEF Once
    <3>4. CASE ~(l = "queue" /\ b = s) /\ ~(l = "hand" /\ b = s)
      <4>1. Holds(c, l, b, j)  BY <1>6, <3>4
      <4> QED  BY <2>1, <3>1, <3>4, <4>1 DEF Once
    <3> QED  BY <3>2, <3>3, <3>4
  <2>4. CASE k = "hand" /\ a = s
    <3>1. i = 0 /\ Holds(c, "queue", s, n)  BY <1>6, <2>4
    <3>2. CASE l = "queue" /\ b = s
      <4>1. Was(n, j) # n /\ Holds(c, "queue", s, Was(n, j))
        BY <1>6, <3>2
      <4> QED  BY <2>1, <3>1, <4>1 DEF Once
    <3>3. CASE l = "hand" /\ b = s  BY <1>6, <2>4, <3>1, <3>3
    <3>4. CASE ~(l = "queue" /\ b = s) /\ ~(l = "hand" /\ b = s)
      <4>1. Holds(c, l, b, j)  BY <1>6, <3>4
      <4> QED  BY <2>1, <3>1, <3>4, <4>1 DEF Once
    <3> QED  BY <3>2, <3>3, <3>4
  <2>5. CASE ~(k = "queue" /\ a = s) /\ ~(k = "hand" /\ a = s)
    <3>1. Holds(c, k, a, i)  BY <1>6, <2>5
    <3> QED  BY <2>2, <2>5, <3>1
  <2> QED  BY <2>3, <2>4, <2>5
<1> QED  BY <1>0, <1>2, <1>8, <1>9 DEF One

\* Resuming a fresh fiber enters its closure.
LEMMA OneResume ==
  ASSUME TypeOK, KInv, NEW s \in Sched, Resume(s), NEW c \in Funcs
  PROVE  One(c)'
<1>0. One(c) /\ c # None  BY SchedulerAssumption DEF KInv
<1>1. CASE \E how \in {"assert", "ub"} : End(how)
  BY <1>0, <1>1, OneKept DEF End, Holds
<1>2. CASE ~\E how \in {"assert", "ub"} : End(how)
  <2>1. PICK f \in Fibers :
          /\ fstate' = [fstate EXCEPT ![f] = "EXEC"]
          /\ started' = IF fstate[f] = "INIT" THEN Count(body[f]) ELSE started
          /\ UNCHANGED <<tasks, cur, body, submitted>>
    BY <1>2 DEF Resume
  <2>2. /\ fstate'[f] = "EXEC"
        /\ \A g \in Fibers : g # f => fstate'[g] = fstate[g]
    BY <2>1 DEF TypeOK
  <2>3. CASE fstate[f] = "INIT" /\ body[f] = c
    <3>1. Holds(c, "fiber", f, 0)  BY <2>3 DEF Holds
    <3>2. \A k, a, i : Holds(c, k, a, i) => k = "fiber" /\ a = f
      BY <1>0, <3>1 DEF One, Once
    <3>3. \A k, a, i : ~Holds(c, k, a, i)'
      BY <2>1, <2>2, <3>2 DEF Holds
    <3>4. submitted'[c] = submitted[c] /\ started'[c] = started[c] + 1
      BY <2>1, <2>3 DEF Count, TypeOK
    <3> QED  BY <1>0, <3>1, <3>3, <3>4, OneEntered DEF Somewhere
  <2>4. CASE ~(fstate[f] = "INIT" /\ body[f] = c)
    <3>1. \A k, a, i : Holds(c, k, a, i)' <=> Holds(c, k, a, i)
      BY <2>1, <2>2, <2>4 DEF Holds
    <3>2. submitted'[c] = submitted[c] /\ started'[c] = started[c]
      BY <2>1, <2>4 DEF Count, TypeOK
    <3> QED  BY <1>0, <3>1, <3>2, OneKept
  <2> QED  BY <2>3, <2>4
<1> QED  BY <1>1, <1>2

\* A function task is entered; the fiber it runs in held no other closure.
LEMMA OneLaunch ==
  ASSUME TypeOK, KInv, NEW s \in Sched, Launch(s), NEW c \in Funcs
  PROVE  One(c)'
<1>0. One(c) /\ c # None  BY SchedulerAssumption DEF KInv
<1>1. CASE End("assert")
  BY <1>0, <1>1, OneKept DEF End, Holds
<1>2. CASE ~End("assert")
  <2>1. PICK f \in Fibers :
          /\ IF funcFiber[s] # None THEN f = funcFiber[s] ELSE Free(f)
          /\ fstate' = [fstate EXCEPT ![f] = "EXEC"]
          /\ body' = [body EXCEPT ![f] = cur[s].func]
          /\ started' = Count(cur[s].func)
          /\ cur' = [cur EXCEPT ![s] = NoTask]
          /\ UNCHANGED <<tasks, submitted>>
    BY <1>2 DEF Launch
  <2>2. ~Fresh(f)
    <3>1. CASE funcFiber[s] # None
      BY <2>1, <3>1 DEF KInv, FreshKept
    <3>2. CASE funcFiber[s] = None
      BY <2>1, <3>2 DEF KInv, FreshKept, Wanted, Free, Referenced
    <3> QED  BY <3>1, <3>2
  <2>3. /\ fstate'[f] = "EXEC" /\ cur'[s].func = None
        /\ \A g \in Fibers : g # f => fstate'[g] = fstate[g] /\ body'[g] = body[g]
        /\ \A r \in Sched : r # s => cur'[r] = cur[r]
    BY <2>1 DEF TypeOK, NoTask
  <2>4. CASE cur[s].func = c
    <3>1. Holds(c, "hand", s, 0)  BY <2>4 DEF Holds
    <3>2. \A k, a, i : Holds(c, k, a, i) => k = "hand" /\ a = s
      BY <1>0, <3>1 DEF One, Once
    <3>3. \A k, a, i : ~Holds(c, k, a, i)'
      BY <1>0, <2>1, <2>3, <3>2 DEF Holds
    <3>4. submitted'[c] = submitted[c] /\ started'[c] = started[c] + 1
      BY <2>1, <2>4 DEF Count, TypeOK
    <3> QED  BY <1>0, <3>1, <3>3, <3>4, OneEntered DEF Somewhere
  <2>5. CASE cur[s].func # c
    <3>1. \A k, a, i : Holds(c, k, a, i)' <=> Holds(c, k, a, i)
      BY <1>0, <2>1, <2>2, <2>3, <2>5 DEF Holds, Fresh
    <3>2. submitted'[c] = submitted[c] /\ started'[c] = started[c]
      BY <2>1, <2>5 DEF Count, TypeOK
    <3> QED  BY <1>0, <3>1, <3>2, OneKept
  <2> QED  BY <2>4, <2>5
<1> QED  BY <1>1, <1>2

\* When run() settles, the closure of the fiber it comes from is long entered.
LEMMA OneSettle ==
  ASSUME TypeOK, KInv, NEW s \in Sched, Settle(s), NEW c \in Funcs
  PROVE  One(c)'
<1>0. PICK f \in Fibers \cup {None} :
        f = Running(s) /\ One(c) /\ c # None
  BY SchedulerAssumption DEF KInv, TypeOK, Task, Running
<1>1. /\ pc[s] = "settle" /\ cur' = [cur EXCEPT ![s] = NoTask]
      /\ UNCHANGED <<submitted, started>>
  BY DEF Settle
<1>2. f \in Fibers => ~Fresh(f)
  BY <1>0, <1>1 DEF KInv, FreshKept, InFiber
<1>3. \A r \in Sched : \A i :
        (i \in DOMAIN tasks'[r] /\ tasks'[r][i].func = c) <=>
        (i \in DOMAIN tasks[r] /\ tasks[r][i].func = c)
  <2>1. CASE Requeues(f)
    <3>1. Push(s, FiberTask(f, AnyThread))
          /\ FiberTask(f, AnyThread).func = None
      BY <1>0, <2>1 DEF Settle, Push, FiberTask
    <3> QED  BY <1>0, <3>1, FiberPushHolds, TaskTypes
  <2>2. CASE ~Requeues(f)
    <3>1. tasks' = tasks  BY <1>0, <2>2 DEF Settle
    <3> QED  BY <3>1
  <2> QED  BY <2>1, <2>2
<1>4. \A r \in Sched : cur'[r].func = c <=> cur[r].func = c
  <2>1. cur[s].func = None  BY <1>1 DEF KInv, Carried
  <2>2. cur'[s] = NoTask /\ \A r \in Sched : r # s => cur'[r] = cur[r]
    BY <1>1 DEF TypeOK
  <2> QED  BY <1>0, <2>1, <2>2 DEF NoTask
<1>5. /\ \A g \in Fibers : g # f => fstate'[g] = fstate[g] /\ body'[g] = body[g]
      /\ f \in Fibers => ~Fresh(f)'
  <2>1. CASE Recycles(s, f)
    <3>1. fstate' = [fstate EXCEPT ![f] = "INIT"]
      <4>1. ~(fstate[f] \notin Finished \cup {"READY"})
        BY <2>1 DEF Recycles
      <4>2. fstate' = CASE Recycles(s, f) -> [fstate EXCEPT ![f] = "INIT"]
                        [] fstate[f] \notin Finished \cup {"READY"} ->
                             [fstate EXCEPT ![f] = "HOLD"]
                        [] OTHER -> fstate
        BY <1>0 DEF Settle
      <4> QED  BY <2>1, <4>1, <4>2
    <3>2. body' = [body EXCEPT ![f] = None]  BY <1>0, <2>1 DEF Settle
    <3> QED  BY <3>1, <3>2 DEF Fresh, TypeOK
  <2>2. CASE ~Recycles(s, f)
    <3>1. fstate' \in {[fstate EXCEPT ![f] = "HOLD"], fstate} /\ body' = body
      BY <1>0, <2>2 DEF Settle
    <3> QED  BY <1>2, <3>1 DEF Fresh, TypeOK
  <2> QED  BY <2>1, <2>2
<1>6. submitted'[c] = submitted[c] /\ started'[c] = started[c]  BY <1>1
<1> QED  BY <1>0, <1>2, <1>3, <1>4, <1>5, <1>6, OneUndisturbed

\* Every step of run() keeps every closure in one place or enters it.
LEMMA OneWorker ==
  ASSUME TypeOK, KInv, NEW s \in Sched, Worker(s), NEW c \in Funcs
  PROVE  One(c)'
<1>0. One(c) /\ c # None  BY SchedulerAssumption DEF KInv
<1>1. CASE SkipFinished(s)
  <2>1. cur[s].func = None
    BY <1>1 DEF SkipFinished, KInv, Carried, OneKind
  <2>2. \A k, a, i : Holds(c, k, a, i)' <=> Holds(c, k, a, i)
    BY <1>0, <1>1, <2>1 DEF SkipFinished, Holds, TypeOK, NoTask
  <2> QED  BY <1>0, <1>1, <2>2, OneKept DEF SkipFinished
<1>2. CASE TakeNothing(s) \/ Back(s) \/ EnterIdle(s) \/ IdleCheck(s)
           \/ LeaveIdle(s) \/ LeaveRun(s)
  <2>1. UNCHANGED <<tasks, cur, fstate, body, submitted, started>>
    BY <1>2 DEF TakeNothing, Back, EnterIdle, IdleCheck, LeaveIdle, LeaveRun
  <2>2. \A k, a, i : Holds(c, k, a, i)' <=> Holds(c, k, a, i)
    BY <2>1 DEF Holds
  <2> QED  BY <1>0, <2>1, <2>2, OneKept
<1> QED  BY <1>1, <1>2, OneTake, OneResume, OneLaunch, OneSettle DEF Worker

\* What a fiber does to its own state moves no closure.
LEMMA OneBody ==
  ASSUME TypeOK, KInv, NEW s \in Sched, Body(s), NEW c \in Funcs
  PROVE  One(c)'
<1>0. PICK f \in Fibers \cup {None} :
        f = Running(s) /\ One(c) /\ c # None
  BY SchedulerAssumption DEF KInv, TypeOK, Task, Running
<1>1. CASE Return(s) \/ YieldToReady(s) \/ YieldToHold(s)
  <2>1. /\ UNCHANGED <<tasks, cur, submitted, started>> /\ pc[s] = "exec"
        /\ \A g \in Fibers : g # f => fstate'[g] = fstate[g] /\ body'[g] = body[g]
        /\ f \in Fibers => \/ fstate'[f] = fstate[f] /\ body'[f] = body[f]
                           \/ fstate'[f] # "INIT"
    BY <1>0, <1>1 DEF Return, YieldToReady, YieldToHold, End, TypeOK
  <2>2. f \in Fibers => ~Fresh(f)  BY <1>0, <2>1 DEF KInv, FreshKept, InFiber
  <2>3. f \in Fibers => ~Fresh(f)'  BY <2>1, <2>2 DEF Fresh
  <2> QED  BY <1>0, <2>1, <2>2, <2>3, OneUndisturbed
<1>2. CASE Register(s) \/ SwapOut(s)
  <2>1. UNCHANGED <<tasks, cur, fstate, body, submitted, started>>
    BY <1>2 DEF Register, SwapOut
  <2>2. \A k, a, i : Holds(c, k, a, i)' <=> Holds(c, k, a, i)
    BY <2>1 DEF Holds
  <2> QED  BY <1>0, <2>1, <2>2, OneKept
<1>3. ASSUME NEW t \in Sched, SwitchTo(s, t) PROVE One(c)'
  <2>1. /\ Push(t, FiberTask(f, AnyThread))
        /\ UNCHANGED <<cur, fstate, body, submitted, started>>
    BY <1>0, <1>3 DEF SwitchTo
  <2>2. FiberTask(f, AnyThread) \in Task /\ FiberTask(f, AnyThread).func = None
    BY <1>0, TaskTypes DEF FiberTask
  <2>3. \A r \in Sched : \A i :
          (i \in DOMAIN tasks'[r] /\ tasks'[r][i].func = c) <=>
          (i \in DOMAIN tasks[r] /\ tasks[r][i].func = c)
    BY <2>1, <2>2, FiberPushHolds
  <2>4. \A k, a, i : Holds(c, k, a, i)' <=> Holds(c, k, a, i)
    BY <2>1, <2>3 DEF Holds
  <2> QED  BY <1>0, <2>1, <2>4, OneKept
<1> QED  BY <1>1, <1>2, <1>3 DEF Body

\* Queues hold fibers or functions, and run() keeps no function in its task
\* once it has entered it.
LEMMA CarriedNext ==
  ASSUME TypeOK, Carried, [Next]_vars PROVE Carried'
<1>1. ASSUME NEW s \in Sched, NEW t \in Task, OneKind(t), Push(s, t),
             UNCHANGED <<cur, pc>>
      PROVE  Carried'
  <2>1. \A r \in Sched : \A k \in DOMAIN tasks'[r] :
          (\E j \in DOMAIN tasks[r] : tasks'[r][k] = tasks[r][j])
          \/ tasks'[r][k] = t
    BY <1>1, PushAdds DEF Adds
  <2> QED  BY <1>1, <2>1 DEF Carried
<1>2. CASE Submit
  <2>1. ASSUME NEW s \in Sched, NEW c \in Funcs, NEW p \in Pins,
               ScheduleFunc(s, c, p)
        PROVE  Carried'
    BY <1>1, <2>1, TaskTypes DEF ScheduleFunc, OneKind, FuncTask
  <2>2. ASSUME NEW s \in Sched, NEW c \in Funcs, NEW p \in Pins,
               NEW f \in Fibers, ScheduleFiber(s, f, c, p)
        PROVE  Carried'
    BY <1>1, <2>2, TaskTypes DEF ScheduleFiber, OneKind, FiberTask
  <2>3. ASSUME NEW s \in Sched, NEW f \in Fibers, ScheduleAgain(s, f)
        PROVE  Carried'
    BY <1>1, <2>3, TaskTypes DEF ScheduleAgain, OneKind, FiberTask
  <2>4. ASSUME NEW f \in Fibers, Wake(f) PROVE Carried'
    <3>1. wake[f] \in Sched /\ Push(wake[f], FiberTask(f, AnyThread))
      BY <2>4 DEF Wake, WakeTarget, TypeOK
    <3> QED  BY <1>1, <2>4, <3>1, TaskTypes DEF Wake, OneKind, FiberTask
  <2> QED  BY <1>2, <2>1, <2>2, <2>3, <2>4 DEF Submit
<1>3. ASSUME NEW s \in Sched, Start(s) \/ Stop(s) PROVE Carried'
  <2>1. UNCHANGED <<tasks, cur>> /\ pc[s] = "main"
        /\ \A r \in Sched : r # s => pc'[r] = pc[r]
    BY <1>3 DEF Start, Stop, TypeOK
  <2> QED  BY <2>1 DEF Carried
<1>4. ASSUME NEW s \in Sched, Take(s) PROVE Carried'
  <2>1. PICK i \in DOMAIN tasks[s] :
          /\ cur' = [cur EXCEPT ![s] = tasks[s][i]]
          /\ tasks' = [tasks EXCEPT ![s] = Erase(@, i)]
          /\ pc' = [pc EXCEPT ![s] = "taken"]
    BY <1>4 DEF Take, FirstEligible, Eligible
  <2>2. \A r \in Sched : \A k \in DOMAIN tasks'[r] :
          \E j \in DOMAIN tasks[r] : tasks'[r][k] = tasks[r][j]
    BY <2>1, TakeAdds
  <2> QED  BY <2>1, <2>2 DEF Carried, TypeOK
<1>5. ASSUME NEW s \in Sched, SkipFinished(s) \/ Launch(s) PROVE Carried'
  <2>1. \/ UNCHANGED <<tasks, cur, pc>>
        \/ /\ UNCHANGED tasks /\ cur' = [cur EXCEPT ![s] = NoTask]
           /\ \E p : pc' = [pc EXCEPT ![s] = p]
    BY <1>5 DEF SkipFinished, Launch, End
  <2> QED  BY <2>1 DEF Carried, OneKind, NoTask, TypeOK
<1>6. ASSUME NEW s \in Sched, Resume(s) PROVE Carried'
  <2>1. UNCHANGED <<tasks, cur>> /\ cur[s].fiber # None
        /\ \A r \in Sched : r # s => pc'[r] = pc[r]
    BY <1>6, SchedulerAssumption DEF Resume, End, TypeOK
  <2> QED  BY <2>1 DEF Carried, OneKind
<1>7. ASSUME NEW s \in Sched, Settle(s) PROVE Carried'
  <2>0. Running(s) \in Fibers \cup {None}  BY DEF TypeOK, Task, Running
  <2>1. /\ cur' = [cur EXCEPT ![s] = NoTask]
        /\ pc' = [pc EXCEPT ![s] = "loop"] /\ pc[s] = "settle"
    BY <1>7 DEF Settle
  <2>2. \A r \in Sched : \A k \in DOMAIN tasks'[r] : OneKind(tasks'[r][k])
    <3>1. CASE Requeues(Running(s))
      <4>1. Push(s, FiberTask(Running(s), AnyThread))
        BY <1>7, <3>1 DEF Settle, Push
      <4> QED  BY <2>0, <4>1, PushAdds, TaskTypes DEF Adds, Carried, OneKind, FiberTask
    <3>2. CASE ~Requeues(Running(s))  BY <1>7, <3>2 DEF Settle, Carried
    <3> QED  BY <3>1, <3>2
  <2> QED  BY <2>1, <2>2 DEF Carried, OneKind, NoTask, TypeOK
<1>8. ASSUME NEW s \in Sched,
             \/ TakeNothing(s) \/ Back(s) \/ EnterIdle(s) \/ IdleCheck(s)
             \/ LeaveIdle(s) \/ LeaveRun(s) \/ Return(s) \/ YieldToReady(s)
             \/ Register(s) \/ YieldToHold(s) \/ SwapOut(s)
      PROVE  Carried'
  <2>1. UNCHANGED <<tasks, cur>> /\ pc[s] # "taken"
        /\ \A r \in Sched : r # s => pc'[r] = pc[r]
    BY <1>8 DEF TakeNothing, Back, EnterIdle, IdleCheck, LeaveIdle, LeaveRun,
      Return, YieldToReady, Register, YieldToHold, SwapOut, End, TypeOK
  <2> QED  BY <2>1 DEF Carried
<1>9. ASSUME NEW s \in Sched, NEW t \in Sched, SwitchTo(s, t) PROVE Carried'
  <2>1. FiberTask(Running(s), AnyThread) \in Task
        /\ OneKind(FiberTask(Running(s), AnyThread))
    BY TaskTypes DEF TypeOK, Task, Running, OneKind, FiberTask
  <2> QED  BY <1>1, <1>9, <2>1 DEF SwitchTo
<1>10. CASE UNCHANGED vars  BY <1>10 DEF vars, Carried
<1>11. ASSUME NEW s \in Sched, Worker(s) \/ Body(s) PROVE Carried'
  BY <1>11, <1>4, <1>5, <1>6, <1>7, <1>8, <1>9 DEF Worker, Body
<1> QED  BY <1>2, <1>3, <1>10, <1>11 DEF Next, Ended

\* How a step keeps fresh fibers wanted.
LEMMA FreshStep ==
  ASSUME FreshKept,
         \A f \in Fibers : Fresh(f)' =>
           Fresh(f) /\ \A s \in Sched : Wanted(s, f) => Wanted(s, f)',
         \A s \in Sched : funcFiber'[s] \in Fibers =>
           funcFiber'[s] = funcFiber[s] \/ fstate'[funcFiber'[s]] = "EXEC",
         \A s \in Sched : pc'[s] \in InFiber =>
           \/ pc[s] \in InFiber /\ Running(s)' = Running(s)
           \/ fstate'[Running(s)'] = "EXEC"
  PROVE  FreshKept'
<1>1. \A f \in Fibers : Fresh(f)' => \E s \in Sched : Wanted(s, f)'
  BY DEF FreshKept
<1>2. ASSUME NEW s \in Sched, NEW f \in Fibers, funcFiber'[s] = f
      PROVE  ~Fresh(f)'
  BY <1>2 DEF FreshKept, Fresh
<1>3. ASSUME NEW s \in Sched, NEW f \in Fibers, pc'[s] \in InFiber,
             Running(s)' = f
      PROVE  ~Fresh(f)'
  BY <1>3 DEF FreshKept, Fresh
<1>4. \A s \in Sched : funcFiber'[s] \in Fibers => ~Fresh(funcFiber[s])'
  BY <1>2 DEF Fresh
<1>5. \A s \in Sched : pc'[s] \in InFiber /\ Running(s)' \in Fibers =>
        ~Fresh(Running(s))'
  BY <1>3 DEF Fresh
<1> QED  BY <1>1, <1>4, <1>5 DEF FreshKept

\* Submitting a fiber wants it; nothing that is submitted is forgotten.
LEMMA FreshSubmit ==
  ASSUME TypeOK, FreshKept, Submit PROVE FreshKept'
<1>1. ASSUME NEW s \in Sched, NEW t \in Task, Push(s, t),
             UNCHANGED <<pc, cur, funcFiber, fstate, body>>
      PROVE  FreshKept'
  <2>1. \A r \in Sched, f \in Fibers : Wanted(r, f) => Wanted(r, f)'
    BY <1>1, PushKeeps DEF Wanted
  <2>2. \A r \in Sched : Running(r)' = Running(r)  BY <1>1 DEF Running
  <2> QED  BY <1>1, <2>1, <2>2, FreshStep DEF Fresh
<1>2. ASSUME NEW s \in Sched, NEW c \in Funcs, NEW p \in Pins,
             ScheduleFunc(s, c, p)
      PROVE  FreshKept'
  BY <1>1, <1>2, TaskTypes DEF ScheduleFunc
<1>3. ASSUME NEW s \in Sched, NEW c \in Funcs, NEW p \in Pins,
             NEW f \in Fibers, ScheduleFiber(s, f, c, p)
      PROVE  FreshKept'
  <2>1. /\ Push(s, FiberTask(f, p)) /\ Free(f)
        /\ UNCHANGED <<pc, cur, funcFiber>>
        /\ fstate' = [fstate EXCEPT ![f] = "INIT"]
        /\ body' = [body EXCEPT ![f] = c]
    BY <1>3 DEF ScheduleFiber
  <2>2. FiberTask(f, p) \in Task /\ FiberTask(f, p).fiber = f
    BY TaskTypes DEF FiberTask
  <2>3. /\ \A r \in Sched, g \in Fibers : Wanted(r, g) => Wanted(r, g)'
        /\ Wanted(s, f)'
    BY <2>1, <2>2, PushKeeps DEF Wanted
  <2>4. \A g \in Fibers : g # f => (Fresh(g)' <=> Fresh(g))
    BY <2>1 DEF Fresh, TypeOK
  <2>5. \A r \in Sched : /\ Running(r)' = Running(r) /\ Running(r) # f
                         /\ funcFiber[r] # f
    BY <2>1 DEF Running, Free, Referenced
  <2>6. \A g \in Fibers : Fresh(g)' => \E r \in Sched : Wanted(r, g)'
    BY <2>3, <2>4 DEF FreshKept
  <2>7. ASSUME NEW r \in Sched, NEW g \in Fibers,
               funcFiber'[r] = g \/ (pc'[r] \in InFiber /\ Running(r)' = g)
        PROVE  ~Fresh(g)'
    BY <2>1, <2>4, <2>5, <2>7 DEF FreshKept
  <2>8. \A r \in Sched : funcFiber'[r] \in Fibers => ~Fresh(funcFiber[r])'
    BY <2>7 DEF Fresh
  <2>9. \A r \in Sched : pc'[r] \in InFiber /\ Running(r)' \in Fibers =>
          ~Fresh(Running(r))'
    BY <2>7 DEF Fresh
  <2> QED  BY <2>6, <2>8, <2>9 DEF FreshKept
<1>4. ASSUME NEW s \in Sched, NEW f \in Fibers, ScheduleAgain(s, f)
      PROVE  FreshKept'
  BY <1>1, <1>4, TaskTypes DEF ScheduleAgain
<1>5. ASSUME NEW f \in Fibers, Wake(f) PROVE FreshKept'
  <2>1. wake[f] \in Sched /\ Push(wake[f], FiberTask(f, AnyThread))
    BY <1>5 DEF Wake, WakeTarget, TypeOK
  <2> QED  BY <1>1, <1>5, <2>1, TaskTypes DEF Wake
<1> QED  BY <1>2, <1>3, <1>4, <1>5 DEF Submit

\* run() wants what it takes until it resumes it.
LEMMA FreshWorker ==
  ASSUME TypeOK, FreshKept, NEW s \in Sched, Worker(s) PROVE FreshKept'
<1>1. CASE Take(s)
  <2>1. PICK i \in DOMAIN tasks[s] :
          /\ cur' = [cur EXCEPT ![s] = tasks[s][i]]
          /\ tasks' = [tasks EXCEPT ![s] = Erase(@, i)]
    BY <1>1 DEF Take, FirstEligible, Eligible
  <2>2. pc[s] = "loop" /\ pc' = [pc EXCEPT ![s] = "taken"]
        /\ UNCHANGED <<fstate, body, funcFiber>>
    BY <1>1 DEF Take
  <2>3. \A r \in Sched, f \in Fibers :
          Queued(r, f) => Queued(r, f)' \/ (r = s /\ tasks[s][i].fiber = f)
    BY <2>1, TakeKeeps
  <2>4. \A r \in Sched, f \in Fibers : Wanted(r, f) => Wanted(r, f)'
    BY <2>1, <2>2, <2>3 DEF Wanted, TypeOK
  <2>5. \A r \in Sched : pc'[r] \in InFiber =>
          pc[r] \in InFiber /\ Running(r)' = Running(r)
    BY <2>1, <2>2 DEF Running, InFiber, TypeOK
  <2> QED  BY <2>2, <2>4, <2>5, FreshStep DEF Fresh
<1>2. CASE SkipFinished(s)
  <2>1. /\ pc[s] = "taken" /\ pc' = [pc EXCEPT ![s] = "loop"]
        /\ fstate[cur[s].fiber] \in Finished
        /\ cur' = [cur EXCEPT ![s] = NoTask]
        /\ UNCHANGED <<tasks, fstate, body, funcFiber>>
    BY <1>2 DEF SkipFinished
  <2>2. \A r \in Sched, f \in Fibers :
          Fresh(f) => (Wanted(r, f) => Wanted(r, f)')
    BY <2>1 DEF Wanted, Queued, Fresh, Finished, TypeOK
  <2>3. \A r \in Sched : pc'[r] \in InFiber =>
          pc[r] \in InFiber /\ Running(r)' = Running(r)
    BY <2>1 DEF Running, InFiber, TypeOK
  <2> QED  BY <2>1, <2>2, <2>3, FreshStep DEF Fresh
<1>3. CASE \E how \in {"assert", "ub"} : End(how)
  <2>1. UNCHANGED <<tasks, cur, pc, funcFiber, fstate, body>>
    BY <1>3 DEF End
  <2>2. \A r \in Sched, f \in Fibers : Wanted(r, f)' <=> Wanted(r, f)
    BY <2>1 DEF Wanted, Queued
  <2>3. \A r \in Sched : Running(r)' = Running(r)  BY <2>1 DEF Running
  <2> QED  BY <2>1, <2>2, <2>3, FreshStep DEF Fresh
<1>4. CASE Resume(s) /\ ~\E how \in {"assert", "ub"} : End(how)
  <2>1. PICK f \in Fibers :
          /\ pc[s] = "taken" /\ cur[s].fiber = f
          /\ fstate' = [fstate EXCEPT ![f] = "EXEC"]
          /\ pc' = [pc EXCEPT ![s] = "exec"]
          /\ UNCHANGED <<tasks, cur, funcFiber, body>>
    BY <1>4 DEF Resume
  <2>2. f # None /\ fstate'[f] = "EXEC"
        /\ \A g \in Fibers : g # f => fstate'[g] = fstate[g]
    BY <2>1, SchedulerAssumption DEF TypeOK
  <2>3. \A r \in Sched : Running(r)' = Running(r)  BY <2>1 DEF Running
  <2>4. Running(s)' = f  BY <2>1, <2>2 DEF Running
  <2>5. \A r \in Sched, g \in Fibers :
          Fresh(g)' => (Wanted(r, g) => Wanted(r, g)')
    BY <2>1, <2>2 DEF Wanted, Queued, Fresh, TypeOK
  <2>6. \A g \in Fibers : Fresh(g)' => Fresh(g)
    BY <2>1, <2>2 DEF Fresh
  <2>7. \A r \in Sched : r # s => pc'[r] = pc[r]  BY <2>1 DEF TypeOK
  <2>8. \A r \in Sched : pc'[r] \in InFiber =>
           \/ pc[r] \in InFiber /\ Running(r)' = Running(r)
           \/ fstate'[Running(r)'] = "EXEC"
    BY <2>2, <2>3, <2>4, <2>7
  <2> QED  BY <2>1, <2>5, <2>6, <2>8, FreshStep
<1>5. CASE Launch(s) /\ ~\E how \in {"assert", "ub"} : End(how)
  <2>1. PICK f \in Fibers :
          /\ pc[s] = "taken" /\ cur[s].fiber = None
          /\ funcFiber' = [funcFiber EXCEPT ![s] = f]
          /\ fstate' = [fstate EXCEPT ![f] = "EXEC"]
          /\ body' = [body EXCEPT ![f] = cur[s].func]
          /\ cur' = [cur EXCEPT ![s] = NoTask]
          /\ pc' = [pc EXCEPT ![s] = "exec"]
          /\ UNCHANGED tasks
    BY <1>5 DEF Launch
  <2>2. /\ fstate'[f] = "EXEC"
        /\ \A g \in Fibers : g # f => fstate'[g] = fstate[g] /\ body'[g] = body[g]
        /\ funcFiber'[s] = f /\ cur'[s] = NoTask
        /\ \A r \in Sched : r # s => /\ funcFiber'[r] = funcFiber[r]
                                     /\ cur'[r] = cur[r] /\ pc'[r] = pc[r]
    BY <2>1 DEF TypeOK
  <2>3. Running(s)' = f  BY <2>2 DEF Running, NoTask
  <2>4. \A r \in Sched : r # s => Running(r)' = Running(r)
    BY <2>2 DEF Running
  <2>5. \A r \in Sched, g \in Fibers : Wanted(r, g) => Wanted(r, g)'
    BY <2>1, <2>2, SchedulerAssumption DEF Wanted, Queued
  <2>6. \A g \in Fibers : Fresh(g)' => Fresh(g)
    BY <2>2 DEF Fresh
  <2>7. \A r \in Sched : pc'[r] \in InFiber =>
           \/ pc[r] \in InFiber /\ Running(r)' = Running(r)
           \/ fstate'[Running(r)'] = "EXEC"
    BY <2>2, <2>3, <2>4
  <2>8. \A r \in Sched : funcFiber'[r] \in Fibers =>
           funcFiber'[r] = funcFiber[r] \/ fstate'[funcFiber'[r]] = "EXEC"
    BY <2>2
  <2> QED  BY <2>5, <2>6, <2>7, <2>8, FreshStep
<1>6. CASE Settle(s)
  <2>0. PICK f \in Fibers \cup {None} : f = Running(s)
    BY DEF TypeOK, Task, Running
  <2>1. /\ pc[s] = "settle" /\ pc' = [pc EXCEPT ![s] = "loop"]
        /\ cur' = [cur EXCEPT ![s] = NoTask]
        /\ funcFiber' \in {funcFiber, [funcFiber EXCEPT ![s] = None]}
    BY <1>6 DEF Settle
  <2>2. \A r \in Sched, g \in Fibers : Queued(r, g) => Queued(r, g)'
    <3>1. CASE Requeues(f)
      <4>1. Push(s, FiberTask(f, AnyThread))
        BY <1>6, <2>0, <3>1 DEF Settle, Push
      <4> QED  BY <4>1, <2>0, PushKeeps, TaskTypes
    <3>2. CASE ~Requeues(f)  BY <1>6, <2>0, <3>2 DEF Settle, Queued
    <3> QED  BY <3>1, <3>2
  <2>3. \A r \in Sched, g \in Fibers : Wanted(r, g) => Wanted(r, g)'
    BY <2>1, <2>2 DEF Wanted, TypeOK
  <2>4. \A r \in Sched : funcFiber'[r] \in Fibers => funcFiber'[r] = funcFiber[r]
    BY <2>1, SchedulerAssumption DEF TypeOK
  <2>5. \A r \in Sched : pc'[r] \in InFiber =>
          pc[r] \in InFiber /\ Running(r)' = Running(r)
    BY <2>1 DEF Running, InFiber, TypeOK
  <2>6. \A g \in Fibers : Fresh(g)' => Fresh(g)
    <3>1. CASE Recycles(s, f)
      <4>1. body' = [body EXCEPT ![f] = None]
        BY <1>6, <2>0, <3>1 DEF Settle
      <4>2. ~(fstate[f] \notin Finished \cup {"READY"})
        BY <3>1 DEF Recycles
      <4>3. fstate' = CASE Recycles(s, f) -> [fstate EXCEPT ![f] = "INIT"]
                        [] fstate[f] \notin Finished \cup {"READY"} ->
                             [fstate EXCEPT ![f] = "HOLD"]
                        [] OTHER -> fstate
        BY <1>6, <2>0 DEF Settle
      <4>4. fstate' = [fstate EXCEPT ![f] = "INIT"]  BY <3>1, <4>2, <4>3
      <4> QED  BY <4>1, <4>4 DEF Fresh, TypeOK
    <3>2. CASE ~Recycles(s, f)
      <4>1. fstate' \in {[fstate EXCEPT ![f] = "HOLD"], fstate} /\ body' = body
        BY <1>6, <2>0, <3>2 DEF Settle
      <4> QED  BY <4>1 DEF Fresh, TypeOK
    <3> QED  BY <3>1, <3>2
  <2> QED  BY <2>3, <2>4, <2>5, <2>6, FreshStep
<1>7. CASE TakeNothing(s) \/ Back(s) \/ EnterIdle(s) \/ IdleCheck(s)
           \/ LeaveIdle(s) \/ LeaveRun(s)
  <2>1. /\ UNCHANGED <<tasks, cur, funcFiber, fstate, body>>
        /\ pc[s] # "taken"
        /\ \A r \in Sched : r # s => pc'[r] = pc[r]
        /\ pc'[s] \in InFiber => pc[s] \in InFiber
    BY <1>7 DEF TakeNothing, Back, EnterIdle, IdleCheck, LeaveIdle, LeaveRun,
                TypeOK, InFiber
  <2>2. \A r \in Sched, f \in Fibers : Wanted(r, f) => Wanted(r, f)'
    BY <2>1 DEF Wanted, Queued
  <2>3. \A r \in Sched : Running(r)' = Running(r)  BY <2>1 DEF Running
  <2>4. \A r \in Sched : pc'[r] \in InFiber => pc[r] \in InFiber
    BY <2>1
  <2> QED  BY <2>1, <2>2, <2>3, <2>4, FreshStep DEF Fresh
<1> QED  BY <1>1, <1>2, <1>3, <1>4, <1>5, <1>6, <1>7 DEF Worker

\* A running fiber makes no fiber fresh.
LEMMA FreshBody ==
  ASSUME TypeOK, FreshKept, NEW s \in Sched, Body(s) PROVE FreshKept'
<1>0. PICK f \in Fibers \cup {None} : f = Running(s)
  BY DEF TypeOK, Task, Running
<1>1. /\ UNCHANGED <<cur, funcFiber>> /\ pc[s] \in {"exec", "swapping"}
      /\ \A r \in Sched : r # s => pc'[r] = pc[r]
  BY DEF Body, Return, YieldToReady, Register, YieldToHold, SwapOut, SwitchTo,
         End, TypeOK
<1>2. \A g \in Fibers : Fresh(g)' => Fresh(g)
  <2>1. /\ \A g \in Fibers : g # f => fstate'[g] = fstate[g] /\ body'[g] = body[g]
        /\ f \in Fibers => \/ fstate'[f] = fstate[f] /\ body'[f] = body[f]
                           \/ fstate'[f] # "INIT"
    BY <1>0 DEF Body, Return, YieldToReady, Register, YieldToHold, SwapOut,
                SwitchTo, End, TypeOK
  <2> QED  BY <2>1 DEF Fresh
<1>3. \A r \in Sched, g \in Fibers : Queued(r, g) => Queued(r, g)'
  <2>1. CASE \E t \in Sched : SwitchTo(s, t)
    <3>1. PICK t \in Sched : Push(t, FiberTask(f, AnyThread))
      BY <1>0, <2>1 DEF SwitchTo
    <3> QED  BY <1>0, <3>1, PushKeeps, TaskTypes
  <2>2. CASE ~\E t \in Sched : SwitchTo(s, t)
    <3>1. UNCHANGED tasks
      BY <2>2 DEF Body, Return, YieldToReady, Register, YieldToHold, SwapOut, End
    <3> QED  BY <3>1 DEF Queued
  <2> QED  BY <2>1, <2>2
<1>4. \A r \in Sched, g \in Fibers : Wanted(r, g) => Wanted(r, g)'
  BY <1>1, <1>3 DEF Wanted
<1>5. \A r \in Sched : /\ Running(r)' = Running(r)
                       /\ pc'[r] \in InFiber => pc[r] \in InFiber
  BY <1>1 DEF Running, InFiber
<1> QED  BY <1>1, <1>2, <1>4, <1>5, FreshStep

\* Initially nothing was handed in.
LEMMA KInvInit == Init => KInv
<1> SUFFICES ASSUME Init PROVE KInv  OBVIOUS
<1>1. /\ tasks = [s \in Sched |-> <<>>] /\ cur = [s \in Sched |-> NoTask]
      /\ body = [f \in Fibers |-> None] /\ pc = [s \in Sched |-> "main"]
      /\ funcFiber = [s \in Sched |-> None]
      /\ submitted = [c \in Funcs |-> 0] /\ started = [c \in Funcs |-> 0]
  BY DEF Init
<1>2. Carried  BY <1>1 DEF Carried, OneKind, NoTask
<1>3. FreshKept  BY <1>1 DEF FreshKept, Fresh, InFiber
<1>4. ASSUME NEW c \in Funcs PROVE One(c)
  <2>1. c # None  BY SchedulerAssumption
  <2>2. \A k, a, i : ~Holds(c, k, a, i)  BY <1>1, <2>1 DEF Holds, NoTask
  <2>3. Once(c) /\ ~Somewhere(c)  BY <2>2 DEF Once, Somewhere
  <2> QED  BY <1>1, <2>3 DEF One
<1> QED  BY <1>2, <1>3, <1>4 DEF KInv

\* Conservation is inductive, whether or not fibers migrate.
LEMMA KInvNext == TypeOK /\ KInv /\ [Next]_vars => KInv'
<1> SUFFICES ASSUME TypeOK, KInv, [Next]_vars PROVE KInv'  OBVIOUS
<1>1. Carried'  BY CarriedNext DEF KInv
<1>2. ASSUME UNCHANGED <<tasks, cur, funcFiber, fstate, body, submitted, started>>,
             \A s \in Sched : pc[s] = "taken" => pc'[s] = "taken",
             \A s \in Sched : pc'[s] \in InFiber => pc[s] \in InFiber
      PROVE  FreshKept' /\ \A c \in Funcs : One(c)'
  <2>1. \A s \in Sched, f \in Fibers : Wanted(s, f) => Wanted(s, f)'
    BY <1>2 DEF Wanted, Queued
  <2>2. \A s \in Sched : Running(s)' = Running(s)  BY <1>2 DEF Running
  <2>3. FreshKept'  BY <1>2, <2>1, <2>2, FreshStep DEF KInv, Fresh
  <2>4. ASSUME NEW c \in Funcs PROVE One(c)'
    <3>1. \A k, a, i : Holds(c, k, a, i)' <=> Holds(c, k, a, i)
      BY <1>2 DEF Holds
    <3> QED  BY <1>2, <3>1, OneKept DEF KInv
  <2> QED  BY <2>3, <2>4
<1>3. CASE Submit
  BY <1>1, <1>3, FreshSubmit, OneSubmit DEF KInv
<1>4. ASSUME NEW s \in Sched, Start(s) \/ Stop(s) PROVE KInv'
  <2>1. /\ UNCHANGED <<tasks, cur, funcFiber, fstate, body, submitted, started>>
        /\ \A r \in Sched : pc[r] = "taken" => pc'[r] = "taken"
        /\ \A r \in Sched : pc'[r] \in InFiber => pc[r] \in InFiber
    BY <1>4 DEF Start, Stop, TypeOK, InFiber
  <2> QED  BY <1>1, <1>2, <2>1 DEF KInv
<1>5. ASSUME NEW s \in Sched, Worker(s) PROVE KInv'
  BY <1>1, <1>5, FreshWorker, OneWorker DEF KInv
<1>6. ASSUME NEW s \in Sched, Body(s) PROVE KInv'
  BY <1>1, <1>6, FreshBody, OneBody DEF KInv
<1>7. CASE UNCHANGED vars
  BY <1>1, <1>2, <1>7 DEF vars, KInv
<1> QED  BY <1>3, <1>4, <1>5, <1>6, <1>7 DEF Next, Ended

\* The places of a closure are the elements of Waiting.
LEMMA WaitingIs ==
  ASSUME NEW c, NEW x
  PROVE  x \in Waiting(c) <=> \E k, a, i : Holds(c, k, a, i) /\ x = <<a, i>>
<1>1. ASSUME NEW s \in Sched, NEW i \in DOMAIN tasks[s], tasks[s][i].func = c,
             x = <<s, i>>
      PROVE  \E k, a, j : Holds(c, k, a, j) /\ x = <<a, j>>
  <2>1. Holds(c, "queue", s, i)  BY <1>1 DEF Holds
  <2> QED  BY <1>1, <2>1
<1>2. ASSUME NEW s \in Sched, cur[s].func = c, x = <<s, 0>>
      PROVE  \E k, a, j : Holds(c, k, a, j) /\ x = <<a, j>>
  <2>1. Holds(c, "hand", s, 0)  BY <1>2 DEF Holds
  <2> QED  BY <1>2, <2>1
<1>3. ASSUME NEW f \in Fibers, fstate[f] = "INIT", body[f] = c, x = <<f, 0>>
      PROVE  \E k, a, j : Holds(c, k, a, j) /\ x = <<a, j>>
  <2>1. Holds(c, "fiber", f, 0)  BY <1>3 DEF Holds
  <2> QED  BY <1>3, <2>1
<1>4. x \in Waiting(c) <=>
        \/ \E s \in Sched : \E i \in DOMAIN tasks[s] :
             tasks[s][i].func = c /\ x = <<s, i>>
        \/ \E s \in Sched : cur[s].func = c /\ x = <<s, 0>>
        \/ \E f \in Fibers : fstate[f] = "INIT" /\ body[f] = c /\ x = <<f, 0>>
  <2> DEFINE Q(s) == {<<s, i>> : i \in {j \in DOMAIN tasks[s] : tasks[s][j].func = c}}
             U == UNION {Q(s) : s \in Sched}
             H == {<<s, 0>> : s \in {t \in Sched : cur[t].func = c}}
             F == {<<f, 0>> : f \in {g \in Fibers : fstate[g] = "INIT" /\ body[g] = c}}
  <2>1. x \in U <=> \E s \in Sched : x \in Q(s)
    OBVIOUS
  <2>2. \A s \in Sched : x \in Q(s) <=>
          \E i \in DOMAIN tasks[s] : tasks[s][i].func = c /\ x = <<s, i>>
    OBVIOUS
  <2>3. x \in H <=> \E s \in Sched : cur[s].func = c /\ x = <<s, 0>>
    OBVIOUS
  <2>4. x \in F <=>
          \E f \in Fibers : fstate[f] = "INIT" /\ body[f] = c /\ x = <<f, 0>>
    OBVIOUS
  <2>5. Waiting(c) = U \cup H \cup F  BY DEF Waiting
  <2>6. x \in U <=> \E s \in Sched : \E i \in DOMAIN tasks[s] :
                      tasks[s][i].func = c /\ x = <<s, i>>
    BY <2>1, <2>2
  <2> HIDE DEF U, H, F
  <2> QED  BY <2>3, <2>4, <2>5, <2>6
<1>5. ASSUME NEW k, NEW a, NEW i, Holds(c, k, a, i), x = <<a, i>>
      PROVE  \/ \E s \in Sched : \E j \in DOMAIN tasks[s] :
                  tasks[s][j].func = c /\ x = <<s, j>>
             \/ \E s \in Sched : cur[s].func = c /\ x = <<s, 0>>
             \/ \E f \in Fibers : fstate[f] = "INIT" /\ body[f] = c /\ x = <<f, 0>>
  BY <1>5 DEF Holds
<1> QED  BY <1>1, <1>2, <1>3, <1>4, <1>5

\* A closure handed to schedule() is never lost and never entered twice: it is
\* entered once, and until then it waits in exactly one place.  This holds for
\* any number of schedulers, submitters and recycled fibers, with pinned tasks,
\* exceptions, double schedule() calls and fibers that migrate with switchTo().
THEOREM ClosuresKept == Spec => []ClosuresConserved
<1>1. TypeOK /\ KInv => ClosuresConserved
  <2> SUFFICES ASSUME TypeOK, KInv, NEW c \in Funcs
               PROVE  submitted[c] = started[c] + Cardinality(Waiting(c))
    BY DEF ClosuresConserved
  <2>1. One(c) /\ started[c] \in Nat  BY DEF KInv, TypeOK
  <2>2. CASE Somewhere(c)
    <3>1. PICK k, a, i : Holds(c, k, a, i)  BY <2>2 DEF Somewhere
    <3>2. \A x : x \in Waiting(c) <=> x = <<a, i>>
      <4>1. ASSUME NEW x, x \in Waiting(c) PROVE x = <<a, i>>
        <5>1. PICK l, b, j : Holds(c, l, b, j) /\ x = <<b, j>>
          BY <4>1, WaitingIs
        <5>2. b = a /\ j = i  BY <2>1, <3>1, <5>1 DEF One, Once
        <5> QED  BY <5>1, <5>2
      <4>2. <<a, i>> \in Waiting(c)  BY <3>1, WaitingIs
      <4> QED  BY <4>1, <4>2
    <3>3. Waiting(c) = {<<a, i>>}  BY <3>2
    <3>4. Cardinality(Waiting(c)) = 1  BY <3>3, FS_Singleton
    <3> QED  BY <2>1, <2>2, <3>4 DEF One
  <2>3. CASE ~Somewhere(c)
    <3>1. Waiting(c) = {}  BY <2>3, WaitingIs DEF Somewhere
    <3>2. Cardinality(Waiting(c)) = 0  BY <3>1, FS_EmptySet
    <3> QED  BY <2>1, <2>3, <3>2 DEF One
  <2> QED  BY <2>2, <2>3
<1> QED  BY <1>1, KInvInit, KInvNext, TypeCorrect, PTL DEF Spec

\* run() gives up (its idle fiber ends) only when stop() was called and none
\* of its fibers is ready, running, or waiting to be entered, as long as every
\* fiber is woken on the scheduler it registered with.
THEOREM IdleEndsOnlyDrained == ASSUME NoMigration PROVE Spec => IdleEndsDrained
<1> DEFINE A == \A s \in Sched : idleState[s] # "TERM" /\ idleState'[s] = "TERM" =>
                  /\ autoStop[s]
                  /\ \A f \in Fibers : home[f] = s =>
                       /\ fstate[f] \notin {"READY", "EXEC"}
                       /\ ~(fstate[f] = "INIT" /\ body[f] # None)
<1>1. IInv /\ FreshKept /\ ReadyIsQueued /\ [Next]_vars => [A]_vars
  <2> SUFFICES ASSUME IInv, FreshKept, ReadyIsQueued, Next PROVE A
    BY DEF vars
  <2> SUFFICES ASSUME NEW s \in Sched, idleState[s] # "TERM", idleState'[s] = "TERM"
               PROVE  /\ autoStop[s]
                      /\ \A f \in Fibers : home[f] = s =>
                           /\ fstate[f] \notin {"READY", "EXEC"}
                           /\ ~(fstate[f] = "INIT" /\ body[f] # None)
    OBVIOUS
  <2>0. idleState \in [Sched -> FiberState]  BY DEF IInv, TypeOK
  <2>1. IdleCheck(s)
    <3>1. \A r \in Sched : ~IdleCheck(r) /\ ~EnterIdle(r) /\
            (Start(r) \/ Stop(r) \/ Worker(r) \/ Body(r)) => UNCHANGED idleState
      BY DEF Start, Stop, Worker, Body, Take, TakeNothing, SkipFinished, Resume,
             Launch, Back, Settle, LeaveIdle, LeaveRun, Return, YieldToReady,
             Register, YieldToHold, SwapOut, SwitchTo, End
    <3>2. Submit => UNCHANGED idleState
      BY DEF Submit, ScheduleFunc, ScheduleFiber, ScheduleAgain, Wake
    <3>3. \A r \in Sched : EnterIdle(r) => idleState'[s] # "TERM"
      BY <2>0 DEF EnterIdle
    <3>4. \A r \in Sched : IdleCheck(r) => r = s
      BY <2>0 DEF IdleCheck
    <3> QED  BY <3>1, <3>2, <3>3, <3>4 DEF Next, Ended, vars
  <2>2. pc[s] = "idling" /\ autoStop[s] /\ tasks[s] = <<>>
    BY <2>0, <2>1 DEF IdleCheck, Drained
  <2> SUFFICES ASSUME NEW f \in Fibers, home[f] = s
               PROVE  fstate[f] \notin {"READY", "EXEC"} /\ ~Fresh(f)
    BY <2>2 DEF Fresh
  <2>3. ASSUME NEW r \in Sched, Queued(r, f) PROVE FALSE
    <3>1. r = s  BY <2>3 DEF IInv, Homes
    <3> QED  BY <2>2, <2>3, <3>1 DEF Queued
  <2>4. ASSUME NEW r \in Sched, pc[r] = "taken", cur[r].fiber = f PROVE FALSE
    <3>1. r = s  BY <2>4, SchedulerAssumption DEF IInv, Homes
    <3> QED  BY <2>2, <2>4, <3>1
  <2>5. ASSUME NEW r \in Sched, pc[r] \in {"back", "settle"}, Running(r) = f
        PROVE  FALSE
    <3>1. r = s  BY <2>5, RunningOwned DEF InFiber
    <3> QED  BY <2>2, <2>5, <3>1
  <2>6. fstate[f] # "READY"  BY <2>3, <2>4, <2>5 DEF ReadyIsQueued
  <2>7. fstate[f] # "EXEC"  BY <2>2 DEF IInv, States
  <2>8. ~Fresh(f)  BY <2>3, <2>4 DEF FreshKept, Wanted
  <2> QED  BY <2>6, <2>7, <2>8
<1>2. KInv => FreshKept  BY DEF KInv
<1>3. Spec => []ReadyIsQueued  BY ReadyNotLost
<1>4. Spec => []IInv  BY NoMigration, IInvAlways
<1>5. Spec => []KInv  BY KInvInit, KInvNext, TypeCorrect, PTL DEF Spec
<1>6. Spec => [][A]_vars
  BY <1>1, <1>2, <1>3, <1>4, <1>5, PTL DEF Spec
<1> QED  BY <1>6 DEF IdleEndsDrained

=============================================================================

------------------------------ MODULE Scheduler ------------------------------
(***************************************************************************)
(* The coroutine scheduler (scheduler.h, scheduler.cc) together with the   *)
(* part of Fiber (fiber.cc) it drives: state changes and context switches. *)
(*                                                                         *)
(* The only scheduler of this code that gets past start() is the one whose *)
(* tasks are run by the thread that created it (use_caller), so a          *)
(* scheduler and its caller thread share one name here.  Every other       *)
(* thread only ever calls schedule().  A failed ZZ_ASSERT, undefined       *)
(* behaviour and exit() all end the whole process: see proc.               *)
(***************************************************************************)
EXTENDS Naturals, FiniteSets, SequencesExt

CONSTANTS
  Sched,         \* schedulers, each identified with its caller thread
  Fibers,        \* heap slots for Fiber objects (child fibers)
  Funcs,         \* closures; each is submitted at most once
  Pins,          \* values a submitter may pass as `thread'
  AnyThread,     \* thread = -1: any thread may run the task
  None,          \* a null fiber or function
  ExtraThreads,  \* m_threadCount: threads asked for besides the caller
  Ops,           \* optional behaviours: "ready" "hold" "throw" "switch" "dup"
  MaxQueue       \* bound on a queue that may hold one fiber twice

ASSUME SchedulerAssumption ==
  /\ Pins \subseteq Sched \cup {AnyThread}
  /\ AnyThread \notin Sched
  /\ None \notin Sched \cup Fibers \cup Funcs
  /\ ExtraThreads \in [Sched -> Nat]
  /\ MaxQueue \in Nat

VARIABLES
  tasks,      \* m_tasks
  active,     \* m_activeThreadCount
  idle,       \* m_idleThreadCount
  autoStop,   \* m_autoStop
  stopping,   \* m_stopping
  pc,         \* where the caller thread is: "main" until stop() resumes run()
  cur,        \* run()'s local `task'
  funcFiber,  \* run()'s local `func_fiber'
  idleState,  \* state of run()'s local `idle_fiber'
  fstate,     \* Fiber::m_state
  body,       \* Fiber::m_func
  wake,       \* scheduler that will be handed the fiber when its event fires
  mustHold,   \* the fiber has arranged its wake-up and is about to yield
  home,       \* history: scheduler a fiber was last given to or created by
  submitted,  \* history: the closure was handed to schedule()
  started,    \* history: how often the closure was entered
  proc        \* "up", or how the process ended: "assert" "ub" "exit"

queueVars  == <<tasks, active>>
stopVars   == <<autoStop, stopping>>
workerVars == <<pc, cur, funcFiber, idleState, idle>>
fiberVars  == <<fstate, body, wake, mustHold, home>>
history    == <<submitted, started>>
vars == <<tasks, active, autoStop, stopping, pc, cur, funcFiber, idleState,
          idle, fstate, body, wake, mustHold, home, submitted, started, proc>>

FiberState == {"INIT", "READY", "EXEC", "HOLD", "TERM", "EXCEPT"}
Finished   == {"TERM", "EXCEPT"}
PC == {"main", "loop", "empty", "taken", "exec", "swapping", "back", "settle",
       "idling", "idleback", "done"}

Task == [fiber: Fibers \cup {None}, func: Funcs \cup {None},
         thread: Sched \cup {AnyThread}]
NoTask == [fiber |-> None, func |-> None, thread |-> AnyThread]
FiberTask(f, p) == [fiber |-> f, func |-> None, thread |-> p]
FuncTask(c, p)  == [fiber |-> None, func |-> c, thread |-> p]

(***************************************************************************)
(* Where fibers are                                                        *)
(***************************************************************************)
\* The fiber run() has switched to: the task's, or else its own func_fiber.
Running(s) == IF cur[s].fiber # None THEN cur[s].fiber ELSE funcFiber[s]
\* Registers and stack of f are in use by thread s, not saved in m_ctx.
Executing(s, f) == pc[s] \in {"exec", "swapping"} /\ Running(s) = f
Queued(s, f) == \E i \in DOMAIN tasks[s] : tasks[s][i].fiber = f
Referenced(f) == \/ wake[f] # None
                 \/ \E s \in Sched : \/ Queued(s, f)
                                     \/ cur[s].fiber = f
                                     \/ funcFiber[s] = f
\* No shared_ptr is left: the slot can hold a new Fiber.  A suspended fiber
\* keeps itself alive through the `cur' pointers on its own stack.
Free(f) == fstate[f] \in Finished \cup {"INIT"} /\ ~Referenced(f)

Init ==
  /\ tasks = [s \in Sched |-> <<>>]
  /\ active = [s \in Sched |-> 0]
  /\ idle = [s \in Sched |-> 0]
  /\ autoStop = [s \in Sched |-> FALSE]
  /\ stopping = [s \in Sched |-> TRUE]
  /\ pc = [s \in Sched |-> "main"]
  /\ cur = [s \in Sched |-> NoTask]
  /\ funcFiber = [s \in Sched |-> None]
  /\ idleState = [s \in Sched |-> "INIT"]
  /\ fstate = [f \in Fibers |-> "INIT"]
  /\ body = [f \in Fibers |-> None]
  /\ wake = [f \in Fibers |-> None]
  /\ mustHold = [f \in Fibers |-> FALSE]
  /\ home = [f \in Fibers |-> None]
  /\ submitted = [c \in Funcs |-> 0]
  /\ started = [c \in Funcs |-> 0]
  /\ proc = "up"

\* The process dies: nothing else of it changes.
End(how) ==
  /\ proc' = how
  /\ UNCHANGED <<queueVars, stopVars, workerVars, fiberVars, history>>

(***************************************************************************)
(* schedule(), from any thread.  tickle() of the base class only logs.     *)
(***************************************************************************)
\* scheduleNoLock(), under m_mutex; a variant puts new work in front.
InFront(q, t) == <<t>> \o q
Behind(q, t) == Append(q, t)
Push(s, t) == tasks' = [tasks EXCEPT ![s] = Behind(@, t)]

ScheduleFunc(s, c, p) ==
  /\ submitted[c] = 0
  /\ submitted' = [submitted EXCEPT ![c] = 1]
  /\ Push(s, FuncTask(c, p))
  /\ UNCHANGED <<active, stopVars, workerVars, fiberVars, started, proc>>

\* schedule(Fiber::ptr(new Fiber(c)), p)
ScheduleFiber(s, f, c, p) ==
  /\ submitted[c] = 0
  /\ Free(f)
  /\ submitted' = [submitted EXCEPT ![c] = 1]
  /\ fstate' = [fstate EXCEPT ![f] = "INIT"]
  /\ body' = [body EXCEPT ![f] = c]
  /\ home' = [home EXCEPT ![f] = s]
  /\ Push(s, FiberTask(f, p))
  /\ UNCHANGED <<active, stopVars, workerVars, wake, mustHold, started, proc>>

\* A second schedule() of a fiber that is already waiting in the queue.
ScheduleAgain(s, f) ==
  /\ "dup" \in Ops
  /\ Queued(s, f)
  /\ Len(tasks[s]) < MaxQueue
  /\ Push(s, FiberTask(f, AnyThread))
  /\ UNCHANGED <<active, stopVars, workerVars, fiberVars, history, proc>>

\* The scheduler named in the fiber's event context.
WakeTarget(f) == {wake[f]}

\* The event a fiber waits for happens: its context is {scheduler, fiber}.
Wake(f) ==
  /\ wake[f] # None
  /\ \E s \in WakeTarget(f) : Push(s, FiberTask(f, AnyThread))
  /\ wake' = [wake EXCEPT ![f] = None]
  /\ UNCHANGED <<active, stopVars, workerVars, fstate, body, mustHold, home,
                 history, proc>>

(***************************************************************************)
(* start() and stop(), called by the thread that created the scheduler     *)
(***************************************************************************)
\* start() indexes the empty vector m_threads once per extra thread.
Start(s) ==
  /\ pc[s] = "main" /\ stopping[s]
  /\ stopping' = [stopping EXCEPT ![s] = FALSE]
  /\ proc' = IF ExtraThreads[s] > 0 THEN "ub" ELSE proc
  /\ UNCHANGED <<queueVars, autoStop, workerVars, fiberVars, history>>

DrainedIgnoringQueue(s) ==                     \* variant
  autoStop[s] /\ stopping[s] /\ active[s] = 0

Drained(s) ==
  autoStop[s] /\ stopping[s] /\ tasks[s] = <<>> /\ active[s] = 0

\* stop(): both flags are set before stopping() is asked; run() starts on the
\* root fiber unless nothing is left to do.
Stop(s) ==
  /\ pc[s] = "main"
  /\ autoStop' = [autoStop EXCEPT ![s] = TRUE]
  /\ stopping' = [stopping EXCEPT ![s] = TRUE]
  /\ pc' = IF tasks[s] = <<>> /\ active[s] = 0 THEN pc
           ELSE [pc EXCEPT ![s] = "loop"]
  /\ UNCHANGED <<queueVars, cur, funcFiber, idleState, idle, fiberVars,
                 history, proc>>

(***************************************************************************)
(* run(): one worker                                                       *)
(***************************************************************************)
Eligible(s) == {i \in DOMAIN tasks[s] : tasks[s][i].thread \in {s, AnyThread}}

LastEligible(s) ==           \* variant: the scan starts at the end
  {i \in Eligible(s) : \A j \in Eligible(s) : i >= j}
FirstEligible(s) == {i \in Eligible(s) : \A j \in Eligible(s) : i <= j}

EraseUpTo(q, i) == SubSeq(q, i + 1, Len(q))   \* variant: skipped tasks too
Erase(q, i) == RemoveAt(q, i)

\* The two thread counters; a variant forgets to change them.
Same(count, s) == count
Up(count, s) == [count EXCEPT ![s] = @ + 1]
Down(count, s) == [count EXCEPT ![s] = @ - 1]

\* The locked scan: the first task not pinned to another thread.
Take(s) ==
  /\ pc[s] = "loop"
  /\ \E i \in FirstEligible(s) :
       /\ cur' = [cur EXCEPT ![s] = tasks[s][i]]
       /\ tasks' = [tasks EXCEPT ![s] = Erase(@, i)]
  /\ active' = Up(active, s)
  /\ pc' = [pc EXCEPT ![s] = "taken"]
  /\ UNCHANGED <<stopVars, funcFiber, idleState, idle, fiberVars, history,
                 proc>>

TakeNothing(s) ==
  /\ pc[s] = "loop"
  /\ Eligible(s) = {}
  /\ pc' = [pc EXCEPT ![s] = "empty"]
  /\ UNCHANGED <<queueVars, stopVars, cur, funcFiber, idleState, idle,
                 fiberVars, history, proc>>

\* A fiber that finished while it was queued: only the count is restored.
SkipFinished(s) ==
  /\ pc[s] = "taken"
  /\ cur[s].fiber # None /\ fstate[cur[s].fiber] \in Finished
  /\ active' = Down(active, s)
  /\ cur' = [cur EXCEPT ![s] = NoTask]
  /\ pc' = [pc EXCEPT ![s] = "loop"]
  /\ UNCHANGED <<tasks, stopVars, funcFiber, idleState, idle, fiberVars,
                 history, proc>>

Count(c) == [started EXCEPT ![c] = @ + 1]

\* swapIn() of the task's fiber.  The assertion looks at the state only; a
\* context whose registers another thread still has to save is garbage.
Resume(s) ==
  /\ pc[s] = "taken"
  /\ \E f \in Fibers :
       /\ cur[s].fiber = f
       /\ fstate[f] \notin Finished
       /\ IF fstate[f] = "EXEC" THEN End("assert")
          ELSE IF \E t \in Sched : Executing(t, f) THEN End("ub")
          ELSE /\ fstate' = [fstate EXCEPT ![f] = "EXEC"]
               /\ started' = IF fstate[f] = "INIT" THEN Count(body[f])
                             ELSE started
               /\ pc' = [pc EXCEPT ![s] = "exec"]
               /\ UNCHANGED <<queueVars, stopVars, cur, funcFiber, idleState,
                              idle, body, wake, mustHold, home, submitted,
                              proc>>

\* A function task: resetFunc() of the fiber kept from the last one, or a new
\* fiber; the task is reset before the switch.
Launch(s) ==
  /\ pc[s] = "taken"
  /\ cur[s].fiber = None
  /\ \E f \in Fibers :
       /\ IF funcFiber[s] # None THEN f = funcFiber[s] ELSE Free(f)
       /\ IF fstate[f] \notin Finished \cup {"INIT"} THEN End("assert")
          ELSE /\ funcFiber' = [funcFiber EXCEPT ![s] = f]
               /\ fstate' = [fstate EXCEPT ![f] = "EXEC"]
               /\ body' = [body EXCEPT ![f] = cur[s].func]
               /\ home' = [home EXCEPT ![f] = s]
               /\ started' = Count(cur[s].func)
               /\ cur' = [cur EXCEPT ![s] = NoTask]
               /\ pc' = [pc EXCEPT ![s] = "exec"]
               /\ UNCHANGED <<queueVars, stopVars, idleState, idle, wake,
                              mustHold, submitted, proc>>

\* swapIn() returned.
Back(s) ==
  /\ pc[s] = "back"
  /\ active' = Down(active, s)
  /\ pc' = [pc EXCEPT ![s] = "settle"]
  /\ UNCHANGED <<tasks, stopVars, cur, funcFiber, idleState, idle, fiberVars,
                 history, proc>>

IsFuncTask(s) == cur[s].fiber = None

\* run() parts with the fiber it made for a function unless it finished.
NeverRequeues(f) == FALSE                       \* variant
Requeues(f) == fstate[f] = "READY"
LetsGoReady(s, f) == IsFuncTask(s) /\ fstate[f] = "READY"   \* variant
LetsGoHeld(s, f) == IsFuncTask(s) /\ fstate[f] = "HOLD"     \* variant
LetsGo(s, f) == IsFuncTask(s) /\ fstate[f] \notin Finished
Recycles(s, f) == IsFuncTask(s) /\ fstate[f] \in Finished

\* The tail of the branch: reschedule, recycle, or mark the fiber as held.
Settle(s) ==
  /\ pc[s] = "settle"
  /\ LET f == Running(s) IN
       /\ tasks' = IF Requeues(f)
                   THEN [tasks EXCEPT ![s] = Behind(@, FiberTask(f, AnyThread))]
                   ELSE tasks
       /\ funcFiber' = IF LetsGo(s, f) THEN [funcFiber EXCEPT ![s] = None]
                       ELSE funcFiber
       /\ fstate' = CASE Recycles(s, f) -> [fstate EXCEPT ![f] = "INIT"]
                      [] fstate[f] \notin Finished \cup {"READY"} ->
                           [fstate EXCEPT ![f] = "HOLD"]
                      [] OTHER -> fstate
       /\ body' = IF Recycles(s, f) THEN [body EXCEPT ![f] = None] ELSE body
  /\ cur' = [cur EXCEPT ![s] = NoTask]
  /\ pc' = [pc EXCEPT ![s] = "loop"]
  /\ UNCHANGED <<active, stopVars, idleState, idle, wake, mustHold, home,
                 history, proc>>

EnterIdle(s) ==
  /\ pc[s] = "empty"
  /\ idleState[s] # "TERM"
  /\ idle' = Up(idle, s)
  /\ idleState' = [idleState EXCEPT ![s] = "EXEC"]
  /\ pc' = [pc EXCEPT ![s] = "idling"]
  /\ UNCHANGED <<queueVars, stopVars, cur, funcFiber, fiberVars, history,
                 proc>>

\* One round of Scheduler::idle(): ask stopping(), then yield or return.
IdleCheck(s) ==
  /\ pc[s] = "idling"
  /\ idleState' = [idleState EXCEPT ![s] = IF Drained(s) THEN "TERM"
                                           ELSE "HOLD"]
  /\ pc' = [pc EXCEPT ![s] = "idleback"]
  /\ UNCHANGED <<queueVars, stopVars, cur, funcFiber, idle, fiberVars,
                 history, proc>>

LeaveIdle(s) ==
  /\ pc[s] = "idleback"
  /\ idle' = Down(idle, s)
  /\ pc' = [pc EXCEPT ![s] = "loop"]
  /\ UNCHANGED <<queueVars, stopVars, cur, funcFiber, idleState, fiberVars,
                 history, proc>>

\* run() returns into MainFunc, whose swapOut() swaps the root fiber with
\* itself; MainFunc then returns and, uc_link being null, the process exits.
LeaveRun(s) ==
  /\ pc[s] = "empty"
  /\ idleState[s] = "TERM"
  /\ pc' = [pc EXCEPT ![s] = "done"]
  /\ proc' = "exit"
  /\ UNCHANGED <<queueVars, stopVars, cur, funcFiber, idleState, idle,
                 fiberVars, history>>

Worker(s) ==
  \/ Take(s) \/ TakeNothing(s) \/ SkipFinished(s) \/ Resume(s) \/ Launch(s)
  \/ Back(s) \/ Settle(s)
  \/ EnterIdle(s) \/ IdleCheck(s) \/ LeaveIdle(s) \/ LeaveRun(s)

(***************************************************************************)
(* What the running fiber does                                             *)
(***************************************************************************)
\* MainFunc: the function returned, or an exception left it.
Return(s) ==
  /\ pc[s] = "exec"
  /\ LET f == Running(s) IN
       /\ ~mustHold[f]
       /\ \/ /\ fstate' = [fstate EXCEPT ![f] = "TERM"]
             /\ body' = [body EXCEPT ![f] = None]
          \/ /\ "throw" \in Ops
             /\ fstate' = [fstate EXCEPT ![f] = "EXCEPT"]
             /\ UNCHANGED body
  /\ pc' = [pc EXCEPT ![s] = "back"]
  /\ UNCHANGED <<queueVars, stopVars, cur, funcFiber, idleState, idle, wake,
                 mustHold, home, history, proc>>

YieldToReady(s) ==
  /\ pc[s] = "exec"
  /\ "ready" \in Ops
  /\ LET f == Running(s) IN
       /\ ~mustHold[f]
       /\ IF fstate[f] # "EXEC" THEN End("assert")
          ELSE /\ fstate' = [fstate EXCEPT ![f] = "READY"]
               /\ pc' = [pc EXCEPT ![s] = "back"]
               /\ UNCHANGED <<queueVars, stopVars, cur, funcFiber, idleState,
                              idle, body, wake, mustHold, home, history,
                              proc>>

\* Before it yields, a fiber stores {Scheduler::GetThis(), itself} where the
\* event that must wake it will find them.
Register(s) ==
  /\ pc[s] = "exec"
  /\ "hold" \in Ops
  /\ LET f == Running(s) IN
       /\ ~mustHold[f] /\ wake[f] = None
       /\ wake' = [wake EXCEPT ![f] = s]
       /\ mustHold' = [mustHold EXCEPT ![f] = TRUE]
  /\ UNCHANGED <<queueVars, stopVars, workerVars, fstate, body, home, history,
                 proc>>

\* switchTo(): hand the running fiber to another scheduler, then yield.
SwitchTo(s, t) ==
  /\ pc[s] = "exec"
  /\ "switch" \in Ops
  /\ s # t /\ Len(tasks[t]) < MaxQueue
  /\ LET f == Running(s) IN
       /\ ~mustHold[f]
       /\ Push(t, FiberTask(f, AnyThread))
       /\ mustHold' = [mustHold EXCEPT ![f] = TRUE]
       /\ home' = [home EXCEPT ![f] = t]
  /\ UNCHANGED <<active, stopVars, workerVars, fstate, body, wake, history,
                 proc>>

\* A variant leaves it to run() to mark the fiber as held.
YieldUnmarked(s) ==
  /\ pc[s] = "exec" /\ mustHold[Running(s)]
  /\ mustHold' = [mustHold EXCEPT ![Running(s)] = FALSE]
  /\ pc' = [pc EXCEPT ![s] = "swapping"]
  /\ UNCHANGED <<queueVars, stopVars, cur, funcFiber, idleState, idle, fstate,
                 body, wake, home, history, proc>>

\* YieldToHold() in two steps: the state is set before swapOut() has saved
\* the context.
YieldToHold(s) ==
  /\ pc[s] = "exec"
  /\ LET f == Running(s) IN
       /\ mustHold[f]
       /\ IF fstate[f] # "EXEC" THEN End("assert")
          ELSE /\ fstate' = [fstate EXCEPT ![f] = "HOLD"]
               /\ mustHold' = [mustHold EXCEPT ![f] = FALSE]
               /\ pc' = [pc EXCEPT ![s] = "swapping"]
               /\ UNCHANGED <<queueVars, stopVars, cur, funcFiber, idleState,
                              idle, body, wake, home, history, proc>>

SwapOut(s) ==
  /\ pc[s] = "swapping"
  /\ pc' = [pc EXCEPT ![s] = "back"]
  /\ UNCHANGED <<queueVars, stopVars, cur, funcFiber, idleState, idle,
                 fiberVars, history, proc>>

Body(s) ==
  \/ Return(s) \/ YieldToReady(s) \/ Register(s)
  \/ YieldToHold(s) \/ SwapOut(s)
  \/ \E t \in Sched : SwitchTo(s, t)

Submit ==
  \/ \E s \in Sched, c \in Funcs, p \in Pins :
       \/ ScheduleFunc(s, c, p)
       \/ \E f \in Fibers : ScheduleFiber(s, f, c, p)
  \/ \E s \in Sched, f \in Fibers : ScheduleAgain(s, f)
  \/ \E f \in Fibers : Wake(f)

\* The process has ended.
Ended == proc # "up" /\ UNCHANGED vars

Next ==
  \/ /\ proc = "up"
     /\ \/ Submit
        \/ \E s \in Sched : Start(s) \/ Stop(s) \/ Worker(s) \/ Body(s)
  \/ Ended

\* The operating system runs every thread, and task bodies do not loop
\* forever without yielding.
Fairness == \A s \in Sched : WF_vars(proc = "up" /\ (Worker(s) \/ Body(s)))
Spec == Init /\ [][Next]_vars
FairSpec == Spec /\ Fairness

(***************************************************************************)
(* Properties                                                              *)
(***************************************************************************)
\* Every variable keeps its type; in particular no counter goes below zero.
TypeOK ==
  /\ tasks \in [Sched -> Seq(Task)]
  /\ active \in [Sched -> Nat]
  /\ idle \in [Sched -> Nat]
  /\ autoStop \in [Sched -> BOOLEAN]
  /\ stopping \in [Sched -> BOOLEAN]
  /\ pc \in [Sched -> PC]
  /\ cur \in [Sched -> Task]
  /\ funcFiber \in [Sched -> Fibers \cup {None}]
  /\ idleState \in [Sched -> FiberState]
  /\ fstate \in [Fibers -> FiberState]
  /\ body \in [Fibers -> Funcs \cup {None}]
  /\ wake \in [Fibers -> Sched \cup {None}]
  /\ mustHold \in [Fibers -> BOOLEAN]
  /\ home \in [Fibers -> Sched \cup {None}]
  /\ submitted \in [Funcs -> {0, 1}]
  /\ started \in [Funcs -> Nat]
  /\ proc \in {"up", "assert", "ub", "exit"}

\* m_activeThreadCount is 1 exactly while the worker holds a task it has
\* taken, on every way out of run()'s three branches; stopping() relies on it.
\* m_idleThreadCount is 1 exactly while it is in the idle fiber.
CountsMatchWorker == \A s \in Sched :
  /\ active[s] = IF pc[s] \in {"taken", "exec", "swapping", "back"} THEN 1
                 ELSE 0
  /\ idle[s] = IF pc[s] \in {"idling", "idleback"} THEN 1 ELSE 0

\* Where the closure c waits to be entered for the first time.
Waiting(c) ==
  (UNION {{<<s, i>> : i \in {j \in DOMAIN tasks[s] : tasks[s][j].func = c}} :
            s \in Sched})
  \cup {<<s, 0>> : s \in {t \in Sched : cur[t].func = c}}
  \cup {<<f, 0>> : f \in {g \in Fibers : fstate[g] = "INIT" /\ body[g] = c}}

\* A closure handed to schedule() is never lost and never run twice: it is
\* entered once, and until then it waits in exactly one place, whatever the
\* interleaving of submitters, pinned tasks, recycled fibers and exceptions.
ClosuresConserved == \A c \in Funcs :
  submitted[c] = started[c] + Cardinality(Waiting(c))

\* No ZZ_ASSERT of the scheduler and of Fiber fails and no half-saved context
\* is resumed (swapIn, resetFunc, YieldToReady, YieldToHold), as long as
\* fibers are woken on the scheduler they registered with and nobody calls
\* switchTo(): that queues a fiber which still runs, and swapIn() aborts when
\* the other scheduler is faster (MCSchedulerAssert.cfg).
NoFailedAssert == proc \notin {"assert", "ub"}

\* A fiber's stack is never in use by two threads, and a fiber marked EXEC is
\* really being executed: otherwise its next swapIn would abort the process.
\* Like NoFailedAssert it is about fibers that do not call switchTo().
OneThreadPerFiber ==
  /\ \A s, t \in Sched, f \in Fibers :
       Executing(s, f) /\ Executing(t, f) => s = t
  /\ \A f \in Fibers : fstate[f] = "EXEC" =>
       \E s \in Sched : pc[s] = "exec" /\ Running(s) = f

\* A fiber that yielded with YieldToReady is always somewhere it will be
\* resumed from: in a queue, or with the worker that is about to requeue it.
ReadyIsQueued == \A f \in Fibers : fstate[f] = "READY" =>
  \E s \in Sched : \/ Queued(s, f)
                   \/ pc[s] = "taken" /\ cur[s].fiber = f
                   \/ pc[s] \in {"back", "settle"} /\ Running(s) = f

\* The fiber run() keeps to wrap the next function is run()'s alone: nobody
\* can wake, queue or resume it, so recycling its stack cannot hit a function
\* that still lives there.
FuncFiberPrivate == \A s \in Sched :
  funcFiber[s] # None /\ pc[s] \in {"loop", "empty", "idling", "idleback"} =>
    LET f == funcFiber[s] IN
      /\ fstate[f] = "INIT"
      /\ wake[f] = None
      /\ \A t \in Sched : ~Queued(t, f) /\ cur[t].fiber # f
      /\ \A t \in Sched : funcFiber[t] = f => t = s

\* run() gives up (its idle fiber ends) only when stop() was called and none
\* of its fibers is ready, running, or waiting to be entered.
IdleEndsDrained ==
  [][\A s \in Sched : idleState[s] # "TERM" /\ idleState'[s] = "TERM" =>
       /\ autoStop[s]
       /\ \A f \in Fibers : home[f] = s =>
            /\ fstate[f] \notin {"READY", "EXEC"}
            /\ ~(fstate[f] = "INIT" /\ body[f] # None)]_vars

\* Once stop() has put the caller thread into run(), a closure waiting in the
\* queue for any thread or for this one is entered, even while other fibers
\* keep yielding to READY forever.
QueuedClosureStarts == \A s \in Sched, c \in Funcs :
  (/\ pc[s] # "main"
   /\ \E i \in Eligible(s) : tasks[s][i].func = c)
  ~> (started[c] > 0 \/ proc # "up")

\* A held fiber whose event has fired (so that it is queued) is resumed.
WokenFiberResumes == \A s \in Sched, f \in Fibers :
  (pc[s] # "main" /\ fstate[f] = "HOLD" /\ Queued(s, f))
  ~> (fstate[f] # "HOLD" \/ proc # "up")
=============================================================================

------------------------------ MODULE IOManager ------------------------------
(***************************************************************************)
(* How the worker of an IOManager falls asleep, is woken and stops:        *)
(* Scheduler::run() around IOManager::idle(), tickle() through the pipe,   *)
(* the three questions of stopping(), and other threads that schedule()    *)
(* tasks, add and cancel events, and add, move and cancel timers.  What    *)
(* happens inside the task queue, the table of descriptors and the timers  *)
(* is in Scheduler, FdContext and Timer; here a task is queued, running,   *)
(* waits for an event or waits for a timer.                                *)
(*                                                                         *)
(* The worker is the thread that built the IOManager, inside stop(): both  *)
(* stop flags are already set when run() starts.                           *)
(***************************************************************************)
EXTENDS Integers, FiniteSets, Sequences

CONSTANTS
  Fibers,   \* tasks
  Threads,  \* other threads of the process
  None

ASSUME IOManagerAssumption ==
  /\ IsFiniteSet(Fibers) /\ IsFiniteSet(Threads)
  /\ None \notin Fibers

VARIABLES
  tasks,       \* m_tasks
  tickled,     \* m_tickled
  limited,     \* epoll_wait() has a timeout that is not negative
  fstate,      \* what each task is doing
  pending,     \* m_pendingEventCount
  idle,        \* m_idleThreadCount
  idleEnded,   \* the idle fiber is in TERM
  pc,          \* where the worker is
  unread,      \* the pipe holds bytes
  edge,        \* epoll has yet to report the pipe (EPOLLET)
  sawPipe,     \* the pipe is among the events returned
  ready,       \* fibers whose events were returned and are to be triggered
  caller,      \* per thread: between the steps of schedule() or cancelEvent()
  unheard,     \* history: tasks queued by a thread that saw no idle worker
  late         \* history: what other threads had wait here after stopping()
               \* had asked for its like

workerVars == <<idle, idleEnded, pc, sawPipe, ready>>
pipeVars   == <<unread, edge>>
timerVars  == <<tickled, limited, late>>
vars == <<tasks, fstate, pending, idle, idleEnded, pc, unread, edge, sawPipe,
          ready, caller, unheard, tickled, limited, late>>

\* "event" is an event added by a task of this scheduler, "foreign" one added
\* by a thread of another scheduler, whose task will run there; "near" is a
\* timer less than 2^31 ms away, "far" one that is not.
FiberState == {"new", "queued", "running", "event", "foreign", "near", "far",
               "done"}
PC == {"main", "scan", "run", "empty", "askTimers", "askPending", "askTasks",
       "wait", "expire", "events", "drain", "leave", "done"}
Free == [at |-> "free", fiber |-> None, cancels |-> FALSE]

In(s) == {f \in Fibers : fstate[f] = s}
Registered == In("event") \cup In("foreign")
Timed == In("near") \cup In("far")
Queued(f) == \E i \in DOMAIN tasks : tasks[i] = f

Init ==
  /\ tasks = <<>>
  /\ fstate = [f \in Fibers |-> "new"]
  /\ pending = 0
  /\ idle = 0 /\ idleEnded = FALSE
  /\ pc = "main"
  /\ unread = FALSE /\ edge = FALSE /\ sawPipe = FALSE
  /\ ready = {}
  /\ caller = [th \in Threads |-> Free]
  /\ unheard = {}
  /\ tickled = FALSE /\ limited = TRUE /\ late = {}

(***************************************************************************)
(* schedule(): push under the lock; the first task of an empty queue is    *)
(* worth a tickle                                                          *)
(***************************************************************************)
Push(f) == /\ tasks' = Append(tasks, f)
           /\ fstate' = [fstate EXCEPT ![f] = "queued"]

TickleUnlessEmpty == tasks # <<>>                              \* variant
NeedTickle == tasks = <<>>

\* By another thread, which tickles after it released the lock.
PushFrom(th, f, cancels) ==
  /\ Push(f)
  /\ caller' = [caller EXCEPT ![th] =
                  IF NeedTickle
                  THEN [at |-> "tickle", fiber |-> f, cancels |-> cancels]
                  ELSE IF cancels
                  THEN [at |-> "decrement", fiber |-> f, cancels |-> TRUE]
                  ELSE Free]
  /\ UNCHANGED <<pending, workerVars, pipeVars, timerVars, unheard>>

Schedule(th, f) ==
  /\ caller[th] = Free
  /\ fstate[f] = "new"
  /\ PushFrom(th, f, FALSE)

\* cancelEvent(): triggers the event, then counts it off.
CancelEvent(th, f) ==
  /\ caller[th] = Free
  /\ fstate[f] = "event"
  /\ PushFrom(th, f, TRUE)

CancelForeign(th, f) ==
  /\ caller[th] = Free
  /\ fstate[f] = "foreign"
  /\ fstate' = [fstate EXCEPT ![f] = "done"]
  /\ caller' = [caller EXCEPT ![th] =
                  [at |-> "decrement", fiber |-> f, cancels |-> TRUE]]
  /\ UNCHANGED <<tasks, pending, workerVars, pipeVars, timerVars, unheard>>

AfterTickle(th) ==
  caller' = [caller EXCEPT ![th] =
               IF @.cancels THEN [@ EXCEPT !.at = "decrement"] ELSE Free]

\* tickle(): hasIdleThreads(), then write().
Tickle(th) ==
  /\ caller[th].at = "tickle"
  /\ IF idle > 0
     THEN /\ caller' = [caller EXCEPT ![th].at = "write"]
          /\ UNCHANGED unheard
     ELSE /\ AfterTickle(th)
          /\ unheard' = IF Queued(caller[th].fiber)
                        THEN unheard \cup {caller[th].fiber} ELSE unheard
  /\ UNCHANGED <<tasks, fstate, pending, workerVars, pipeVars, timerVars>>

Write(th) ==
  /\ caller[th].at = "write"
  /\ AfterTickle(th)
  /\ unread' = TRUE /\ edge' = TRUE
  /\ UNCHANGED <<tasks, fstate, pending, workerVars, timerVars, unheard>>

CountOff(th) ==
  /\ caller[th].at = "decrement"
  /\ caller' = [caller EXCEPT ![th] = Free]
  /\ pending' = pending - 1
  /\ UNCHANGED <<tasks, fstate, workerVars, pipeVars, timerVars, unheard>>

(***************************************************************************)
(* Timers and events of other threads                                      *)
(***************************************************************************)
\* addTimer(timer, lock): whether the new deadline of f is the first one.  Of
\* two near or two far timers either may be.
First(f, s) ==
  LET others == Timed \ {f} IN
  {front \in BOOLEAN :
     /\ others = {} \/ (s = "near" /\ others \cap In("near") = {}) => front
     /\ front => s = "near" \/ others \cap In("near") = {}}

Insert(f, s, front) ==
  /\ front \in First(f, s)
  /\ fstate' = [fstate EXCEPT ![f] = s]
  /\ tickled' = (tickled \/ front)

InsertFrom(th, f, s, front) ==
  /\ caller[th] = Free
  /\ Insert(f, s, front)
  /\ caller' = [caller EXCEPT ![th] =
                  IF front /\ ~tickled
                  THEN [at |-> "tickle", fiber |-> None, cancels |-> FALSE]
                  ELSE Free]
  /\ UNCHANGED <<tasks, pending, workerVars, pipeVars, limited, unheard>>

Asking == {"askPending", "askTasks"}

AddTimerFrom(th, f, s, front) ==
  /\ fstate[f] = "new"
  /\ InsertFrom(th, f, s, front)
  /\ late' = IF pc \in Asking THEN late \cup {f} ELSE late

Reset(th, f, s, front) ==
  /\ f \in Timed
  /\ InsertFrom(th, f, s, front)
  /\ UNCHANGED late

\* refresh() and cancel() tell nobody: no deadline comes earlier by them.
Refresh(f) ==
  /\ fstate[f] = "near"
  /\ fstate' = [fstate EXCEPT ![f] = "far"]
  /\ UNCHANGED <<tasks, pending, workerVars, pipeVars, caller, timerVars,
                 unheard>>

CancelTimer(f) ==
  /\ f \in Timed
  /\ fstate' = [fstate EXCEPT ![f] = "done"]
  /\ UNCHANGED <<tasks, pending, workerVars, pipeVars, caller, timerVars,
                 unheard>>

\* addEvent() by a thread of another scheduler: counted under the lock of the
\* context, which stopping() does not take.
AddForeign(f) ==
  /\ fstate[f] = "new"
  /\ fstate' = [fstate EXCEPT ![f] = "foreign"]
  /\ pending' = pending + 1
  /\ late' = IF pc = "askTasks" THEN late \cup {f} ELSE late
  /\ UNCHANGED <<tasks, workerVars, pipeVars, caller, tickled, limited,
                 unheard>>

\* The clock brings a far deadline near.
Approach(f) ==
  /\ fstate[f] = "far"
  /\ fstate' = [fstate EXCEPT ![f] = "near"]
  /\ UNCHANGED <<tasks, pending, workerVars, pipeVars, caller, timerVars,
                 unheard>>

\* By the worker itself inside idle(): it counts as idle and tickles itself.
PushFromIdle(f) ==
  /\ Push(f)
  /\ unread' = (unread \/ NeedTickle)
  /\ edge' = (edge \/ NeedTickle)

(***************************************************************************)
(* run()                                                                   *)
(***************************************************************************)
\* stop() enters run() unless stopping() finds nothing left to do.
Stop ==
  /\ pc = "main"
  /\ Timed # {} \/ pending # 0 \/ tasks # <<>>
  /\ pc' = "scan"
  /\ tickled' = FALSE
  /\ UNCHANGED <<tasks, fstate, pending, idle, idleEnded, sawPipe, ready,
                 pipeVars, caller, unheard, limited, late>>

Take ==
  /\ pc = "scan" /\ tasks # <<>>
  /\ tasks' = Tail(tasks)
  /\ fstate' = [fstate EXCEPT ![Head(tasks)] = "running"]
  /\ unheard' = unheard \ {Head(tasks)}
  /\ pc' = "run"
  /\ UNCHANGED <<pending, idle, idleEnded, sawPipe, ready, pipeVars, caller,
                 timerVars>>

\* The running task ends, or waits for an event with addEvent(), or for a
\* timer with sleep(), and yields.
LeaveRunning(f) ==
  /\ fstate[f] = "running"
  /\ pc' = "scan"
  /\ UNCHANGED <<tasks, idle, idleEnded, sawPipe, ready, pipeVars, caller,
                 unheard, limited, late>>

Finish(f)   == /\ LeaveRunning(f)
               /\ fstate' = [fstate EXCEPT ![f] = "done"]
               /\ UNCHANGED <<pending, tickled>>
AddEvent(f) == /\ LeaveRunning(f)
               /\ fstate' = [fstate EXCEPT ![f] = "event"]
               /\ pending' = pending + 1
               /\ UNCHANGED tickled
AddTimer(f, s, front) == /\ LeaveRunning(f)
                         /\ Insert(f, s, front)
                         /\ UNCHANGED pending

Go(from, to) ==
  /\ pc = from /\ pc' = to
  /\ UNCHANGED <<tasks, fstate, pending, sawPipe, ready, caller, unheard>>

FindNothing ==
  /\ tasks = <<>>
  /\ Go("scan", "empty")
  /\ UNCHANGED <<idle, idleEnded, pipeVars, timerVars>>

LeaveRun ==
  /\ idleEnded
  /\ Go("empty", "done")
  /\ UNCHANGED <<idle, idleEnded, pipeVars, timerVars>>

EnterIdle ==
  /\ ~idleEnded
  /\ Go("empty", "askTimers")
  /\ idle' = idle + 1
  /\ UNCHANGED <<idleEnded, pipeVars, timerVars>>

(***************************************************************************)
(* idle()                                                                  *)
(***************************************************************************)
\* stopping(): getNextTimer(), m_pendingEventCount and the queue, asked one
\* after the other and without a common lock.
TasksFirst(at) == CASE at = "askTimers" -> Timed = {}          \* variant
                    [] at = "askPending" -> tasks = <<>>
                    [] OTHER -> pending = 0
NothingLeft(at) == CASE at = "askTimers" -> Timed = {}
                     [] at = "askPending" -> pending = 0
                     [] OTHER -> tasks = <<>>

\* What the answer of getNextTimer() makes of the wait: the bound by
\* MAX_TIMEOUT works on the answer made an int, which may be negative if it
\* was 2^31 or more.
AskTimers ==
  /\ Go("askTimers", IF NothingLeft("askTimers") THEN "askPending" ELSE "wait")
  /\ tickled' = FALSE
  /\ limited' \in IF Timed # {} /\ In("near") = {} THEN BOOLEAN ELSE {TRUE}
  /\ late' = {}
  /\ UNCHANGED <<idle, idleEnded, pipeVars>>

AskPending ==
  /\ Go("askPending", IF NothingLeft("askPending") THEN "askTasks" ELSE "wait")
  /\ UNCHANGED <<idle, idleEnded, pipeVars, timerVars>>

EndIdle ==
  /\ NothingLeft("askTasks")
  /\ Go("askTasks", "leave")
  /\ idleEnded' = TRUE
  /\ UNCHANGED <<idle, pipeVars, timerVars>>

KeepIdle ==
  /\ ~NothingLeft("askTasks")
  /\ Go("askTasks", "wait")
  /\ UNCHANGED <<idle, idleEnded, pipeVars, timerVars>>

NeverTimesOut == FALSE                                         \* variant
TimesOut == limited

\* epoll_wait() returns some of the registered events.
EpollWait ==
  /\ pc = "wait"
  /\ ready' \in SUBSET Registered
  /\ edge \/ ready' # {} \/ TimesOut
  /\ sawPipe' = edge /\ edge' = FALSE
  /\ pc' = "expire"
  /\ UNCHANGED <<tasks, fstate, pending, idle, idleEnded, unread, caller,
                 unheard, timerVars>>

\* EINTR: the timeout is bounded again, and -1 is taken for "no timer".
Interrupted ==
  /\ pc = "wait" /\ ~limited
  /\ limited' = TRUE
  /\ UNCHANGED <<tasks, fstate, pending, workerVars, pipeVars, caller, unheard,
                 tickled, late>>

\* One of the callbacks that listExpiredCb() returned: it schedules the fiber.
Expire(f) ==
  /\ pc = "expire"
  /\ fstate[f] = "near"
  /\ PushFromIdle(f)
  /\ UNCHANGED <<pending, workerVars, caller, timerVars, unheard>>

ExpireNoMore ==
  /\ Go("expire", "events")
  /\ UNCHANGED <<idle, idleEnded, pipeVars, timerVars>>

StillWaits(f) == f \in Registered

\* One returned event; another thread may have cancelled it in the meantime.
\* The task of a foreign event goes into the queue of its own scheduler.
TriggerEvent(f) ==
  /\ pc = "events"
  /\ f \in ready
  /\ ready' = ready \ {f}
  /\ \/ /\ StillWaits(f) /\ fstate[f] # "foreign"
        /\ PushFromIdle(f)
        /\ pending' = pending - 1
     \/ /\ StillWaits(f) /\ fstate[f] = "foreign"
        /\ fstate' = [fstate EXCEPT ![f] = "done"]
        /\ pending' = pending - 1
        /\ UNCHANGED <<tasks, pipeVars>>
     \/ /\ ~StillWaits(f)
        /\ UNCHANGED <<tasks, fstate, pending, pipeVars>>
  /\ UNCHANGED <<idle, idleEnded, pc, sawPipe, caller, timerVars, unheard>>

SeePipe ==
  /\ sawPipe
  /\ Go("events", "drain")
  /\ UNCHANGED <<idle, idleEnded, pipeVars, timerVars>>

\* while (read() > 0): fcntl() is called without F_SETFL, so the pipe is not
\* O_NONBLOCK and a read() of the empty pipe waits for the next byte.
ReadPipe ==
  /\ pc = "drain"
  /\ unread
  /\ unread' = FALSE
  /\ UNCHANGED <<tasks, fstate, pending, workerVars, edge, caller, timerVars,
                 unheard>>

Yield ==
  /\ ready = {} /\ ~sawPipe
  /\ Go("events", "leave")
  /\ UNCHANGED <<idle, idleEnded, pipeVars, timerVars>>

LeaveIdle ==
  /\ Go("leave", "scan")
  /\ idle' = idle - 1
  /\ UNCHANGED <<idleEnded, pipeVars, timerVars>>

Worker ==
  \/ Stop \/ Take \/ FindNothing \/ LeaveRun \/ EnterIdle
  \/ \E f \in Fibers : Finish(f) \/ AddEvent(f)
  \/ \E f \in Fibers, s \in {"near", "far"}, b \in BOOLEAN : AddTimer(f, s, b)
  \/ AskTimers \/ AskPending \/ EndIdle \/ KeepIdle
  \/ EpollWait \/ ExpireNoMore \/ SeePipe \/ ReadPipe \/ Yield \/ LeaveIdle
  \/ \E f \in Fibers : Expire(f) \/ TriggerEvent(f)

Others(th) == Tickle(th) \/ Write(th) \/ CountOff(th)

Calls(th) ==
  \E f \in Fibers :
    \/ Schedule(th, f) \/ CancelEvent(th, f) \/ CancelForeign(th, f)
    \/ \E s \in {"near", "far"}, b \in BOOLEAN :
         AddTimerFrom(th, f, s, b) \/ Reset(th, f, s, b)

Next == /\ pc # "done"
        /\ \/ Worker \/ Interrupted
           \/ \E th \in Threads : Others(th) \/ Calls(th)
           \/ \E f \in Fibers :
                Refresh(f) \/ CancelTimer(f) \/ AddForeign(f) \/ Approach(f)

\* The operating system runs every thread, epoll_wait() times out if it has a
\* limit (signals do not come for ever) and sees the pipe, and a running task
\* ends or yields.  No descriptor need ever become ready.
Waking == pc = "wait" => edge \/ limited
Fairness == /\ WF_vars(pc # "done" /\ Waking /\ Worker)
            /\ \A th \in Threads : WF_vars(pc # "done" /\ Others(th))
Spec == Init /\ [][Next]_vars
FairSpec == Spec /\ Fairness

(***************************************************************************)
(* Properties                                                              *)
(***************************************************************************)
CallState == [at: {"free", "tickle", "write", "decrement"},
              fiber: Fibers \cup {None}, cancels: BOOLEAN]

\* Every variable keeps its type; neither counter goes below zero.
TypeOK ==
  /\ tasks \in Seq(Fibers)
  /\ fstate \in [Fibers -> FiberState]
  /\ pending \in Nat
  /\ idle \in {0, 1} /\ idleEnded \in BOOLEAN
  /\ pc \in PC
  /\ unread \in BOOLEAN /\ edge \in BOOLEAN /\ sawPipe \in BOOLEAN
  /\ ready \subseteq Fibers
  /\ caller \in [Threads -> CallState]
  /\ unheard \subseteq Fibers /\ late \subseteq Fibers
  /\ tickled \in BOOLEAN /\ limited \in BOOLEAN

\* While the worker is in epoll_wait() with a task in the queue, a tickle is
\* in the pipe or on its way, unless the task was queued between the scan of
\* the queue and the count of idle threads (then it waits for the timeout).
WakeUpComing ==
  pc = "wait" /\ tasks # <<>> =>
    \/ edge
    \/ \E f \in Fibers : Queued(f) /\
         \/ f \in unheard
         \/ \E th \in Threads : /\ caller[th].fiber = f
                                /\ caller[th].at \in {"tickle", "write"}

\* The idle fiber ends only with an empty queue, and whoever still waits for an
\* event or a timer then was made to by another thread after stopping() had
\* asked for events or timers: nobody is overlooked, although stopping() asks
\* one after the other while other threads add, move, trigger and cancel.
IdleEndsDrained ==
  [][~idleEnded /\ idleEnded' =>
       tasks = <<>> /\ Registered \cup Timed \subseteq late]_vars

\* A queued task runs, lost wake-ups notwithstanding; unless the worker is
\* caught in the read() of its pipe, or waits without limit and a task was
\* queued by a thread that saw no idle worker to tell.
Unannounced == pc = "wait" /\ ~limited /\ \E f \in unheard : Queued(f)
QueuedTaskRuns == \A f \in Fibers :
  (fstate[f] = "queued" /\ pc # "main")
  ~> (fstate[f] # "queued" \/ pc \in {"drain", "done"} \/ Unannounced)

\* iomanager.cc:329: a tickle makes run() leave the idle fiber.
TickleEndsIdle == (idle = 1 /\ unread) ~> (idle = 0)

\* iomanager.cc:341: the IOManager must not exit before every event that is to
\* be scheduled has run; and at 344: no timer is left to be triggered.
NobodyLeft == [][~idleEnded /\ idleEnded' => Registered \cup Timed = {}]_vars

\* iomanager.cc:354: idle() leaves its wait when there is a task to run.
NewTaskEndsWait == (pc = "wait" /\ tasks # <<>>) ~> (pc # "wait")
=============================================================================

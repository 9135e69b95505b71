--------------------------------- MODULE Hook ---------------------------------
(***************************************************************************)
(* The hooked system calls (hook.cc) and the table of descriptor contexts  *)
(* they consult (fdmanager.h, fdmanager.cc), called by the fibers of one   *)
(* worker.  A hooked call that would block arms a timer, registers with    *)
(* the IOManager and parks its fiber; the event, the timer, close() or     *)
(* another thread's cancelEvent() puts it back into the queue.             *)
(*                                                                         *)
(* Of the IOManager there is the context the table has for a descriptor,   *)
(* the one the kernel points to, which is another after contextResize(),   *)
(* and the epoll_ctl() of each call.  A descriptor is waited for in one    *)
(* direction only, its side: what two directions at once do is in          *)
(* FdContext.  Which descriptors are ready is left open.                   *)
(***************************************************************************)
EXTENDS Integers, Sequences, FiniteSets

CONSTANTS
  Fibers,
  Fds,       \* descriptor numbers of sockets
  Side,      \* the direction each is used in
  MaxCalls,  \* bound on the calls of a fiber that may park it
  CtlMayFail, \* does epoll_ctl() fail for want of memory or of watches?
  None

\* FdCtx: what the library knows of a descriptor's flags.
Context == [user: BOOLEAN, sys: BOOLEAN, timeout: BOOLEAN]

ASSUME HookAssumption ==
  /\ Side \in [Fds -> {"READ", "WRITE"}]
  /\ MaxCalls \in Nat /\ CtlMayFail \in BOOLEAN
  /\ None \notin Fibers \cup Fds \cup Context
  /\ IsFiniteSet(Fibers)

VARIABLES
  open,      \* the kernel: descriptor numbers in use
  nonblock,  \* the kernel: O_NONBLOCK
  ready,     \* the kernel: directions a call would succeed in
  ctx,       \* FdManager::m_datas
  watched,   \* the kernel: descriptors in the epoll set
  slot,      \* m_fdContexts: who waits for the descriptor's side
  stale,     \* who waits in a context that was replaced while watched
  queue,     \* tasks of the scheduler
  worker,    \* where the worker is
  cur,       \* the fiber it runs
  fiber,     \* each fiber's call in progress
  expired,   \* history: the timer of the fiber's call has expired
  lost,      \* history: parked fibers that close() or their timeout passed by
  proc       \* "up", or the function whose ZZ_ASSERT failed

kernelVars == <<open, nonblock, ready>>
workerVars == <<queue, worker, cur>>
iomVars == <<watched, slot, stale, lost>>
vars == <<open, nonblock, ready, ctx, watched, slot, stale, queue, worker, cur,
          fiber, expired, lost, proc>>

Event == {"READ", "WRITE"}
Fiber == [pc: {"new", "user", "try", "wait", "parked", "done"},
          op: {"none", "io", "connect", "sleep"},
          fd: Fds \cup {None},
          timed: BOOLEAN,      \* the descriptor had a timeout at the call
          armed: BOOLEAN,      \* its timer is in the TimerManager
          cancelled: BOOLEAN,  \* timer_info::cancelled
          rc: {"ETIMEDOUT", "other"},
          calls: 0 .. MaxCalls]
New == [pc |-> "new", op |-> "none", fd |-> None, timed |-> FALSE,
        armed |-> FALSE, cancelled |-> FALSE, rc |-> "other", calls |-> 0]

\* Tasks: a fiber to resume, or a timer's callback, with what it captured.
Task == [run: {"fiber", "timeout", "wakeup"}, fiber: Fibers,
         fd: Fds \cup {None}, call: 0 .. MaxCalls]
Ready(f) == [run |-> "fiber", fiber |-> f, fd |-> None, call |-> 0]
Callback(f) == [run |-> IF fiber[f].op = "sleep" THEN "wakeup" ELSE "timeout",
                fiber |-> f, fd |-> fiber[f].fd, call |-> fiber[f].calls]
Queued(task) == \E i \in DOMAIN queue : queue[i] = task

Init ==
  /\ open = {} /\ nonblock = [fd \in Fds |-> FALSE]
  /\ ready = [fd \in Fds |-> {}]
  /\ ctx = [fd \in Fds |-> None]
  /\ watched = {} /\ lost = {}
  /\ slot = [fd \in Fds |-> None] /\ stale = [fd \in Fds |-> None]
  /\ queue \in {q \in [1 .. Cardinality(Fibers) -> {Ready(f) : f \in Fibers}] :
                  \A i, j \in DOMAIN q : q[i] = q[j] => i = j}
  /\ worker = "scan" /\ cur = None
  /\ fiber = [f \in Fibers |-> New]
  /\ expired = [f \in Fibers |-> FALSE]
  /\ proc = "up"

Abort(where) ==
  /\ proc' = where
  /\ UNCHANGED <<kernelVars, ctx, iomVars, workerVars, fiber, expired>>

(***************************************************************************)
(* Calls that never park                                                   *)
(***************************************************************************)
InUser(f) == worker = "run" /\ cur = f /\ fiber[f].pc = "user"
StaysInUser == UNCHANGED <<iomVars, workerVars, fiber, expired, proc>>

\* FdCtx::init() asks for O_NONBLOCK when `!flags & O_NONBLOCK', that is
\* never, and takes the socket for non-blocking all the same.
InitContext == [user |-> FALSE, sys |-> TRUE, timeout |-> FALSE]

\* FdManager::get() with auto_create, and del().
Created(fd) == IF ctx[fd] # None THEN ctx
               ELSE [ctx EXCEPT ![fd] = InitContext]
Deleted(fd) == [ctx EXCEPT ![fd] = None]

\* SOCK_NONBLOCK may be in the type.
Socket(f, fd) ==
  /\ InUser(f) /\ fd \notin open
  /\ open' = open \cup {fd}
  /\ \E flag \in BOOLEAN : nonblock' = [nonblock EXCEPT ![fd] = flag]
  /\ ready' = [ready EXCEPT ![fd] = {}]
  /\ ctx' = Created(fd)
  /\ StaysInUser

\* fcntl(F_SETFL): what the kernel is told is up to the library.  No fiber of
\* the worker runs between the two flags, here and in ioctl().
SystemFlag(fd) == ctx[fd].sys
SetFlags(f, fd, flag) ==
  /\ InUser(f) /\ fd \in open
  /\ ctx' = [ctx EXCEPT ![fd].user = flag]
  /\ nonblock' = [nonblock EXCEPT ![fd] = SystemFlag(fd)]
  /\ UNCHANGED <<open, ready>>
  /\ StaysInUser

\* ioctl(FIONBIO): what the kernel is told
AlwaysBlocking(flag) == FALSE                                  \* variant
IoctlFlag(flag) == flag
Ioctl(f, fd, flag) ==
  /\ InUser(f) /\ fd \in open
  /\ ctx' = [ctx EXCEPT ![fd].user = flag]
  /\ nonblock' = [nonblock EXCEPT ![fd] = IoctlFlag(flag)]
  /\ UNCHANGED <<open, ready>>
  /\ StaysInUser

\* setsockopt() of the side's timeout; the kernel is told as well.
SetTimeout(f, fd) ==
  /\ InUser(f) /\ fd \in open
  /\ ctx' = [ctx EXCEPT ![fd].timeout = TRUE]
  /\ UNCHANGED kernelVars
  /\ StaysInUser

\* triggerEvent(): whoever waits goes to the end of the queue.
Waiter(fd) == IF stale[fd] # None THEN stale[fd] ELSE slot[fd]
Trigger(fd, q) == /\ queue' = Append(q, Ready(Waiter(fd)))
                  /\ slot' = [slot EXCEPT ![fd] = None]
\* The kernel drops the descriptor, and with it the context it points to.
Unwatched(fd) == /\ watched' = watched \ {fd}
                 /\ stale' = [stale EXCEPT ![fd] = None]

\* cancelAll(), cancelEvent() look for the waiter in the table's context and
\* trigger it if epoll_ctl() succeeds; any other waiter they pass by.
Refusal == {FALSE, CtlMayFail}
Reached(fd, refused) == slot[fd] # None /\ fd \in watched /\ ~refused
Missed(fd, refused) ==
  IF Reached(fd, refused) THEN {} ELSE {slot[fd], stale[fd]} \ {None}

\* close(): cancelAll(), then the context goes, then the descriptor.
LeavesWaiter(fd, refused) == UNCHANGED <<queue, slot>>         \* variant
CancelAll(fd, refused) == IF Reached(fd, refused) THEN Trigger(fd, queue)
                          ELSE UNCHANGED <<queue, slot>>
Close(f, fd) ==
  /\ InUser(f) /\ fd \in open
  /\ \E refused \in Refusal : /\ CancelAll(fd, refused)
                              /\ lost' = lost \cup Missed(fd, refused)
  /\ Unwatched(fd)
  /\ ctx' = Deleted(fd)
  /\ open' = open \ {fd}
  /\ nonblock' = [nonblock EXCEPT ![fd] = FALSE]
  /\ ready' = [ready EXCEPT ![fd] = {}]
  /\ UNCHANGED <<worker, cur, fiber, expired, proc>>

(***************************************************************************)
(* Calls that may park: sleep(), connect(), and do_io() for the others     *)
(***************************************************************************)
\* What a call leaves of itself when it returns to the fiber.
Returned(x, rc) == [New EXCEPT !.pc = "user", !.calls = x.calls, !.rc = rc]
Called(x, op, fd, timed) ==
  [New EXCEPT !.pc = "try", !.op = op, !.fd = fd, !.timed = timed,
              !.calls = x.calls + 1]
Return(f, rc) == fiber' = [fiber EXCEPT ![f] = Returned(@, rc)]
MayCall(f) == InUser(f) /\ fiber[f].calls < MaxCalls

\* The system call succeeds, fails, or says it would block; a blocking one
\* without a timeout (SO_RCVTIMEO, SO_SNDTIMEO) does not return.
Outcome(fd, e) ==
  IF fd \notin open THEN {"EBADF"}
  ELSE IF e \in ready[fd] THEN {"ok"}
  ELSE IF nonblock[fd] \/ (ctx[fd] # None /\ ctx[fd].timeout) THEN {"EAGAIN"}
  ELSE {}
\* Success may use up what made the descriptor ready.
Consume(fd, rc) ==
  \/ UNCHANGED ready
  \/ rc = "ok" /\ ready' = [ready EXCEPT ![fd] = @ \ {Side[fd]}]

\* There is a context, and the user did not ask for non-blocking himself.
Hooked(fd) == ctx[fd] # None /\ ~ctx[fd].user

\* do_io() up to its first system call.
DoIo(f, fd) ==
  /\ MayCall(f)
  /\ Hooked(fd)
  /\ fiber' = [fiber EXCEPT ![f] =
       Called(@, "io", fd, ctx[fd].timeout)]
  /\ expired' = [expired EXCEPT ![f] = FALSE]
  /\ UNCHANGED <<kernelVars, ctx, iomVars, workerVars, proc>>

\* do_io() that is a plain call.
Plain(f, fd) ==
  /\ MayCall(f)
  /\ ~Hooked(fd)
  /\ \E rc \in Outcome(fd, Side[fd]) : Consume(fd, rc)
  /\ Return(f, "other")
  /\ UNCHANGED <<open, nonblock, ctx, iomVars, workerVars, expired, proc>>

Attempt(f) ==
  /\ worker = "run" /\ cur = f /\ fiber[f].pc = "try"
  /\ LET fd == fiber[f].fd IN
     \E rc \in Outcome(fd, Side[fd]) :
       /\ IF rc = "EAGAIN" THEN fiber' = [fiber EXCEPT ![f].pc = "wait"]
          ELSE Return(f, "other")
       /\ Consume(fd, rc)
  /\ UNCHANGED <<open, nonblock, ctx, iomVars, workerVars, expired, proc>>

\* connect(): only a socket the user made non-blocking is waited for, and
\* only after an error other than EINPROGRESS.
Connect(f, fd) ==
  /\ MayCall(f) /\ Side[fd] = "WRITE"
  /\ expired' = [expired EXCEPT ![f] = FALSE]
  /\ \/ ctx[fd] = None /\ Return(f, "other")
     \/ /\ ctx[fd] # None
        /\ \/ Return(f, "other")
           \/ /\ ctx[fd].user
              /\ fiber' = [fiber EXCEPT ![f] =
                   [Called(@, "connect", fd, TRUE) EXCEPT !.pc = "wait"]]
  /\ UNCHANGED <<kernelVars, ctx, iomVars, workerVars, proc>>

\* addConditionTimer() and addEvent(), which asserts that nobody else waits in
\* the table's context; then YieldToHold().
Park(f, fd) ==
  /\ slot[fd] = None /\ fd \notin watched
  /\ slot' = [slot EXCEPT ![fd] = f] /\ watched' = watched \cup {fd}
  /\ fiber' = [fiber EXCEPT ![f].pc = "parked", ![f].armed = fiber[f].timed]
  /\ cur' = None /\ worker' = "scan"
  /\ UNCHANGED <<queue, stale, lost>>

\* addEvent() returns -1: epoll_ctl() fails, as it does when the kernel has the
\* descriptor from a context that was replaced.  The call cancels its timer and
\* returns without parking.
ForgetsTimer(x) == [Returned(x, "other") EXCEPT !.armed = x.timed] \* variant
GiveUp(x) == Returned(x, "other")
Refused(f, fd) ==
  /\ slot[fd] = None /\ (fd \in watched \/ CtlMayFail)
  /\ fiber' = [fiber EXCEPT ![f] = GiveUp(@)]
  /\ UNCHANGED <<iomVars, workerVars>>

Wait(f) ==
  /\ worker = "run" /\ cur = f /\ fiber[f].pc = "wait"
  /\ LET fd == fiber[f].fd IN
       \/ slot[fd] # None /\ Abort("addEvent")
       \/ /\ Park(f, fd) \/ Refused(f, fd)
          /\ UNCHANGED <<kernelVars, ctx, expired, proc>>

\* sleep(), usleep(), nanosleep()
Sleep(f) ==
  /\ MayCall(f)
  /\ fiber' = [fiber EXCEPT ![f] =
       [Called(@, "sleep", None, TRUE) EXCEPT !.pc = "parked",
                                              !.armed = TRUE]]
  /\ expired' = [expired EXCEPT ![f] = FALSE]
  /\ cur' = None /\ worker' = "scan"
  /\ UNCHANGED <<kernelVars, ctx, iomVars, queue, proc>>

\* The task's body ends.
Finish(f) ==
  /\ InUser(f)
  /\ fiber' = [fiber EXCEPT ![f].pc = "done"]
  /\ cur' = None /\ worker' = "scan"
  /\ UNCHANGED <<kernelVars, ctx, iomVars, queue, expired, proc>>

(***************************************************************************)
(* The worker: run() takes tasks, idle() lists timers and handles events   *)
(***************************************************************************)
Take(task) == /\ worker = "scan" /\ queue # <<>> /\ Head(queue) = task
              /\ queue' = Tail(queue)

\* What follows YieldToHold(): the timer is cancelled first of all.
CancelTimer(x) == [x EXCEPT !.armed = FALSE]
Resumed(x) ==
  IF x.pc = "new" THEN [x EXCEPT !.pc = "user"]
  ELSE IF x.op = "io" /\ ~x.cancelled THEN [CancelTimer(x) EXCEPT !.pc = "try"]
  ELSE [Returned(x, IF x.cancelled THEN "ETIMEDOUT" ELSE "other")
          EXCEPT !.armed = CancelTimer(x).armed]

Resume(f) ==
  /\ Take(Ready(f))
  /\ IF fiber[f].pc = "done"
     THEN UNCHANGED <<worker, cur, fiber>>
     ELSE /\ fiber' = [fiber EXCEPT ![f] = Resumed(@)]
          /\ worker' = "run" /\ cur' = f
  /\ lost' = lost \ {f}
  /\ UNCHANGED <<kernelVars, ctx, watched, slot, stale, expired, proc>>

\* The callback of sleep(): schedule the fiber.
WakeUp(task) ==
  /\ task.run = "wakeup"
  /\ worker = "scan" /\ queue # <<>> /\ Head(queue) = task
  /\ queue' = Append(Tail(queue), Ready(task.fiber))
  /\ UNCHANGED <<kernelVars, ctx, iomVars, worker, cur, fiber, expired, proc>>

\* The callback of do_io() and connect(): the timer_info it points to lives
\* as long as the call; if it does, and for the first time, the call is
\* marked, and cancelEvent() looks for whoever waits for the descriptor.
AnyCall(task) == fiber[task.fiber].op \in {"io", "connect"}     \* variant
Alive(task) == /\ fiber[task.fiber].op \in {"io", "connect"}
               /\ fiber[task.fiber].calls = task.call
Timeout(task) ==
  /\ task.run = "timeout"
  /\ worker = "scan" /\ queue # <<>> /\ Head(queue) = task
  /\ IF Alive(task) /\ ~fiber[task.fiber].cancelled
     THEN /\ fiber' = [fiber EXCEPT ![task.fiber].cancelled = TRUE]
          /\ \E refused \in Refusal :
               /\ IF Reached(task.fd, refused)
                  THEN Trigger(task.fd, Tail(queue)) /\ Unwatched(task.fd)
                  ELSE /\ queue' = Tail(queue)
                       /\ UNCHANGED <<watched, slot, stale>>
               /\ lost' = lost \cup (Missed(task.fd, refused) \cap {task.fiber})
     ELSE queue' = Tail(queue) /\ UNCHANGED <<iomVars, fiber>>
  /\ UNCHANGED <<kernelVars, ctx, worker, cur, expired, proc>>

\* Nothing to run: the idle fiber, whose epoll_wait() returns.
Idle ==
  /\ worker = "scan" /\ queue = <<>>
  /\ worker' = "expire"
  /\ UNCHANGED <<kernelVars, ctx, iomVars, queue, cur, fiber, expired, proc>>

\* listExpiredCb(): a due timer leaves the set, its callback is scheduled.
Expire(f) ==
  /\ worker = "expire" /\ fiber[f].armed
  /\ fiber' = [fiber EXCEPT ![f].armed = FALSE]
  /\ expired' = [expired EXCEPT ![f] = TRUE]
  /\ queue' = Append(queue, Callback(f))
  /\ UNCHANGED <<kernelVars, ctx, iomVars, worker, cur, proc>>
ExpireNoMore ==
  /\ worker = "expire"
  /\ worker' = "events"
  /\ UNCHANGED <<kernelVars, ctx, iomVars, queue, cur, fiber, expired, proc>>

\* An event of a watched descriptor, for the context the kernel points to: the
\* descriptor leaves the epoll set (if epoll_ctl() fails the event comes again).
\* EPOLLIN is watched for a writer too, and is triggered along with its event,
\* which fails an assertion.
Deliver(fd) ==
  /\ worker = "events" /\ fd \in watched /\ Side[fd] \in ready[fd]
  /\ IF ready[fd] = {Side[fd]}
     THEN /\ Trigger(fd, queue) /\ Unwatched(fd)
          /\ UNCHANGED <<kernelVars, ctx, worker, cur, fiber, expired, lost,
                         proc>>
     ELSE Abort("triggerEvent")
DeliverNoMore ==
  /\ worker = "events"
  /\ worker' = "scan"
  /\ UNCHANGED <<kernelVars, ctx, iomVars, queue, cur, fiber, expired, proc>>

(***************************************************************************)
(* Other threads and the network                                           *)
(***************************************************************************)
\* cancelEvent() or cancelAll() by a thread that is not a worker.
CancelEvent(fd) ==
  /\ Reached(fd, FALSE)
  /\ Trigger(fd, queue) /\ Unwatched(fd)
  /\ UNCHANGED <<kernelVars, ctx, worker, cur, fiber, expired, lost, proc>>

\* contextResize(), when anybody adds an event of a descriptor beyond the table:
\* every context is replaced, and those in use are left to the kernel.
Resize ==
  /\ \E fd \in Fds : slot[fd] # None
  /\ slot' = [fd \in Fds |-> None]
  /\ stale' = [fd \in Fds |-> IF fd \in watched THEN Waiter(fd) ELSE None]
  /\ UNCHANGED <<kernelVars, ctx, watched, workerVars, fiber, expired, lost,
                 proc>>

\* A socket becomes ready in its side's direction, or for reading.
Arrive(fd, e) ==
  /\ e \in {Side[fd], "READ"}
  /\ fd \in open /\ e \notin ready[fd]
  /\ ready' = [ready EXCEPT ![fd] = @ \cup {e}]
  /\ UNCHANGED <<open, nonblock, ctx, iomVars, workerVars, fiber, expired,
                 proc>>

\* The process has ended, or every task has.
Ended == /\ proc # "up" \/ \A f \in Fibers : fiber[f].pc = "done"
         /\ UNCHANGED vars

InFiber(f) ==
  \/ \E fd \in Fds :
       \/ Socket(f, fd) \/ Close(f, fd) \/ SetTimeout(f, fd)
       \/ \E flag \in BOOLEAN : SetFlags(f, fd, flag) \/ Ioctl(f, fd, flag)
       \/ DoIo(f, fd) \/ Plain(f, fd) \/ Connect(f, fd)
  \/ Attempt(f) \/ Wait(f) \/ Sleep(f) \/ Finish(f)

InWorker ==
  \/ \E f \in Fibers : Resume(f) \/ Expire(f)
  \/ queue # <<>> /\ (WakeUp(Head(queue)) \/ Timeout(Head(queue)))
  \/ Idle \/ ExpireNoMore \/ DeliverNoMore
  \/ \E fd \in Fds : Deliver(fd)

Next ==
  \/ /\ proc = "up"
     /\ \/ \E f \in Fibers : InFiber(f)
        \/ InWorker
        \/ \E fd \in Fds : CancelEvent(fd) \/ \E e \in Event : Arrive(fd, e)
        \/ Resize
  \/ Ended

Spec == Init /\ [][Next]_vars

(***************************************************************************)
(* Properties                                                              *)
(***************************************************************************)
\* Every variable keeps its type.
TypeOK ==
  /\ open \subseteq Fds
  /\ nonblock \in [Fds -> BOOLEAN]
  /\ ready \in [Fds -> SUBSET Event]
  /\ ctx \in [Fds -> Context \cup {None}]
  /\ watched \subseteq Fds /\ lost \subseteq Fibers
  /\ slot \in [Fds -> Fibers \cup {None}]
  /\ stale \in [Fds -> Fibers \cup {None}]
  /\ queue \in Seq(Task)
  /\ worker \in {"scan", "run", "expire", "events"}
  /\ cur \in Fibers \cup {None}
  /\ fiber \in [Fibers -> Fiber]
  /\ expired \in [Fibers -> BOOLEAN]
  /\ proc \in {"up", "addEvent", "triggerEvent"}

\* A call reports ETIMEDOUT, or is marked to, only if the timer it armed
\* itself has expired: never on account of an earlier call of the same fiber
\* or of another fiber that waited for the same descriptor.
TimeoutIsOwn == \A f \in Fibers :
  fiber[f].rc = "ETIMEDOUT" \/ fiber[f].cancelled => expired[f]

\* A parked fiber can still be woken: it is queued, or waits in the context that
\* the kernel watches its descriptor with, which is open, or its sleep is still
\* to end; and if its call has a timeout, not by the event alone: the timer is
\* armed or its callback queued.  The exceptions are the fibers that a close()
\* or their own timeout looked for in vain, because their context had been
\* replaced or epoll_ctl() failed; nothing else leaves a fiber behind.
Registered(f, fd) == f \in {slot[fd], stale[fd]}
WillTimeOut(f) == fiber[f].armed \/ Queued(Callback(f))
CanWake(f) ==
  /\ \/ fiber[f].op = "sleep"
     \/ Registered(f, fiber[f].fd) /\ fiber[f].fd \in watched \cap open
  /\ fiber[f].timed => WillTimeOut(f)
ParkedCanWake == \A f \in Fibers \ lost :
  fiber[f].pc = "parked" => Queued(Ready(f)) \/ CanWake(f)

\* close() triggers whoever waits for the descriptor first (hook.cc:396), so
\* that nobody is left parked in a call on a descriptor that is closed.
ClosingWakesAll == \A f \in Fibers :
  fiber[f].pc = "parked" /\ fiber[f].op # "sleep" /\ fiber[f].fd \notin open =>
    Queued(Ready(f))

\* The assertion in addEvent() (iomanager.cc:172-176) fails for a hooked call
\* (hook.cc:161) only when another fiber is still parked in a call on that
\* descriptor.
ClashTakesTwo == proc = "addEvent" => \E f, g \in Fibers :
  /\ fiber[f].pc = "wait" /\ fiber[g].pc = "parked"
  /\ fiber[f].fd = fiber[g].fd
  /\ ~Queued(Ready(g))

\* A hooked call leaves nothing behind: who is registered for a descriptor is
\* parked in a call on it and not also queued, nobody is queued twice, a timer
\* is armed only while its fiber is parked, also when addEvent() failed, and no
\* registration of a call that is over makes the next one abort.
NothingLeftBehind ==
  /\ \A f \in Fibers, fd \in Fds : Registered(f, fd) =>
       fiber[f].pc = "parked" /\ fiber[f].fd = fd /\ ~Queued(Ready(f))
  /\ \A i, j \in DOMAIN queue :
       queue[i] = queue[j] /\ queue[i].run = "fiber" => i = j
  /\ \A f \in Fibers : fiber[f].armed => fiber[f].pc = "parked"
  /\ ClashTakesTwo

\* A descriptor the user made non-blocking, with fcntl() or ioctl(), is so
\* for the kernel too: the plain calls made on it never block the worker.
UserNonblockIsReal == \A fd \in open :
  ctx[fd] # None /\ (ctx[fd].user => nonblock[fd])
===============================================================================

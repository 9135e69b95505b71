# ztyco: a verification development

TLA+ models of the coroutine runtime in `src/` (scheduler, fibers, IO manager,
timers, hooked system calls), of what is built on it (TCP server, configuration,
loggers, daemon) and of the functions without state that it uses (addresses, patterns,
arguments), the TLC runs that check them on small instances, and TLAPS proofs of the properties that matter most for every size. All paths
below are relative to `src/`; line numbers are of the commit the models were
written from.

## 1. The system

ztyco is a C++ coroutine library in the style of sylar: user code runs in
*fibers*; a *scheduler* multiplexes them on threads; an *IO manager* is a
scheduler whose idle fiber waits in `epoll_wait()`; *hooks* turn blocking system
calls into "register, park, be woken". There are no tests and no design documents;
what the code promises is in its comments.

| component | state it keeps | operations | talks to |
|---|---|---|---|
| Scheduler (`src/scheduler.cc`) | task queue, active and idle counts, two stop flags; per worker: `task`, `func_fiber`, `idle_fiber` | `schedule`, `start`, `stop`, `run`, `idle`, `stopping`, `switchTo` | Fiber (switches), its subclass IOManager (virtual `tickle`, `idle`, `stopping`) |
| Fiber (`src/fiber.cc`) | state, function, saved context, stack | `swapIn`, `swapOut`, `resetFunc`, `YieldToReady`, `YieldToHold`, `MainFunc` | Scheduler (who runs it next) |
| IOManager, contexts (`src/iomanager.cc`) | table of `FdContext`: registered events and who waits; `m_pendingEventCount`; the kernel's epoll set | `addEvent`, `delEvent`, `cancelEvent`, `cancelAll`, `contextResize`, the loop in `idle` | kernel, `Scheduler::schedule` |
| IOManager, idle (`src/iomanager.cc`) | wake-up pipe, idle count, stop condition | `tickle`, `idle`, `stopping` | TimerManager, contexts, scheduler queue |
| TimerManager (`src/timer.cc`) | ordered set of timers, `m_tickled`, `m_previousTime` | `addTimer`, `cancel`, `refresh`, `reset`, `getNextTimer`, `listExpiredCb` | IOManager (`onTimerInsertedAtFront`), wall clock |
| Hook (`src/hook.cc`) | per call: `timer_info`, retry loop | `read` ... `sendmsg`, `connect`, `sleep`, `socket`, `close`, `fcntl`, `ioctl`, `setsockopt` | FdManager, IOManager, TimerManager |
| FdManager (`src/fdmanager.cc`) | per descriptor: socket?, user and system non-blocking flags, timeouts | `get`, `del` | Hook |
| TcpServer, Socket (`src/tcpserver.cc`, `src/socket.cc`) | listening sockets, `m_isStop`; the descriptor of each Socket | `bind`, `start`, `startAccept`, `stop`, `handleClient`; `bind`, `listen`, `accept`, `close` | two IOManagers, hooks, FdManager |
| Config (`src/config.cc`, `include/config.h`) | registry of variables; per variable a value and listeners | `Lookup`, `setValue`, `addListener`, `LoadFromYaml`, `LoadFromConDir` | everything that has a setting, through listeners |
| Log, loggers (`src/log.cc`) | loggers with level, formatter, appenders | `getLogger`, `setFormatter`, `addAppender`, the listener on "logs" | Config |
| Log, patterns (`LogFormatter`) | items parsed from a pattern | `init` | loggers |
| Daemon (`src/daemon.cc`) | per process: `ProcessInfo` (parent, child, start times, restarts) | `start_daemon`, `real_daemon` | the kernel: fork, waitpid, signals |
| Env (`src/env.cc`) | program arguments, help texts | `init`, `add`, `has`, `get` | |
| Address (`src/address.cc`) | none: values | masks, `Lookup`, texts | resolver, interfaces |
| Util (`src/util.cc`), Thread, mutexes | none; a pthread | | |

What is hard here: submitters on other threads against one worker's unlocked
questions; a fiber whose state is published before its stack is saved; timeouts
that are cancelled after their callback was queued; descriptors closed and reused
under a parked call; a context table that is replaced while threads hold pointers
into the old one; a wake-up pipe and an idle count that are read without a lock;
a wall clock that goes backwards; a server's flag and list of sockets shared by users and
workers without a lock; listeners called under one lock and the value stored under the next;
children that crash at any point while their parent's system calls fail too; shifts and
byte offsets at the end of an address or a text. `PROJECT.json` lists these hazards one by one
with their lines and the properties aimed at them.

### How the sources were read

Some parts of the repository, taken literally, keep other parts from running at
all. Each component is modelled as it is written; what is
an obstacle only in another component is noted here and not carried over.

- `RWMutex` (`include/mutex.h:133-146`) has no `unlock()` and locks are read as
  "hold from here to `unlock()` or the end of the scope".
- `Scheduler::start()` writes to `m_threads[i]` of an empty vector for every
  thread besides the caller (`scheduler.cc:82`): undefined behaviour. The only
  scheduler that works has one worker, the thread that built it, inside `stop()`.
  Other threads can still `schedule()`, `addEvent()`, `cancelEvent()`, `addTimer()` and so
  on, and in IOManager, Timer and FdContext they do.
- The pipe of an IOManager is blocking (`iomanager.cc:123`), so the worker hangs
  in `read()` once it has been tickled (run `iomanager_tickle`). Timer, FdContext
  and Hook are about what happens in rounds of `idle()` that do go on.
- The hooks are in `namespace zz`, so they interpose nothing as built; Hook models
  them as what a fiber that calls them gets. `accept` is declared and has no hook: it blocks its worker, and FdManager
  never hears of the descriptor it returns, so that `Socket::init()` refuses every client.
  TcpServer leaves open whether the descriptor is known, and so has both cases.
- `Logger::addAppender` (`log.cc:474-481`) locks a spinlock twice if the appender has
  no formatter, which already the constructor of `LoggerManager` comes across. Log has this
  step (`Spin`) for the loggers a configuration defines; the other modules leave logging out.
- A failing `ZZ_ASSERT` ends the process. The variable `proc` says so.

## 2. Modules

| module | models | built from |
|---|---|---|
| `Scheduler` | Scheduler and the part of Fiber it drives, several schedulers | |
| `Timer` | TimerManager, its users' threads, the worker's round of `idle()` as timers see it, the clock | refines `TimerQueue` |
| `TimerQueue` | abstract: a timer's callback is handed out when due, again and again or once, until it is taken back | |
| `FdContext` | the context table, the event loop, the kernel's epoll set | refines `Waiters` |
| `Waiters` | abstract: a registered waiter is scheduled once or removed, and counts as pending until then; when one of two in a context is scheduled the other may be lost | |
| `IOManager` | run() around idle(): sleep, wake-up, stop | abstracts queue entries, contexts and timers of the above to a state per fiber |
| `Hook` | hooked calls and FdManager on one worker | of FdContext, the context the table has, the one the kernel points to, and `epoll_ctl()`; of TimerManager what `TimerQueue` promises |
| `TcpServer` | TcpServer and the life of its Sockets, several users, two workers | takes an IOManager as one worker with a queue of tasks |
| `Config` | the registry, variables, listeners, loading of files and directories, several threads | |
| `Log` | loggers, their definitions, the listener that reconciles them | extends `Config`: one next-state relation for both |
| `Daemon` | parent, children and the kernel's part of fork and waitpid | |
| `Address`, `LogFormatter`, `Env` | functions without state: masks and texts, patterns, arguments | |
| `PureCalls` | one call of one of these functions, then its result | uses the three above |
| `MC*` | constants, symmetry and, for Timer, a view for TLC | extend the above |
| `*_proofs` | theorems | extend the above |

Operators marked as variants are mutated forms of the operator next to them; no
specification uses them. They name the mistakes the properties are meant to catch.

### Scheduler

One name stands for a scheduler and its caller thread. `tasks`, `active`, `idle`,
`autoStop`, `stopping` are the members; `pc`, `cur`, `funcFiber`, `idleState` are
`run()`'s position and locals; `fstate`, `body` are the fields of Fiber. A step of
`run()` is the code between two points where another thread can notice a difference:
the locked scan (`Take`, `TakeNothing`), the switch (`Resume`, `Launch`), the
decrement (`Back`), the tail (`Settle`), the idle branch (`EnterIdle`,
`IdleCheck`, `LeaveIdle`, `LeaveRun`). `YieldToHold` is two steps, since the state
is written before `swapcontext` saves the registers; another thread that
resumes the fiber in between gets garbage, `proc = "ub"`. A fiber that waits stores
`{scheduler, fiber}` first (`Register`, from `addEvent` and the sleeps) and
any thread may fire the event at once (`Wake`). Fiber objects are heap slots, `Free`
again when no `shared_ptr` is left.

`switchTo()` is in `Ops` and not in the constants of `scheduler`: `NoFailedAssert`,
`OneThreadPerFiber`, `FuncFiberPrivate` and `IdleEndsDrained` are about fibers that do not call it.
`scheduler_switch` and the counterexample `MCSchedulerAssert` are about those that do.

### Timer

`timers` is the `std::set` with the key each node was placed by, so that a change of
`m_next` under a node would show. Construction (deadline fixed), insertion (lock)
and notification (after the lock) are three steps of a user's thread; `getNextTimer`,
the wait, the clock read, and the two locks of `listExpiredCb` are steps of the worker.
The clock ticks between any two steps and may be set back once, by more than
`Hour`, which is what `detectClockRollover` looks for; its subtraction wraps
modulo `Width`. `NeverEarly` and `NeverOversleeps` say nothing once it was set back.

`getNextTimer()`'s answer becomes the argument of `epoll_wait()` as in the code: cast to an int
(`AsInt`, whose range ends at `IntEnd` for 2^31) and then bounded (`Bounded`). A negative one has no
end. `timeout` is what the variable `next_timeout` then holds, `left` what is left of the wait. A signal
(`Interrupted`) bounds `timeout` again and waits anew for all of it, so the worker may pass
a deadline by what it had `slept` before; a negative timeout stays one, but for -1, which is taken for
"no timer". `NeverOversleeps` says just this and no less: the worker passes no deadline by more, and waits
without end only if every deadline was out of an int's range when it asked.

`KeepsPromise` says that this implements `TimerQueue`. A timer is armed there while it has a node
in `m_timers`; its entry is its deadline and whether it recurs. The two halves of `addTimer` are
thus a stutter and `Add`, the locks of `listExpiredCb` a stutter and `List`, the clock is `Time`,
and everything the worker does for its own sleep stutters. What `TimerQueue` does not
promise is when `List` comes; `NeverOversleeps` is about that.

### FdContext

`context` holds every FdContext object ever made: `contextResize` replaces all of
them, and callers, the kernel (`data.ptr`) and a returned batch may still point to
old ones. A call is lookup under the table's lock, then work under the context's
lock. `kernel` is what `epoll_ctl` did, including EEXIST and ENOENT failures;
`EpollWait` returns any subset of what is watched, or HUP. `close()` is
`cancelAll`, then the kernel forgets the descriptor (`CloseFd`). It is called from a
thread that has the IOManager (the condition at `hook.cc:395`); one by a thread that has none, which would
cancel nothing, is not modelled. `stranded` are the contexts that were registered when their descriptor was
closed all the same, between `cancelAll` and the close or in a table that was replaced;
`RegisteredIsWatched` excepts them.

`triggerEvent()` clears the whole mask (`iomanager.cc:97`), so that the second waiter of a context
is lost to every operation (`Lost`) though it is still counted. `Waiters` has this as part
of `Trigger`, as a choice, and no other step of it loses anybody. `KeepsPromise` adds
to the refinement that cancels and hangups do trigger: once `cancelEvent()`, `cancelAll()`
or the handling of a hangup has found the context registered and watched, everyone asked for is
scheduled, but for the one that was lost by triggering the other (`WokenWhenAsked`). That nobody is lost is
what the comments say, and the counterexample `MCFdContextLost` shows that it is not so.

### IOManager

The worker is inside `stop()`. A task is `queued`, `running`, waits for an `event`, or for a timer that is
`near` (less than 2^31 ms away) or `far`; a `foreign` one waits here for an event and belongs to another
scheduler. Scan, count, the three questions of `stopping()`, `epoll_wait`, expired
callbacks, events, pipe and yield are separate steps; another thread's `schedule()` is
push, look at the idle count, write. `edge` is EPOLLET's memory, `unread` the
bytes in the pipe. A timer's callback schedules its fiber in one step here (its own
task in the code; that detour is in Hook).

Other threads also add events (`AddForeign`), cancel them, and add, reset, refresh and cancel timers, at
any moment. Those that come first tell the worker unless `m_tickled` says that somebody has
(`tickled`). `late` is history: who was made to wait by another thread after `stopping()` had already
asked for its like. `limited` says whether the wait has an end, which with far timers only is open (the cast).

### Hook

Each fiber has a record of its call in progress. Tasks in the queue are fibers and
timers' callbacks with what they captured (descriptor and call number). A callback
finds its call alive iff the `weak_ptr` to `timer_info` still locks, that is iff
the fiber is still in that very call. Descriptors are closed and reopened, so a retry may
meet a new socket. A descriptor is used in one direction, `Side`; an fd with two
directions at once is the subject of FdContext.

`slot` is who waits in the context that `m_fdContexts` has for a descriptor, `stale` who waits
in one that `contextResize()` replaced (`Resize`, by anybody, while somebody waits) and that
the kernel still points to, `watched` the epoll set. `cancelAll()` and `cancelEvent()` look in the table
and call `epoll_ctl()`; when they find nobody there, or it fails, they return false (`Missed`), and
`lost` remembers whom a `close()` or the fiber's own timeout looked for in vain. `addEvent()` fails when `epoll_ctl()`
does, for want of memory or because the kernel has the descriptor already from a replaced context; the
call then cancels its timer and returns (`Refused`). `ParkedCanWake` excepts the `lost` and nobody else;
the counterexample `MCHookClose` shows that there are such fibers even if `epoll_ctl()` fails for no other reason.

`fcntl()` is modelled for F_SETFL. It stores the library's flag and then sets the kernel's, and so
does `ioctl()`; these are one step here, since the fibers of one worker cannot come in between. Two
IOManagers whose fibers share a socket are not modelled, so that `UserNonblockIsReal` says
nothing of them.

### TcpServer

A user's call to `bind` is a step per address up to the listening Socket, two for `push_back`
(`PushBack`, `PushEnd`) and two for the `clear()` or the loop at its end (`BindEnd`, `BindReturns`). `start` looks at
`m_isStop` in one step (`Start`) and sets it in the next (`StartSet`), so two users may both get
past the check; then it takes a step per socket. `stop` sets the flag and then schedules the task. Each
IOManager is one worker that takes tasks in order and does not switch inside one, since
`accept()` blocks. The accept worker's steps are the reading of `m_isStop` (`Check`), the return of
`accept()` (`Accept`), one `close()` of stop()'s loop (`Close`) and its `clear()` (`CloseEnd`, `ClearEnd`).
`open` is the kernel's table of descriptors, whose numbers are reused.

Each task has what it captured: its Socket, and `self`, whether it has a `shared_ptr` to the server.
The server lives as long as a user or such a task has one (`HoldsServer`); `Settle` ends every step by
destroying the server and the Sockets nobody refers to any more. That every task the code
schedules has captured one is what `ServerOutlivesTasks` depends on: its mutant lets the task of
`stop()` capture the bare `this`. Two threads in `m_socks` at once, one of which
changes it, are a data race (`Changes`, `Walks`, `proc = "ub"`), which the users may run into, whether
by two calls of `bind()` or by one that meets a loop; the invariants hold up to there. `bound` and `refused` are
history: whether something was bound since the last `stop()`, and which descriptors `init()`
refused and left open.

### Config and Log

A position of a thread in `setValue()` is `notify` (shared lock, some listeners told, `left`
to tell) or `store` (between the locks); `Load` and `LoadNode` are the loop over the nodes of a
file, whose text converts to a value or throws. `heard` remembers what each listener was last told
and `dispute` whether the calls on a variable overlapped, were overtaken by `addListener()`
or ended by a listener's exception, since the code promises nothing then: `ListenersHaveHeard`
and `LoggersFollow` are about the calls that stayed apart, and say nothing of the others. Log instantiates the
values with sets of logger definitions, as functions from names, obtained from lists as YAML has
them by `FromYaml`. A thread in the log system's listener has a `run`: the loggers that are `left`
of the difference between the old and the new value, the one it is `at` work on, and how many of its
appenders are `done`. `GetLogger`, `SetLevel`, `SetFormatter`, `ClearAppender`, `AddAppender` and
`LeaveLogger` are the body of the listener's loops, one operation of Logger per step, each of which but
`SetLevel` takes the logger's lock; `SkipAppender` is the `continue` for an appender to stdout
in a daemon. A thread in `Spin` never comes back and holds one logger's lock for good.
`LoadFromConDir` is a call that ends nowhere: `ListAllFile`
calls `readdir()` once and loops on its result (`util.cc`), so the thread is `stuck` before it
has read a file.

### Daemon

A process is its number, and each has its own copy of `ProcessInfo`, made by `fork()`. The
parent's loop is `Fork`, `Reap` or `WaitFails`, then `Finish` or `Restart` and `Awake`. A child
ends or is killed at any point, before `main_cb` too (`Crash`). `fork()` may fail, and `waitpid()`
does when a handler without SA_RESTART interrupts it or when SIGCHLD is ignored, which the
program may have inherited: `interrupts` and `ignored` are chosen at the start. `status` is then what
it was initialized to, 0, so the parent takes the child for finished; `unheard` records it, and
`OneChild` and `CrashedIsReplaced` except it, since nothing in the code says what should happen.

### Address, LogFormatter, Env and PureCalls

These are functions. An address is the sequence of its bits in network order, a text the
sequence of its characters, arguments are split into dash and word. The loops over groups, texts and
arguments are recursive functions of the number of elements read (`Printed`, `Scanned`, `Taken`), whose
values are the loop's local state (`mode` is where in the nested
loops of `LogFormatter::init` the next character is looked at). What the code leaves to a byte
outside the object or to an undefined shift is a set of results. `PureCalls` has one
action per function, and its properties compare the result with what it is for:
`MasksCohere` network, broadcast address and mask of each other; the others that
what is printed or written can be read back. What the inputs may be is `PureCallsAssumption`: a node
has no brackets of its own and a service no colon; a path has no zero byte unless it begins with one, and any
length (`UnixAddress` throws if it is beyond `SunPath`); an argument vector has at least one word; the items of a
pattern are what somebody could write as one (two texts in a row would be one, and the items of
a pattern share one date format). Calls outside of it are in the list at the end of section 3.

## 3. Runs

| run | shows | bounds |
|---|---|---|
| `scheduler` | conservation of closures, exact counters, no failing assertion, private function fiber, READY fibers queued, idle ends drained | 2 schedulers, 2 fiber slots, 2 closures, all pinnings, duplicates up to queue length 2, exceptions |
| `scheduler_live` | a queued closure starts, a woken fiber resumes | 1 scheduler, 2 fibers, 2 closures |
| `scheduler_switch` | no closure is lost or doubled by `switchTo` | 2 schedulers |
| `timer` | set consistent, one-shots once, never early, never oversleeps, all expired listed, implements `TimerQueue` | 2 timers, 2 threads, periods 1 and 7, ints up to 3, MAX_TIMEOUT 2, clock 0..2 with one set-back, rollover after 1 |
| `fd_context` | counts, uniqueness of waiters, kernel watches what is registered, implements `Waiters`, cancels wake | 1 descriptor, 2 threads, 3 waiters, 2 resizes |
| `iomanager` | wake-ups, stop condition, queued tasks run | 2 tasks, 2 threads |
| `iomanager_tickle` | violation: a tickled worker stays in idle | 1 task, 1 thread |
| `hook` | timeouts hit their own call, parked fibers can wake, nothing left behind, user's O_NONBLOCK is real | 2 fibers, 1 descriptor that is written and reused, 3 parking calls per fiber, `epoll_ctl()` may fail |
| `log` | listeners and loggers follow the variable when calls stay apart | 2 threads, 2 listeners, 2 loggers, 4 values (one that spins), 1 file of 3 nodes |
| `tcpserver` | one owner per descriptor, the server outlives its tasks, stopped means deaf | 2 users, 3 Sockets, 3 descriptor numbers, 2 addresses per bind, 3 queued tasks |
| `pure_calls` | masks cohere; addresses, host names, patterns and arguments read back | real widths and every prefix with 4 bit patterns, 2 values per group of an IPv6 address, paths of 3 characters and of 106 to 109, host names of 4 with a service, patterns of 4 items, 5 arguments |
| `daemon` | a child knows the truth about itself, there is one at most, a crashed one is followed by another | 3 process numbers, 3 crashes, clock 0..2 |

Why these sizes are enough to be interesting: two schedulers let a fiber be in two
queues; two slots make run() reuse its function fiber while another one waits; two
closures suffice for order. Two timers give order, ties and a new front; the clock
range covers a tick in every window, a set-back and a rollover; a period of 7 is
negative as an int of 4 and above, -1, which is also the one that a signal turns into MAX_TIMEOUT,
and what is left of it a tick later is -2, which stays negative. Three waiters fill both
events of a context and leave one for its successor; two resizes leave a stale context
behind twice, and descriptor 40 lies outside the first table of 32. Two calls per
fiber are what a stale timeout needs: one call to arm it, the next to be hit; the third is a call after
one that failed. One descriptor is enough for two fibers to meet on it, since its
number is closed and opened again; nothing in Hook relates two of them but `Resize`, which takes all.
In `log`, a value that adds, one that changes and adds, one that removes and one whose appender
has no formatter give every kind of difference; two threads are what an overlap takes. In `tcpserver`
three numbers are two listeners and a client, or a listener that is closed and reused. In
`daemon` three numbers are a caller, the parent `daemon()` leaves and a child, and the caller's number
is given out again; three crashes are more than one restart apart. In `pure_calls`
four items put a text between, before and behind two others, and five arguments are two keys
with values and a stray one.
Larger instances are the business of the proofs. Runs whose number is bounded by
a constant in a guard name it: `MaxQueue` (duplicates only), `MaxClock`, `MaxGen`,
`MaxCalls`, `MaxAddrs`, `MaxTasks`, `MaxCrashes`, `MaxTime`, `Used` (the variables the program
sets itself). The view of `timer` drops the period, deadline and repetition of a Timer that
has lost its callback: every operation asks for the callback first, so that states
which differ in these only have the same future. It also drops how the worker sleeps once the
clock was set back or a wake-up is on its way: it may wake at any time, and no property asks. Symmetry is
declared for names that only tell things apart: threads, fibers, waiters, sockets and numbers, never for timers,
which are ordered, and not where a run checks liveness.

Deadlock checking is on except for `IOManager`, where the worker may legitimately
(for the code as it is) hang in `read()`, and `PureCalls`, where a call ends; elsewhere a process that has ended is
a stutter (`Ended`), and so is a thread that spins for ever on a lock or lists a directory (`Stuck` of Log).

### Fairness

Only `scheduler_live`, `iomanager`, `iomanager_tickle` and `daemon` use it, and the counterexample `MCIOManagerFar`. Weak fairness of a
worker's and of a thread's next step says that the operating system runs every thread
and that a task's body ends or yields: cooperative fibers are not preempted, so a body that
loops forever stops its thread, in the code as well. No fairness is assumed for
submitters, for events, or for the choice a fiber makes. In IOManager the worker's
fairness includes `epoll_wait` returning if the pipe is readable or the wait is `limited`, at most
MAX_TIMEOUT = 5 s then, and does not include it otherwise: no signal and no event need ever
come. `QueuedTaskRuns` therefore excepts a wait without limit over a task that nobody announced
(`Unannounced`), which the counterexample `MCIOManagerFar` shows to happen. In Daemon
the parent is scheduled, and `fork()` does not fail for ever, which the code's retry without limit
relies on; children owe nothing.

### What the violation says

`iomanager_tickle`: `fcntl(fd, flag)` without F_SETFL (`iomanager.cc:123`) leaves the pipe blocking: after
one byte the worker blocks in `read()` inside `idle()`. The comment at `iomanager.cc:120` has the pipe
set to non-blocking, and the loop at `408` relies on it.

### Further counterexamples

Kept beside the runs are configurations under which TLC refutes a sentence that a comment, an assertion
or a printed usage makes. They are not among the runs of `PROJECT.json`; each ends in a second
or a few with the trace described, by `tlc -config <name>.cfg <module>`.

| configuration, module | refutes | what the code says | what it does |
|---|---|---|---|
| `MCSchedulerAssert`, MCScheduler | `NoFailedAssert`, with `switchTo` | `ZZ_ASSERT(m_state != EXEC)` (`fiber.cc:140`) | `switchTo` (`scheduler.cc:267`) queues a running fiber before it yields; the other thread may resume it first, and the assertion fails |
| `MCTimerFar`, MCTimer | `WaitIsBounded` | 5 s also when the next timer is later (`iomanager.cc:380`) | `std::min((int)next_timeout, MAX_TIMEOUT)` casts first (`381`): with a first timer 2^31 ms (25 days) away the timeout may be negative, and `epoll_wait()` waits without limit |
| `MCIOManagerFar`, MCIOManager | `NewTaskEndsWait` | a new task should end idle at once (`iomanager.cc:356`) | a thread whose `schedule()` saw no idle worker writes nothing (`334`), and with a far first timer the timeout that would make up for it does not come |
| `MCIOManagerLate`, MCIOManager | `NobodyLeft` | idle may end only after all events have run (`iomanager.cc:341`) and with no timer left (`344`) | `stopping()` asks for timers, then events, then tasks; what another thread adds behind its question is left waiting. `IdleEndsDrained` shows that there is no other way to be left |
| `MCFdContextLost`, MCFdContext | `NobodyLost` | clear this event (`iomanager.cc:96`), trigger those registered (`311`), a hangup triggers both (`417-420`) | `events & ~events` (`97`) clears all. When `cancelAll()` or a hangup triggers the reader, the writer is not registered any more and nobody triggers it; it stays counted as pending, so that the IOManager never stops |
| `MCHookClose`, MCHook | `ClosingWakesAll` | `close()` triggers all events first (`hook.cc:396`) | after `contextResize()` (`iomanager.cc:148-154`) the table has an empty context for a descriptor somebody is parked on; `cancelAll()` returns false. Without a timeout the fiber never runs again; with one, its timeout does not find it either |
| `MCPureCallsProgram`, MCPureCalls | `CommandLineAccepted` | an ordinary command line (`env.cc:33`), `argv[0]` kept and printed as the program's name (`31`, `103`) | the loop starts at `argv[0]` (`35`), so that a program whose name does not begin with a dash is refused at once |

### Not a run, but worth knowing

Scheduler, fibers and IOManager:

- `stop()` never returns if there was work: `scheduler.cc:46` passes `use_caller = false`, so
  the root fiber swaps with itself at the end and the thread exits (`proc = "exit"` in Scheduler),
  although `scheduler.cc:34` wants it to return to the caller's main fiber.
- `EPOLLIN` is always watched (`iomanager.cc:182`) and what `epoll_wait()` returns is triggered
  even if it is not registered (`451-458`): a writer on a readable socket aborts the process
  (`proc = "triggerEvent"` in FdContext and Hook).
- `run()` can leave with a waiter. A task queued after the idle fiber's end and before the last
  scan still runs; if it registers an event, run() breaks at `scheduler.cc:232` because the
  idle fiber is TERM, contrary to the comment at `iomanager.cc:341`. `IdleEndsDrained` and
  `NobodyLeft` in IOManager are therefore stated for the moment the idle fiber ends.
- The pipe is recognised by `event.data.fd`, the low half of a pointer for
  every other entry (`iomanager.cc:405`).
- `refresh()` does not tell the worker (`timer.cc:71`). A deadline only moves forward, unless the
  clock was set back; then it may come earlier than the worker's waking up.

Descriptors, server:

- `!flags & O_NONBLOCK` (`fdmanager.cc:39`) is never true, so a new socket stays blocking.
- `FdManager::get` looks and creates under two locks, so that two threads could replace each
  other's context; only `socket()` creates contexts, and no two threads get one number from it.
- A worker in a blocking `accept()` starts no other listener and does not get to `stop()`'s task until
  the next connection; on a listener that was closed under it, `startAccept` loops without pause.
  `StoppedIsDeaf` is about a worker that has done all it was asked.

Configuration, loggers, environment, daemon:

- `LoadFromConDir` never returns: `ListAllFile` calls `readdir()` once and loops on what it got,
  and so does `Rm` on a directory.
- A legal name has no digit 9 (`config.cc:27`, `config.h:430`); `Lookup` logs an illegal name and
  registers it, though `config.h:407` announces an exception.
- Two writers of one variable may notify in one order and store in the other, and a listener that throws
  leaves the others told of a value that is never stored (`config.h:344-349`); `dispute` marks both.
- A logger keeps its formatter when its definition drops it (`log.cc:698`), so `LoggersFollow`
  speaks of level and appenders.
- All `%d` of a pattern share the format of the last braces, and a bare `%d` at the end makes
  `LogFormatter::init` read past the pattern; `PatternReadsBack` is about patterns with one
  `%d` at most and something behind it.
- `Env::add` writes under a read lock.
- The daemon's parent keeps `main_id` 0 in its own copy; a failed `waitpid()` is taken
  for a child that finished (`daemon.cc`).

Addresses and files:

- `CreateMask` shifts an int, so that prefix 0 of an IPv4 address shifts by 32, which is undefined.
  The IPv6 `networkAddress` clears the network's bits in the byte of the prefix and keeps the
  host's, where the IPv4 one does the opposite, and prefix 128 touches the byte behind the
  address (`sin6_scope_id`). `MasksCohere` states what does hold.
- `IPv4Address::subnetMask` does not check its argument as its two siblings do.
- `Lookup` of an IPv6 address without brackets takes what follows the first colon as the service
  (`HostIsSplit` says for which hosts the parts come back).
- `Lookup` uses `results` after an error of `getaddrinfo`; `IPAddress::Create` frees a variable on the
  stack; `GetInterfaceAddresses` dereferences a null `ifa_addr`.
- `FileLogAppender` opens its file twice, `OpenForWrite` makes a directory only after
  the open succeeded, `TrimRight` drops the last character it should keep.

## 4. Proofs

The proofs assume only the named assumptions on constants, which TLC evaluates
on every run (`PureCallsAssumption` is the one that restricts inputs), and, for four theorems of Scheduler (`AssertsHold`, `OneThread`, `FuncFiberOwned`,
`IdleEndsOnlyDrained`), `NoMigration`: nobody calls
`switchTo` (section 3 shows that this is needed) and `start()` is asked
for no extra thread (it is undefined behaviour otherwise). The assumptions on constants say
what kind of set each is, that `None` (`NoPid` in Daemon) is none of the things it stands in for, and, in Hook,
that there are finitely many fibers.

**Scheduler_proofs.** `TypeCorrect` and `CountsCorrect` come from one small
invariant, `Basic`: the type of a counter that is decremented needs to know that it is 1
there, and that is `CountsMatchWorker`. The other three need a single-owner argument,
`IInv`: every reference to a fiber (queue entry, task taken, func_fiber, event
context) is held by the fiber's `home` (`Homes`), and the fiber's state says what the
home's one thread is doing with it (`States`). So nobody else can find it
EXEC or half-saved. `FuncFibers` adds that the fiber run() keeps between two functions is
`Private`, except while it is lent to a function that is suspended in it
(`Lent`), after which run() lets go of it. Without these parts the assertions are not
inductive: a state in which a fiber is in two schedulers' queues satisfies
`NoFailedAssert` and leads straight to a violation.

**Scheduler_proofs, nothing lost.** `ReadyNotLost` is inductive with the types alone, once it is
known what a push and a take leave of the queues entry by entry (`PushExact`, `TakeExact`); it
holds with `switchTo` too. `ClosuresKept` counts places: `KInv` says that a closure is in one
place at most, an entry, a task in the worker's hand or a fiber that was not resumed yet
(`Holds`, `Once`), and that it was handed in once more than it was entered just when it is
somewhere. A recycled fiber could throw a closure away: so `FreshKept` says that a fiber not yet resumed is
queued or taken, hence not `Free`, and never the func_fiber that run() resets. It also
holds with `switchTo`. `IdleEndsOnlyDrained` is an action property and puts the three
together: a queue that `stopping()` finds empty leaves no READY fiber (`ReadyIsQueued`), none to enter
(`FreshKept`), and, as the worker itself is in its idle fiber, none in EXEC (`States`).

**Timer_proofs.** `TInv` says that `m_timers` holds the nodes of exactly the timers that
have their callback, that a timer a thread is about to insert is that thread's
alone (`Insertions`), and that a timer is spent when it has lost its callback.
`ActiveTimersAreSet` and `OneShots` follow. `CInv` adds the clock: as long as nobody has
set it back, what was read from it is at most the clock (`ClockRead`), and while the worker waits, no
deadline comes before the end it was given, counted from when it asked, unless a thread is at `tell` or the pipe is
readable (`Known`, `Sleep`, `Told`: `m_tickled` set means that somebody is telling); a signal moves the end by what was
slept (`Limit`), and a negative timeout is known to come from a deadline out of an int's range. From these
follow `NoOversleeping` and `NoEarlyListing`. `NothingLeftExpired`, an action property, needs
`TInv`: what `listExpiredCb` leaves in the set is keyed by its deadline, and is later than the clock
it read, or is a recurring timer that was just put back.

**FdContext_proofs.** Every operation changes the contexts in one of two ways: it fills
one empty event context (`Puts`) or takes the waiter out of one (`Takes`). The parts of the
invariant about waiters and the count are proved for these two kinds of steps,
with `FiniteSetTheorems` for the cardinality of the filled slots, and each
action is then shown to be of one kind or to leave the contexts alone. The kernel's side
(`PtrOK`, `Watched`) says that the watch of a descriptor belongs to the one context with
registered events, unless the descriptor was closed under a registration.
`PromiseKept` is the refinement: the same two kinds are `Register`, and `Trigger` or
`Remove`, of `Waiters`; the rest stutters. `Takes` keeps track of what the mask is left with, for `Trigger` to
say whom it loses, and `WokenWhenAsked` follows from the action that cancels or handles the hangup.

**Timer_proofs, the promise.** `PromiseKept` is the refinement of `TimerQueue`. By
`ActiveTimersAreSet` the entries are those of the active Timers (`EntriesOfActive`), so each
operation only has to say what becomes of them; the deadline that `List` asks for is
`NoEarlyListing`'s.

**IOManager_proofs.** `m_pendingEventCount` is decremented after a cancelled fiber was
queued, outside the context's lock. The invariant's main part, `Counted`, says that it is the
number of tasks that wait for an event, foreign ones included, plus the cancellations not counted off yet; so a
0 that `stopping()` reads means no event. The three questions are asked at different
moments: `Asked` says that an answer "no more" stays true but for the `late` ones, because
only other threads can bring more while the worker asks. `IdleEndsOnlyDrained` follows. `WakeUpAlwaysComing` follows the worker from the
scan that found nothing to `epoll_wait()` (`Wakes`, `Rises`): a task pushed after it had counted as
idle has a thread about to write to the pipe, or the pipe is readable.

**TcpServer_proofs.** `Settle` ends each step by destroying what nobody refers to any
more, so a step changes the owners' tables in one of a few ways, each of which keeps
`OneOwner`. A Socket that a `bind()` is about to push is that call's alone (`Callers`, `Private`).
`ServerOutlives` is not in the definition of `alive`, which counts only captured pointers: `Captured`
says that every task queued or running has captured one. `StopCloses` needs that a stopped server which nobody bound since is either still
to be told (`Coming`: a user in `stop()`, or the task in the queue or running) or has closed all it had.

**CallsAndDaemon_proofs, the daemon.** What a child knows is what the parent knew when it
forked, so the invariant describes the parent's copy at each point of its loop (`restart_count` counts the
crashes but for the one not heard of yet) and the child's as a copy of it. It needs no fairness.

**CallsAndDaemon_proofs, the calls.** All five properties of `PureCalls` are proved for every input
that `PureCallsAssumption` admits, of any length. As invariants they are immediate, since a call has one
answer and keeps it (`OneAnswer`); what has to be proved is the answer. The loops are recursive functions
of the number of elements read, and a fact about them is proved by taking the set of the
numbers for which it holds: 0 is in it, and with a number the next one, so that the smallest number
outside of it (`Smallest`, from the library's `WFMin`) cannot exist (`Induction`). This is
induction without a theorem that takes an operator. The first of these inductions shows for each loop that
the function has a value for every number, since a recursive function is a CHOOSE. Then:

- `MasksRight`: with a prefix of at least 1 the shift of `CreateMask` stays below the width, so that each of
  the sets of results has one element, and the position of a bit in its byte or its distance from the
  end of the word says on which side of the prefix it lies. The length that is counted is the cardinality of
  the interval of set bits.
- `TextsRight`: after each group there are the groups before the first zeros, all others read being
  zeros, or there is a gap for one run of zeros with all other groups around it (`AfterGroup`). The run
  it ends with is a witness for the set of texts that `inet_pton()` reads as the address. A path is cut at
  its first Nul, which is behind it (`PathRead`), as long as it has room; if not the constructor throws.
- `HostsRight`: the first `:` or `]` is where the writer put it, since the parts have none.
- `PatternsRight` (`AfterItem`): what has been read after each item written is the list of the items so
  far, but that the text of the last may still be in `tmp`, that its format may not have been seen, and that
  a bare `%d` may still wait for its brace; which of these it is depends on the last item alone.
- `ArgumentsRight`: after each argument `args` and the pending key are what the last occurrence of each key among
  the arguments so far makes of them, as long as none was refused. What is refused is stated for vectors that begin
  with a key; of the others the theorem says only what an accepted one yields.

**Hook_proofs.** A parked fiber can be resumed from four places: the queue, the context it is
registered in, its timer, and a callback of that timer that is queued already. The properties
say that it is in enough of them and not in too many, and none is
inductive: each event takes a fiber out of one place because of what the others
hold. `HInv` says it for all at once. A fiber that runs is in none (`OneRuns`, `Records`); a registered
one, in the table's context or in a replaced one, is parked in a call on that descriptor and not queued
(`Waiting`); what is watched is open, and somebody waits in the context the kernel points to (`Kernel`); a
parked one that is neither queued nor `lost` is registered where the kernel looks, or asleep, and its
timeout is still to come (`Parked`, `Held`); a fiber is in the queue
once at most (`Solo`), and a timer's callback in it belongs either to a call
that has returned or to the present one, whose timer then has expired (`Tasks`, `TaskFits`). That last part is what the
`weak_ptr` to `timer_info` is for: without it a late callback would mark a later call of the same
fiber. `TimeoutsAreOwn`, `ParkedFibersCanWake` and `CallsLeaveNothing` follow.
`NonblockIsReal` needs only that every open socket has a context (`Sockets`). `NothingLeftBehind` also has the
abort in `addEvent`: when it happens (`ClashBegins`), whoever is registered is parked in a
call on that descriptor (`Waiting`), so it is not the leftover of a call that is over.

**Log_proofs.** `ListenersKnow` is about Config, in the composition with Log, whose next-state relation
has both. A call of `setValue()` compares under one lock, tells under it and stores
under the next, so `ListenersHaveHeard` is not inductive: it says nothing of a call in
progress. `LInv` follows one that is alone with its variable: there is one such call at most
(`OneAlone`), and until it stores, every registered listener has heard the new value or is still on the
call's list (`Hearing`). Who registers in between makes the call not alone, which is why
the property excuses it. When nobody sets the variable, all have heard (`Settled`).

**Log_proofs, types.** `TypeCorrect` needs more than types: the value of a call in progress is one
of `Values`, the nodes it has still to load are a file's, and a listener that is called was registered before (`Registry`);
a run of the log system's listener belongs to a call that tells a value of `Logs` (`Running`), and
works on a logger that is there, which is why `loggers[n]` may be read as a record, and never on
more appenders than the definition has.

**Log_proofs, the loggers.** `LoggersKeepUp` says of the listener, which only ever sees a
difference, that its effect is that of the whole value. `FollowInv` is `LInv`, the types and
`Following`: when the call on the variable is alone, all loggers agree with the old value until the listener is
called; from then on each agrees with the new value, is `left`, or is the one at work. That one has the
new level from `SetLevel` on, and from `ClearAppender` on the appenders that the first `done` entries of its
definition give (`Halfway`; `TypesMore` is the step from one entry to the next, and `TypesUpTo`
counts out those a daemon does not get). A logger the difference leaves out has the same definition
in both values, so that agreeing with the one is agreeing with the other. Two runs at once would
undo each other's work; `LInv` has it that they are not alone, and that such calls leave
the variable disputed. TLC has checked `LInv` and `FollowInv` on the constants of `MCLog`.

Every invariant and every action property that a passing run checks is proved. Not proved:

- All liveness: `CrashedIsReplaced`, `QueuedClosureStarts`, `WokenFiberResumes`, `QueuedTaskRuns`,
  since reasoning under fairness is outside the prover.
- `TickleEndsIdle`, `WaitIsBounded`, `NobodyLost`, `NobodyLeft`, `NewTaskEndsWait`, `ClosingWakesAll` and
  `CommandLineAccepted`, which the code violates, as does `NoFailedAssert` with `switchTo()`.

## 5. Not modelled, and the plan

Not modelled: more than one worker per scheduler, since `start()` cannot create one;
`use_caller = false`; `stop()` from inside a task; fiber ids (they drift:
`fiber.cc:56-64`, `86`); stack allocation; calls with hooks disabled; the lookup of
the original functions with `dlsym`; log events, the items' output and files; client sockets
(`connect`, `send`, `recv`); `Config::Visit` and the casts of containers; name resolution and the list
of interfaces; the help and the paths of Env; string and file utilities but for what the list
above says of them; Thread and the mutexes, which are wrappers of pthread.

Order of the work:

1. Done: all the modules of section 2, with the proofs of section 4.
2. Proofs: that `Hook`'s contexts and timers step as `Waiters` and `TimerQueue` do.
3. Modules: client sockets (`connect`, `reconnect`, `close`) as users of `Hook`; `Util`'s file
   functions with the log appender that uses them, two processes in `Mkdir` at once included.
4. Compositions: `Hook` over `Waiters` and `TimerQueue` as INSTANCEs instead of its own contexts
   and timers; two IOManagers whose fibers share a socket.

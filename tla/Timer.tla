-------------------------------- MODULE Timer --------------------------------
(***************************************************************************)
(* Timer and TimerManager (timer.h, timer.cc), used by several threads and *)
(* by the one worker whose idle fiber asks for the next deadline, sleeps,  *)
(* and lists the expired callbacks (IOManager::idle).  Time is the wall    *)
(* clock of gettimeofday(), which may be set back.  How the worker drains  *)
(* its wake-up pipe is the business of IOManager; here the pipe is a flag. *)
(***************************************************************************)
EXTENDS Integers, FiniteSets

CONSTANTS
  Timers,    \* addresses of Timer objects: the second key of the set's order
  Threads,   \* threads that add, cancel, refresh and reset timers
  Periods,   \* values of m_ms
  Start,     \* the clock when the manager is built
  MaxClock,  \* bound on the clock
  Hour,      \* 60 * 60 * 1000: a clock set back by more is a rollover
  MaxWait,   \* MAX_TIMEOUT of idle()
  Width,     \* 2^64, of the unsigned arithmetic on times
  IntEnd,    \* 2^31, one past the largest int
  None

ASSUME TimerAssumption ==
  /\ Timers \subseteq Nat
  /\ Periods \subseteq Nat
  /\ MaxClock \in Nat /\ Hour \in Nat /\ MaxWait \in Nat /\ Width \in Nat
  /\ IntEnd \in Nat
  /\ MaxWait < IntEnd /\ MaxWait < Width - 1
  /\ Start \in 0 .. MaxClock
  /\ None \notin Timers
  /\ \A p \in Periods : MaxClock + p < Width

VARIABLES
  clock,      \* what GetCurrentMS() returns
  ms,         \* Timer::m_ms; -1 until the Timer is built
  next,       \* Timer::m_next
  recurring,  \* Timer::m_recurring
  cb,         \* whether Timer::m_cb is set
  timers,     \* m_timers: nodes, each with the key it was placed by
  tickled,    \* m_tickled
  previous,   \* m_previousTime
  caller,     \* per thread: between the steps of addTimer() or reset()
  pc,         \* where the worker is; it counts as idle unless "out"
  timeout,    \* idle()'s local next_timeout, once it is bounded
  left,       \* time left in epoll_wait(); negative: it waits without limit
  now,        \* listExpiredCb()'s local now_ms
  cbs,        \* listExpiredCb()'s result: whose callbacks it copied
  sawPipe,    \* the pipe is among the events epoll_wait() returned
  notified,   \* the wake-up pipe is readable
  fault,      \* a set was used in an undefined way
  spent,      \* history: a one-shot was listed, or cancel() returned true
  setBack,    \* history: the clock was set back
  since,      \* history: the clock when the worker asked for its timeout
  slept       \* history: how long it had slept then when a signal came

timerVars  == <<ms, next, recurring, cb, timers>>
sleepVars  == <<timeout, left, since, slept>>
workerVars == <<pc, now, cbs, sawPipe, sleepVars>>
history    == <<spent, setBack>>
vars == <<clock, ms, next, recurring, cb, timers, tickled, previous, caller,
          pc, timeout, left, now, cbs, sawPipe, notified, fault, spent,
          setBack, since, slept>>

Node == [at: Nat, timer: Timers]
NodeOf(t) == [at |-> next[t], timer |-> t]
Free == [at |-> "free", timer |-> None]
Made(t) == ms[t] # -1
\* The caller of addTimer() has no handle to give away before it returns.
Inserting(th, t) == caller[th] = [at |-> "insert", timer |-> t]
Shared(t) == Made(t) /\ \A th \in Threads : ~Inserting(th, t)

\* Comparator: by deadline, then by address.
Before(m, n) == m.at < n.at \/ (m.at = n.at /\ m.timer < n.timer)

Init ==
  /\ clock = Start
  /\ ms = [t \in Timers |-> -1]
  /\ next = [t \in Timers |-> 0]
  /\ recurring = [t \in Timers |-> FALSE]
  /\ cb = [t \in Timers |-> FALSE]
  /\ timers = {}
  /\ tickled = FALSE
  /\ previous = clock
  /\ caller = [th \in Threads |-> Free]
  /\ pc = "out" /\ now = 0 /\ cbs = {} /\ sawPipe = FALSE
  /\ timeout = 0 /\ left = 0 /\ since = 0 /\ slept = 0
  /\ notified = FALSE
  /\ fault = FALSE
  /\ spent = [t \in Timers |-> FALSE]
  /\ setBack = FALSE

(***************************************************************************)
(* Operations of the users' threads                                        *)
(***************************************************************************)
\* addTimer(): the Timer is built, and its deadline fixed, before the lock.
Construct(th, t, p, r) ==
  /\ caller[th] = Free
  /\ ~Made(t)
  /\ ms' = [ms EXCEPT ![t] = p]
  /\ next' = [next EXCEPT ![t] = clock + p]
  /\ recurring' = [recurring EXCEPT ![t] = r]
  /\ cb' = [cb EXCEPT ![t] = TRUE]
  /\ caller' = [caller EXCEPT ![th] = [at |-> "insert", timer |-> t]]
  /\ UNCHANGED <<clock, timers, tickled, previous, workerVars, notified,
                 fault, history>>

\* addTimer(val, lock): whether the worker must be told is decided under the
\* lock, told after it is released.
AtFront(others, node) == \A n \in others : Before(node, n)

InsertFor(th, others, node) ==
  LET tell == AtFront(others, node) /\ ~tickled IN
  /\ timers' = others \cup {node}
  /\ tickled' = (tickled \/ tell)
  /\ caller' = [caller EXCEPT ![th] =
                  IF tell THEN [at |-> "tell", timer |-> None] ELSE Free]

Insert(th) ==
  /\ caller[th].at = "insert"
  /\ InsertFor(th, timers, NodeOf(caller[th].timer))
  /\ UNCHANGED <<clock, ms, next, recurring, cb, previous, workerVars,
                 notified, fault, history>>

\* onTimerInsertedAtFront(), that is tickle(): only an idle worker is told.
Tell(th) ==
  /\ caller[th].at = "tell"
  /\ caller' = [caller EXCEPT ![th] = Free]
  /\ notified' = (notified \/ pc # "out")
  /\ UNCHANGED <<clock, timerVars, tickled, previous, workerVars, fault,
                 history>>

\* cancel() erases what find() returns without asking whether it found it.
Cancel(t) ==
  /\ Shared(t)
  /\ cb[t]
  /\ cb' = [cb EXCEPT ![t] = FALSE]
  /\ timers' = timers \ {NodeOf(t)}
  /\ fault' = (fault \/ NodeOf(t) \notin timers)
  /\ spent' = [spent EXCEPT ![t] = TRUE]
  /\ UNCHANGED <<clock, ms, next, recurring, tickled, previous, caller,
                 workerVars, notified, setBack>>

\* What is left of the set when t is taken out of it to be moved.
InPlace(t) == timers                                         \* variant
Without(t) == timers \ {NodeOf(t)}

Refresh(t) ==
  /\ Shared(t)
  /\ cb[t] /\ NodeOf(t) \in timers
  /\ next' = [next EXCEPT ![t] = clock + ms[t]]
  /\ timers' = Without(t) \cup {[at |-> clock + ms[t], timer |-> t]}
  /\ UNCHANGED <<clock, ms, recurring, cb, tickled, previous, caller,
                 workerVars, notified, fault, history>>

Reset(th, t, p, fromNow) ==
  /\ caller[th] = Free
  /\ Shared(t)
  /\ p # ms[t] \/ fromNow
  /\ cb[t] /\ NodeOf(t) \in timers
  /\ LET start == IF fromNow THEN clock ELSE next[t] - ms[t] IN
       /\ next' = [next EXCEPT ![t] = start + p]
       /\ InsertFor(th, Without(t), [at |-> start + p, timer |-> t])
  /\ ms' = [ms EXCEPT ![t] = p]
  /\ UNCHANGED <<clock, recurring, cb, previous, workerVars, notified, fault,
                 history>>

User(th) ==
  \/ \E t \in Timers, p \in Periods, b \in BOOLEAN :
       Construct(th, t, p, b) \/ Reset(th, t, p, b)
  \/ \E t \in Timers : Cancel(t) \/ Refresh(t)
  \/ Insert(th)
  \/ Tell(th)

(***************************************************************************)
(* The worker: one round of IOManager::idle(), as far as timers see it     *)
(***************************************************************************)
EnterIdle ==
  /\ pc = "out"
  /\ pc' = "idle"
  /\ UNCHANGED <<clock, timerVars, tickled, previous, caller, sleepVars, now,
                 cbs, sawPipe, notified, fault, history>>

\* begin() of the set.
First == {n \in timers : \A m \in timers : n = m \/ Before(n, m)}
Remaining(n) == IF clock >= n.at THEN 0 ELSE n.at - clock
TickledAsBefore == tickled                                   \* variant
ClearTickled == FALSE

\* The bound on the wait, by MAX_TIMEOUT: the unsigned number is made an int
\* before it is compared, which turns one of 2^31 and more negative.
NoTimer == Width - 1
AsInt(x) == LET low == x % (2 * IntEnd)
            IN IF low < IntEnd THEN low ELSE low - 2 * IntEnd
Bounded(x) == IF x # NoTimer /\ AsInt(x) < MaxWait THEN AsInt(x) ELSE MaxWait

EpollWait(x) ==
  /\ left' = Bounded(x)
  /\ timeout' = Bounded(x) % Width

\* getNextTimer(), and the epoll_wait() that follows from it.
GetNextTimer ==
  /\ pc = "idle"
  /\ tickled' = ClearTickled
  /\ \/ timers = {} /\ EpollWait(NoTimer)
     \/ \E n \in First : EpollWait(Remaining(n))
  /\ pc' = "wait"
  /\ since' = clock /\ slept' = 0
  /\ UNCHANGED <<clock, timerVars, previous, caller, now, cbs, sawPipe,
                 notified, fault, history>>

\* EINTR: the same timeout, already bounded, is bounded and waited for again.
Interrupted ==
  /\ pc = "wait"
  /\ left # 0 /\ ~notified
  /\ EpollWait(timeout)
  /\ slept' = clock - since
  /\ UNCHANGED <<clock, timerVars, tickled, previous, caller, pc, now, cbs,
                 sawPipe, notified, fault, since, history>>

\* epoll_wait() returns: time is up, the pipe is readable, or a descriptor is.
Wake ==
  /\ pc = "wait"
  /\ pc' = "woken"
  /\ sawPipe' = notified
  /\ timeout' = 0 /\ left' = 0 /\ since' = 0 /\ slept' = 0
  /\ UNCHANGED <<clock, timerVars, tickled, previous, caller, now, cbs,
                 notified, fault, history>>

\* listExpiredCb() reads the clock before it takes a lock.
ReadClock ==
  /\ pc = "woken"
  /\ now' = clock
  /\ pc' = "peek"
  /\ UNCHANGED <<clock, timerVars, tickled, previous, caller, sleepVars,
                 cbs, sawPipe, notified, fault, history>>

\* The first, shared lock.
Peek ==
  /\ pc = "peek"
  /\ pc' = IF timers = {} THEN "drain" ELSE "list"
  /\ UNCHANGED <<clock, timerVars, tickled, previous, caller, sleepVars,
                 now, cbs, sawPipe, notified, fault, history>>

\* detectClockRollover(), in unsigned arithmetic.
Rollover == now < previous /\ now < (previous - Hour) % Width

DueWithinOne(n) == n.at <= now + 1                           \* variant
DueBefore(n) == n.at < now                                   \* variant
\* lower_bound(), then the nodes of the same instant.
Due(n) == n.at <= now
Expired == IF Rollover THEN timers ELSE {n \in timers : Due(n)}
KeepsCallback(t) == cb[t]                                    \* variant
KeepIfRecurring(t) == cb[t] /\ recurring[t]

\* The second, exclusive lock.
ListExpired ==
  /\ pc = "list"
  /\ LET hit == {n.timer : n \in Expired}
         again == {t \in hit : recurring[t]}
     IN /\ timers' = (timers \ Expired)
                       \cup {[at |-> now + ms[t], timer |-> t] : t \in again}
        /\ next' = [t \in Timers |-> IF t \in again THEN now + ms[t]
                                     ELSE next[t]]
        /\ cb' = [t \in Timers |-> IF t \in hit THEN KeepIfRecurring(t)
                                   ELSE cb[t]]
        /\ cbs' = hit
        /\ spent' = [t \in Timers |-> spent[t] \/ t \in hit \ again]
  /\ previous' = IF timers = {} THEN previous ELSE now
  /\ pc' = "drain"
  /\ UNCHANGED <<clock, ms, recurring, tickled, caller, sleepVars, now,
                 sawPipe, notified, fault, setBack>>

\* The pipe is emptied if epoll_wait() returned it; then idle() yields.
LeaveIdle ==
  /\ pc = "drain"
  /\ notified' = (notified /\ ~sawPipe)
  /\ pc' = "out"
  /\ now' = 0 /\ cbs' = {} /\ sawPipe' = FALSE
  /\ UNCHANGED <<clock, timerVars, tickled, previous, caller, sleepVars,
                 fault, history>>

Worker == \/ EnterIdle \/ GetNextTimer \/ Interrupted \/ Wake \/ ReadClock
          \/ Peek \/ ListExpired \/ LeaveIdle

(***************************************************************************)
(* The wall clock                                                          *)
(***************************************************************************)
Tick ==
  /\ clock < MaxClock
  /\ clock' = clock + 1
  /\ left' = IF left > 0 THEN left - 1 ELSE left
  /\ UNCHANGED <<timerVars, tickled, previous, caller, pc, timeout, now, cbs,
                 sawPipe, notified, fault, since, slept, history>>

\* Somebody sets the clock back, once.
SetBack(c) ==
  /\ ~setBack
  /\ c < clock
  /\ clock' = c
  /\ setBack' = TRUE
  /\ UNCHANGED <<timerVars, tickled, previous, caller, workerVars, notified,
                 fault, spent>>

Next ==
  \/ \E th \in Threads : User(th)
  \/ Worker
  \/ Tick
  \/ \E c \in 0 .. MaxClock : SetBack(c)

Spec == Init /\ [][Next]_vars

(***************************************************************************)
(* Properties                                                              *)
(***************************************************************************)
PC == {"out", "idle", "wait", "woken", "peek", "list", "drain"}
Waits == -IntEnd .. MaxWait
Calls == [at: {"free", "insert", "tell"}, timer: Timers \cup {None}]

\* Every variable keeps its type; deadlines stay below 2^64.
TypeOK ==
  /\ clock \in 0 .. MaxClock
  /\ ms \in [Timers -> Periods \cup {-1}]
  /\ next \in [Timers -> Nat]
  /\ recurring \in [Timers -> BOOLEAN]
  /\ cb \in [Timers -> BOOLEAN]
  /\ timers \subseteq Node
  /\ tickled \in BOOLEAN
  /\ previous \in 0 .. MaxClock
  /\ caller \in [Threads -> Calls]
  /\ pc \in PC
  /\ timeout \in Nat /\ left \in Waits
  /\ since \in 0 .. MaxClock /\ slept \in Int
  /\ now \in 0 .. MaxClock
  /\ sawPipe \in BOOLEAN /\ notified \in BOOLEAN
  /\ fault \in BOOLEAN
  /\ cbs \subseteq Timers
  /\ spent \in [Timers -> BOOLEAN]
  /\ setBack \in BOOLEAN

\* A Timer is in m_timers exactly while it has its callback (from the end of
\* addTimer() on), in one node, and that node still carries the deadline it
\* was placed by: a find() of the ordered set cannot miss it, and the
\* erase(find()) in cancel() is never an erase(end()).
SetHoldsActive ==
  /\ timers = {NodeOf(t) : t \in {u \in Timers : Shared(u) /\ cb[u]}}
  /\ ~fault

\* A one-shot callback is listed at most once, and no callback is listed or
\* revived once cancel() has returned true, however cancel(), refresh(),
\* reset() and listExpiredCb() interleave.
OneShotOnce ==
  [][\A t \in Timers :
       /\ t \in cbs' \ cbs => cb[t] /\ ~spent[t]
       /\ spent[t] => spent'[t] /\ ~cb'[t]]_vars

\* A callback is never listed before its deadline, although listExpiredCb()
\* works with a clock it read before it got the lock; unless the clock was
\* set back.
NeverEarly ==
  [][\A t \in cbs' \ cbs : next[t] <= clock \/ setBack]_vars

\* listExpiredCb() leaves nothing behind that had expired when it started,
\* except a recurring timer it has just put back.
ListsAllExpired ==
  [][pc = "list" /\ pc' = "drain" =>
       \A n \in timers' : n.at > now \/ recurring[n.timer]]_vars

\* A wake-up is in the pipe, or a thread is about to send it.
Told == notified \/ \E th \in Threads : caller[th].at = "tell"

\* While nobody is about to wake the worker, it sleeps past no deadline by more
\* than it had slept already when a signal last interrupted epoll_wait(), and
\* it sleeps without limit only if every deadline was 2^31 ms away or more when
\* it asked; unless the clock was set back.
NeverOversleeps ==
  pc = "wait" /\ ~setBack /\ ~Told =>
    \A n \in timers :
      /\ left > 0 => n.at + slept >= clock + left
      /\ left < 0 => n.at >= since + IntEnd

\* What the comment on next_timeout says: if the next timer is more than
\* MAX_TIMEOUT away, the wait is MAX_TIMEOUT all the same.
WaitIsBounded == pc = "wait" => left \in 0 .. MaxWait

\* TimerManager keeps the promise of its interface: whatever its users' threads
\* and the worker do at the same time, every step puts a timer into the queue,
\* moves it, takes it back or hands out callbacks that are due, or changes
\* nothing a user can notice.
Entries == [t \in {n.timer : n \in timers} |->
              [at |-> next[t], recurring |-> recurring[t]]]
Promise == INSTANCE TimerQueue
  WITH entries <- Entries, gone <- spent, handed <- cbs
KeepsPromise == Promise!Spec
=============================================================================

------------------------------ MODULE FdContext ------------------------------
(***************************************************************************)
(* The table of descriptor contexts of IOManager (iomanager.h,             *)
(* iomanager.cc): addEvent, delEvent, cancelEvent, cancelAll and the hooked *)
(* close(), called by any thread, and the event loop of idle(), run by the *)
(* worker.  The kernel's epoll set is modelled by what epoll_ctl() and     *)
(* epoll_wait() do to it; which descriptors become ready is left open.     *)
(***************************************************************************)
EXTENDS Integers, FiniteSets

CONSTANTS
  Fds,       \* descriptors, natural numbers
  Callers,   \* threads that call the operations
  Waiters,   \* what is registered: a fiber or a callback, each used once
  InitSize,  \* first size of m_fdContexts
  MaxGen,    \* bound on the number of resizes
  None

ASSUME FdAssumption ==
  /\ Fds \subseteq Nat
  /\ None \notin Waiters
  /\ InitSize \in Nat /\ MaxGen \in Nat

VARIABLES
  size,      \* m_fdContexts.size()
  gen,       \* how often contextResize() replaced every context
  context,   \* FdContext objects: events and the two event contexts
  kernel,    \* per descriptor: watched or not, with mask and data.ptr
  pending,   \* m_pendingEventCount
  call,      \* per thread: the operation in progress
  batch,     \* events epoll_wait() returned and idle() has yet to handle
  woken,     \* history: how often the waiter was scheduled
  deleted,   \* history: the waiter was removed by delEvent()
  stranded,  \* history: contexts registered when their descriptor was closed
  proc       \* "up", or the function whose ZZ_ASSERT failed

vars == <<size, gen, context, kernel, pending, call, batch, woken, deleted,
          stranded, proc>>

Event == {"READ", "WRITE"}
\* A context object: the one of descriptor fd made by the gen-th resize.
Objects == [fd: Fds, gen: 0 .. MaxGen]
Unwatched == [on |-> FALSE, mask |-> {}, ptr |-> None]
Watch(mask, o) == [on |-> TRUE, mask |-> mask, ptr |-> o]
Idle == [op |-> "none", at |-> "free", fd |-> None, ev |-> None,
         obj |-> None, waiter |-> None]

Init ==
  /\ size = InitSize
  /\ gen = 0
  /\ context = [o \in Objects |-> [events |-> {},
                                   waiter |-> [e \in Event |-> None]]]
  /\ kernel = [fd \in Fds |-> Unwatched]
  /\ pending = 0
  /\ call = [c \in Callers |-> Idle]
  /\ batch = {}
  /\ woken = [w \in Waiters |-> 0]
  /\ deleted = [w \in Waiters |-> FALSE]
  /\ stranded = {}
  /\ proc = "up"

Abort(where) ==
  /\ proc' = where
  /\ UNCHANGED <<size, gen, context, kernel, pending, call, batch, woken,
                 deleted, stranded>>

(***************************************************************************)
(* triggerEvent() and resetEventContext()                                  *)
(***************************************************************************)
Forget(waiter, e) == [waiter EXCEPT ![e] = None]
KeepWaiter(waiter, e) == waiter                              \* variant
ResetEventContext(waiter, e) == Forget(waiter, e)

\* `events & ~events': the whole mask, whichever event is triggered.
Cleared(events, e) == {}

\* Effect of triggerEvent(e) on a context, the schedule history and the fate
\* of the assertion in its first line.
Triggered(x, e) ==
  IF e \notin x.events THEN [x EXCEPT !.failed = TRUE]
  ELSE [events |-> Cleared(x.events, e),
        waiter |-> ResetEventContext(x.waiter, e),
        woken |-> [x.woken EXCEPT ![x.waiter[e]] = @ + 1],
        failed |-> FALSE]

Before(o) == [events |-> context[o].events, waiter |-> context[o].waiter,
              woken |-> woken, failed |-> FALSE]

\* What a sequence of triggers left behind.
After(o, x, triggers) ==
  /\ context' = [context EXCEPT ![o] = [events |-> x.events,
                                        waiter |-> x.waiter]]
  /\ woken' = x.woken
  /\ pending' = pending - triggers

(***************************************************************************)
(* The operations: look the context up, then work under its lock           *)
(***************************************************************************)
Waits(w) == \E o \in Objects, e \in Event : context[o].waiter[e] = w
Unused(w) == /\ woken[w] = 0 /\ ~deleted[w] /\ ~Waits(w)
             /\ \A c \in Callers : call[c].waiter # w

Call(c, op, fd, e, w) ==
  /\ call[c] = Idle
  /\ call' = [call EXCEPT ![c] = [op |-> op, at |-> "lookup", fd |-> fd,
                                  ev |-> e, obj |-> None, waiter |-> w]]
  /\ UNCHANGED <<size, gen, context, kernel, pending, batch, woken, deleted,
                 stranded, proc>>

Begin(c) == \E fd \in Fds :
  \/ \E e \in Event, w \in Waiters : Unused(w) /\ Call(c, "add", fd, e, w)
  \/ \E e \in Event, op \in {"del", "cancel"} : Call(c, op, fd, e, None)
  \/ \E op \in {"cancelAll", "close"} : Call(c, op, fd, None, None)

In(c, op, at) == call[c].op \in op /\ call[c].at = at
Done(c) == IF call[c].op = "close"
           THEN call' = [call EXCEPT ![c].at = "closing", ![c].obj = None]
           ELSE call' = [call EXCEPT ![c] = Idle]

\* The table is read under the shared lock.
Lookup(c) ==
  /\ call[c].at = "lookup"
  /\ LET fd == call[c].fd IN
       IF fd < size
       THEN call' = [call EXCEPT ![c].at = "locked",
                                 ![c].obj = [fd |-> fd, gen |-> gen]]
       ELSE IF call[c].op = "add"
            THEN call' = [call EXCEPT ![c].at = "resize"]
            ELSE Done(c)
  /\ UNCHANGED <<size, gen, context, kernel, pending, batch, woken, deleted,
                 stranded, proc>>

\* contextResize(fd * 1.5), under the exclusive lock but without looking at
\* the size again: every entry, old or new, gets a new context.
ContextResize(c) ==
  /\ call[c].at = "resize"
  /\ gen < MaxGen
  /\ gen' = gen + 1
  /\ size' = (call[c].fd * 3) \div 2
  /\ call' = [call EXCEPT ![c].at = "locked",
                          ![c].obj = [fd |-> call[c].fd, gen |-> gen']]
  /\ UNCHANGED <<context, kernel, pending, batch, woken, deleted, stranded,
                 proc>>

EpollIn(events) == {"READ"} \cup events

CountAsBefore == pending                                       \* variant
OneMore == pending + 1

AddEvent(c) ==
  /\ In(c, {"add"}, "locked")
  /\ LET o == call[c].obj
         e == call[c].ev
         events == context[o].events
     IN IF e \in events THEN Abort("addEvent")
        ELSE IF (events = {}) = kernel[o.fd].on     \* EEXIST or ENOENT
        THEN /\ Done(c)
             /\ UNCHANGED <<size, gen, context, kernel, pending, batch, woken,
                            deleted, stranded, proc>>
        ELSE IF context[o].waiter[e] # None THEN Abort("addEvent")
        ELSE /\ kernel' = [kernel EXCEPT
                             ![o.fd] = Watch(EpollIn(events \cup {e}), o)]
             /\ pending' = OneMore
             /\ context' = [context EXCEPT
                  ![o] = [events |-> events \cup {e},
                          waiter |-> [@.waiter EXCEPT ![e] = call[c].waiter]]]
             /\ Done(c)
             /\ UNCHANGED <<size, gen, batch, woken, deleted, stranded, proc>>

\* epoll_ctl(MOD) of what is left, or DEL if nothing is.
AlwaysDelete(o, left) == [kernel EXCEPT ![o.fd] = Unwatched]   \* variant
Rearm(o, left) == [kernel EXCEPT ![o.fd] = IF left = {} THEN Unwatched
                                           ELSE Watch(left, o)]

\* The event is not registered, or its descriptor is not in the epoll set.
Nothing(c) ==
  /\ call[c].at = "locked"
  /\ LET o == call[c].obj IN
       \/ /\ In(c, {"del", "cancel"}, "locked")
          /\ call[c].ev \notin context[o].events
       \/ In(c, {"cancelAll", "close"}, "locked") /\ context[o].events = {}
       \/ call[c].op # "add" /\ ~kernel[o.fd].on
  /\ Done(c)
  /\ UNCHANGED <<size, gen, context, kernel, pending, batch, woken, deleted,
                 stranded, proc>>

OneLess == pending - 1

DelEvent(c) ==
  /\ In(c, {"del"}, "locked")
  /\ LET o == call[c].obj
         e == call[c].ev
         left == context[o].events \ {e}
     IN /\ e \in context[o].events /\ kernel[o.fd].on
        /\ kernel' = Rearm(o, left)
        /\ pending' = OneLess
        /\ context' = [context EXCEPT
                         ![o] = [events |-> left,
                                 waiter |-> Forget(@.waiter, e)]]
        /\ deleted' = [deleted EXCEPT ![context[o].waiter[e]] = TRUE]
  /\ Done(c)
  /\ UNCHANGED <<size, gen, batch, woken, stranded, proc>>

CancelEvent(c) ==
  /\ In(c, {"cancel"}, "locked")
  /\ LET o == call[c].obj
         e == call[c].ev
         left == context[o].events \ {e}
     IN /\ e \in context[o].events /\ kernel[o.fd].on
        /\ kernel' = IF left = {} THEN Rearm(o, left)
                     ELSE Rearm(o, EpollIn(left))
        /\ After(o, Triggered(Before(o), e), 1)
  /\ Done(c)
  /\ UNCHANGED <<size, gen, batch, deleted, stranded, proc>>

\* cancelAll(), also as the first half of the hooked close().
CancelAll(c) ==
  /\ In(c, {"cancelAll", "close"}, "locked")
  /\ LET o == call[c].obj
         x0 == Before(o)
         x1 == IF "READ" \in x0.events THEN Triggered(x0, "READ") ELSE x0
         x2 == IF "WRITE" \in x1.events THEN Triggered(x1, "WRITE") ELSE x1
         triggers == (IF "READ" \in x0.events THEN 1 ELSE 0)
                     + (IF "WRITE" \in x1.events THEN 1 ELSE 0)
     IN /\ x0.events # {} /\ kernel[o.fd].on
        /\ IF x2.events # {} THEN Abort("cancelAll")
           ELSE /\ kernel' = Rearm(o, {})
                /\ After(o, x2, triggers)
                /\ Done(c)
                /\ UNCHANGED <<size, gen, batch, deleted, stranded, proc>>

\* close_f(): the kernel forgets the descriptor, whose number is in use again
\* at once.
CloseFd(c) ==
  /\ In(c, {"close"}, "closing")
  /\ LET fd == call[c].fd IN
       /\ kernel' = [kernel EXCEPT ![fd] = Unwatched]
       /\ stranded' = stranded \cup
                        {o \in Objects : o.fd = fd /\ context[o].events # {}}
  /\ call' = [call EXCEPT ![c] = Idle]
  /\ UNCHANGED <<size, gen, context, pending, batch, woken, deleted, proc>>

(***************************************************************************)
(* idle(): the worker                                                      *)
(***************************************************************************)
\* epoll_wait(): any watched descriptors are ready for what they are watched
\* for, or in error.
EpollWait ==
  /\ batch = {}
  /\ \E r \in [{fd \in Fds : kernel[fd].on} -> SUBSET (Event \cup {"HUP"})] :
       /\ \A fd \in DOMAIN r : r[fd] \subseteq kernel[fd].mask \cup {"HUP"}
       /\ batch' = {[obj |-> kernel[fd].ptr, events |-> r[fd]] :
                      fd \in {g \in DOMAIN r : r[g] # {}}}
  /\ UNCHANGED <<size, gen, context, kernel, pending, call, woken, deleted,
                 stranded, proc>>

\* One iteration of the loop over the returned events.
RealEvents(b) ==
  IF "HUP" \in b.events
  THEN (b.events \cap Event) \cup context[b.obj].events
  ELSE b.events

HandleEvent(b) ==
  LET o == b.obj
      real == RealEvents(b)
      x0 == Before(o)
      x1 == IF "READ" \in real THEN Triggered(x0, "READ") ELSE x0
      x2 == IF "WRITE" \in real /\ ~x1.failed THEN Triggered(x1, "WRITE")
            ELSE x1
  IN /\ b \in batch
     /\ IF real \cap x0.events = {} \/ ~kernel[o.fd].on
        THEN /\ batch' = batch \ {b}
             /\ UNCHANGED <<size, gen, context, kernel, pending, call, woken,
                            deleted, stranded, proc>>
        ELSE IF x2.failed THEN Abort("triggerEvent")
        ELSE /\ batch' = batch \ {b}
             /\ kernel' = Rearm(o, x0.events \ real)
             /\ After(o, x2, Cardinality(real))
             /\ UNCHANGED <<size, gen, call, deleted, stranded, proc>>

\* The process has ended.
Ended == proc # "up" /\ UNCHANGED vars

Next ==
  \/ /\ proc = "up"
     /\ \/ \E c \in Callers :
             \/ Begin(c) \/ Lookup(c) \/ ContextResize(c) \/ AddEvent(c)
             \/ Nothing(c) \/ DelEvent(c) \/ CancelEvent(c) \/ CancelAll(c)
             \/ CloseFd(c)
        \/ EpollWait
        \/ \E b \in batch : HandleEvent(b)
  \/ Ended

Spec == Init /\ [][Next]_vars

(***************************************************************************)
(* Properties                                                              *)
(***************************************************************************)
Calls == [op: {"none", "add", "del", "cancel", "cancelAll", "close"},
          at: {"free", "lookup", "resize", "locked", "closing"},
          fd: Fds \cup {None}, ev: Event \cup {None},
          obj: Objects \cup {None}, waiter: Waiters \cup {None}]

\* Every variable keeps its type; the unsigned event count never wraps.
TypeOK ==
  /\ size \in Nat /\ gen \in 0 .. MaxGen
  /\ context \in [Objects -> [events: SUBSET Event,
                              waiter: [Event -> Waiters \cup {None}]]]
  /\ kernel \in [Fds -> [on: BOOLEAN, mask: SUBSET Event,
                         ptr: Objects \cup {None}]]
  /\ pending \in Nat
  /\ call \in [Callers -> Calls]
  /\ batch \subseteq [obj: Objects, events: SUBSET (Event \cup {"HUP"})]
  /\ woken \in [Waiters -> Nat]
  /\ deleted \in [Waiters -> BOOLEAN]
  /\ stranded \subseteq Objects
  /\ proc \in {"up", "addEvent", "cancelAll", "triggerEvent"}

WaiterAt(s) == context[s[1]].waiter[s[2]]
Slots == {s \in Objects \X Event : WaiterAt(s) # None}

\* m_pendingEventCount is the number of waiters that are in some context, so
\* stopping() does not end the idle fiber while anybody still waits, even
\* after contexts were replaced or lost their registration.
PendingCountsWaiters == pending = Cardinality(Slots)

\* A waiter is never duplicated: it is in at most one event context, it was
\* scheduled at most once, and once it was scheduled or deleted it is in no
\* context and no call in progress will put it into one, whichever thread or
\* event got to it first.
WaiterInOnePlace ==
  /\ \A s, r \in Slots : WaiterAt(s) = WaiterAt(r) => s = r
  /\ \A s \in Slots : woken[WaiterAt(s)] = 0 /\ ~deleted[WaiterAt(s)]
  /\ \A w \in Waiters : woken[w] <= 1 /\ (deleted[w] => woken[w] = 0)
  /\ \A c \in Callers, w \in Waiters : call[c].waiter = w =>
       woken[w] = 0 /\ ~deleted[w] /\ ~Waits(w)

\* A registered event has a waiter, and the kernel watches the descriptor for
\* it on behalf of this very context, as long as the descriptor was never
\* closed under a registration (an event that epoll_wait() returned for the
\* context left behind then removes the watch of its successor).
RegisteredIsWatched == \A o \in Objects : \A e \in context[o].events :
  /\ context[o].waiter[e] # None
  /\ (\A p \in stranded : p.fd # o.fd) => /\ kernel[o.fd].on
                                           /\ e \in kernel[o.fd].mask
                                           /\ kernel[o.fd].ptr = o

\* The table keeps the promise of its interface: every step of every thread
\* is one registration, one trigger or one removal of a waiting waiter, counted
\* in m_pendingEventCount, or changes nothing a waiter can notice.  A trigger
\* loses the other waiter of the context for good (iomanager.cc:97), and
\* nothing else does.  Moreover a call that cancels what is registered wakes
\* somebody it was asked to, and so does a hangup, if the kernel still watches
\* the descriptor.
Lost(w) == \E o \in Objects, e \in Event :
             context[o].waiter[e] = w /\ e \notin context[o].events
StatusOf(w) == IF woken[w] > 1 THEN "twice"
               ELSE IF woken[w] = 1 THEN "woken"
               ELSE IF deleted[w] THEN "removed"
               ELSE IF ~Waits(w) THEN "new"
               ELSE IF Lost(w) THEN "lost"
               ELSE "waiting"
Room(o) == {w \in Waiters : \E e \in Event : context[o].waiter[e] = w}
Promise == INSTANCE Waiters WITH
  Contexts <- Objects,
  status <- [w \in Waiters |-> StatusOf(w)],
  room <- [o \in Objects |-> Room(o)]

Wakes(o, events) == \E e \in events :
  /\ e \in context[o].events
  /\ woken[context[o].waiter[e]] = 0 /\ woken'[context[o].waiter[e]] = 1
CancelWakes(c) ==
  LET o == call[c].obj
      asked == IF call[c].op = "cancel" THEN {call[c].ev} ELSE Event
  IN In(c, {"cancel", "cancelAll", "close"}, "locked") /\ call'[c] # call[c]
     /\ asked \cap context[o].events # {} /\ kernel[o.fd].on
     => Wakes(o, asked)
HangupWakes(b) ==
  b \notin batch' /\ "HUP" \in b.events /\ context[b.obj].events # {}
    /\ kernel[b.obj.fd].on => Wakes(b.obj, Event)
WokenWhenAsked == /\ \A c \in Callers : CancelWakes(c)
                  /\ \A b \in batch : HangupWakes(b)

KeepsPromise == Promise!Spec /\ [][WokenWhenAsked]_vars

\* Triggering one event clears that event (iomanager.cc:96), all registered
\* ones are triggered by a cancel (311) and by a hangup (417-420): nobody is
\* left in a context whose event is registered no more.
NobodyLost == \A w \in Waiters : ~Lost(w)
=============================================================================

----------------------------- MODULE Hook_proofs -----------------------------
(***************************************************************************)
(* Proofs about Hook for any number of fibers, descriptors and calls.      *)
(*                                                                         *)
(* The invariant HInv says, of each fiber, which of the places that could  *)
(* resume it hold it: the queue, the context of a watched descriptor, its  *)
(* timer, or a callback of that timer.  A fiber that runs is in none; a    *)
(* parked one is in the queue or else registered, never in both, or it is  *)
(* lost: close() or its timeout has passed it by.                          *)
(***************************************************************************)
EXTENDS Hook, SequenceTheorems, FiniteSetTheorems, TLAPS

Waits == {"io", "connect"}
Running == {"user", "try", "wait"}

\* What a fiber's record says about its call.
Record(x) ==
  /\ x.pc = "new" => x = New
  /\ x.pc \in {"user", "done"} => x.op = "none"
  /\ x.pc \in {"try", "wait"} => x.op \in Waits
  /\ x.pc = "parked" => x.op # "none"
  /\ x.op \in Waits => x.fd \in Fds
  /\ x.op = "sleep" => x.timed /\ x.pc = "parked" /\ x.fd = None
  /\ x.op # "none" => x.rc = "other"
  /\ x.armed => x.pc = "parked" /\ x.timed
  /\ x.pc = "wait" => x.fd \in open
Records == \A f \in Fibers : Record(fiber[f])

OneRuns == \A f \in Fibers :
  fiber[f].pc \in Running <=> worker = "run" /\ cur = f

\* There is a context for every open socket, and it knows the kernel's flag.
Sockets == \A fd \in Fds :
  /\ ctx[fd] # None <=> fd \in open
  /\ ctx[fd] # None => ctx[fd].sys /\ (ctx[fd].user => nonblock[fd])

\* Who is registered is parked in a call on that descriptor, and not queued.
Waiting == \A fd \in Fds, f \in Fibers : Registered(f, fd) =>
  /\ fiber[f].pc = "parked"
  /\ fiber[f].op \in Waits
  /\ fiber[f].fd = fd
  /\ ~Queued(Ready(f))

\* A watched descriptor is open, and the kernel points to a context in which
\* somebody waits; if that was replaced, nobody waits in the new one.
Kernel == /\ watched \subseteq open
          /\ \A fd \in Fds : stale[fd] # None => fd \in watched /\ slot[fd] = None
          /\ \A fd \in watched : Waiter(fd) # None

\* Who is parked, not queued and not lost is registered, where the kernel looks,
\* and will time out.
Held(f) ==
  /\ fiber[f].op \in Waits => /\ Registered(f, fiber[f].fd)
                              /\ fiber[f].fd \in watched
  /\ fiber[f].timed => WillTimeOut(f)
  /\ ~fiber[f].cancelled
Parked == \A f \in Fibers :
  fiber[f].pc = "parked" /\ ~Queued(Ready(f)) /\ f \notin lost => Held(f)

\* A call is marked, or reports a timeout, on account of its own timer.
Cancelled == \A f \in Fibers : fiber[f].cancelled =>
  fiber[f].pc = "parked" /\ fiber[f].op \in Waits /\ expired[f]
TimedOut == \A f \in Fibers : fiber[f].rc = "ETIMEDOUT" => expired[f]

\* Tasks that wake a fiber are in the queue once ...
Solo(q) == \A i, j \in DOMAIN q :
  q[i] = q[j] /\ q[i].run # "timeout" => i = j

\* ... and every task agrees with the fiber it is for.
TaskFits(t) ==
  /\ t.run = "fiber" =>
       /\ t = Ready(t.fiber)
       /\ fiber[t.fiber].pc \in {"new", "parked"}
       /\ fiber[t.fiber].op = "sleep" => ~fiber[t.fiber].armed
  /\ t.run = "wakeup" =>
       /\ fiber[t.fiber].op = "sleep" /\ ~fiber[t.fiber].armed
       /\ t = Callback(t.fiber)
       /\ ~Queued(Ready(t.fiber))
  /\ t.run = "timeout" =>
       /\ t.call <= fiber[t.fiber].calls
       /\ fiber[t.fiber].op \in Waits /\ t.call = fiber[t.fiber].calls =>
            expired[t.fiber] /\ t.fd = fiber[t.fiber].fd
Tasks == Solo(queue) /\ \A t \in Task : Queued(t) => TaskFits(t)

HInv == /\ TypeOK /\ Records /\ OneRuns /\ Sockets /\ Waiting /\ Kernel /\ Parked
        /\ Cancelled /\ TimedOut /\ Tasks

\* The part of TypeOK about the IOManager.
IomOK == /\ watched \subseteq Fds /\ lost \subseteq Fibers
         /\ slot \in [Fds -> Fibers \cup {None}]
         /\ stale \in [Fds -> Fibers \cup {None}]
-----------------------------------------------------------------------------
(***************************************************************************)
(* The queue as a set of tasks                                             *)
(***************************************************************************)
In(q, t) == \E i \in DOMAIN q : q[i] = t

\* What is in a queue with one task more.
LEMMA AppendIn ==
  ASSUME NEW q \in Seq(Task), NEW t \in Task
  PROVE  /\ Append(q, t) \in Seq(Task)
         /\ \A u : In(Append(q, t), u) <=> In(q, u) \/ u = t
         /\ Solo(q) /\ ~In(q, t) => Solo(Append(q, t))
         /\ Solo(q) /\ t.run = "timeout" => Solo(Append(q, t))
<1> DEFINE n == Len(q) + 1
           a == Append(q, t)
<1>1. /\ a \in Seq(Task) /\ Len(a) = n /\ a[n] = t
      /\ \A i \in 1 .. Len(q) : a[i] = q[i]
  BY AppendProperties
<1>2. /\ DOMAIN a = 1 .. n /\ DOMAIN q = 1 .. Len(q) /\ Len(q) \in Nat
  BY <1>1, LenProperties
<1>3. 1 .. n = (1 .. Len(q)) \cup {n} /\ n \notin 1 .. Len(q)
  BY <1>2
<1> HIDE DEF a, n
<1>4. DOMAIN a = DOMAIN q \cup {n} /\ n \notin DOMAIN q /\ a[n] = t
      /\ \A i \in DOMAIN q : a[i] = q[i]
  BY <1>1, <1>2, <1>3
<1>5. \A u : In(a, u) <=> In(q, u) \/ u = t
  BY <1>4 DEF In
<1>6. Solo(q) /\ ~In(q, t) => Solo(a)
  BY <1>4 DEF In, Solo
<1>7. Solo(q) /\ t.run = "timeout" => Solo(a)
  BY <1>4 DEF Solo
<1> QED  BY <1>1, <1>5, <1>6, <1>7 DEF a

\* What is left when the first task is taken.
LEMMA TailIn ==
  ASSUME NEW q \in Seq(Task), q # <<>>
  PROVE  /\ Tail(q) \in Seq(Task) /\ Head(q) \in Task /\ In(q, Head(q))
         /\ \A u : In(Tail(q), u) => In(q, u)
         /\ \A u : In(q, u) => In(Tail(q), u) \/ u = Head(q)
         /\ Solo(q) => Solo(Tail(q))
         /\ Solo(q) /\ Head(q).run # "timeout" => ~In(Tail(q), Head(q))
<1> DEFINE r == Tail(q)
<1>1. /\ Head(q) = q[1] /\ r \in Seq(Task) /\ Len(r) = Len(q) - 1
      /\ \A i \in 1 .. Len(r) : r[i] = q[i + 1]
  BY HeadTailProperties
<1>2. /\ DOMAIN r = 1 .. Len(q) - 1 /\ DOMAIN q = 1 .. Len(q)
      /\ Len(q) \in Nat /\ Len(q) # 0
  BY <1>1, LenProperties, EmptySeq
<1> HIDE DEF r
<1>3. /\ 1 \in DOMAIN q
      /\ \A i \in DOMAIN r : i \in Int /\ i + 1 \in DOMAIN q /\ i + 1 # 1
                             /\ r[i] = q[i + 1]
      /\ \A j \in DOMAIN q : j # 1 => \E i \in DOMAIN r : i + 1 = j
  <2>1. \A j \in 1 .. Len(q) : j # 1 =>
          j - 1 \in 1 .. Len(q) - 1 /\ (j - 1) + 1 = j
    BY <1>2
  <2>2. 1 \in 1 .. Len(q)  BY <1>2
  <2>3. \A i \in 1 .. Len(q) - 1 : i \in Int /\ i + 1 \in 1 .. Len(q) /\ i + 1 # 1
    BY <1>2
  <2> QED  BY <1>1, <1>2, <2>1, <2>2, <2>3
<1>4. Head(q) \in Task  BY <1>1, <1>2, <1>3, ElementOfSeq
<1>5. In(q, Head(q)) /\ \A u : In(r, u) => In(q, u)
  BY <1>1, <1>3 DEF In
<1>6. \A u : In(q, u) => In(r, u) \/ u = Head(q)
  BY <1>1, <1>3 DEF In
<1>7. Solo(q) => Solo(r)
  <2> SUFFICES ASSUME Solo(q), NEW i \in DOMAIN r, NEW j \in DOMAIN r,
                      r[i] = r[j], r[i].run # "timeout"
               PROVE  i = j
    BY DEF Solo
  <2>1. i + 1 = j + 1  BY <1>3 DEF Solo
  <2> QED  BY <1>3, <2>1
<1>8. Solo(q) /\ Head(q).run # "timeout" => ~In(r, Head(q))
  BY <1>1, <1>3 DEF Solo, In
<1> QED  BY <1>1, <1>4, <1>5, <1>6, <1>7, <1>8 DEF r

\* The tasks that are queued are tasks.
LEMMA TaskTypes ==
  ASSUME TypeOK, NEW f \in Fibers
  PROVE  /\ Ready(f) \in Task /\ Ready(f).run = "fiber" /\ Ready(f).fiber = f
         /\ Callback(f) \in Task /\ Callback(f).fiber = f
         /\ Callback(f).run = IF fiber[f].op = "sleep" THEN "wakeup" ELSE "timeout"
         /\ Callback(f).fd = fiber[f].fd /\ Callback(f).call = fiber[f].calls
         /\ \A g : Ready(g) = Ready(f) => g = f
<1>1. 0 \in 0 .. MaxCalls  BY HookAssumption
<1>2. fiber[f] \in Fiber  BY DEF TypeOK
<1>3. fiber[f].fd \in Fds \cup {None} /\ fiber[f].calls \in 0 .. MaxCalls
  BY <1>2 DEF Fiber
<1> QED  BY <1>1, <1>3 DEF Ready, Callback, Task

\* Initially every fiber is queued once.
LEMMA HInvInit == Init => HInv
<1> SUFFICES ASSUME Init PROVE HInv  OBVIOUS
<1>1. /\ open = {} /\ nonblock = [fd \in Fds |-> FALSE]
      /\ ready = [fd \in Fds |-> {}]
      /\ ctx = [fd \in Fds |-> None]
      /\ watched = {} /\ lost = {}
      /\ slot = [fd \in Fds |-> None] /\ stale = [fd \in Fds |-> None]
      /\ worker = "scan" /\ cur = None
      /\ fiber = [f \in Fibers |-> New]
      /\ expired = [f \in Fibers |-> FALSE]
      /\ proc = "up"
  BY DEF Init
<1>2. /\ queue \in [1 .. Cardinality(Fibers) -> {Ready(f) : f \in Fibers}]
      /\ \A i, j \in DOMAIN queue : queue[i] = queue[j] => i = j
  BY DEF Init
<1>3. \A f \in Fibers : Ready(f) \in Task /\ Ready(f).fiber = f
                        /\ Ready(f).run = "fiber"
  BY HookAssumption DEF Ready, Task
<1>4. queue \in Seq(Task)
  <2>1. Cardinality(Fibers) \in Nat
    BY HookAssumption, FS_CardinalityType
  <2>2. queue \in [1 .. Cardinality(Fibers) -> Task]  BY <1>2, <1>3
  <2> QED  BY <2>1, <2>2, SeqDef
<1>5. New \in Fiber  BY HookAssumption DEF New, Fiber
<1>6. TypeOK  BY <1>1, <1>4, <1>5, HookAssumption DEF TypeOK, Event
<1>7. \A f \in Fibers : fiber[f] = New  BY <1>1
<1>8. Records /\ Cancelled /\ TimedOut /\ OneRuns
  BY <1>1, <1>7, HookAssumption
  DEF Records, Record, Cancelled, TimedOut, OneRuns, New, Waits, Running
<1>9. Parked  BY <1>7 DEF Parked, New
<1>10. Sockets /\ Waiting /\ Kernel
  BY <1>1, HookAssumption DEF Sockets, Waiting, Kernel, Registered
<1>11. \A t \in Task : Queued(t) => TaskFits(t)
  <2> SUFFICES ASSUME NEW t \in Task, Queued(t) PROVE TaskFits(t)  OBVIOUS
  <2>1. PICK f \in Fibers : t = Ready(f)  BY <1>2 DEF Queued
  <2> QED  BY <1>3, <1>7, <2>1 DEF TaskFits, New
<1>12. Solo(queue)  BY <1>2 DEF Solo
<1> QED  BY <1>6, <1>8, <1>9, <1>10, <1>11, <1>12 DEF HInv, Tasks
-----------------------------------------------------------------------------
(***************************************************************************)
(* Steps that leave every fiber's record alone                             *)
(***************************************************************************)
Places == Waiting /\ Kernel /\ Parked /\ Tasks

\* Only one fiber waits for a descriptor, in whichever context.
LEMMA OneWaiter ==
  ASSUME IomOK, Kernel, NEW fd \in Fds
  PROVE  /\ \A f \in Fibers : Registered(f, fd) => Waiter(fd) = f
         /\ Waiter(fd) # None => /\ Waiter(fd) \in Fibers
                                /\ Registered(Waiter(fd), fd)
  BY HookAssumption DEF IomOK, Kernel, Registered, Waiter

\* Who is registered stays so, or is no longer.
LEMMA WaitingKept ==
  ASSUME Waiting,
         \A fd \in Fds, f \in Fibers : Registered(f, fd)' =>
           /\ Registered(f, fd)
           /\ fiber'[f].pc = fiber[f].pc /\ fiber'[f].op = fiber[f].op
           /\ fiber'[f].fd = fiber[f].fd
           /\ Queued(Ready(f))' => Queued(Ready(f))
  PROVE  Waiting'
  BY DEF Waiting

\* Who was held is held by what held it.
LEMMA ParkedKept ==
  ASSUME Parked,
         \A f \in Fibers :
           fiber'[f].pc = "parked" /\ ~Queued(Ready(f))' /\ f \notin lost' =>
             /\ fiber[f].pc = "parked" /\ ~Queued(Ready(f)) /\ f \notin lost
             /\ Held(f) => Held(f)'
  PROVE  Parked'
  BY DEF Parked

\* Changes elsewhere leave who waits where.
LEMMA PlacesKept ==
  ASSUME Places, UNCHANGED <<watched, slot, stale, lost, queue, fiber, expired>>,
         watched \subseteq open'
  PROVE  Places'
<1>1. \A t : Queued(t)' <=> Queued(t)  BY DEF Queued
<1>2. \A f : Callback(f)' = Callback(f)  BY DEF Callback
<1>3. \A f : WillTimeOut(f)' <=> WillTimeOut(f)  BY <1>1, <1>2 DEF WillTimeOut
<1>4. \A t : TaskFits(t)' <=> TaskFits(t)  BY <1>1, <1>2 DEF TaskFits
<1>5. Tasks'  BY <1>1, <1>4 DEF Places, Tasks, Solo
<1>6. \A f, fd : Registered(f, fd)' <=> Registered(f, fd)  BY DEF Registered
<1>7. Waiting'  BY <1>1, <1>6, WaitingKept DEF Places
<1>8. Kernel'  BY DEF Places, Kernel, Waiter
<1>9. \A f : Held(f)' <=> Held(f)  BY <1>3, <1>6 DEF Held
<1>10. Parked'  BY <1>1, <1>9, ParkedKept DEF Places
<1> QED  BY <1>5, <1>7, <1>8, <1>10 DEF Places

\* A descriptor leaves the epoll set with its context; who waits for the others
\* is not concerned, and who waited for it is queued or lost.
LEMMA UnwatchedPlaces ==
  ASSUME IomOK, Waiting, Kernel, Parked, NEW fd \in Fds, Unwatched(fd),
         slot' \in {slot, [slot EXCEPT ![fd] = None]},
         lost \subseteq lost', lost' \subseteq Fibers,
         watched \ {fd} \subseteq open',
         \A f \in Fibers :
           /\ fiber'[f].pc = fiber[f].pc /\ fiber'[f].op = fiber[f].op
           /\ fiber'[f].fd = fiber[f].fd /\ fiber'[f].timed = fiber[f].timed
           /\ Queued(Ready(f)) => Queued(Ready(f))'
           /\ Registered(f, fd)' => ~Queued(Ready(f))'
           /\ Queued(Ready(f))' => Queued(Ready(f)) \/ Registered(f, fd)
           /\ Registered(f, fd) => Queued(Ready(f))' \/ f \in lost'
           /\ \/ fiber'[f].cancelled = fiber[f].cancelled
              \/ Queued(Ready(f))' \/ f \in lost'
           /\ WillTimeOut(f) => \/ WillTimeOut(f)'
                               \/ Queued(Ready(f))' \/ f \in lost'
  PROVE  IomOK' /\ Waiting' /\ Kernel' /\ Parked'
<1>1. /\ stale' = [stale EXCEPT ![fd] = None] /\ watched' = watched \ {fd}
  BY DEF Unwatched
<1>2. IomOK'  BY <1>1 DEF IomOK
<1>3. /\ \A x \in Fds : x # fd => slot'[x] = slot[x] /\ stale'[x] = stale[x]
      /\ stale'[fd] = None
      /\ slot'[fd] = slot[fd] \/ slot'[fd] = None
  BY <1>1 DEF IomOK
<1>4. /\ \A f \in Fibers, x \in Fds : Registered(f, x)' => Registered(f, x)
      /\ \A f \in Fibers, x \in Fds : x # fd =>
           (Registered(f, x)' <=> Registered(f, x))
  BY <1>3, HookAssumption DEF Registered
<1>5. Waiting'
  <2> SUFFICES ASSUME NEW x \in Fds, NEW f \in Fibers, Registered(f, x)'
               PROVE  /\ fiber'[f].pc = "parked"
                      /\ fiber'[f].op \in Waits
                      /\ fiber'[f].fd = x
                      /\ ~Queued(Ready(f))'
    BY DEF Waiting
  <2>1. /\ fiber[f].pc = "parked" /\ fiber[f].op \in Waits
        /\ fiber[f].fd = x /\ ~Queued(Ready(f))
    BY <1>4 DEF Waiting
  <2>2. ~Queued(Ready(f))'
    <3>1. CASE x = fd  BY <3>1
    <3>2. CASE x # fd
      <4>1. ~Registered(f, fd)  BY <2>1, <3>2 DEF Waiting
      <4> QED  BY <2>1, <4>1
    <3> QED  BY <3>1, <3>2
  <2> QED  BY <2>1, <2>2
<1>6. Kernel'
  <2>1. \A x \in Fds : x # fd => Waiter(x)' = Waiter(x)  BY <1>3 DEF Waiter
  <2> QED  BY <1>1, <1>3, <2>1 DEF Kernel, IomOK
<1>7. ASSUME NEW f \in Fibers, fiber'[f].pc = "parked", ~Queued(Ready(f))',
             f \notin lost', Held(f)
      PROVE  Held(f)'
  <2>1. ~Registered(f, fd)  BY <1>7
  <2>2. fiber[f].op \in Waits => Registered(f, fiber[f].fd)' /\ fiber[f].fd \in watched'
    <3> SUFFICES ASSUME fiber[f].op \in Waits
                 PROVE  Registered(f, fiber[f].fd)' /\ fiber[f].fd \in watched'
      OBVIOUS
    <3>1. Registered(f, fiber[f].fd) /\ fiber[f].fd \in watched
      BY <1>7 DEF Held
    <3>2. fiber[f].fd # fd /\ fiber[f].fd \in Fds  BY <2>1, <3>1 DEF IomOK
    <3>3. slot'[fiber[f].fd] = slot[fiber[f].fd]
          /\ stale'[fiber[f].fd] = stale[fiber[f].fd]
      BY <1>3, <3>2
    <3> QED  BY <1>1, <3>1, <3>2, <3>3 DEF Registered
  <2>3. /\ fiber[f].timed => WillTimeOut(f)'
        /\ ~fiber'[f].cancelled
    BY <1>7 DEF Held
  <2>4. fiber'[f].op = fiber[f].op /\ fiber'[f].fd = fiber[f].fd
        /\ fiber'[f].timed = fiber[f].timed
    OBVIOUS
  <2> QED  BY <2>2, <2>3, <2>4 DEF Held, Registered
<1>8. Parked'  BY <1>7, ParkedKept
<1> QED  BY <1>2, <1>5, <1>6, <1>8

\* Triggering moves a waiting fiber from its descriptor to the queue.
LEMMA TriggerPlaces ==
  ASSUME TypeOK, Places, NEW fd \in Fds, fd \in watched,
         Trigger(fd, queue), Unwatched(fd), lost' = lost,
         UNCHANGED <<fiber, expired>>, watched \ {fd} \subseteq open'
  PROVE  Places' /\ queue' \in Seq(Task) /\ IomOK'
<1>1. IomOK /\ Waiting /\ Kernel /\ Parked  BY DEF TypeOK, Places, IomOK
<1>2. PICK g \in Fibers : g = Waiter(fd) /\ Registered(g, fd)
  BY <1>1, OneWaiter DEF Kernel
<1>3. /\ fiber[g].pc = "parked" /\ fiber[g].op \in Waits /\ fiber[g].fd = fd
      /\ ~Queued(Ready(g))
  BY <1>1, <1>2 DEF Waiting
<1>4. queue' = Append(queue, Ready(g)) /\ slot' = [slot EXCEPT ![fd] = None]
  BY <1>2 DEF Trigger
<1>5. Ready(g) \in Task /\ Ready(g).run = "fiber" /\ Ready(g).fiber = g
      /\ \A f : Ready(f) = Ready(g) => f = g
  BY TaskTypes
<1>6. /\ queue' \in Seq(Task) /\ Solo(queue')
      /\ \A t : Queued(t)' <=> Queued(t) \/ t = Ready(g)
  <2>1. queue \in Seq(Task)  BY DEF TypeOK
  <2>2. Solo(queue) /\ ~In(queue, Ready(g))
    BY <1>3 DEF Places, Tasks, In, Queued
  <2> QED  BY <1>4, <1>5, <2>1, <2>2, AppendIn DEF In, Queued
<1>7. \A f : Callback(f)' = Callback(f)  BY DEF Callback
<1>8. \A f \in Fibers :
        /\ Queued(Ready(f))' <=> Queued(Ready(f)) \/ f = g
        /\ WillTimeOut(f) => WillTimeOut(f)'
        /\ Registered(f, fd) => f = g
        /\ ~Registered(f, fd)'
  <2>1. slot'[fd] = None /\ stale'[fd] = None
    BY <1>1, <1>4 DEF Unwatched, IomOK
  <2> QED  BY <1>1, <1>2, <1>5, <1>6, <1>7, <2>1, OneWaiter, HookAssumption
           DEF WillTimeOut, Registered
<1>9. IomOK' /\ Waiting' /\ Kernel' /\ Parked'
  <2>1. lost \subseteq lost' /\ lost' \subseteq Fibers  BY <1>1 DEF IomOK
  <2> QED  BY <1>1, <1>2, <1>4, <1>8, <2>1, UnwatchedPlaces
<1>10. ASSUME NEW t \in Task, Queued(t)' PROVE TaskFits(t)'
  <2>1. CASE Queued(t)
    <3>1. TaskFits(t)  BY <2>1 DEF Places, Tasks
    <3>2. t.run = "wakeup" => ~Queued(Ready(t.fiber))'
      BY <1>3, <1>5, <1>6, <3>1 DEF TaskFits, Waits
    <3> QED  BY <1>7, <3>1, <3>2 DEF TaskFits
  <2>2. CASE t = Ready(g)
    BY <1>3, <1>5, <2>2 DEF TaskFits, Waits
  <2> QED  BY <1>6, <1>10, <2>1, <2>2
<1> QED  BY <1>6, <1>9, <1>10 DEF Places, Tasks

\* What remains to be shown of a step that changes no fiber.
LEMMA NoFiberChanges ==
  ASSUME HInv, TypeOK', Places', Sockets', UNCHANGED <<fiber, expired, cur>>,
         worker' = "run" <=> worker = "run",
         \A f \in Fibers : fiber[f].pc = "wait" => fiber[f].fd \in open'
  PROVE  HInv'
<1>1. Records' /\ Cancelled' /\ TimedOut'
  BY DEF HInv, Records, Record, Cancelled, TimedOut
<1>2. OneRuns'  BY DEF HInv, OneRuns
<1> QED  BY <1>1, <1>2 DEF HInv, Places

\* A failed assertion changes nothing else.
LEMMA HInvAbort ==
  ASSUME HInv, NEW where \in {"addEvent", "triggerEvent"}, Abort(where)
  PROVE  HInv'
<1>1. UNCHANGED <<open, nonblock, ready, ctx, watched, slot, stale, lost, queue,
                  worker, cur, fiber, expired>>
      /\ proc' = where
  BY DEF Abort, kernelVars, iomVars, workerVars
<1>2. TypeOK'  BY <1>1 DEF HInv, TypeOK
<1>3. Places'  BY <1>1, PlacesKept DEF HInv, Places, Kernel
<1>4. Sockets'  BY <1>1 DEF HInv, Sockets
<1> QED  BY <1>1, <1>2, <1>3, <1>4, NoFiberChanges DEF HInv, Records, Record

\* The fiber that makes a call runs, so nobody is between attempt and wait.
LEMMA NobodyWaits ==
  ASSUME HInv, NEW f \in Fibers, InUser(f)
  PROVE  \A g \in Fibers : fiber[g].pc # "wait"
  BY DEF HInv, OneRuns, InUser, Running

\* Calls on a descriptor's flags keep its context true to the kernel.
LEMMA HInvFlags ==
  ASSUME HInv, NEW f \in Fibers, NEW fd \in Fds,
         \/ Socket(f, fd) \/ SetTimeout(f, fd)
         \/ \E flag \in BOOLEAN : SetFlags(f, fd, flag) \/ Ioctl(f, fd, flag)
  PROVE  HInv'
<1>1. /\ InUser(f)
      /\ UNCHANGED <<watched, slot, stale, lost, queue, worker, cur, fiber, expired,
                     proc>>
  BY DEF Socket, SetTimeout, SetFlags, Ioctl, StaysInUser, iomVars, workerVars
<1>2. /\ open' \subseteq Fds /\ open \subseteq open'
      /\ nonblock' \in [Fds -> BOOLEAN] /\ ready' \in [Fds -> SUBSET Event]
      /\ ctx' \in [Fds -> Context \cup {None}] /\ Sockets'
  <2>0. /\ open \subseteq Fds /\ nonblock \in [Fds -> BOOLEAN]
        /\ ready \in [Fds -> SUBSET Event] /\ ctx \in [Fds -> Context \cup {None}]
        /\ Sockets
    BY DEF HInv, TypeOK
  <2>1. CASE Socket(f, fd)
    <3>1. ctx[fd] = None /\ fd \notin open  BY <2>0, <2>1 DEF Socket, Sockets
    <3>2. PICK flag \in BOOLEAN : nonblock' = [nonblock EXCEPT ![fd] = flag]
      BY <2>1 DEF Socket
    <3>3. /\ open' = open \cup {fd} /\ ready' = [ready EXCEPT ![fd] = {}]
          /\ ctx' = [ctx EXCEPT ![fd] = InitContext]
      BY <2>1, <3>1 DEF Socket, Created
    <3>4. InitContext \in Context /\ InitContext # None
          /\ InitContext.sys /\ ~InitContext.user
      <4>1. InitContext \in Context /\ InitContext.sys /\ ~InitContext.user
        BY DEF InitContext, Context
      <4> QED  BY <4>1, HookAssumption
    <3>5. \A x \in Fds : x # fd => ctx'[x] = ctx[x] /\ nonblock'[x] = nonblock[x]
                                   /\ (x \in open' <=> x \in open)
      BY <2>0, <3>2, <3>3
    <3>6. ctx'[fd] = InitContext /\ fd \in open'  BY <2>0, <3>3
    <3>7. Sockets'  BY <2>0, <3>4, <3>5, <3>6 DEF Sockets
    <3> QED  BY <2>0, <3>2, <3>3, <3>4, <3>7
  <2>2. CASE SetTimeout(f, fd)
    <3>1. ctx[fd] \in Context  BY <2>0, <2>2 DEF SetTimeout, Sockets
    <3>2. /\ ctx' = [ctx EXCEPT ![fd].timeout = TRUE]
          /\ UNCHANGED <<open, nonblock, ready>>
      BY <2>2 DEF SetTimeout, kernelVars
    <3>3. ctx'[fd] \in Context /\ ctx'[fd].sys = ctx[fd].sys
          /\ ctx'[fd].user = ctx[fd].user
      BY <2>0, <3>1, <3>2 DEF Context
    <3>4. \A x \in Fds : x # fd => ctx'[x] = ctx[x]  BY <2>0, <3>2
    <3>5. ctx' \in [Fds -> Context \cup {None}]  BY <2>0, <3>2, <3>3, <3>4
    <3>6. Sockets'
      BY <2>0, <3>1, <3>2, <3>3, <3>4, HookAssumption DEF Sockets
    <3> QED  BY <2>0, <3>2, <3>5, <3>6
  <2>3. ASSUME NEW flag \in BOOLEAN, SetFlags(f, fd, flag) \/ Ioctl(f, fd, flag)
        PROVE  /\ open' \subseteq Fds /\ open \subseteq open'
               /\ nonblock' \in [Fds -> BOOLEAN] /\ ready' \in [Fds -> SUBSET Event]
               /\ ctx' \in [Fds -> Context \cup {None}] /\ Sockets'
    <3>1. ctx[fd] \in Context /\ ctx[fd].sys
      BY <2>0, <2>3 DEF SetFlags, Ioctl, Sockets
    <3>2. /\ ctx' = [ctx EXCEPT ![fd].user = flag]
          /\ UNCHANGED <<open, ready>>
          /\ nonblock' \in {[nonblock EXCEPT ![fd] = TRUE],
                            [nonblock EXCEPT ![fd] = flag]}
      <4>1. ctx[fd].sys = TRUE  BY <3>1 DEF Context
      <4> QED  BY <2>3, <4>1 DEF SetFlags, Ioctl, SystemFlag, IoctlFlag
    <3>3. ctx'[fd] \in Context /\ ctx'[fd].sys = ctx[fd].sys
          /\ ctx'[fd].user = flag
      BY <2>0, <3>1, <3>2 DEF Context
    <3>4. /\ \A x \in Fds : x # fd => ctx'[x] = ctx[x] /\ nonblock'[x] = nonblock[x]
          /\ flag => nonblock'[fd]
          /\ nonblock' \in [Fds -> BOOLEAN]
      BY <2>0, <3>2
    <3>5. ctx' \in [Fds -> Context \cup {None}]  BY <2>0, <3>2, <3>3, <3>4
    <3>6. Sockets'
      BY <2>0, <3>1, <3>2, <3>3, <3>4, HookAssumption DEF Sockets
    <3> QED  BY <2>0, <3>2, <3>4, <3>5, <3>6
  <2> QED  BY <2>1, <2>2, <2>3
<1>3. TypeOK'  BY <1>1, <1>2 DEF HInv, TypeOK
<1>4. Places'  BY <1>1, <1>2, PlacesKept DEF HInv, Places, Kernel
<1> QED  BY <1>1, <1>2, <1>3, <1>4, NobodyWaits, NoFiberChanges

\* close() wakes whoever waits in the table's context before that and the
\* descriptor go, or leaves a waiter behind.
LEMMA HInvClose ==
  ASSUME HInv, NEW f \in Fibers, NEW fd \in Fds, Close(f, fd)
  PROVE  HInv'
<1>1. /\ InUser(f) /\ fd \in open /\ Unwatched(fd)
      /\ ctx' = [ctx EXCEPT ![fd] = None]
      /\ open' = open \ {fd}
      /\ nonblock' = [nonblock EXCEPT ![fd] = FALSE]
      /\ ready' = [ready EXCEPT ![fd] = {}]
      /\ UNCHANGED <<worker, cur, fiber, expired, proc>>
  BY DEF Close, Deleted
<1>2. TypeOK /\ Places /\ Sockets /\ IomOK  BY DEF HInv, Places, TypeOK, IomOK
<1>3. watched \ {fd} \subseteq open'  BY <1>1, <1>2 DEF Places, Kernel
<1>4. PICK refused \in Refusal : /\ CancelAll(fd, refused)
                                /\ lost' = lost \cup Missed(fd, refused)
  BY DEF Close
<1>5. Places' /\ queue' \in Seq(Task) /\ IomOK'
  <2>1. CASE Reached(fd, refused)
    BY <1>1, <1>2, <1>3, <1>4, <2>1, TriggerPlaces DEF CancelAll, Reached, Missed
  <2>2. CASE ~Reached(fd, refused)
    <3>1. /\ UNCHANGED <<queue, slot>>
          /\ lost' = lost \cup ({slot[fd], stale[fd]} \ {None})
      BY <1>4, <2>2 DEF CancelAll, Missed
    <3>2. /\ lost \subseteq lost' /\ lost' \subseteq Fibers
          /\ \A g \in Fibers : Registered(g, fd) => g \in lost'
      BY <1>2, <3>1, HookAssumption DEF IomOK, Registered
    <3>3. \A t : Queued(t)' <=> Queued(t)  BY <3>1 DEF Queued
    <3>4. \A g : Callback(g)' = Callback(g)  BY <1>1 DEF Callback
    <3>5. \A g \in Fibers : Registered(g, fd)' => ~Queued(Ready(g))'
      <4>1. \A g \in Fibers : Registered(g, fd)' => Registered(g, fd)
        BY <1>1, <1>2, <3>1, HookAssumption DEF Unwatched, IomOK, Registered
      <4> QED  BY <1>2, <3>3, <4>1 DEF Places, Waiting
    <3>6. \A g \in Fibers : WillTimeOut(g) => WillTimeOut(g)'
      BY <1>1, <3>3, <3>4 DEF WillTimeOut
    <3>7. IomOK' /\ Waiting' /\ Kernel' /\ Parked'
      BY <1>1, <1>2, <1>3, <3>1, <3>2, <3>3, <3>5, <3>6, UnwatchedPlaces
      DEF Places
    <3>8. \A t : TaskFits(t)' <=> TaskFits(t)
      BY <1>1, <3>3, <3>4 DEF TaskFits
    <3>9. Tasks'  BY <1>2, <3>1, <3>3, <3>8 DEF Places, Tasks, Solo
    <3> QED  BY <1>2, <3>1, <3>7, <3>9 DEF Places, TypeOK
  <2> QED  BY <2>1, <2>2
<1>6. TypeOK'  BY <1>1, <1>2, <1>5 DEF TypeOK, IomOK
<1>7. Sockets'
  <2>1. ctx'[fd] = None /\ \A x \in Fds : x # fd =>
          ctx'[x] = ctx[x] /\ nonblock'[x] = nonblock[x]
    BY <1>1, <1>2 DEF TypeOK
  <2> QED  BY <1>1, <1>2, <2>1 DEF Sockets
<1> QED  BY <1>1, <1>5, <1>6, <1>7, NobodyWaits, NoFiberChanges

\* So does another thread that cancels the event ...
LEMMA HInvCancelEvent ==
  ASSUME HInv, NEW fd \in Fds, CancelEvent(fd)
  PROVE  HInv'
<1>1. /\ fd \in watched /\ Trigger(fd, queue) /\ Unwatched(fd)
      /\ UNCHANGED <<open, nonblock, ready, ctx, worker, cur, fiber, expired, lost,
                     proc>>
  BY DEF CancelEvent, Reached, kernelVars
<1>2. TypeOK /\ Places  BY DEF HInv, Places
<1>3. Places' /\ queue' \in Seq(Task) /\ IomOK'
  BY <1>1, <1>2, TriggerPlaces DEF Places, Kernel
<1>4. TypeOK'  BY <1>1, <1>2, <1>3 DEF TypeOK, IomOK
<1>5. Sockets'  BY <1>1 DEF HInv, Sockets
<1> QED  BY <1>1, <1>3, <1>4, <1>5, NoFiberChanges DEF HInv, Records, Record

\* ... and the event itself, unless handling it fails an assertion.
LEMMA HInvDeliver ==
  ASSUME HInv, NEW fd \in Fds, Deliver(fd)
  PROVE  HInv'
<1>1. CASE Abort("triggerEvent")  BY <1>1, HInvAbort
<1>2. CASE ~Abort("triggerEvent")
  <2>1. /\ fd \in watched /\ Trigger(fd, queue) /\ Unwatched(fd)
        /\ UNCHANGED <<open, nonblock, ready, ctx, worker, cur, fiber, expired,
                       lost, proc>>
    BY <1>2 DEF Deliver, kernelVars
  <2>2. TypeOK /\ Places  BY DEF HInv, Places
  <2>3. Places' /\ queue' \in Seq(Task) /\ IomOK'
    BY <2>1, <2>2, TriggerPlaces DEF Places, Kernel
  <2>4. TypeOK'  BY <2>1, <2>2, <2>3 DEF TypeOK, IomOK
  <2>5. Sockets'  BY <2>1 DEF HInv, Sockets
  <2> QED  BY <2>1, <2>3, <2>4, <2>5, NoFiberChanges DEF HInv, Records, Record
<1> QED  BY <1>1, <1>2

\* contextResize() moves who waits from the table to the contexts it replaces,
\* to which the kernel still points.
LEMMA HInvResize ==
  ASSUME HInv, Resize
  PROVE  HInv'
<1>1. /\ slot' = [fd \in Fds |-> None]
      /\ stale' = [fd \in Fds |-> IF fd \in watched THEN Waiter(fd) ELSE None]
      /\ UNCHANGED <<open, nonblock, ready, ctx, watched, queue, worker, cur, fiber,
                     expired, lost, proc>>
  BY DEF Resize, kernelVars, workerVars
<1>2. TypeOK /\ IomOK /\ Waiting /\ Kernel /\ Parked /\ Tasks
  BY DEF HInv, TypeOK, IomOK
<1>3. \A fd \in Fds : Waiter(fd) \in Fibers \cup {None}
  BY <1>2 DEF IomOK, Waiter
<1>4. IomOK'  BY <1>1, <1>2, <1>3 DEF IomOK
<1>5. \A f \in Fibers, fd \in Fds :
        Registered(f, fd)' <=> fd \in watched /\ Registered(f, fd)
  <2> SUFFICES ASSUME NEW f \in Fibers, NEW fd \in Fds
               PROVE  Registered(f, fd)' <=> fd \in watched /\ Registered(f, fd)
    OBVIOUS
  <2>1. slot'[fd] = None
        /\ stale'[fd] = IF fd \in watched THEN Waiter(fd) ELSE None
    BY <1>1
  <2>2. f # None  BY HookAssumption
  <2>3. Registered(f, fd) <=> Waiter(fd) = f  BY <1>2, <2>2, OneWaiter
  <2> QED  BY <2>1, <2>2, <2>3 DEF Registered
<1>6. \A t : Queued(t)' <=> Queued(t)  BY <1>1 DEF Queued
<1>7. \A f : Callback(f)' = Callback(f)  BY <1>1 DEF Callback
<1>8. \A f : WillTimeOut(f)' <=> WillTimeOut(f)
  BY <1>1, <1>6, <1>7 DEF WillTimeOut
<1>9. Waiting'  BY <1>1, <1>2, <1>5, <1>6, WaitingKept
<1>10. Kernel'
  <2>1. \A fd \in Fds : fd \in watched => Waiter(fd)' = Waiter(fd)
    BY <1>1, <1>2 DEF Waiter, Kernel
  <2> QED  BY <1>1, <1>2, <2>1 DEF Kernel, IomOK
<1>11. \A f \in Fibers : Held(f) => Held(f)'
  <2> SUFFICES ASSUME NEW f \in Fibers, Held(f) PROVE Held(f)'  OBVIOUS
  <2>1. fiber[f].op \in Waits => /\ Registered(f, fiber[f].fd)
                                 /\ fiber[f].fd \in watched /\ fiber[f].fd \in Fds
    BY <1>2 DEF Held, IomOK
  <2>2. fiber[f].op \in Waits => Registered(f, fiber[f].fd)'
    <3> DEFINE fd == fiber[f].fd
    <3> SUFFICES ASSUME fiber[f].op \in Waits PROVE Registered(f, fd)'
      OBVIOUS
    <3>1. fd' = fd  BY <1>1
    <3>2. slot'[fd] = None /\ stale'[fd] = Waiter(fd)  BY <1>1, <2>1
    <3>3. Waiter(fd) = f  BY <1>2, <2>1, OneWaiter
    <3> QED  BY <3>1, <3>2, <3>3 DEF Registered
  <2> QED  BY <1>1, <1>8, <2>1, <2>2 DEF Held
<1>12. Parked'  BY <1>1, <1>2, <1>6, <1>11, ParkedKept
<1>13. Tasks'
  <2>1. \A t : TaskFits(t)' <=> TaskFits(t)  BY <1>1, <1>6, <1>7 DEF TaskFits
  <2> QED  BY <1>1, <1>2, <1>6, <2>1 DEF Tasks, Solo
<1>14. TypeOK'  BY <1>1, <1>2, <1>4 DEF TypeOK, IomOK
<1>15. Sockets'  BY <1>1 DEF HInv, Sockets
<1> QED
  BY <1>1, <1>9, <1>10, <1>12, <1>13, <1>14, <1>15, NoFiberChanges
  DEF HInv, Records, Record, Places

\* Readiness and the turns of the idle fiber concern no waiting fiber.
LEMMA HInvTurns ==
  ASSUME HInv,
         \/ Idle \/ ExpireNoMore \/ DeliverNoMore
         \/ \E fd \in Fds, e \in Event : Arrive(fd, e)
  PROVE  HInv'
<1>1. /\ UNCHANGED <<open, nonblock, ctx, watched, slot, stale, lost, queue, cur,
                     fiber, expired, proc>>
      /\ ready' \in [Fds -> SUBSET Event]
      /\ worker' \in {"scan", "run", "expire", "events"}
      /\ worker' = "run" <=> worker = "run"
  <2>1. CASE Idle \/ ExpireNoMore \/ DeliverNoMore
    BY <2>1 DEF Idle, ExpireNoMore, DeliverNoMore, kernelVars, iomVars, HInv, TypeOK
  <2>2. ASSUME NEW fd \in Fds, NEW e \in Event, Arrive(fd, e)
        PROVE  /\ UNCHANGED <<open, nonblock, ctx, watched, slot, stale, lost,
                              queue, worker, cur, fiber, expired, proc>>
               /\ ready' \in [Fds -> SUBSET Event]
    BY <2>2 DEF Arrive, iomVars, workerVars, HInv, TypeOK
  <2> QED  BY <2>1, <2>2 DEF HInv, TypeOK
<1>2. TypeOK'  BY <1>1 DEF HInv, TypeOK
<1>3. Places'  BY <1>1, PlacesKept DEF HInv, Places, Kernel
<1>4. Sockets'  BY <1>1 DEF HInv, Sockets
<1> QED  BY <1>1, <1>2, <1>3, <1>4, NoFiberChanges DEF HInv, Records, Record
-----------------------------------------------------------------------------
(***************************************************************************)
(* Steps of the running fiber                                              *)
(***************************************************************************)
\* A fiber that runs is waited for by nothing: not queued, not registered,
\* and no sleep of its is to end.
LEMMA RunningAlone ==
  ASSUME HInv, NEW f \in Fibers, fiber[f].pc \in Running
  PROVE  /\ ~Queued(Ready(f))
         /\ \A fd \in Fds : ~Registered(f, fd)
         /\ \A t \in Task : Queued(t) /\ t.fiber = f => t.run = "timeout"
<1>1. Ready(f) \in Task /\ Ready(f).run = "fiber" /\ Ready(f).fiber = f
  BY TaskTypes DEF HInv
<1>2. ~Queued(Ready(f))
  BY <1>1 DEF HInv, Tasks, TaskFits, Running
<1>3. \A fd \in Fds : ~Registered(f, fd)
  BY DEF HInv, Waiting, Running
<1>4. ASSUME NEW t \in Task, Queued(t), t.fiber = f
      PROVE  t.run = "timeout"
  <2>1. TaskFits(t) /\ t.run \in {"fiber", "timeout", "wakeup"}
    BY <1>4 DEF HInv, Tasks, Task
  <2> QED  BY <1>2, <1>4, <2>1 DEF TaskFits, Running, HInv, Records, Record
<1> QED  BY <1>2, <1>3, <1>4

\* What the running fiber does to its own call leaves the others' places.
LEMMA RunPlaces ==
  ASSUME HInv, NEW f \in Fibers, fiber[f].pc \in Running,
         UNCHANGED <<watched, slot, stale, lost, queue, open>>,
         \A g \in Fibers : g # f => fiber'[g] = fiber[g] /\ expired'[g] = expired[g],
         fiber'[f].pc # "parked",
         \/ /\ fiber'[f].calls = fiber[f].calls
            /\ \/ fiber'[f].op = "none"
               \/ /\ fiber'[f].op = fiber[f].op /\ fiber'[f].fd = fiber[f].fd
                  /\ expired'[f] = expired[f]
         \/ fiber'[f].calls = fiber[f].calls + 1
  PROVE  Places'
<1>1. \A t : Queued(t)' <=> Queued(t)  BY DEF Queued
<1>2. \A g \in Fibers : g # f => Callback(g)' = Callback(g)
  BY DEF Callback
<1>3. \A g, fd : Registered(g, fd)' <=> Registered(g, fd)  BY DEF Registered
<1>4. Waiting' /\ Kernel' /\ Parked'
  <2>1. Waiting'  BY <1>1, <1>3, RunningAlone, WaitingKept DEF HInv
  <2>2. Kernel'  BY DEF HInv, Kernel, Waiter
  <2>3. ASSUME NEW g \in Fibers, g # f, Held(g) PROVE Held(g)'
    BY <1>1, <1>2, <1>3, <2>3 DEF Held, WillTimeOut
  <2>4. Parked'  BY <1>1, <2>3, ParkedKept DEF HInv
  <2> QED  BY <2>1, <2>2, <2>4
<1>5. ASSUME NEW t \in Task, Queued(t) PROVE TaskFits(t)'
  <2>1. TaskFits(t) /\ t.fiber \in Fibers  BY <1>5 DEF HInv, Tasks, Task
  <2>2. CASE t.fiber # f
    <3>1. /\ fiber'[t.fiber] = fiber[t.fiber]
          /\ expired'[t.fiber] = expired[t.fiber]
          /\ Callback(t.fiber)' = Callback(t.fiber)
          /\ Queued(Ready(t.fiber))' <=> Queued(Ready(t.fiber))
      BY <1>1, <1>2, <2>1, <2>2
    <3> QED  BY <2>1, <3>1 DEF TaskFits
  <2>3. CASE t.fiber = f
    <3>1. t.run = "timeout"  BY <1>5, <2>3, RunningAlone
    <3>2. t.call \in Int /\ fiber[f].calls \in Int
      BY HookAssumption DEF Task, HInv, TypeOK, Fiber
    <3>3. /\ t.call <= fiber[f].calls
          /\ fiber[f].op \in Waits /\ t.call = fiber[f].calls =>
               expired[f] /\ t.fd = fiber[f].fd
      BY <2>1, <2>3, <3>1 DEF TaskFits
    <3>4. /\ t.call <= fiber'[f].calls
          /\ fiber'[f].op \in Waits /\ t.call = fiber'[f].calls =>
               expired'[f] /\ t.fd = fiber'[f].fd
      BY <3>2, <3>3 DEF Waits
    <3> QED  BY <2>3, <3>1, <3>4 DEF TaskFits
  <2> QED  BY <2>2, <2>3
<1>6. Tasks'  BY <1>1, <1>5 DEF HInv, Tasks, Solo
<1> QED  BY <1>4, <1>6 DEF Places

\* A fiber that runs and does not park leaves what is known of the others.
LEMMA RunStep ==
  ASSUME HInv, NEW f \in Fibers, fiber[f].pc \in Running,
         UNCHANGED <<open, nonblock, ctx, watched, slot, stale, lost, queue, proc>>,
         ready' \in [Fds -> SUBSET Event],
         NEW x \in Fiber, fiber' = [fiber EXCEPT ![f] = x],
         NEW b \in BOOLEAN, expired' = [expired EXCEPT ![f] = b],
         Record(x), ~x.cancelled, x.rc = "ETIMEDOUT" => b,
         \/ x.pc \in Running /\ UNCHANGED <<worker, cur>>
         \/ x.pc = "done" /\ worker' = "scan" /\ cur' = None,
         \/ /\ x.calls = fiber[f].calls
            /\ \/ x.op = "none"
               \/ x.op = fiber[f].op /\ x.fd = fiber[f].fd /\ b = expired[f]
         \/ x.calls = fiber[f].calls + 1
  PROVE  HInv'
<1>1. /\ fiber' \in [Fibers -> Fiber] /\ fiber'[f] = x
      /\ expired' \in [Fibers -> BOOLEAN] /\ expired'[f] = b
      /\ \A g \in Fibers : g # f => fiber'[g] = fiber[g] /\ expired'[g] = expired[g]
  BY DEF HInv, TypeOK
<1>2. TypeOK'
  BY <1>1 DEF HInv, TypeOK
<1>3. Records'
  <2>1. \A g \in Fibers : Record(fiber'[g])
    BY <1>1 DEF HInv, Records
  <2> QED  BY <2>1 DEF Records, Record
<1>4. OneRuns'
  <2>1. worker = "run" /\ cur = f /\ f # None
    BY HookAssumption DEF HInv, OneRuns
  <2>2. \A g \in Fibers : g # f => fiber'[g].pc \notin Running
    BY <1>1, <2>1 DEF HInv, OneRuns
  <2> QED  BY <1>1, <2>1, <2>2 DEF OneRuns, Running
<1>5. Cancelled' /\ TimedOut'
  BY <1>1 DEF HInv, Cancelled, TimedOut
<1>6. Sockets'  BY DEF HInv, Sockets
<1>7. Places'
  <2>1. fiber'[f].pc # "parked"  BY <1>1 DEF Running
  <2> QED  BY <1>1, <2>1, RunPlaces
<1> QED  BY <1>2, <1>3, <1>4, <1>5, <1>6, <1>7 DEF HInv, Places

\* The record a call leaves of itself.
LEMMA ReturnedType ==
  ASSUME NEW y \in Fiber, NEW rc \in {"ETIMEDOUT", "other"}
  PROVE  /\ Returned(y, rc) \in Fiber
         /\ Returned(y, rc).pc = "user" /\ Returned(y, rc).op = "none"
         /\ Returned(y, rc).armed = FALSE /\ Returned(y, rc).rc = rc
         /\ Returned(y, rc).cancelled = FALSE /\ Returned(y, rc).calls = y.calls
  BY DEF Returned, New, Fiber

\* What a system call says, and what it uses up.
LEMMA OutcomeTypes ==
  ASSUME TypeOK, NEW fd \in Fds, NEW rc \in Outcome(fd, Side[fd]), Consume(fd, rc)
  PROVE  /\ ready' \in [Fds -> SUBSET Event]
         /\ rc = "EAGAIN" => fd \in open
<1>1. ready' \in [Fds -> SUBSET Event]  BY DEF TypeOK, Consume
<1>2. rc = "EAGAIN" => fd \in open  BY DEF Outcome
<1> QED  BY <1>1, <1>2

\* A call that does not park: do_io() begins, or is a plain call ...
LEMMA HInvCalls ==
  ASSUME HInv, NEW f \in Fibers, NEW fd \in Fds, DoIo(f, fd) \/ Plain(f, fd)
  PROVE  HInv'
<1>1. /\ fiber[f].pc \in Running /\ fiber[f].calls < MaxCalls
      /\ UNCHANGED <<open, nonblock, ctx, watched, slot, stale, lost, queue,
                     worker, cur, proc>>
  BY DEF DoIo, Plain, MayCall, InUser, Running, kernelVars, iomVars, workerVars
<1>2. fiber[f] \in Fiber /\ TypeOK  BY DEF HInv, TypeOK
<1>5. fiber[f].calls + 1 \in 0 .. MaxCalls
  BY <1>1, <1>2, HookAssumption DEF Fiber
<1>3. CASE DoIo(f, fd)
  <2> DEFINE x == Called(fiber[f], "io", fd, ctx[fd].timeout)
  <2>1. /\ ctx[fd] # None /\ UNCHANGED ready
        /\ fiber' = [fiber EXCEPT ![f] = x]
        /\ expired' = [expired EXCEPT ![f] = FALSE]
    BY <1>3 DEF DoIo, Hooked, kernelVars
  <2>2. ctx[fd].timeout \in BOOLEAN  BY <1>2, <2>1 DEF TypeOK, Context
  <2>3. /\ x \in Fiber /\ x.pc = "try" /\ x.op = "io" /\ x.fd = fd
        /\ x.armed = FALSE /\ x.rc = "other"
        /\ x.cancelled = FALSE /\ x.calls = fiber[f].calls + 1
    BY <1>2, <1>5, <2>2 DEF Called, New, Fiber
  <2> HIDE DEF x
  <2>4. Record(x)  BY <2>3 DEF Record, Waits
  <2>5. ready' \in [Fds -> SUBSET Event]  BY <1>2, <2>1 DEF TypeOK
  <2> QED  BY <1>1, <2>1, <2>3, <2>4, <2>5, RunStep DEF Running
<1>4. CASE Plain(f, fd)
  <2> DEFINE x == Returned(fiber[f], "other")
  <2>1. /\ ready' \in [Fds -> SUBSET Event]
        /\ fiber' = [fiber EXCEPT ![f] = x]
        /\ UNCHANGED expired
    BY <1>2, <1>4, OutcomeTypes DEF Plain, Return
  <2>2. /\ x \in Fiber /\ x.pc = "user" /\ x.op = "none"
        /\ x.armed = FALSE /\ x.rc = "other"
        /\ x.cancelled = FALSE /\ x.calls = fiber[f].calls
    BY <1>2, ReturnedType
  <2> HIDE DEF x
  <2>3. Record(x)  BY <2>2 DEF Record, Waits
  <2>4. expired' = [expired EXCEPT ![f] = expired[f]] /\ expired[f] \in BOOLEAN
    BY <1>2, <2>1 DEF TypeOK
  <2> QED  BY <1>1, <2>1, <2>2, <2>3, <2>4, RunStep DEF Running
<1> QED  BY <1>3, <1>4

\* ... makes its attempt ...
LEMMA HInvAttempt ==
  ASSUME HInv, NEW f \in Fibers, Attempt(f)
  PROVE  HInv'
<1> DEFINE fd == fiber[f].fd
<1>1. /\ fiber[f].pc = "try"
      /\ UNCHANGED <<open, nonblock, ctx, watched, slot, stale, lost, queue,
                     worker, cur, expired, proc>>
  BY DEF Attempt, iomVars, workerVars
<1>2. fiber[f] \in Fiber /\ TypeOK /\ Record(fiber[f]) /\ ~fiber[f].cancelled
  BY <1>1 DEF HInv, TypeOK, Records, Cancelled
<1>3. fd \in Fds  BY <1>1, <1>2 DEF Record
<1>4. PICK rc \in Outcome(fd, Side[fd]) :
        /\ IF rc = "EAGAIN" THEN fiber' = [fiber EXCEPT ![f].pc = "wait"]
           ELSE Return(f, "other")
        /\ Consume(fd, rc)
  BY DEF Attempt
<1>5. ready' \in [Fds -> SUBSET Event] /\ (rc = "EAGAIN" => fd \in open)
  BY <1>2, <1>3, <1>4, OutcomeTypes
<1>6. expired' = [expired EXCEPT ![f] = expired[f]] /\ expired[f] \in BOOLEAN
  BY <1>1, <1>2 DEF TypeOK
<1>7. CASE rc = "EAGAIN"
  <2> DEFINE x == [fiber[f] EXCEPT !.pc = "wait"]
  <2>1. /\ fiber' = [fiber EXCEPT ![f] = x] /\ x \in Fiber
        /\ x.pc = "wait" /\ x.op = fiber[f].op /\ x.fd = fd
        /\ x.armed = fiber[f].armed /\ x.rc = fiber[f].rc
        /\ x.cancelled = fiber[f].cancelled /\ x.calls = fiber[f].calls
    BY <1>2, <1>4, <1>7 DEF Fiber, TypeOK
  <2> HIDE DEF x
  <2>2. Record(x) /\ x.rc = "other"
    BY <1>1, <1>2, <1>5, <1>7, <2>1 DEF Record, Waits
  <2> QED  BY <1>1, <1>2, <1>5, <1>6, <2>1, <2>2, RunStep DEF Running
<1>8. CASE rc # "EAGAIN"
  <2> DEFINE x == Returned(fiber[f], "other")
  <2>1. fiber' = [fiber EXCEPT ![f] = x]  BY <1>4, <1>8 DEF Return
  <2>2. /\ x \in Fiber /\ x.pc = "user" /\ x.op = "none"
        /\ x.armed = FALSE /\ x.rc = "other"
        /\ x.cancelled = FALSE /\ x.calls = fiber[f].calls
    BY <1>2, ReturnedType
  <2> HIDE DEF x
  <2>3. Record(x)  BY <2>2 DEF Record, Waits
  <2> QED  BY <1>1, <1>5, <1>6, <2>1, <2>2, <2>3, RunStep DEF Running
<1> QED  BY <1>7, <1>8

\* ... or is connect() ...
LEMMA HInvConnect ==
  ASSUME HInv, NEW f \in Fibers, NEW fd \in Fds, Connect(f, fd)
  PROVE  HInv'
<1>1. /\ fiber[f].pc \in Running /\ fiber[f].calls < MaxCalls
      /\ UNCHANGED <<open, nonblock, ready, ctx, watched, slot, stale, lost, queue,
                     worker, cur, proc>>
      /\ expired' = [expired EXCEPT ![f] = FALSE]
  BY DEF Connect, MayCall, InUser, Running, kernelVars, iomVars, workerVars
<1>2. fiber[f] \in Fiber /\ TypeOK /\ ready' \in [Fds -> SUBSET Event]
  BY <1>1 DEF HInv, TypeOK
<1>5. fiber[f].calls + 1 \in 0 .. MaxCalls
  BY <1>1, <1>2, HookAssumption DEF Fiber
<1>3. CASE Return(f, "other")
  <2> DEFINE x == Returned(fiber[f], "other")
  <2>1. fiber' = [fiber EXCEPT ![f] = x]  BY <1>3 DEF Return
  <2>2. /\ x \in Fiber /\ x.pc = "user" /\ x.op = "none"
        /\ x.armed = FALSE /\ x.rc = "other"
        /\ x.cancelled = FALSE /\ x.calls = fiber[f].calls
    BY <1>2, ReturnedType
  <2> HIDE DEF x
  <2>3. Record(x)  BY <2>2 DEF Record, Waits
  <2> QED  BY <1>1, <1>2, <2>1, <2>2, <2>3, RunStep DEF Running
<1>4. CASE ~Return(f, "other")
  <2> DEFINE c == Called(fiber[f], "connect", fd, TRUE)
             x == [c EXCEPT !.pc = "wait"]
  <2>1. ctx[fd] # None /\ fiber' = [fiber EXCEPT ![f] = x]
    BY <1>4 DEF Connect
  <2>2. /\ c \in Fiber /\ c.op = "connect" /\ c.fd = fd
        /\ c.armed = FALSE /\ c.rc = "other"
        /\ c.cancelled = FALSE /\ c.calls = fiber[f].calls + 1
    BY <1>2, <1>5 DEF Called, New, Fiber
  <2> HIDE DEF c
  <2>3. /\ x \in Fiber /\ x.pc = "wait" /\ x.op = "connect" /\ x.fd = fd
        /\ x.armed = FALSE /\ x.rc = "other"
        /\ x.cancelled = FALSE /\ x.calls = fiber[f].calls + 1
    BY <2>2 DEF Fiber
  <2> HIDE DEF x
  <2>4. fd \in open  BY <2>1 DEF HInv, Sockets
  <2>5. Record(x)  BY <2>3, <2>4 DEF Record, Waits
  <2> QED  BY <1>1, <1>2, <2>1, <2>3, <2>5, RunStep DEF Running
<1> QED  BY <1>3, <1>4

\* ... and the task's body ends.
LEMMA HInvFinish ==
  ASSUME HInv, NEW f \in Fibers, Finish(f)
  PROVE  HInv'
<1> DEFINE x == [fiber[f] EXCEPT !.pc = "done"]
<1>1. /\ fiber[f].pc = "user"
      /\ UNCHANGED <<open, nonblock, ready, ctx, watched, slot, stale, lost, queue,
                     expired, proc>>
      /\ cur' = None /\ worker' = "scan"
      /\ fiber' = [fiber EXCEPT ![f] = x]
  BY DEF Finish, InUser, kernelVars, iomVars, HInv, TypeOK
<1>2. /\ fiber[f] \in Fiber /\ TypeOK /\ ready' \in [Fds -> SUBSET Event]
      /\ Record(fiber[f]) /\ ~fiber[f].cancelled
      /\ (fiber[f].rc = "ETIMEDOUT" => expired[f])
  BY <1>1 DEF HInv, TypeOK, Records, Cancelled, TimedOut
<1>3. /\ x \in Fiber /\ x.pc = "done" /\ x.op = fiber[f].op
      /\ x.armed = fiber[f].armed /\ x.rc = fiber[f].rc
      /\ x.cancelled = fiber[f].cancelled /\ x.calls = fiber[f].calls
  BY <1>2 DEF Fiber
<1> HIDE DEF x
<1>4. Record(x)  BY <1>1, <1>2, <1>3 DEF Record, Waits
<1>5. expired' = [expired EXCEPT ![f] = expired[f]] /\ expired[f] \in BOOLEAN
  BY <1>1, <1>2 DEF TypeOK
<1>6. x.op = "none"  BY <1>1, <1>2, <1>3 DEF Record
<1> QED  BY <1>1, <1>2, <1>3, <1>4, <1>5, <1>6, RunStep DEF Running

\* What remains to be shown of a step that changes one fiber's record.
LEMMA OneChanges ==
  ASSUME HInv, NEW f \in Fibers, UNCHANGED <<open, nonblock, ready, ctx, proc>>,
         NEW x \in Fiber, fiber' = [fiber EXCEPT ![f] = x],
         NEW b \in BOOLEAN, expired' = [expired EXCEPT ![f] = b],
         IomOK', queue' \in Seq(Task),
         worker' \in {"scan", "run", "expire", "events"},
         cur' \in Fibers \cup {None},
         Record(x), x.rc = "ETIMEDOUT" => b,
         x.cancelled => x.pc = "parked" /\ x.op \in Waits /\ b,
         \A g \in Fibers : fiber'[g].pc \in Running <=> worker' = "run" /\ cur' = g,
         Places'
  PROVE  HInv'
<1>1. /\ fiber' \in [Fibers -> Fiber] /\ fiber'[f] = x
      /\ expired' \in [Fibers -> BOOLEAN] /\ expired'[f] = b
      /\ \A g \in Fibers : g # f => fiber'[g] = fiber[g] /\ expired'[g] = expired[g]
  BY DEF HInv, TypeOK
<1>2. TypeOK'  BY <1>1 DEF HInv, TypeOK, IomOK
<1>3. Records'
  <2>1. \A g \in Fibers : Record(fiber'[g])
    BY <1>1 DEF HInv, Records
  <2> QED  BY <2>1 DEF Records, Record
<1>4. Cancelled' /\ TimedOut'
  BY <1>1 DEF HInv, Cancelled, TimedOut
<1>5. Sockets' /\ OneRuns'  BY DEF HInv, Sockets, OneRuns
<1> QED  BY <1>2, <1>3, <1>4, <1>5 DEF HInv, Places

\* A running fiber parks: in a sleep, or on a descriptor nobody waits for.
LEMMA ParkPlaces ==
  ASSUME HInv, NEW f \in Fibers, fiber[f].pc \in Running,
         UNCHANGED <<queue, open, stale, lost>>,
         \A g \in Fibers : g # f => fiber'[g] = fiber[g] /\ expired'[g] = expired[g],
         NEW x \in Fiber, fiber'[f] = x, x.pc = "parked", ~x.cancelled,
         x.timed => x.armed,
         \/ /\ x.op = "sleep" /\ x.calls = fiber[f].calls + 1
            /\ UNCHANGED <<slot, watched>>
         \/ /\ x.op \in Waits /\ x.op = fiber[f].op /\ x.fd = fiber[f].fd
            /\ x.calls = fiber[f].calls /\ expired'[f] = expired[f]
            /\ x.fd \in Fds /\ x.fd \in open
            /\ slot[x.fd] = None /\ x.fd \notin watched
            /\ slot' = [slot EXCEPT ![x.fd] = f] /\ watched' = watched \cup {x.fd}
  PROVE  Places' /\ IomOK'
<1>1. \A t : Queued(t)' <=> Queued(t)  BY DEF Queued
<1>2. \A g \in Fibers : g # f => Callback(g)' = Callback(g)
  BY DEF Callback
<1>3. /\ ~Queued(Ready(f)) /\ \A fd \in Fds : ~Registered(f, fd)
      /\ \A t \in Task : Queued(t) /\ t.fiber = f => t.run = "timeout"
  BY RunningAlone
<1>4. IomOK /\ Waiting /\ Kernel /\ Parked /\ f # None
  BY HookAssumption DEF HInv, TypeOK, IomOK
<1>5. /\ IomOK'
      /\ \A y \in Fds : \/ slot'[y] = slot[y] /\ (y \in watched' <=> y \in watched)
                       \/ /\ slot'[y] = f /\ y = x.fd /\ slot[y] = None
                          /\ x.op \in Waits /\ y \in open /\ stale[y] = None
                          /\ y \in watched'
      /\ x.op \in Waits => slot'[x.fd] = f /\ x.fd \in watched'
      /\ watched \subseteq watched'
  BY <1>4 DEF Waits, IomOK, Kernel
<1>6. /\ \A g \in Fibers, y \in Fds : g # f /\ Registered(g, y)' => Registered(g, y)
      /\ \A g \in Fibers, y \in Fds : g # f /\ Registered(g, y) => Registered(g, y)'
      /\ \A y \in Fds : Registered(f, y)' => y = x.fd /\ x.op \in Waits
  <2>1. \A g \in Fibers : g # None  BY HookAssumption
  <2> QED  BY <1>3, <1>5, <2>1 DEF Registered
<1>7. Waiting' /\ Kernel' /\ Parked'
  <2>1. Waiting'
    <3> SUFFICES ASSUME NEW y \in Fds, NEW g \in Fibers, Registered(g, y)'
                 PROVE  /\ fiber'[g].pc = "parked"
                        /\ fiber'[g].op \in Waits
                        /\ fiber'[g].fd = y
                        /\ ~Queued(Ready(g))'
      BY DEF Waiting
    <3>1. CASE g = f  BY <1>1, <1>3, <1>6, <3>1
    <3>2. CASE g # f  BY <1>1, <1>4, <1>6, <3>2 DEF Waiting
    <3> QED  BY <3>1, <3>2
  <2>2. Kernel'
    <3>1. watched' \subseteq open'  BY <1>4 DEF Kernel
    <3>2. \A y \in Fds : stale'[y] # None => y \in watched' /\ slot'[y] = None
      BY <1>4, <1>5 DEF Kernel
    <3>3. \A y \in watched' : Waiter(y)' # None
      BY <1>4, <1>5 DEF Kernel, Waiter, IomOK
    <3> QED  BY <3>1, <3>2, <3>3 DEF Kernel
  <2>3. Parked'
    <3> SUFFICES ASSUME NEW g \in Fibers, fiber'[g].pc = "parked",
                        ~Queued(Ready(g))', g \notin lost'
                 PROVE  Held(g)'
      BY DEF Parked
    <3>1. CASE g = f
      <4>1. x.op \in Waits => Registered(f, x.fd)' /\ x.fd \in watched'
        BY <1>5 DEF Registered
      <4> QED  BY <3>1, <4>1 DEF Held, WillTimeOut, Registered
    <3>2. CASE g # f
      <4>1. fiber'[g] = fiber[g] /\ ~Queued(Ready(g)) /\ g \notin lost
        BY <1>1, <3>2
      <4>2. Held(g)  BY <1>4, <4>1 DEF Parked
      <4>3. WillTimeOut(g) => WillTimeOut(g)'
        BY <1>1, <1>2, <3>2, <4>1 DEF WillTimeOut
      <4>4. fiber[g].op \in Waits =>
              Registered(g, fiber[g].fd)' /\ fiber[g].fd \in watched'
        <5> SUFFICES ASSUME fiber[g].op \in Waits
                     PROVE  Registered(g, fiber[g].fd)' /\ fiber[g].fd \in watched'
          OBVIOUS
        <5> DEFINE y == fiber[g].fd
        <5>1. Registered(g, y) /\ y \in watched /\ y \in Fds
          BY <1>4, <4>2 DEF Held, IomOK
        <5>2. slot'[y] = slot[y] \/ slot[y] = None  BY <1>5, <5>1
        <5>3. y' = y /\ g # None  BY <4>1, HookAssumption
        <5> QED  BY <1>5, <5>1, <5>2, <5>3 DEF Registered
      <4> QED  BY <4>1, <4>2, <4>3, <4>4 DEF Held, Registered
    <3> QED  BY <3>1, <3>2
  <2> QED  BY <2>1, <2>2, <2>3
<1>8. ASSUME NEW t \in Task, Queued(t) PROVE TaskFits(t)'
  <2>1. TaskFits(t) /\ t.fiber \in Fibers  BY <1>8 DEF HInv, Tasks, Task
  <2>2. CASE t.fiber # f
    <3>1. /\ fiber'[t.fiber] = fiber[t.fiber]
          /\ expired'[t.fiber] = expired[t.fiber]
          /\ Callback(t.fiber)' = Callback(t.fiber)
          /\ Queued(Ready(t.fiber))' <=> Queued(Ready(t.fiber))
      BY <1>1, <1>2, <2>1, <2>2
    <3> QED  BY <2>1, <3>1 DEF TaskFits
  <2>3. CASE t.fiber = f
    <3>1. t.run = "timeout"  BY <1>3, <1>8, <2>3
    <3>2. t.call \in Int /\ fiber[f].calls \in Int
      BY HookAssumption DEF Task, HInv, TypeOK, Fiber
    <3>3. /\ t.call <= fiber[f].calls
          /\ fiber[f].op \in Waits /\ t.call = fiber[f].calls =>
               expired[f] /\ t.fd = fiber[f].fd
      BY <2>1, <2>3, <3>1 DEF TaskFits
    <3>4. /\ t.call <= x.calls
          /\ x.op \in Waits /\ t.call = x.calls => expired'[f] /\ t.fd = x.fd
      BY <3>2, <3>3 DEF Waits
    <3> QED  BY <2>3, <3>1, <3>4 DEF TaskFits
  <2> QED  BY <2>2, <2>3
<1>9. Tasks'  BY <1>1, <1>8 DEF HInv, Tasks, Solo
<1> QED  BY <1>5, <1>7, <1>9 DEF Places

\* sleep() parks the fiber with its timer armed ...
LEMMA HInvSleep ==
  ASSUME HInv, NEW f \in Fibers, Sleep(f)
  PROVE  HInv'
<1> DEFINE c == Called(fiber[f], "sleep", None, TRUE)
           x == [c EXCEPT !.pc = "parked", !.armed = TRUE]
<1>1. /\ fiber[f].pc \in Running /\ fiber[f].calls < MaxCalls
      /\ UNCHANGED <<open, nonblock, ready, ctx, watched, slot, stale, lost, queue,
                     proc>>
      /\ cur' = None /\ worker' = "scan"
      /\ fiber' = [fiber EXCEPT ![f] = x]
      /\ expired' = [expired EXCEPT ![f] = FALSE]
  BY DEF Sleep, MayCall, InUser, Running, kernelVars, iomVars
<1>2. fiber[f] \in Fiber  BY DEF HInv, TypeOK
<1>a. /\ queue \in Seq(Task) /\ fiber \in [Fibers -> Fiber]
      /\ expired \in [Fibers -> BOOLEAN]
  BY DEF HInv, TypeOK
<1>3. fiber[f].calls + 1 \in 0 .. MaxCalls
  BY <1>1, <1>2, HookAssumption DEF Fiber
<1>b. /\ c \in Fiber /\ c.op = "sleep" /\ c.fd = None /\ c.timed
      /\ c.rc = "other" /\ ~c.cancelled /\ c.calls = fiber[f].calls + 1
  BY <1>2, <1>3 DEF Called, New, Fiber
<1> HIDE DEF c
<1>4. /\ x \in Fiber /\ x.pc = "parked" /\ x.op = "sleep" /\ x.fd = None
      /\ x.timed /\ x.armed /\ x.rc = "other"
      /\ ~x.cancelled /\ x.calls = fiber[f].calls + 1
  BY <1>b DEF Fiber
<1> HIDE DEF x
<1>5. Record(x)  BY <1>4 DEF Record, Waits
<1>6. /\ fiber'[f] = x
      /\ \A g \in Fibers : g # f => fiber'[g] = fiber[g] /\ expired'[g] = expired[g]
  BY <1>1, <1>a
<1>7. Places' /\ IomOK'  BY <1>1, <1>4, <1>6, ParkPlaces
<1>8. \A g \in Fibers : fiber'[g].pc \notin Running
  BY <1>1, <1>4, <1>6, HookAssumption DEF HInv, OneRuns, Running
<1> QED  BY <1>1, <1>a, <1>4, <1>5, <1>7, <1>8, OneChanges

\* ... and a call that would block parks it on its descriptor, or aborts.
LEMMA HInvWait ==
  ASSUME HInv, NEW f \in Fibers, Wait(f)
  PROVE  HInv'
<1> DEFINE fd == fiber[f].fd
           x == [fiber[f] EXCEPT !.pc = "parked", !.armed = fiber[f].timed]
<1>1. fiber[f].pc = "wait"  BY DEF Wait
<1>2. /\ fiber[f] \in Fiber /\ queue \in Seq(Task) /\ fiber \in [Fibers -> Fiber]
      /\ ready \in [Fds -> SUBSET Event]
      /\ expired \in [Fibers -> BOOLEAN] /\ Record(fiber[f])
      /\ ~fiber[f].cancelled
  BY <1>1 DEF HInv, TypeOK, Records, Cancelled
<1>3. fiber[f].op \in Waits /\ fd \in Fds /\ fd \in open /\ fiber[f].rc = "other"
  BY <1>1, <1>2 DEF Record, Waits
<1>4. CASE Abort("addEvent")  BY <1>4, HInvAbort
<1>5. CASE Park(f, fd) /\ UNCHANGED <<kernelVars, ctx, expired, proc>>
  <2>1. /\ slot[fd] = None /\ fd \notin watched
        /\ slot' = [slot EXCEPT ![fd] = f] /\ watched' = watched \cup {fd}
        /\ fiber' = [fiber EXCEPT ![f] = x]
        /\ cur' = None /\ worker' = "scan"
        /\ UNCHANGED <<open, nonblock, ready, ctx, queue, stale, lost, expired, proc>>
    BY <1>2, <1>5 DEF Park, kernelVars
  <2>2. /\ x \in Fiber /\ x.pc = "parked" /\ x.op = fiber[f].op /\ x.fd = fd
        /\ x.timed = fiber[f].timed /\ x.armed = fiber[f].timed
        /\ x.rc = fiber[f].rc /\ x.cancelled = fiber[f].cancelled
        /\ x.calls = fiber[f].calls
    BY <1>2 DEF Fiber
  <2> HIDE DEF x
  <2>3. Record(x)  BY <1>3, <2>2 DEF Record, Waits
  <2>4. /\ fiber'[f] = x
        /\ \A g \in Fibers : g # f => fiber'[g] = fiber[g] /\ expired'[g] = expired[g]
    BY <1>2, <2>1
  <2>5. Places' /\ IomOK'
    <3>1. x.timed => x.armed  BY <2>2
    <3>2. fiber[f].pc \in Running  BY <1>1 DEF Running
    <3>3. /\ x.op \in Waits /\ x.op = fiber[f].op /\ x.fd = fiber[f].fd
          /\ x.calls = fiber[f].calls /\ expired'[f] = expired[f]
          /\ x.fd \in Fds /\ x.fd \in open
          /\ slot[x.fd] = None /\ x.fd \notin watched
          /\ slot' = [slot EXCEPT ![x.fd] = f] /\ watched' = watched \cup {x.fd}
      BY <1>3, <2>1, <2>2
    <3>4. ~x.cancelled /\ x.pc = "parked"  BY <1>2, <2>2
    <3>5. UNCHANGED <<queue, open, stale, lost>>  BY <2>1
    <3>6. x \in Fiber  BY <2>2
    <3> HIDE DEF fd
    <3> QED  BY <2>4, <3>1, <3>2, <3>3, <3>4, <3>5, <3>6, ParkPlaces
  <2>6. \A g \in Fibers : fiber'[g].pc \notin Running
    BY <1>1, <2>2, <2>4, HookAssumption DEF HInv, OneRuns, Running
  <2>7. expired' = [expired EXCEPT ![f] = expired[f]] /\ expired[f] \in BOOLEAN
    BY <1>2, <2>1
  <2> QED  BY <1>2, <1>3, <2>1, <2>2, <2>3, <2>5, <2>6, <2>7, OneChanges
<1>6. CASE Refused(f, fd) /\ UNCHANGED <<kernelVars, ctx, expired, proc>>
  <2> DEFINE y == Returned(fiber[f], "other")
  <2>1. /\ fiber' = [fiber EXCEPT ![f] = y]
        /\ UNCHANGED <<open, nonblock, ready, ctx, watched, slot, stale, lost, queue,
                       worker, cur, expired, proc>>
    BY <1>2, <1>6 DEF Refused, GiveUp, kernelVars, iomVars, workerVars
  <2>2. /\ y \in Fiber /\ y.pc = "user" /\ y.op = "none"
        /\ y.armed = FALSE /\ y.rc = "other"
        /\ y.cancelled = FALSE /\ y.calls = fiber[f].calls
    BY <1>2, ReturnedType
  <2> HIDE DEF y
  <2>3. Record(y)  BY <2>2 DEF Record, Waits
  <2>4. expired' = [expired EXCEPT ![f] = expired[f]] /\ expired[f] \in BOOLEAN
    BY <1>2, <2>1
  <2>5. ready' \in [Fds -> SUBSET Event]  BY <1>2, <2>1
  <2> QED  BY <1>1, <2>1, <2>2, <2>3, <2>4, <2>5, RunStep DEF Running
<1> QED  BY <1>4, <1>5, <1>6 DEF Wait
-----------------------------------------------------------------------------
(***************************************************************************)
(* Steps of the worker that take a task or list one                        *)
(***************************************************************************)
\* Taking a task that wakes a fiber leaves the other tasks.
LEMMA TakeIn ==
  ASSUME TypeOK, Tasks, queue # <<>>
  PROVE  /\ Tail(queue) \in Seq(Task) /\ Solo(Tail(queue))
         /\ Head(queue) \in Task /\ TaskFits(Head(queue))
         /\ \A t : In(Tail(queue), t) => Queued(t)
         /\ \A t : Queued(t) => In(Tail(queue), t) \/ t = Head(queue)
         /\ Head(queue).run # "timeout" => ~In(Tail(queue), Head(queue))
<1>1. queue \in Seq(Task) /\ Solo(queue)  BY DEF TypeOK, Tasks
<1>2. \A t : In(queue, t) <=> Queued(t)  BY DEF In, Queued
<1>3. /\ Tail(queue) \in Seq(Task) /\ Head(queue) \in Task /\ In(queue, Head(queue))
      /\ \A u : In(Tail(queue), u) => In(queue, u)
      /\ \A u : In(queue, u) => In(Tail(queue), u) \/ u = Head(queue)
      /\ Solo(Tail(queue))
      /\ Head(queue).run # "timeout" => ~In(Tail(queue), Head(queue))
  BY <1>1, TailIn
<1>4. TaskFits(Head(queue))  BY <1>2, <1>3 DEF Tasks
<1> QED  BY <1>1, <1>2, <1>3, <1>4

\* Who resumes was parked or new; a call that timed out says so.
LEMMA ResumedFits ==
  ASSUME HInv, NEW f \in Fibers, TaskFits(Ready(f)), NEW x, x = Resumed(fiber[f])
  PROVE  /\ x \in Fiber /\ Record(x) /\ x.pc \in Running /\ ~x.cancelled
         /\ x.rc = "ETIMEDOUT" => expired[f]
         /\ x.calls = fiber[f].calls
         /\ x.op \in Waits => x.op = fiber[f].op /\ x.fd = fiber[f].fd
<1> DEFINE y == fiber[f]
<1>1. y \in Fiber /\ Record(y) /\ (y.cancelled => expired[f])
      /\ (y.rc = "ETIMEDOUT" => expired[f])
  BY DEF HInv, TypeOK, Records, Cancelled, TimedOut
<1>2. y.pc \in {"new", "parked"}
  BY DEF TaskFits, Ready
<1> HIDE DEF y
<1>3. CASE y.pc = "new"
  <2>1. x = [y EXCEPT !.pc = "user"] /\ y = New
    BY <1>1, <1>3 DEF Resumed, y, Record
  <2>2. x.pc = "user" /\ x.op = "none" /\ x.rc = "other" /\ x.armed = FALSE
        /\ x.cancelled = FALSE /\ x.calls = y.calls
    BY <2>1 DEF New
  <2>3. x \in Fiber  BY <1>1, <2>1 DEF Fiber
  <2> QED  BY <2>2, <2>3 DEF Record, Waits, Running, y
<1>4. CASE y.pc = "parked" /\ y.op = "io" /\ ~y.cancelled
  <2>1. x = [[y EXCEPT !.armed = FALSE] EXCEPT !.pc = "try"]
    BY <1>4 DEF Resumed, CancelTimer, y
  <2>2. /\ x \in Fiber /\ x.pc = "try" /\ x.op = y.op /\ x.fd = y.fd /\ x.rc = y.rc
        /\ x.armed = FALSE /\ x.cancelled = y.cancelled /\ x.calls = y.calls
    BY <1>1, <2>1 DEF Fiber
  <2> QED  BY <1>1, <1>4, <2>2 DEF Record, Waits, Running, y
<1>5. CASE y.pc = "parked" /\ ~(y.op = "io" /\ ~y.cancelled)
  <2>0. PICK rc \in {"ETIMEDOUT", "other"} :
          rc = IF y.cancelled THEN "ETIMEDOUT" ELSE "other"
    OBVIOUS
  <2> DEFINE z == Returned(y, rc)
  <2>1. x = [z EXCEPT !.armed = FALSE]
    <3>1. CancelTimer(y).armed = FALSE  BY <1>1 DEF CancelTimer, Fiber
    <3> QED  BY <1>5, <2>0, <3>1 DEF Resumed, y
  <2>2. /\ z \in Fiber /\ z.pc = "user" /\ z.op = "none" /\ z.rc = rc
        /\ z.cancelled = FALSE /\ z.calls = y.calls
    BY <1>1, ReturnedType
  <2> HIDE DEF z
  <2>3. /\ x \in Fiber /\ x.pc = "user" /\ x.op = "none" /\ x.rc = rc
        /\ x.armed = FALSE /\ x.cancelled = FALSE /\ x.calls = y.calls
    BY <2>1, <2>2 DEF Fiber
  <2>4. rc = "ETIMEDOUT" => expired[f]  BY <1>1, <2>0
  <2> QED  BY <2>3, <2>4 DEF Record, Waits, Running, y
<1> QED  BY <1>2, <1>3, <1>4, <1>5

\* run() takes a fiber: it is in no place any more.
LEMMA HInvResume ==
  ASSUME HInv, NEW f \in Fibers, Resume(f)
  PROVE  HInv'
<1> DEFINE x == Resumed(fiber[f])
<1>1. /\ worker = "scan" /\ queue # <<>> /\ Head(queue) = Ready(f)
      /\ queue' = Tail(queue)
      /\ lost' = lost \ {f}
      /\ UNCHANGED <<open, nonblock, ready, ctx, watched, slot, stale, expired, proc>>
  BY DEF Resume, Take, kernelVars
<1>2. TypeOK /\ Tasks /\ Ready(f) \in Task /\ Ready(f).run = "fiber" /\ Ready(f).fiber = f
      /\ \A g : Ready(g) = Ready(f) => g = f
  BY TaskTypes DEF HInv
<1>3. /\ queue' \in Seq(Task) /\ Solo(queue') /\ TaskFits(Ready(f)) /\ Queued(Ready(f))
      /\ \A t : Queued(t)' <=> Queued(t) /\ t # Ready(f)
  <2>1. \A t : Queued(t)' <=> In(Tail(queue), t)  BY <1>1 DEF Queued, In
  <2>2. queue \in Seq(Task)  BY <1>2 DEF TypeOK
  <2>3. Queued(Ready(f))  BY <1>1, <2>2, TailIn DEF In, Queued
  <2> QED  BY <1>1, <1>2, <2>1, <2>3, TakeIn
<1>4. fiber[f].pc \in {"new", "parked"}  BY <1>2, <1>3 DEF TaskFits
<1>5. fiber' = [fiber EXCEPT ![f] = x] /\ worker' = "run" /\ cur' = f
  BY <1>4 DEF Resume
<1>6. /\ x \in Fiber /\ Record(x) /\ x.pc \in Running /\ ~x.cancelled
      /\ x.rc = "ETIMEDOUT" => expired[f]
      /\ x.calls = fiber[f].calls
      /\ x.op \in Waits => x.op = fiber[f].op /\ x.fd = fiber[f].fd
  BY <1>3, ResumedFits
<1> HIDE DEF x
<1>7. /\ fiber'[f] = x /\ x.pc # "parked"
      /\ \A g \in Fibers : g # f => fiber'[g] = fiber[g] /\ Callback(g)' = Callback(g)
  BY <1>2, <1>5, <1>6 DEF TypeOK, Running, Callback
<1>8. Waiting' /\ Kernel'
  <2>1. \A g, fd : Registered(g, fd)' <=> Registered(g, fd)
    BY <1>1 DEF Registered
  <2>2. \A fd \in Fds : ~Registered(f, fd)  BY <1>3 DEF HInv, Waiting
  <2>3. Waiting'  BY <1>3, <1>7, <2>1, <2>2, WaitingKept DEF HInv
  <2>4. Kernel'  BY <1>1 DEF HInv, Kernel, Waiter
  <2> QED  BY <2>3, <2>4
<1>9. Parked'
  <2>1. ASSUME NEW g \in Fibers, fiber'[g].pc = "parked", ~Queued(Ready(g))'
        PROVE  g # f /\ fiber'[g] = fiber[g] /\ ~Queued(Ready(g))
    BY <1>2, <1>3, <1>7, <2>1
  <2>2. ASSUME NEW g \in Fibers, g # f, Held(g)  PROVE Held(g)'
    <3>1. fiber'[g] = fiber[g]  BY <1>7, <2>2
    <3>2. Callback(g) # Ready(f)  BY <1>2, <2>2, TaskTypes
    <3>3. WillTimeOut(g) => WillTimeOut(g)'
      BY <1>3, <1>7, <2>2, <3>1, <3>2 DEF WillTimeOut
    <3> QED  BY <1>1, <2>2, <3>1, <3>3 DEF Held, Registered
  <2>3. \A g \in Fibers : g # f /\ g \notin lost' => g \notin lost  BY <1>1
  <2> QED  BY <2>1, <2>2, <2>3, ParkedKept DEF HInv
<1>10. ASSUME NEW t \in Task, Queued(t)' PROVE TaskFits(t)'
  <2>1. TaskFits(t) /\ t.fiber \in Fibers /\ t # Ready(f) /\ Queued(t)
        /\ t.run \in {"fiber", "timeout", "wakeup"}
    BY <1>2, <1>3, <1>10 DEF Tasks, Task
  <2>2. CASE t.fiber # f
    <3>1. /\ fiber'[t.fiber] = fiber[t.fiber]
          /\ expired'[t.fiber] = expired[t.fiber]
          /\ Callback(t.fiber)' = Callback(t.fiber)
          /\ Queued(Ready(t.fiber))' => Queued(Ready(t.fiber))
      BY <1>1, <1>3, <1>7, <2>1, <2>2
    <3> QED  BY <2>1, <3>1 DEF TaskFits
  <2>3. CASE t.fiber = f
    <3>1. t.run = "timeout"  BY <1>3, <2>1, <2>3 DEF TaskFits
    <3>2. /\ t.call <= fiber[f].calls
          /\ fiber[f].op \in Waits /\ t.call = fiber[f].calls =>
               expired[f] /\ t.fd = fiber[f].fd
      BY <2>1, <2>3, <3>1 DEF TaskFits
    <3> QED  BY <1>1, <1>6, <1>7, <2>3, <3>1, <3>2 DEF TaskFits
  <2> QED  BY <2>2, <2>3
<1>11. Places'  BY <1>3, <1>8, <1>9, <1>10 DEF Places, Tasks
<1>12. \A g \in Fibers : fiber'[g].pc \in Running <=> worker' = "run" /\ cur' = g
  <2>1. \A g \in Fibers : fiber[g].pc \notin Running  BY <1>1 DEF HInv, OneRuns
  <2> QED  BY <1>5, <1>6, <1>7, <2>1
<1>13. expired' = [expired EXCEPT ![f] = expired[f]] /\ expired[f] \in BOOLEAN
       /\ IomOK'
  BY <1>1, <1>2 DEF TypeOK, IomOK
<1>14. worker' \in {"scan", "run", "expire", "events"} /\ cur' \in Fibers \cup {None}
  BY <1>5
<1>15. x.cancelled => x.pc = "parked" /\ x.op \in Waits /\ expired[f]
  BY <1>6
<1> QED  BY <1>1, <1>3, <1>5, <1>6, <1>11, <1>12, <1>13, <1>14, <1>15, OneChanges

\* The end of a sleep moves the fiber from its callback to the queue.
LEMMA HInvWakeUp ==
  ASSUME HInv, queue # <<>>, WakeUp(Head(queue))
  PROVE  HInv'
<1> DEFINE k == Head(queue)
           g == k.fiber
<1>1. /\ k.run = "wakeup" /\ queue' = Append(Tail(queue), Ready(g))
      /\ UNCHANGED <<open, nonblock, ready, ctx, watched, slot, stale, lost, worker,
                     cur, fiber, expired, proc>>
  BY DEF WakeUp, kernelVars, iomVars
<1>2. TypeOK /\ Tasks  BY DEF HInv
<1>3. /\ Tail(queue) \in Seq(Task) /\ Solo(Tail(queue))
      /\ k \in Task /\ TaskFits(k)
      /\ \A t : In(Tail(queue), t) <=> Queued(t) /\ t # k
  BY <1>1, <1>2, TakeIn
<1>4. g \in Fibers  BY <1>3 DEF Task
<1> HIDE DEF k, g
<1>5. /\ Ready(g) \in Task /\ Ready(g).run = "fiber" /\ Ready(g).fiber = g
      /\ \A h : Ready(h) = Ready(g) => h = g
  BY <1>2, <1>4, TaskTypes
<1>6. /\ fiber[g].op = "sleep" /\ fiber[g].pc = "parked" /\ ~fiber[g].armed
      /\ k = Callback(g) /\ ~Queued(Ready(g))
  BY <1>1, <1>3, <1>4 DEF TaskFits, g, HInv, Records, Record
<1>7. /\ queue' \in Seq(Task) /\ Solo(queue')
      /\ \A t : Queued(t)' <=> (Queued(t) /\ t # k) \/ t = Ready(g)
  <2>1. ~In(Tail(queue), Ready(g))  BY <1>3, <1>6
  <2>2. \A t : Queued(t)' <=> In(Append(Tail(queue), Ready(g)), t)
    BY <1>1 DEF Queued, In
  <2> QED  BY <1>1, <1>3, <1>5, <2>1, <2>2, AppendIn
<1>8. \A f : Callback(f)' = Callback(f)  BY <1>1 DEF Callback
<1>9. Waiting' /\ Kernel'
  <2>1. \A h, fd : Registered(h, fd)' <=> Registered(h, fd)
    BY <1>1 DEF Registered
  <2>2. \A fd \in Fds : ~Registered(g, fd)  BY <1>4, <1>6 DEF HInv, Waiting, Waits
  <2>3. \A h \in Fibers : h # g => (Queued(Ready(h))' => Queued(Ready(h)))
    BY <1>5, <1>7
  <2>4. Waiting'  BY <1>1, <2>1, <2>2, <2>3, WaitingKept DEF HInv
  <2>5. Kernel'  BY <1>1 DEF HInv, Kernel, Waiter
  <2> QED  BY <2>4, <2>5
<1>10. Parked'
  <2>1. ASSUME NEW h \in Fibers, ~Queued(Ready(h))'
        PROVE  /\ ~Queued(Ready(h))
               /\ Held(h) => Held(h)'
    <3>1. Ready(h).run = "fiber" /\ Callback(h).fiber = h /\ Callback(g).fiber = g
      BY <1>2, <1>4, TaskTypes
    <3>2. h # g /\ ~Queued(Ready(h))  BY <1>1, <1>7, <2>1, <3>1
    <3>3. Callback(h) # k  BY <1>6, <3>1, <3>2
    <3>4. WillTimeOut(h) => WillTimeOut(h)'
      BY <1>1, <1>7, <1>8, <3>3 DEF WillTimeOut
    <3> QED  BY <1>1, <3>2, <3>4 DEF Held, Registered
  <2> QED  BY <1>1, <2>1, ParkedKept DEF HInv
<1>11. ASSUME NEW t \in Task, Queued(t)' PROVE TaskFits(t)'
  <2>1. CASE t = Ready(g)
    BY <1>1, <1>5, <1>6, <2>1 DEF TaskFits
  <2>2. CASE Queued(t) /\ t # k
    <3>1. TaskFits(t)  BY <1>2, <2>2 DEF Tasks
    <3>2. t.run = "wakeup" => ~Queued(Ready(t.fiber))'
      BY <1>5, <1>6, <1>7, <2>2, <3>1 DEF TaskFits
    <3> QED  BY <1>1, <1>8, <3>1, <3>2 DEF TaskFits
  <2> QED  BY <1>7, <1>11, <2>1, <2>2
<1>12. Places'  BY <1>7, <1>9, <1>10, <1>11 DEF Places, Tasks
<1>13. TypeOK'  BY <1>1, <1>2, <1>7 DEF TypeOK
<1>14. Sockets'  BY <1>1 DEF HInv, Sockets
<1> QED  BY <1>1, <1>12, <1>13, <1>14, NoFiberChanges DEF HInv, Records, Record

\* A timer that expires is replaced by its callback in the queue.
LEMMA HInvExpire ==
  ASSUME HInv, NEW f \in Fibers, Expire(f)
  PROVE  HInv'
<1> DEFINE x == [fiber[f] EXCEPT !.armed = FALSE]
           k == Callback(f)
<1>1. /\ worker = "expire" /\ fiber[f].armed
      /\ fiber' = [fiber EXCEPT ![f] = x]
      /\ expired' = [expired EXCEPT ![f] = TRUE]
      /\ queue' = Append(queue, k)
      /\ UNCHANGED <<open, nonblock, ready, ctx, watched, slot, stale, lost, worker,
                     cur, proc>>
  BY DEF Expire, kernelVars, iomVars, HInv, TypeOK
<1>2. TypeOK /\ Tasks /\ queue \in Seq(Task) /\ fiber[f] \in Fiber /\ Record(fiber[f])
  BY DEF HInv, TypeOK, Records
<1>3. /\ k \in Task /\ k.fiber = f
      /\ k.run = IF fiber[f].op = "sleep" THEN "wakeup" ELSE "timeout"
      /\ k.fd = fiber[f].fd /\ k.call = fiber[f].calls
  BY <1>2, TaskTypes
<1>4. /\ x \in Fiber /\ x.pc = "parked" /\ x.op = fiber[f].op /\ x.fd = fiber[f].fd
      /\ x.timed = fiber[f].timed /\ x.armed = FALSE /\ x.rc = fiber[f].rc
      /\ x.cancelled = fiber[f].cancelled /\ x.calls = fiber[f].calls
      /\ fiber[f].pc = "parked" /\ fiber[f].op # "none"
  BY <1>1, <1>2 DEF Fiber, Record
<1> HIDE DEF x
<1>5. /\ queue' \in Seq(Task) /\ Solo(queue')
      /\ \A t : Queued(t)' <=> Queued(t) \/ t = k
  <2>1. In(queue, k) => k.run = "timeout"
    <3> SUFFICES ASSUME In(queue, k), k.run = "wakeup" PROVE FALSE
      BY <1>3
    <3>1. TaskFits(k)  BY <1>2, <1>3 DEF Tasks, In, Queued
    <3> QED  BY <1>1, <1>3, <3>1 DEF TaskFits
  <2>2. \A t : Queued(t)' <=> In(Append(queue, k), t)  BY <1>1 DEF Queued, In
  <2>3. \A t : Queued(t) <=> In(queue, t)  BY DEF Queued, In
  <2>4. Solo(queue)  BY <1>2 DEF Tasks
  <2> HIDE DEF k
  <2> QED  BY <1>1, <1>2, <1>3, <2>1, <2>2, <2>3, <2>4, AppendIn
<1>6. /\ fiber'[f] = x /\ expired'[f] = TRUE
      /\ \A g \in Fibers : g # f => fiber'[g] = fiber[g] /\ expired'[g] = expired[g]
  BY <1>1, <1>2 DEF TypeOK
<1>7. \A g \in Fibers : Callback(g)' = Callback(g)
  BY <1>4, <1>6 DEF Callback
<1>8. \A g : Ready(g) # k
  BY <1>3 DEF Ready
<1> HIDE DEF k
<1>a. \A h \in Fibers : /\ fiber'[h].pc = fiber[h].pc /\ fiber'[h].op = fiber[h].op
                          /\ fiber'[h].fd = fiber[h].fd
                          /\ fiber'[h].timed = fiber[h].timed
                          /\ fiber'[h].cancelled = fiber[h].cancelled
                          /\ (Queued(Ready(h))' <=> Queued(Ready(h)))
  BY <1>4, <1>5, <1>6, <1>8
<1>9. Waiting' /\ Kernel'
  <2>1. \A h, fd : Registered(h, fd)' <=> Registered(h, fd)
    BY <1>1 DEF Registered
  <2>2. Waiting'  BY <1>a, <2>1, WaitingKept DEF HInv
  <2>3. Kernel'  BY <1>1 DEF HInv, Kernel, Waiter
  <2> QED  BY <2>2, <2>3
<1>10. Parked'
  <2>1. ASSUME NEW h \in Fibers, Held(h) PROVE Held(h)'
    <3>1. WillTimeOut(h) => WillTimeOut(h)'
      <4>1. CASE h = f
        <5>1. Queued(Callback(f)) \/ Callback(f) = k  BY DEF k
        <5>2. Queued(Callback(f))'  BY <1>5, <1>7, <5>1
        <5> QED  BY <4>1, <5>2 DEF WillTimeOut
      <4>2. CASE h # f
        BY <1>5, <1>6, <1>7, <4>2 DEF WillTimeOut
      <4> QED  BY <4>1, <4>2
    <3>2. \A fd : Registered(h, fd)' <=> Registered(h, fd)
      BY <1>1 DEF Registered
    <3> QED  BY <1>1, <1>a, <2>1, <3>1, <3>2 DEF Held, Registered
  <2> QED  BY <1>1, <1>a, <2>1, ParkedKept DEF HInv
<1>11. ASSUME NEW t \in Task, Queued(t)' PROVE TaskFits(t)'
  <2>1. CASE t = k
    <3>1. t.run = "wakeup" => ~Queued(Ready(f))'
      <4> SUFFICES ASSUME fiber[f].op = "sleep", Queued(Ready(f)) PROVE FALSE
        BY <1>3, <1>5, <1>8, <2>1
      <4>1. /\ Ready(f) \in Task /\ Ready(f).run = "fiber" /\ Ready(f).fiber = f
        BY <1>2, TaskTypes
      <4>2. TaskFits(Ready(f))  BY <1>2, <4>1 DEF Tasks
      <4> QED  BY <1>1, <4>1, <4>2 DEF TaskFits
    <3>2. t = Callback(f)'  BY <1>7, <2>1 DEF k
    <3>3. t.call \in Int  BY HookAssumption DEF Task
    <3> QED  BY <1>3, <1>4, <1>6, <2>1, <3>1, <3>2, <3>3 DEF TaskFits
  <2>2. CASE Queued(t)
    <3>1. TaskFits(t) /\ t.fiber \in Fibers /\ t.run \in {"fiber", "timeout", "wakeup"}
      BY <1>2, <2>2 DEF Tasks, Task
    <3>2. CASE t.fiber # f
      <4>1. /\ fiber'[t.fiber] = fiber[t.fiber]
            /\ expired'[t.fiber] = expired[t.fiber]
            /\ Callback(t.fiber)' = Callback(t.fiber)
            /\ Queued(Ready(t.fiber))' <=> Queued(Ready(t.fiber))
        BY <1>5, <1>6, <1>7, <1>8, <3>1, <3>2
      <4> QED  BY <3>1, <4>1 DEF TaskFits
    <3>3. CASE t.fiber = f
      <4>1. t.run # "wakeup"  BY <1>1, <3>1, <3>3 DEF TaskFits
      <4> QED  BY <1>4, <1>6, <3>1, <3>3, <4>1 DEF TaskFits, Ready
    <3> QED  BY <3>2, <3>3
  <2> QED  BY <1>5, <1>11, <2>1, <2>2
<1>12. Places'  BY <1>5, <1>9, <1>10, <1>11 DEF Places, Tasks
<1>13. Record(x)
  BY <1>2, <1>4 DEF Record, Waits
<1>14. x.cancelled => x.pc = "parked" /\ x.op \in Waits /\ TRUE
  BY <1>4 DEF HInv, Cancelled
<1>15. \A g \in Fibers : fiber'[g].pc \in Running <=> worker' = "run" /\ cur' = g
  BY <1>1, <1>4, <1>6 DEF HInv, OneRuns
<1>16. IomOK' /\ cur' \in Fibers \cup {None}
       /\ worker' \in {"scan", "run", "expire", "events"}
  BY <1>1, <1>2 DEF TypeOK, IomOK
<1> QED  BY <1>1, <1>4, <1>5, <1>12, <1>13, <1>14, <1>15, <1>16, OneChanges

\* The callback of a call that is over, or marked already, leaves no fiber
\* without a way to wake up ...
LEMMA HInvTimeoutLate ==
  ASSUME HInv, queue # <<>>, Timeout(Head(queue)),
         ~(Alive(Head(queue)) /\ ~fiber[Head(queue).fiber].cancelled)
  PROVE  HInv'
<1> DEFINE k == Head(queue)
<1>1. /\ k.run = "timeout" /\ queue' = Tail(queue)
      /\ UNCHANGED <<open, nonblock, ready, ctx, watched, slot, stale, lost, worker,
                     cur, fiber, expired, proc>>
  BY DEF Timeout, kernelVars, iomVars
<1>2. TypeOK /\ Tasks  BY DEF HInv
<1>3. /\ Tail(queue) \in Seq(Task) /\ Solo(Tail(queue)) /\ k \in Task
      /\ \A t : In(Tail(queue), t) => Queued(t)
      /\ \A t : Queued(t) => In(Tail(queue), t) \/ t = k
  BY <1>2, TakeIn
<1>4. ~(fiber[k.fiber].op \in Waits /\ fiber[k.fiber].calls = k.call
         /\ ~fiber[k.fiber].cancelled)
  BY DEF Alive, Waits
<1> HIDE DEF k
<1>5. /\ queue' \in Seq(Task) /\ Solo(queue')
      /\ \A t : Queued(t)' => Queued(t)
      /\ \A t : Queued(t) => Queued(t)' \/ t = k
  <2>1. \A t : Queued(t)' <=> In(Tail(queue), t)  BY <1>1 DEF Queued, In
  <2> QED  BY <1>1, <1>3, <2>1
<1>6. \A f : Callback(f)' = Callback(f)  BY <1>1 DEF Callback
<1>7. \A f \in Fibers : Queued(Ready(f))' <=> Queued(Ready(f))
  <2>1. \A f \in Fibers : Ready(f).run = "fiber"  BY <1>2, TaskTypes
  <2> QED  BY <1>1, <1>5, <2>1
<1>8. Waiting' /\ Kernel'
  <2>1. \A h, fd : Registered(h, fd)' <=> Registered(h, fd)
    BY <1>1 DEF Registered
  <2>2. Waiting'  BY <1>1, <1>7, <2>1, WaitingKept DEF HInv
  <2>3. Kernel'  BY <1>1 DEF HInv, Kernel, Waiter
  <2> QED  BY <2>2, <2>3
<1>9. Parked'
  <2>1. ASSUME NEW h \in Fibers, fiber[h].pc = "parked", Held(h)
        PROVE  Held(h)'
    <3>2. fiber[h] \in Fiber /\ fiber[h].op # "none"
      BY <2>1 DEF HInv, TypeOK, Records, Record
    <3>3. fiber[h].op = "sleep" \/ fiber[h].op \in Waits
      BY <3>2 DEF Fiber, Waits
    <3>4. Callback(h) # k
      <4> SUFFICES ASSUME Callback(h) = k PROVE FALSE  OBVIOUS
      <4>1. /\ k.fiber = h /\ k.call = fiber[h].calls
            /\ k.run = IF fiber[h].op = "sleep" THEN "wakeup" ELSE "timeout"
        BY <1>2, TaskTypes
      <4>2. ~fiber[h].cancelled  BY <2>1 DEF Held
      <4> QED  BY <1>1, <1>4, <3>3, <4>1, <4>2
    <3>5. WillTimeOut(h) => WillTimeOut(h)'
      BY <1>1, <1>5, <1>6, <3>4 DEF WillTimeOut
    <3> QED  BY <1>1, <2>1, <3>5 DEF Held, Registered
  <2> QED  BY <1>1, <1>7, <2>1, ParkedKept DEF HInv
<1>10. ASSUME NEW t \in Task, Queued(t)' PROVE TaskFits(t)'
  <2>1. TaskFits(t) /\ t.fiber \in Fibers  BY <1>2, <1>5, <1>10 DEF Tasks, Task
  <2> QED  BY <1>1, <1>6, <1>7, <2>1 DEF TaskFits
<1>11. Places'  BY <1>5, <1>8, <1>9, <1>10 DEF Places, Tasks
<1>12. TypeOK'  BY <1>1, <1>2, <1>5 DEF TypeOK
<1>13. Sockets'  BY <1>1 DEF HInv, Sockets
<1> QED  BY <1>1, <1>11, <1>12, <1>13, NoFiberChanges DEF HInv, Records, Record

\* ... and that of a call in progress marks it; its fiber is or gets queued, or
\* is lost; if another one waits for the descriptor now, that one is triggered.
LEMMA HInvTimeout ==
  ASSUME HInv, queue # <<>>, NEW k \in Task, k = Head(queue), Timeout(k),
         Alive(k), ~fiber[k.fiber].cancelled
  PROVE  HInv'
<1> DEFINE f == k.fiber
           fd == k.fd
           x == [fiber[f] EXCEPT !.cancelled = TRUE]
<1>1. /\ k.run = "timeout" /\ worker = "scan"
      /\ fiber' = [fiber EXCEPT ![f].cancelled = TRUE]
      /\ UNCHANGED <<open, nonblock, ready, ctx, worker, cur, expired, proc>>
  BY DEF Timeout, kernelVars
<1>r. PICK refused \in Refusal :
        /\ IF Reached(fd, refused)
           THEN Trigger(fd, Tail(queue)) /\ Unwatched(fd)
           ELSE queue' = Tail(queue) /\ UNCHANGED <<watched, slot, stale>>
        /\ lost' = lost \cup (Missed(fd, refused) \cap {f})
  BY DEF Timeout
<1>2. TypeOK /\ Tasks  BY DEF HInv
<1>3. /\ Tail(queue) \in Seq(Task) /\ Solo(Tail(queue))
      /\ k \in Task /\ TaskFits(k)
      /\ \A t : In(Tail(queue), t) => Queued(t)
      /\ \A t : Queued(t) => In(Tail(queue), t) \/ t = k
  BY <1>2, TakeIn
<1>4. fiber[f].op \in Waits /\ fiber[f].calls = k.call
  BY DEF Alive, Waits, f
<1>5. f \in Fibers  BY <1>3 DEF Task
<1> HIDE DEF f
<1>6. expired[f] /\ fiber[f].fd = fd
  BY <1>1, <1>3, <1>4 DEF TaskFits, f
<1>7. /\ fiber[f] \in Fiber /\ Record(fiber[f]) /\ fiber[f].pc \notin Running
      /\ fiber \in [Fibers -> Fiber]
  BY <1>1, <1>5 DEF HInv, TypeOK, Records, OneRuns
<1>8. fiber[f].pc = "parked" /\ fd \in Fds /\ fiber[f].rc = "other"
  BY <1>4, <1>6, <1>7 DEF Record, Fiber, Running, New, Waits
<1> HIDE DEF fd
<1>9. /\ fiber' = [fiber EXCEPT ![f] = x]
      /\ x \in Fiber /\ x.pc = fiber[f].pc /\ x.op = fiber[f].op /\ x.fd = fiber[f].fd
      /\ x.timed = fiber[f].timed /\ x.armed = fiber[f].armed /\ x.rc = fiber[f].rc
      /\ x.cancelled = TRUE /\ x.calls = fiber[f].calls
  BY <1>1, <1>5, <1>7 DEF Fiber
<1> HIDE DEF x
<1>10. /\ \A h \in Fibers : /\ fiber'[h].pc = fiber[h].pc /\ fiber'[h].op = fiber[h].op
                            /\ fiber'[h].fd = fiber[h].fd
                            /\ fiber'[h].timed = fiber[h].timed
                            /\ fiber'[h].armed = fiber[h].armed
                            /\ fiber'[h].calls = fiber[h].calls
       /\ \A h \in Fibers : h # f => fiber'[h].cancelled = fiber[h].cancelled
  BY <1>5, <1>7, <1>9
<1>11. \A h \in Fibers : Callback(h)' = Callback(h)  BY <1>10 DEF Callback
<1>12. \A h \in Fibers : /\ Ready(h) \in Task /\ Ready(h).run = "fiber"
                         /\ Ready(h).fiber = h /\ Callback(h).fiber = h
                         /\ \A g : Ready(g) = Ready(h) => g = h
  BY <1>2, TaskTypes
<1>i. IomOK /\ Waiting /\ Kernel /\ Parked  BY DEF HInv, TypeOK, IomOK
<1>n. None \notin Fibers  BY HookAssumption
<1>g. PICK g \in Fibers \cup {None} :
        /\ g # None => /\ g = Waiter(fd) /\ Registered(g, fd)
                       /\ Trigger(fd, Tail(queue)) /\ Unwatched(fd)
        /\ g = None => /\ ~Reached(fd, refused) /\ queue' = Tail(queue)
                       /\ UNCHANGED <<watched, slot, stale>>
  <2>1. CASE Reached(fd, refused)
    <3>1. Waiter(fd) \in Fibers /\ Registered(Waiter(fd), fd)
      BY <1>8, <1>i, <2>1, OneWaiter DEF Reached, Kernel
    <3> QED  BY <1>n, <1>r, <2>1, <3>1
  <2>2. CASE ~Reached(fd, refused)  BY <1>r, <2>2
  <2> QED  BY <2>1, <2>2
<1>q. lost' = lost \cup (Missed(fd, refused) \cap {f})  BY <1>r
<1>13. g # None => /\ g \in Fibers /\ fiber[g].fd = fd /\ fiber[g].op \in Waits
                   /\ fiber[g].pc = "parked" /\ ~Queued(Ready(g))
                   /\ \A h \in Fibers : Registered(h, fd) => h = g
  BY <1>8, <1>g, <1>i, OneWaiter DEF Waiting
<1>15. /\ queue' \in Seq(Task) /\ Solo(queue')
       /\ \A t : Queued(t)' => Queued(t) \/ (g # None /\ t = Ready(g))
       /\ \A t : Queued(t) => Queued(t)' \/ t = k
       /\ g # None => Queued(Ready(g))'
  <2>1. CASE g = None
    <3>1. queue' = Tail(queue)  BY <1>g, <2>1
    <3>2. \A t : Queued(t)' <=> In(Tail(queue), t)  BY <3>1 DEF Queued, In
    <3> QED  BY <1>3, <2>1, <3>1, <3>2
  <2>2. CASE g # None
    <3>1. queue' = Append(Tail(queue), Ready(g))  BY <1>g, <2>2 DEF Trigger
    <3>2. \A t : Queued(t)' <=> In(Append(Tail(queue), Ready(g)), t)
      BY <3>1 DEF Queued, In
    <3>3. ~In(Tail(queue), Ready(g))  BY <1>3, <1>13, <2>2
    <3>4. Ready(g) \in Task  BY <1>12, <1>13, <2>2
    <3> QED  BY <1>3, <2>2, <3>1, <3>2, <3>3, <3>4, AppendIn
  <2> QED  BY <2>1, <2>2
<1>14. lost \subseteq lost' /\ lost' \subseteq Fibers
  BY <1>5, <1>i, <1>q DEF IomOK
<1>16. Queued(Ready(f))' \/ f \in lost'
  <2>1. CASE Queued(Ready(f))
    BY <1>1, <1>5, <1>12, <1>15, <2>1
  <2>2. CASE ~Queued(Ready(f)) /\ f \notin lost
    <3>1. Registered(f, fd)
      BY <1>4, <1>5, <1>6, <1>8, <1>i, <2>2 DEF Parked, Held
    <3>2. CASE g # None
      BY <1>5, <1>13, <1>15, <1>g, <3>1, <3>2
    <3>3. CASE g = None
      <4>1. f # None  BY <1>5, HookAssumption
      <4>2. f \in Missed(fd, refused)
        BY <1>g, <3>1, <3>3, <4>1 DEF Missed, Registered
      <4> QED  BY <1>q, <4>2
    <3> QED  BY <3>2, <3>3
  <2> QED  BY <1>14, <2>1, <2>2
<1>17. \A h \in Fibers : WillTimeOut(h) =>
         WillTimeOut(h)' \/ Queued(Ready(h))' \/ h \in lost'
  <2> SUFFICES ASSUME NEW h \in Fibers, WillTimeOut(h), h # f
               PROVE  WillTimeOut(h)'
    BY <1>16
  <2>1. Callback(h) # k  BY <1>12 DEF f
  <2> QED  BY <1>10, <1>11, <1>15, <2>1 DEF WillTimeOut
<1>18. IomOK' /\ Waiting' /\ Kernel' /\ Parked'
  <2>1. CASE g # None
    <3>1. /\ Unwatched(fd) /\ g # None /\ slot' = [slot EXCEPT ![fd] = None]
      BY <1>g, <2>1 DEF Trigger
    <3>2. watched \ {fd} \subseteq open'  BY <1>1, <1>i DEF Kernel
    <3>3. \A h \in Fibers : ~Registered(h, fd)'
      <4>1. slot'[fd] = None /\ stale'[fd] = None
        BY <1>8, <1>i, <3>1 DEF Unwatched, IomOK
      <4> QED  BY <4>1, HookAssumption DEF Registered
    <3>4. \A h \in Fibers :
            /\ Queued(Ready(h)) => Queued(Ready(h))'
            /\ Queued(Ready(h))' => Queued(Ready(h)) \/ Registered(h, fd)
            /\ Registered(h, fd) => Queued(Ready(h))'
      <4>1. Registered(g, fd)  BY <1>g, <2>1
      <4> QED  BY <1>1, <1>12, <1>13, <1>15, <3>1, <4>1
    <3>5. \A h \in Fibers : \/ fiber'[h].cancelled = fiber[h].cancelled
                            \/ Queued(Ready(h))' \/ h \in lost'
      BY <1>10, <1>16
    <3> QED  BY <1>8, <1>10, <1>14, <1>17, <1>i, <3>1, <3>2, <3>3, <3>4, <3>5,
                UnwatchedPlaces
  <2>2. CASE g = None
    <3>1. UNCHANGED <<watched, slot, stale, open>> /\ g = None
      BY <1>1, <1>g, <2>2
    <3>2. \A h, y : Registered(h, y)' <=> Registered(h, y)
      BY <3>1 DEF Registered
    <3>3. \A h \in Fibers : Queued(Ready(h))' <=> Queued(Ready(h))
      BY <1>1, <1>12, <1>15, <3>1
    <3>4. IomOK'  BY <1>14, <1>i, <3>1 DEF IomOK
    <3>5. Waiting'  BY <1>10, <1>i, <3>2, <3>3, WaitingKept
    <3>6. Kernel'  BY <1>i, <3>1 DEF Kernel, Waiter
    <3>7. ASSUME NEW h \in Fibers, ~Queued(Ready(h))', h \notin lost', Held(h)
          PROVE  Held(h)'
      <4>1. h # f /\ WillTimeOut(h) => WillTimeOut(h)'  BY <1>17, <3>7
      <4>2. h # f /\ fiber'[h].cancelled = fiber[h].cancelled
        BY <1>10, <1>16, <3>7
      <4>3. /\ fiber'[h].op = fiber[h].op /\ fiber'[h].fd = fiber[h].fd
            /\ fiber'[h].timed = fiber[h].timed
        BY <1>10
      <4> QED  BY <3>1, <3>7, <4>1, <4>2, <4>3 DEF Held, Registered
    <3>8. Parked'  BY <1>10, <1>14, <1>i, <3>3, <3>7, ParkedKept
    <3> QED  BY <3>4, <3>5, <3>6, <3>8
  <2> QED  BY <2>1, <2>2
<1>19. ASSUME NEW t \in Task, Queued(t)' PROVE TaskFits(t)'
  <2>1. CASE Queued(t)
    <3>1. TaskFits(t) /\ t.fiber \in Fibers  BY <1>2, <2>1 DEF Tasks, Task
    <3>2. t.run = "wakeup" => ~Queued(Ready(t.fiber))'
      BY <1>12, <1>13, <1>15, <3>1 DEF TaskFits, Waits
    <3> QED  BY <1>1, <1>10, <1>11, <3>1, <3>2 DEF TaskFits
  <2>2. CASE g # None /\ t = Ready(g)
    BY <1>10, <1>12, <1>13, <2>2 DEF TaskFits, Waits
  <2> QED  BY <1>15, <1>19, <2>1, <2>2
<1>20. Places'  BY <1>15, <1>18, <1>19 DEF Places, Tasks
<1>21. Record(x) /\ x.rc # "ETIMEDOUT"
  BY <1>7, <1>8, <1>9 DEF Record, New
<1>22. \A h \in Fibers : fiber'[h].pc \in Running <=> worker' = "run" /\ cur' = h
  BY <1>1, <1>10 DEF HInv, OneRuns
<1>23. expired' = [expired EXCEPT ![f] = TRUE]
  <2>1. expired \in [Fibers -> BOOLEAN]  BY <1>2 DEF TypeOK
  <2>2. expired[f] = TRUE  BY <1>5, <1>6, <2>1
  <2> QED  BY <1>1, <2>1, <2>2
<1>24. cur' \in Fibers \cup {None} /\ worker' \in {"scan", "run", "expire", "events"}
  BY <1>1, <1>2 DEF TypeOK
<1>25. x.cancelled => x.pc = "parked" /\ x.op \in Waits /\ TRUE
  BY <1>4, <1>8, <1>9
<1> QED
  BY <1>1, <1>5, <1>9, <1>18, <1>15, <1>20, <1>21, <1>22, <1>23, <1>24, <1>25,
     OneChanges
-----------------------------------------------------------------------------
(***************************************************************************)
(* The theorems                                                            *)
(***************************************************************************)
LEMMA HInvNext == HInv /\ [Next]_vars => HInv'
<1> SUFFICES ASSUME HInv, [Next]_vars PROVE HInv'  OBVIOUS
<1>1. CASE UNCHANGED vars
  <2>1. UNCHANGED <<open, nonblock, ready, ctx, watched, slot, stale, lost, queue,
                    worker, cur, fiber, expired, proc>>
    BY <1>1 DEF vars
  <2>2. TypeOK'  BY <2>1 DEF HInv, TypeOK
  <2>3. Places'  BY <2>1, PlacesKept DEF HInv, Places, Kernel
  <2>4. Sockets'  BY <2>1 DEF HInv, Sockets
  <2> QED  BY <2>1, <2>2, <2>3, <2>4, NoFiberChanges DEF HInv, Records, Record
<1>2. ASSUME NEW f \in Fibers, InFiber(f) PROVE HInv'
  <2>1. ASSUME NEW fd \in Fds,
               \/ Socket(f, fd) \/ Close(f, fd) \/ SetTimeout(f, fd)
               \/ \E flag \in BOOLEAN : SetFlags(f, fd, flag) \/ Ioctl(f, fd, flag)
               \/ DoIo(f, fd) \/ Plain(f, fd) \/ Connect(f, fd)
        PROVE  HInv'
    BY <2>1, HInvFlags, HInvClose, HInvCalls, HInvConnect
  <2>2. CASE Attempt(f)  BY <2>2, HInvAttempt
  <2>3. CASE Wait(f)  BY <2>3, HInvWait
  <2>4. CASE Sleep(f)  BY <2>4, HInvSleep
  <2>5. CASE Finish(f)  BY <2>5, HInvFinish
  <2> QED  BY <1>2, <2>1, <2>2, <2>3, <2>4, <2>5 DEF InFiber
<1>3. CASE InWorker
  <2>1. ASSUME NEW f \in Fibers, Resume(f) PROVE HInv'  BY <2>1, HInvResume
  <2>2. ASSUME NEW f \in Fibers, Expire(f) PROVE HInv'  BY <2>2, HInvExpire
  <2>3. CASE queue # <<>> /\ WakeUp(Head(queue))  BY <2>3, HInvWakeUp
  <2>4. CASE queue # <<>> /\ Timeout(Head(queue))
    BY <2>4, HInvTimeout, HInvTimeoutLate, TakeIn DEF HInv
  <2>5. CASE Idle \/ ExpireNoMore \/ DeliverNoMore  BY <2>5, HInvTurns
  <2>6. ASSUME NEW fd \in Fds, Deliver(fd) PROVE HInv'  BY <2>6, HInvDeliver
  <2> QED  BY <1>3, <2>1, <2>2, <2>3, <2>4, <2>5, <2>6 DEF InWorker
<1>4. ASSUME NEW fd \in Fds, CancelEvent(fd) PROVE HInv'
  BY <1>4, HInvCancelEvent
<1>5. ASSUME NEW fd \in Fds, NEW e \in Event, Arrive(fd, e) PROVE HInv'
  BY <1>5, HInvTurns
<1>6. CASE Resize  BY <1>6, HInvResize
<1> QED  BY <1>1, <1>2, <1>3, <1>4, <1>5, <1>6 DEF Next, Ended

LEMMA HInvAlways == Spec => []HInv
  BY HInvInit, HInvNext, PTL DEF Spec

\* Every variable of the hooked calls keeps its type.
THEOREM TypeCorrect == Spec => []TypeOK
<1>1. HInv => TypeOK  BY DEF HInv
<1> QED  BY <1>1, HInvAlways, PTL

\* A call reports ETIMEDOUT, or is marked to, only on account of the timer it
\* armed itself: do_io() and connect() check a weak pointer to their own call.
THEOREM TimeoutsAreOwn == Spec => []TimeoutIsOwn
<1>1. HInv => TimeoutIsOwn  BY DEF HInv, Cancelled, TimedOut, TimeoutIsOwn
<1> QED  BY <1>1, HInvAlways, PTL

\* A fiber that hook.cc parks can be woken: by the queue it is in, by the open
\* descriptor that is watched for it, by the end of its sleep; and its timeout
\* does not depend on the event.  Only a close() or a timeout that finds its
\* context replaced, or epoll_ctl() failing, leaves it behind.
THEOREM ParkedFibersCanWake == Spec => []ParkedCanWake
<1>1. HInv => ParkedCanWake
  <2> SUFFICES ASSUME HInv, NEW f \in Fibers, f \notin lost,
                      fiber[f].pc = "parked", ~Queued(Ready(f))
               PROVE  CanWake(f)
    BY DEF ParkedCanWake
  <2>1. /\ fiber[f] \in Fiber /\ fiber[f].op # "none"
    BY DEF HInv, TypeOK, Records, Record
  <2>2. fiber[f].op = "sleep" \/ fiber[f].op \in Waits
    BY <2>1 DEF Fiber, Waits
  <2>3. Held(f)  BY DEF HInv, Parked
  <2> QED  BY <2>2, <2>3 DEF Held, CanWake, HInv, Kernel
<1> QED  BY <1>1, HInvAlways, PTL

\* Only addEvent() fails with its assertion, while the fiber that calls it runs and
\* another one is registered; nothing happens after that.
LEMMA ClashBegins ==
  ASSUME HInv, [Next]_vars, proc' = "addEvent", proc # "addEvent"
  PROVE  /\ UNCHANGED <<slot, queue, fiber>>
         /\ \E f \in Fibers : fiber[f].pc = "wait" /\ slot[fiber[f].fd] # None
<1>1. PICK f \in Fibers : Wait(f)
  <2>1. ~UNCHANGED proc  OBVIOUS
  <2>2. ASSUME NEW f \in Fibers, InFiber(f) PROVE Wait(f)
    <3>1. ASSUME NEW fd \in Fds PROVE ~(Socket(f, fd) \/ SetTimeout(f, fd) \/ Close(f, fd))
      BY <2>1 DEF Socket, SetTimeout, Close, StaysInUser
    <3>2. ASSUME NEW fd \in Fds, NEW flag \in BOOLEAN
          PROVE  ~(SetFlags(f, fd, flag) \/ Ioctl(f, fd, flag))
      BY <2>1 DEF SetFlags, Ioctl, StaysInUser
    <3>3. ASSUME NEW fd \in Fds PROVE ~(DoIo(f, fd) \/ Plain(f, fd) \/ Connect(f, fd))
      BY <2>1 DEF DoIo, Plain, Connect
    <3>4. ~(Attempt(f) \/ Sleep(f) \/ Finish(f))
      BY <2>1 DEF Attempt, Sleep, Finish
    <3> QED  BY <2>2, <3>1, <3>2, <3>3, <3>4 DEF InFiber
  <2>3. ~InWorker
    <3>1. ASSUME NEW f \in Fibers PROVE ~(Resume(f) \/ Expire(f))
      BY <2>1 DEF Resume, Expire
    <3>2. ~WakeUp(Head(queue)) /\ ~Timeout(Head(queue))
      BY <2>1 DEF WakeUp, Timeout
    <3>3. ~(Idle \/ ExpireNoMore \/ DeliverNoMore)
      BY <2>1 DEF Idle, ExpireNoMore, DeliverNoMore
    <3>4. ASSUME NEW fd \in Fds PROVE ~Deliver(fd)
      BY <2>1 DEF Deliver, Abort
    <3> QED  BY <3>1, <3>2, <3>3, <3>4 DEF InWorker
  <2>4. ASSUME NEW fd \in Fds PROVE ~CancelEvent(fd) /\ \A e \in Event : ~Arrive(fd, e)
    BY <2>1 DEF CancelEvent, Arrive
  <2>5. ~Ended /\ ~UNCHANGED vars  BY <2>1 DEF Ended, vars
  <2>6. ~Resize  BY <2>1 DEF Resize
  <2> QED  BY <2>2, <2>3, <2>4, <2>5, <2>6 DEF Next
<1>2. Abort("addEvent") /\ slot[fiber[f].fd] # None
  BY <1>1 DEF Wait
<1> QED  BY <1>1, <1>2 DEF Wait, Abort, workerVars, iomVars

\* The assertion that addEvent() makes fails for two fibers in a call on one
\* descriptor only: no earlier call leaves a registration that could fail it.
LEMMA ClashesTakeTwo == Spec => []ClashTakesTwo
<1>1. Init => ClashTakesTwo  BY DEF Init, ClashTakesTwo
<1>2. HInv /\ ClashTakesTwo /\ [Next]_vars => ClashTakesTwo'
  <2> SUFFICES ASSUME HInv, ClashTakesTwo, [Next]_vars, proc' = "addEvent"
               PROVE  ClashTakesTwo'
    BY DEF ClashTakesTwo
  <2>1. CASE proc = "addEvent"
    <3>1. UNCHANGED vars  BY <2>1 DEF Next, Ended
    <3>2. UNCHANGED <<queue, fiber>>  BY <3>1 DEF vars, workerVars
    <3> QED  BY <2>1, <3>2 DEF ClashTakesTwo, Queued, Ready
  <2>2. CASE proc # "addEvent"
    <3>1. PICK f \in Fibers : fiber[f].pc = "wait" /\ slot[fiber[f].fd] # None
      BY <2>2, ClashBegins
    <3>2. UNCHANGED <<slot, queue, fiber>>  BY <2>2, ClashBegins
    <3> DEFINE fd == fiber[f].fd
               g == slot[fd]
    <3>3. fd \in Fds  BY <3>1 DEF HInv, Records, Record, Waits
    <3>4. g \in Fibers  BY <3>1, <3>3 DEF HInv, TypeOK
    <3>5. fiber[g].pc = "parked" /\ fiber[g].fd = fd /\ ~Queued(Ready(g))
      BY <3>1, <3>3, <3>4 DEF HInv, Waiting, Registered
    <3>6. \E h \in Fibers : /\ fiber[f].pc = "wait" /\ fiber[h].pc = "parked"
                            /\ fiber[f].fd = fiber[h].fd
                            /\ ~Queued(Ready(h))
      BY <3>1, <3>4, <3>5
    <3> QED  BY <3>2, <3>6 DEF ClashTakesTwo, Queued, Ready
  <2> QED  BY <2>1, <2>2
<1> QED  BY <1>1, <1>2, HInvAlways, PTL DEF Spec

\* A hooked call leaves nothing behind: no registration of a fiber that runs or
\* is queued, no fiber queued twice, no timer armed after the call returned, also
\* when addEvent() failed, no registration that makes a later call abort.
THEOREM CallsLeaveNothing == Spec => []NothingLeftBehind
<1>1. HInv /\ ClashTakesTwo => NothingLeftBehind
  <2> SUFFICES ASSUME HInv, ClashTakesTwo PROVE NothingLeftBehind  OBVIOUS
  <2>1. \A f \in Fibers, fd \in Fds : Registered(f, fd) =>
          fiber[f].pc = "parked" /\ fiber[f].fd = fd /\ ~Queued(Ready(f))
    BY DEF HInv, Waiting
  <2>2. \A i, j \in DOMAIN queue :
          queue[i] = queue[j] /\ queue[i].run = "fiber" => i = j
    BY DEF HInv, Tasks, Solo
  <2>3. \A f \in Fibers : fiber[f].armed => fiber[f].pc = "parked"
    BY DEF HInv, Records, Record
  <2> QED  BY <2>1, <2>2, <2>3 DEF NothingLeftBehind
<1> QED  BY <1>1, HInvAlways, ClashesTakeTwo, PTL

\* Every open socket has a context, and O_NONBLOCK as its user set it, with
\* fcntl() or ioctl(), is what the kernel has.
THEOREM NonblockIsReal == Spec => []UserNonblockIsReal
<1>1. HInv => UserNonblockIsReal
  BY DEF HInv, TypeOK, Sockets, UserNonblockIsReal
<1> QED  BY <1>1, HInvAlways, PTL
=============================================================================

-------------------------- MODULE FdContext_proofs --------------------------
(***************************************************************************)
(* Proofs about FdContext for any set of descriptors, threads and waiters  *)
(* and any number of resizes.                                              *)
(*                                                                         *)
(* Whatever its length, an operation changes the contexts in one of two    *)
(* ways: it fills one empty event context, or it takes the waiter out of   *)
(* one.  The invariants and the refinement are proved for these two kinds  *)
(* of step; the actions are then shown to be of one kind or to leave the   *)
(* contexts alone.                                                         *)
(***************************************************************************)
EXTENDS FdContext, FiniteSetTheorems, TLAPS

\* A registered event has a waiter.
Filled == \A o \in Objects : \A e \in context[o].events :
            context[o].waiter[e] # None

\* A call in progress has the arguments of its operation.
CallsMade == \A c \in Callers :
  /\ call[c].at # "free" => call[c].fd \in Fds
  /\ call[c].at = "locked" => call[c].obj \in Objects
  /\ call[c].at # "free" /\ call[c].op = "add" =>
       call[c].ev \in Event /\ call[c].waiter \in Waiters
  /\ call[c].at # "free" /\ call[c].op \in {"del", "cancel"} =>
       call[c].ev \in Event

\* No two calls in progress register the same waiter.
CallsApart == \A c, d \in Callers :
  call[c].waiter = call[d].waiter /\ call[c].waiter # None => c = d

\* The waiter of a call in progress is nowhere else.
CallsFresh == \A c \in Callers, w \in Waiters : call[c].waiter = w =>
  woken[w] = 0 /\ ~deleted[w] /\ ~Waits(w)

\* epoll's data.ptr points to a context.
PtrOK == \A fd \in Fds : kernel[fd].on => kernel[fd].ptr \in Objects

\* The waiters in the contexts, one by one.
Apart == \A s, r \in Slots : WaiterAt(s) = WaiterAt(r) => s = r
Unfired == \A s \in Slots : woken[WaiterAt(s)] = 0 /\ ~deleted[WaiterAt(s)]
OneEnd == \A w \in Waiters : woken[w] <= 1 /\ (deleted[w] => woken[w] = 0)
Counted == IsFiniteSet(Slots) /\ pending = Cardinality(Slots)

Contexts == [Objects -> [events: SUBSET Event,
                         waiter: [Event -> Waiters \cup {None}]]]
Histories == /\ woken \in [Waiters -> Nat]
             /\ deleted \in [Waiters -> BOOLEAN]

\* What concerns contexts, waiters and the count.
WInv == /\ context \in Contexts /\ Histories
        /\ Filled /\ Apart /\ Unfired /\ OneEnd /\ Counted
\* What concerns calls.
CInv == /\ call \in [Callers -> Calls]
        /\ CallsMade /\ CallsApart /\ CallsFresh
\* What concerns the rest.
KInv == /\ size \in Nat /\ gen \in 0 .. MaxGen
        /\ kernel \in [Fds -> [on: BOOLEAN, mask: SUBSET Event,
                               ptr: Objects \cup {None}]]
        /\ batch \subseteq [obj: Objects, events: SUBSET (Event \cup {"HUP"})]
        /\ stranded \subseteq Objects
        /\ proc \in {"up", "addEvent", "cancelAll", "triggerEvent"}
        /\ PtrOK
\* What the kernel watches.
Watched == \A o \in Objects : \A e \in context[o].events :
  (\A p \in stranded : p.fd # o.fd) => /\ kernel[o.fd].on
                                       /\ e \in kernel[o.fd].mask
                                       /\ kernel[o.fd].ptr = o

(***************************************************************************)
(* The kinds of steps                                                      *)
(***************************************************************************)
Quiet == UNCHANGED <<context, pending, woken, deleted>>

\* The waiter w is put into the empty slot e of o.
Puts(o, e, w) ==
  /\ context[o].waiter[e] = None
  /\ context' = [context EXCEPT
                   ![o] = [events |-> context[o].events \cup {e},
                           waiter |-> [context[o].waiter EXCEPT ![e] = w]]]
  /\ pending' = pending + 1
  /\ UNCHANGED <<woken, deleted>>

\* The waiter of the registered event e of o is taken out.
Takes(o, e, left) ==
  /\ e \in context[o].events
  /\ left \subseteq context[o].events \ {e}
  /\ context' = [context EXCEPT
                   ![o] = [events |-> left,
                           waiter |-> [context[o].waiter EXCEPT ![e] = None]]]
  /\ pending' = pending - 1

Fires(o, e) == /\ woken' = [woken EXCEPT ![context[o].waiter[e]] = @ + 1]
               /\ UNCHANGED deleted
\* epoll_ctl() after it: the kernel watches o for what is left, or nothing.
Rearms(o, left) ==
  /\ \/ left = {} /\ kernel' = [kernel EXCEPT ![o.fd] = Unwatched]
     \/ \E m \in SUBSET Event :
          left \subseteq m /\ kernel' = [kernel EXCEPT ![o.fd] = Watch(m, o)]
  /\ UNCHANGED stranded
Drops(o, e) == /\ deleted' = [deleted EXCEPT ![context[o].waiter[e]] = TRUE]
               /\ UNCHANGED woken
\* Firing unregisters the whole context, dropping the event alone.
Ends(o, e, left) == \/ Fires(o, e) /\ left = {}
                    \/ Drops(o, e) /\ left = context[o].events \ {e}

(***************************************************************************)
(* Contexts and slots                                                      *)
(***************************************************************************)
\* What membership in Slots says, read off the table.
LEMMA SlotFacts ==
  ASSUME context \in Contexts
  PROVE  /\ \A o \in Objects, e \in Event :
              /\ <<o, e>> \in Slots <=> context[o].waiter[e] # None
              /\ WaiterAt(<<o, e>>) = context[o].waiter[e]
         /\ \A s \in Slots : /\ s = <<s[1], s[2]>>
                             /\ s[1] \in Objects /\ s[2] \in Event
                             /\ WaiterAt(s) \in Waiters
         /\ \A w \in Waiters : Waits(w) <=> \E s \in Slots : WaiterAt(s) = w
<1>1. \A o \in Objects, e \in Event :
        /\ <<o, e>> \in Slots <=> context[o].waiter[e] # None
        /\ WaiterAt(<<o, e>>) = context[o].waiter[e]
  BY DEF Slots, WaiterAt
<1>2. ASSUME NEW s \in Slots
      PROVE  /\ s = <<s[1], s[2]>>
             /\ s[1] \in Objects /\ s[2] \in Event
             /\ WaiterAt(s) \in Waiters
  <2>1. PICK o \in Objects, e \in Event : s = <<o, e>>
    BY DEF Slots
  <2>2. context[o].waiter[e] \in Waiters \cup {None}
    BY DEF Contexts
  <2> QED  BY <1>1, <2>1, <2>2
<1>3. \A w \in Waiters : Waits(w) <=> \E s \in Slots : WaiterAt(s) = w
  <2> SUFFICES ASSUME NEW w \in Waiters
               PROVE  Waits(w) <=> \E s \in Slots : WaiterAt(s) = w
    OBVIOUS
  <2>1. ASSUME Waits(w) PROVE \E s \in Slots : WaiterAt(s) = w
    <3>1. PICK o \in Objects, e \in Event : context[o].waiter[e] = w
      BY <2>1 DEF Waits
    <3> QED  BY <1>1, <3>1, FdAssumption
  <2>2. ASSUME NEW s \in Slots, WaiterAt(s) = w PROVE Waits(w)
    BY <1>2, <2>2 DEF Waits, WaiterAt
  <2> QED  BY <2>1, <2>2
<1> QED  BY <1>1, <1>2, <1>3

\* Putting a waiter into an empty slot.
LEMMA PutSlots ==
  ASSUME context \in Contexts, NEW o \in Objects, NEW e \in Event,
         NEW w \in Waiters, Puts(o, e, w)
  PROVE  /\ context' \in Contexts
         /\ <<o, e>> \notin Slots
         /\ Slots' = Slots \cup {<<o, e>>}
         /\ WaiterAt(<<o, e>>)' = w
         /\ \A s \in Slots : WaiterAt(s)' = WaiterAt(s)
         /\ \A v \in Waiters \ {w} : Waits(v)' <=> Waits(v)
         /\ Waits(w)'
<1>1. context' \in Contexts
  BY DEF Contexts, Puts
<1>2. \A p \in Objects, i \in Event :
        context'[p].waiter[i] = IF p = o /\ i = e THEN w
                                ELSE context[p].waiter[i]
  BY DEF Contexts, Puts
<1>3. w # None  BY FdAssumption
<1>4. <<o, e>> \notin Slots  BY DEF Puts, Slots, WaiterAt
<1>5. Slots' = Slots \cup {<<o, e>>}
  BY <1>2, <1>3 DEF Slots, WaiterAt
<1>6. WaiterAt(<<o, e>>)' = w  BY <1>2 DEF WaiterAt
<1>7. \A s \in Slots : WaiterAt(s)' = WaiterAt(s)
  BY <1>2, <1>4, SlotFacts DEF WaiterAt
<1>8. \A v \in Waiters \ {w} : Waits(v)' <=> Waits(v)
  BY <1>2, FdAssumption DEF Waits, Puts
<1>9. Waits(w)'  BY <1>2 DEF Waits
<1> QED  BY <1>1, <1>4, <1>5, <1>6, <1>7, <1>8, <1>9

\* Taking a waiter out.
LEMMA TakeSlots ==
  ASSUME context \in Contexts, Filled, Apart,
         NEW o \in Objects, NEW e, NEW left, Takes(o, e, left),
         NEW w, w = context[o].waiter[e]
  PROVE  /\ e \in Event
         /\ context' \in Contexts
         /\ w \in Waiters
         /\ <<o, e>> \in Slots
         /\ Slots' = Slots \ {<<o, e>>}
         /\ \A s \in Slots' : WaiterAt(s)' = WaiterAt(s)
         /\ \A s \in Slots' : WaiterAt(s) # w
         /\ \A v \in Waiters \ {w} : Waits(v)' <=> Waits(v)
         /\ Waits(w)
         /\ ~Waits(w)'
<1>1. e \in Event /\ left \subseteq Event
  BY DEF Contexts, Takes
<1>2. w \in Waiters
  BY <1>1 DEF Contexts, Takes, Filled
<1>3. context' \in Contexts
  BY <1>1 DEF Contexts, Takes
<1>4. \A p \in Objects, i \in Event :
        context'[p].waiter[i] = IF p = o /\ i = e THEN None
                                ELSE context[p].waiter[i]
  BY <1>1 DEF Contexts, Takes
<1>5. <<o, e>> \in Slots /\ WaiterAt(<<o, e>>) = w
  BY <1>1, <1>2, FdAssumption DEF Slots, WaiterAt
<1>6. Slots' = Slots \ {<<o, e>>}
  BY <1>1, <1>4 DEF Slots, WaiterAt
<1>7. \A s \in Slots' : WaiterAt(s)' = WaiterAt(s)
  BY <1>4, <1>6, SlotFacts DEF WaiterAt
<1>8. \A s \in Slots' : WaiterAt(s) # w
  BY <1>5, <1>6 DEF Apart
<1>9. \A v \in Waiters \ {w} : Waits(v)' <=> Waits(v)
  BY <1>1, <1>4, FdAssumption DEF Waits
<1>10. Waits(w)  BY <1>1 DEF Waits
<1>11. ~Waits(w)'
  <2> SUFFICES ASSUME NEW p \in Objects, NEW i \in Event,
                      context'[p].waiter[i] = w
               PROVE  FALSE
    BY DEF Waits
  <2>1. context[p].waiter[i] = w /\ ~(p = o /\ i = e)
    BY <1>2, <1>4, FdAssumption
  <2>2. <<p, i>> \in Slots /\ WaiterAt(<<p, i>>) = w
    BY <1>2, <2>1, SlotFacts, FdAssumption
  <2>3. <<p, i>> = <<o, e>>  BY <1>5, <2>2 DEF Apart
  <2> QED  BY <2>1, <2>3
<1> QED  BY <1>1, <1>2, <1>3, <1>5, <1>6, <1>7, <1>8, <1>9, <1>10, <1>11

(***************************************************************************)
(* The invariant of the waiters is kept by each kind of step               *)
(***************************************************************************)
\* A step that touches neither waiters nor counts keeps the waiters in order.
LEMMA QuietKeeps ==
  ASSUME WInv, Quiet
  PROVE  WInv'
BY DEF WInv, Quiet, Contexts, Histories, Filled, Apart, Unfired, OneEnd,
       Counted, Slots, WaiterAt

\* So does registering a waiter that was never used.
LEMMA PutKeeps ==
  ASSUME WInv, NEW o \in Objects, NEW e \in Event, NEW w \in Waiters,
         Puts(o, e, w), woken[w] = 0, ~deleted[w], ~Waits(w)
  PROVE  WInv'
<1> USE DEF WInv
<1>1. /\ context' \in Contexts
      /\ <<o, e>> \notin Slots
      /\ Slots' = Slots \cup {<<o, e>>}
      /\ WaiterAt(<<o, e>>)' = w
      /\ \A s \in Slots : WaiterAt(s)' = WaiterAt(s)
  BY PutSlots
<1>2. UNCHANGED <<woken, deleted>>  BY DEF Puts
<1>3. Histories' /\ OneEnd'  BY <1>2 DEF Histories, OneEnd
<1>4. Filled'
  <2> SUFFICES ASSUME NEW p \in Objects, NEW i \in context'[p].events
               PROVE  context'[p].waiter[i] # None
    BY DEF Filled
  <2>1. i \in Event  BY <1>1 DEF Contexts
  <2>2. CASE p = o /\ i = e
    BY <2>2, FdAssumption DEF Puts, Contexts
  <2>3. CASE ~(p = o /\ i = e)
    <3>1. i \in context[p].events  BY <2>3 DEF Puts, Contexts
    <3>2. context'[p].waiter[i] = context[p].waiter[i]
      BY <2>1, <2>3 DEF Puts, Contexts
    <3> QED  BY <3>1, <3>2 DEF Filled
  <2> QED  BY <2>2, <2>3
<1>5. \A s \in Slots : WaiterAt(s) # w  BY SlotFacts
<1>6. Apart'  BY <1>1, <1>5 DEF Apart
<1>7. Unfired'  BY <1>1, <1>2 DEF Unfired
<1>8. Counted'
  <2>1. /\ IsFiniteSet(Slots \cup {<<o, e>>})
        /\ Cardinality(Slots \cup {<<o, e>>}) = Cardinality(Slots) + 1
    BY <1>1, FS_AddElement DEF Counted
  <2> QED  BY <1>1, <2>1 DEF Counted, Puts
<1> QED  BY <1>1, <1>3, <1>4, <1>6, <1>7, <1>8

\* So does taking a waiter out, fired or dropped.
LEMMA TakeKeeps ==
  ASSUME WInv, NEW o \in Objects, NEW e, NEW left, Takes(o, e, left),
         Fires(o, e) \/ Drops(o, e)
  PROVE  WInv'
<1> USE DEF WInv
<1> PICK w : w = context[o].waiter[e]  OBVIOUS
<1>1. /\ e \in Event
      /\ context' \in Contexts
      /\ w \in Waiters
      /\ <<o, e>> \in Slots
      /\ Slots' = Slots \ {<<o, e>>}
      /\ \A s \in Slots' : WaiterAt(s)' = WaiterAt(s)
      /\ \A s \in Slots' : WaiterAt(s) # w
  BY TakeSlots
<1>2. WaiterAt(<<o, e>>) = w  BY DEF WaiterAt
<1>3. woken[w] = 0 /\ ~deleted[w]  BY <1>1, <1>2 DEF Unfired
<1>4. Histories'
  <2>1. CASE Fires(o, e)
    <3>1. woken' = [woken EXCEPT ![w] = woken[w] + 1]
      BY <2>1 DEF Fires
    <3> QED  BY <1>1, <1>3, <2>1, <3>1 DEF Histories, Fires
  <2>2. CASE Drops(o, e)
    BY <1>1, <2>2 DEF Histories, Drops
  <2> QED  BY <2>1, <2>2
<1>5. \A v \in Waiters \ {w} : woken'[v] = woken[v] /\ deleted'[v] = deleted[v]
  BY <1>1 DEF Histories, Fires, Drops
<1>6. OneEnd'
  <2>1. woken'[w] <= 1 /\ (deleted'[w] => woken'[w] = 0)
    BY <1>1, <1>3 DEF Histories, Fires, Drops
  <2> QED  BY <1>5, <2>1 DEF OneEnd
<1>7. Unfired'
  <2> SUFFICES ASSUME NEW s \in Slots'
               PROVE  woken'[WaiterAt(s)'] = 0 /\ ~deleted'[WaiterAt(s)']
    BY DEF Unfired
  <2>1. WaiterAt(s)' = WaiterAt(s) /\ WaiterAt(s) # w /\ s \in Slots
    BY <1>1
  <2>2. WaiterAt(s) \in Waiters  BY <2>1, SlotFacts
  <2> QED  BY <1>5, <2>1, <2>2 DEF Unfired
<1>8. Apart'  BY <1>1 DEF Apart
<1>9. Filled'
  <2> SUFFICES ASSUME NEW p \in Objects, NEW i \in context'[p].events
               PROVE  context'[p].waiter[i] # None
    BY DEF Filled
  <2>1. i \in Event  BY <1>1 DEF Contexts
  <2>2. i \in context[p].events /\ ~(p = o /\ i = e)
    BY DEF Takes, Contexts
  <2>3. context'[p].waiter[i] = context[p].waiter[i]
    BY <2>1, <2>2 DEF Takes, Contexts
  <2> QED  BY <2>2, <2>3 DEF Filled
<1>10. Counted'
  <2>1. /\ IsFiniteSet(Slots \ {<<o, e>>})
        /\ Cardinality(Slots \ {<<o, e>>}) = Cardinality(Slots) - 1
    BY <1>1, FS_RemoveElement DEF Counted
  <2> QED  BY <1>1, <2>1 DEF Counted, Takes
<1> QED  BY <1>1, <1>4, <1>6, <1>7, <1>8, <1>9, <1>10

(***************************************************************************)
(* The waiters of the calls in progress                                    *)
(***************************************************************************)
\* No call in progress gets a waiter.
CallsShrink == /\ call' \in [Callers -> Calls]
               /\ CallsMade'
               /\ \A d \in Callers : call'[d].waiter \in {call[d].waiter, None}

\* Calls that only lose waiters never come to share one.
LEMMA ShrinkApart ==
  ASSUME CInv, CallsShrink
  PROVE  CallsApart'
BY DEF CInv, CallsShrink, CallsApart

\* The calls stay in order when the table is left alone,
LEMMA QuietCalls ==
  ASSUME CInv, Quiet, CallsShrink
  PROVE  CInv'
<1>1. CallsFresh'
  BY FdAssumption DEF CInv, Quiet, CallsShrink, CallsFresh, Waits
<1> QED  BY <1>1, ShrinkApart DEF CInv, CallsShrink

\* when a call hands its waiter over to the table,
LEMMA PutCalls ==
  ASSUME WInv, CInv, NEW o \in Objects, NEW e \in Event, NEW w \in Waiters,
         Puts(o, e, w), NEW c \in Callers, call[c].waiter = w,
         CallsShrink, call'[c].waiter = None
  PROVE  CInv'
<1>1. \A v \in Waiters \ {w} : Waits(v)' <=> Waits(v)
  BY PutSlots DEF WInv
<1>2. CallsFresh'
  <2> SUFFICES ASSUME NEW d \in Callers, NEW v \in Waiters,
                      call'[d].waiter = v
               PROVE  woken'[v] = 0 /\ ~deleted'[v] /\ ~Waits(v)'
    BY DEF CallsFresh
  <2>1. d # c /\ call[d].waiter = v
    BY FdAssumption DEF CallsShrink
  <2>2. v # w  BY <2>1, FdAssumption DEF CInv, CallsApart
  <2> QED  BY <1>1, <2>1, <2>2 DEF CInv, CallsFresh, Puts
<1> QED  BY <1>2, ShrinkApart DEF CInv, CallsShrink

\* and when a waiter leaves the table.
LEMMA TakeCalls ==
  ASSUME WInv, CInv, NEW o \in Objects, NEW e, NEW left, Takes(o, e, left),
         Fires(o, e) \/ Drops(o, e), CallsShrink
  PROVE  CInv'
<1> PICK w : w = context[o].waiter[e]  OBVIOUS
<1>1. /\ w \in Waiters
      /\ \A v \in Waiters \ {w} : Waits(v)' <=> Waits(v)
      /\ Waits(w)
  BY TakeSlots DEF WInv
<1>2. \A v \in Waiters \ {w} : woken'[v] = woken[v] /\ deleted'[v] = deleted[v]
  BY <1>1 DEF WInv, Histories, Fires, Drops
<1>3. CallsFresh'
  <2> SUFFICES ASSUME NEW d \in Callers, NEW v \in Waiters,
                      call'[d].waiter = v
               PROVE  woken'[v] = 0 /\ ~deleted'[v] /\ ~Waits(v)'
    BY DEF CallsFresh
  <2>1. call[d].waiter = v  BY FdAssumption DEF CallsShrink
  <2>2. v # w  BY <1>1, <2>1 DEF CInv, CallsFresh
  <2> QED  BY <1>1, <1>2, <2>1, <2>2 DEF CInv, CallsFresh
<1> QED  BY <1>3, ShrinkApart DEF CInv, CallsShrink

(***************************************************************************)
(* What each kind of step is to a waiter                                   *)
(***************************************************************************)
\* The abstract state.
Status == [w \in Waiters |-> StatusOf(w)]
Rooms == [o \in Objects |-> Room(o)]

\* Seen from Waiters, a quiet step is no step,
LEMMA QuietStutters ==
  ASSUME Quiet
  PROVE  UNCHANGED <<Status, Rooms, pending>>
BY DEF Quiet, Status, StatusOf, Rooms, Room, Lost, Waits

\* putting a waiter into the table registers it,
LEMMA PutRegisters ==
  ASSUME WInv, NEW o \in Objects, NEW e \in Event, NEW w \in Waiters,
         Puts(o, e, w), woken[w] = 0, ~deleted[w], ~Waits(w)
  PROVE  Promise!Register(w)
<1>1. /\ Waits(w)'
      /\ \A v \in Waiters \ {w} : Waits(v)' <=> Waits(v)
  BY PutSlots DEF WInv
<1>2. UNCHANGED <<woken, deleted>>  BY DEF Puts
<1>3. /\ \A p \in Objects, i \in Event :
           context'[p].waiter[i] = IF p = o /\ i = e THEN w
                                   ELSE context[p].waiter[i]
      /\ \A p \in Objects :
           context'[p].events = IF p = o THEN context[o].events \cup {e}
                                ELSE context[p].events
      /\ context[o].waiter[e] = None /\ w # None
  BY FdAssumption DEF WInv, Contexts, Puts
<1>4. \A p \in Objects, i \in Event : context[p].waiter[i] # w
  BY DEF Waits
<1>5. ~Lost(w)'  BY <1>3, <1>4 DEF Lost
<1>6. \A v \in Waiters \ {w} : Lost(v)' <=> Lost(v)
  BY <1>3, FdAssumption DEF Lost
<1>7. StatusOf(w) = "new"  BY DEF StatusOf
<1>8. StatusOf(w)' = "waiting"  BY <1>1, <1>2, <1>5 DEF StatusOf
<1>9. \A v \in Waiters \ {w} : StatusOf(v)' = StatusOf(v)
  BY <1>1, <1>2, <1>6 DEF StatusOf
<1>10. Status' = [Status EXCEPT ![w] = "waiting"]
  BY <1>8, <1>9 DEF Status
<1>11. /\ Room(o)' = Room(o) \cup {w}
       /\ \A p \in Objects \ {o} : Room(p)' = Room(p)
  BY <1>3, FdAssumption DEF Room
<1>12. Rooms' = [Rooms EXCEPT ![o] = @ \cup {w}]  BY <1>11 DEF Rooms
<1> QED  BY <1>7, <1>10, <1>12 DEF Promise!Register, Status, Rooms, Puts

\* and taking it out triggers it, and loses the other one, or removes it.
LEMMA TakeEnds ==
  ASSUME WInv, NEW o \in Objects, NEW e, NEW left, Takes(o, e, left),
         Ends(o, e, left)
  PROVE  \E w \in Waiters : Promise!Trigger(w) \/ Promise!Remove(w)
<1> PICK w : w = context[o].waiter[e]  OBVIOUS
<1>1. /\ w \in Waiters /\ <<o, e>> \in Slots /\ e \in Event
      /\ \A v \in Waiters \ {w} : Waits(v)' <=> Waits(v)
      /\ Waits(w) /\ ~Waits(w)'
  BY TakeSlots DEF WInv
<1>2. WaiterAt(<<o, e>>) = w  BY DEF WaiterAt
<1>3. woken[w] = 0 /\ ~deleted[w]  BY <1>1, <1>2 DEF WInv, Unfired
<1>4. \A v \in Waiters \ {w} : woken'[v] = woken[v] /\ deleted'[v] = deleted[v]
  BY <1>1 DEF WInv, Histories, Fires, Drops, Ends
<1>5. /\ \A p \in Objects, i \in Event :
           context'[p].waiter[i] = IF p = o /\ i = e THEN None
                                   ELSE context[p].waiter[i]
      /\ \A p \in Objects : context'[p].events = IF p = o THEN left
                                                 ELSE context[p].events
      /\ w # None
  BY <1>1, FdAssumption DEF WInv, Contexts, Takes
<1>6. \A p \in Objects, i \in Event :
        context[p].waiter[i] = w => p = o /\ i = e
  <2> SUFFICES ASSUME NEW p \in Objects, NEW i \in Event,
                      context[p].waiter[i] = w
               PROVE  p = o /\ i = e
    OBVIOUS
  <2>1. <<p, i>> \in Slots /\ WaiterAt(<<p, i>>) = w
    BY <1>1, SlotFacts, FdAssumption DEF WInv
  <2>2. <<p, i>> = <<o, e>>  BY <1>1, <1>2, <2>1 DEF WInv, Apart
  <2> QED  BY <2>2
<1>7. ~Lost(w)  BY <1>6 DEF Lost, Takes
<1>8. StatusOf(w) = "waiting"  BY <1>1, <1>3, <1>7 DEF StatusOf
<1>9. /\ w \in Room(o) /\ Room(o)' = Room(o) \ {w}
      /\ \A p \in Objects \ {o} : Room(p)' = Room(p)
  BY <1>1, <1>5, <1>6, FdAssumption DEF Room
<1>10. Rooms' = [Rooms EXCEPT ![o] = @ \ {w}]  BY <1>9 DEF Rooms
<1>11. Promise!Leave(w, o)
  BY <1>9, <1>10 DEF Promise!Leave, Rooms
<1>12. pending' = pending - 1  BY DEF Takes
<1>13. CASE Fires(o, e) /\ left = {}
  <2>1. woken'[w] = 1
    BY <1>1, <1>3, <1>13 DEF WInv, Histories, Fires
  <2>2. StatusOf(w)' = "woken"  BY <2>1 DEF StatusOf
  <2>3. ASSUME NEW v \in Room(o), v # w PROVE StatusOf(v)' = "lost"
    <3>1. PICK i \in Event : context[o].waiter[i] = v /\ i # e
      BY <2>3 DEF Room
    <3>2. v \in Waiters  BY DEF Room
    <3>3. Lost(v)' /\ Waits(v)'  BY <1>5, <1>13, <3>1 DEF Lost, Waits
    <3>4. <<o, i>> \in Slots /\ WaiterAt(<<o, i>>) = v
      BY <3>1, <3>2, SlotFacts, FdAssumption DEF WInv
    <3>5. woken[v] = 0 /\ ~deleted[v]  BY <3>4 DEF WInv, Unfired
    <3> QED  BY <1>4, <2>3, <3>2, <3>3, <3>5 DEF StatusOf
  <2>4. ASSUME NEW v \in Waiters, v \notin Room(o), v # w
        PROVE  StatusOf(v)' = StatusOf(v)
    <3>1. Lost(v)' <=> Lost(v)
      BY <1>5, <2>4, FdAssumption DEF Lost, Room
    <3> QED  BY <1>1, <1>4, <2>4, <3>1 DEF StatusOf
  <2>5. Status' = [v \in Waiters |-> IF v = w THEN "woken"
                                     ELSE IF v \in Room(o) THEN "lost"
                                     ELSE StatusOf(v)]
    BY <2>2, <2>3, <2>4 DEF Status
  <2> QED  BY <1>1, <1>8, <1>11, <1>12, <2>5
           DEF Promise!Trigger, Status, Rooms
<1>14. CASE Drops(o, e) /\ left = context[o].events \ {e}
  <2>1. woken'[w] = 0 /\ deleted'[w]
    BY <1>1, <1>3, <1>14 DEF WInv, Histories, Drops
  <2>2. StatusOf(w)' = "removed"  BY <2>1 DEF StatusOf
  <2>3. ASSUME NEW v \in Waiters \ {w} PROVE StatusOf(v)' = StatusOf(v)
    <3>1. Lost(v)' <=> Lost(v)
      BY <1>5, <1>14, FdAssumption DEF Lost
    <3> QED  BY <1>1, <1>4, <3>1 DEF StatusOf
  <2>4. Status' = [Status EXCEPT ![w] = "removed"]
    BY <2>2, <2>3 DEF Status
  <2> QED  BY <1>1, <1>8, <1>11, <1>12, <2>4 DEF Promise!Remove, Status
<1> QED  BY <1>13, <1>14 DEF Ends

(***************************************************************************)
(* The kind of each action                                                 *)
(***************************************************************************)
\* The end of an operation drops the waiter it held.
LEMMA DoneShrinks ==
  ASSUME CInv, NEW c \in Callers, call[c].at # "free", Done(c)
  PROVE  CallsShrink /\ (call[c].op = "add" => call'[c].waiter = None)
<1>1. Idle \in Calls  BY DEF Idle, Calls
<1>2. CASE call[c].op = "close"
  <2>1. call' = [call EXCEPT ![c] = [call[c] EXCEPT !.at = "closing",
                                                    !.obj = None]]
    BY <1>2 DEF CInv, Done
  <2>2. [call[c] EXCEPT !.at = "closing", !.obj = None] \in Calls
    BY DEF CInv, Calls
  <2>3. call' \in [Callers -> Calls]  BY <2>1, <2>2 DEF CInv
  <2>4. CallsMade'  BY <1>2, <2>1 DEF CInv, CallsMade, Calls
  <2>5. \A d \in Callers : call'[d].waiter = call[d].waiter
    BY <2>1 DEF CInv, Calls
  <2> QED  BY <1>2, <2>3, <2>4, <2>5 DEF CallsShrink
<1>3. CASE call[c].op # "close"
  <2>1. call' = [call EXCEPT ![c] = Idle]  BY <1>3 DEF Done
  <2>2. call' \in [Callers -> Calls]  BY <1>1, <2>1 DEF CInv
  <2>3. CallsMade'  BY <2>1 DEF CInv, CallsMade, Idle
  <2> QED  BY <2>1, <2>2, <2>3 DEF CInv, CallsShrink, Idle
<1> QED  BY <1>2, <1>3

\* One successful triggerEvent() empties one slot.
LEMMA TriggerTakes ==
  ASSUME NEW o \in Objects, NEW e \in context[o].events, WInv,
         After(o, Triggered(Before(o), e), 1), UNCHANGED deleted
  PROVE  Takes(o, e, {}) /\ Fires(o, e)
<1>1. Triggered(Before(o), e) =
        [events |-> {}, waiter |-> [context[o].waiter EXCEPT ![e] = None],
         woken |-> [woken EXCEPT ![context[o].waiter[e]] = @ + 1],
         failed |-> FALSE]
  BY DEF Triggered, Before, Cleared, ResetEventContext, Forget
<1> QED  BY <1>1 DEF After, Takes, Fires

\* addEvent() fails quietly or puts its waiter into one slot.
LEMMA AddKind ==
  ASSUME WInv, CInv, NEW c \in Callers, AddEvent(c)
  PROVE  /\ CallsShrink
         /\ \/ Quiet
            \/ /\ Puts(call[c].obj, call[c].ev, call[c].waiter)
               /\ call'[c].waiter = None
<1>1. /\ call[c].op = "add" /\ call[c].at = "locked"
      /\ call[c].obj \in Objects /\ call[c].ev \in Event
  BY DEF AddEvent, In, CInv, CallsMade
<1>2. CASE UNCHANGED call /\ Quiet
  BY <1>2 DEF CInv, CallsShrink, CallsMade
<1>3. CASE Done(c) /\ Quiet
  BY <1>1, <1>3, DoneShrinks
<1>4. CASE /\ Done(c) /\ context[call[c].obj].waiter[call[c].ev] = None
           /\ pending' = OneMore /\ UNCHANGED <<woken, deleted>>
           /\ context' = [context EXCEPT
                 ![call[c].obj] =
                   [events |-> context[call[c].obj].events \cup {call[c].ev},
                    waiter |-> [@.waiter EXCEPT
                                  ![call[c].ev] = call[c].waiter]]]
  <2> PICK o \in Objects : o = call[c].obj  BY <1>1
  <2>1. context' = [context EXCEPT
                 ![o] = [events |-> context[o].events \cup {call[c].ev},
                         waiter |-> [context[o].waiter EXCEPT
                                       ![call[c].ev] = call[c].waiter]]]
    BY <1>4 DEF WInv, Contexts
  <2>2. Puts(o, call[c].ev, call[c].waiter)
    BY <1>4, <2>1 DEF Puts, OneMore
  <2> QED  BY <1>1, <1>4, <2>2, DoneShrinks
<1> QED  BY <1>2, <1>3, <1>4 DEF AddEvent, Abort, Quiet

\* delEvent() empties one slot without firing.
LEMMA DelKind ==
  ASSUME WInv, CInv, NEW c \in Callers, DelEvent(c)
  PROVE  /\ CallsShrink
         /\ \E o \in Objects : \E e, left :
              Takes(o, e, left) /\ Ends(o, e, left) /\ Rearms(o, left)
<1>1. /\ call[c].at = "locked" /\ call[c].obj \in Objects
  BY DEF DelEvent, In, CInv, CallsMade
<1>2. CallsShrink  BY <1>1, DoneShrinks DEF DelEvent
<1> PICK o \in Objects : o = call[c].obj  BY <1>1
<1> PICK e : e = call[c].ev  OBVIOUS
<1>3. context' = [context EXCEPT
             ![o] = [events |-> context[o].events \ {e},
                     waiter |-> [context[o].waiter EXCEPT ![e] = None]]]
  BY DEF DelEvent, Forget, WInv, Contexts
<1>4. Takes(o, e, context[o].events \ {e})
  BY <1>3 DEF DelEvent, Takes, OneLess
<1>5. Drops(o, e)  BY DEF DelEvent, Drops
<1>6. Rearms(o, context[o].events \ {e})
  <2>1. context[o].events \ {e} \in SUBSET Event  BY DEF WInv, Contexts
  <2> QED  BY <2>1 DEF DelEvent, Rearm, Rearms
<1> QED  BY <1>2, <1>4, <1>5, <1>6 DEF Ends

\* cancelEvent() empties one slot and fires.
LEMMA CancelKind ==
  ASSUME WInv, CInv, NEW c \in Callers, CancelEvent(c)
  PROVE  /\ CallsShrink
         /\ \E o \in Objects : \E e, left :
              Takes(o, e, left) /\ Ends(o, e, left) /\ Rearms(o, left)
<1>1. /\ call[c].at = "locked" /\ call[c].obj \in Objects
  BY DEF CancelEvent, In, CInv, CallsMade
<1>2. CallsShrink  BY <1>1, DoneShrinks DEF CancelEvent
<1> PICK o \in Objects : o = call[c].obj  BY <1>1
<1> PICK e : e = call[c].ev  OBVIOUS
<1>3. Takes(o, e, {}) /\ Fires(o, e)
  BY TriggerTakes DEF CancelEvent
<1>4. Rearms(o, {})
  <2>1. EpollIn(context[o].events \ {e}) \in SUBSET Event
    BY DEF WInv, Contexts, EpollIn, Event
  <2> QED  BY <2>1 DEF CancelEvent, Rearm, Rearms
<1> QED  BY <1>2, <1>3, <1>4 DEF Ends

\* cancelAll() fires at most one waiter: the first trigger clears the mask.
LEMMA CancelAllKind ==
  ASSUME WInv, CInv, NEW c \in Callers, CancelAll(c)
  PROVE  /\ CallsShrink
         /\ call[c].obj \in Objects
         /\ \/ Quiet /\ UNCHANGED <<call, kernel, stranded>>
            \/ \E e : /\ Takes(call[c].obj, e, {}) /\ Fires(call[c].obj, e)
                      /\ Rearms(call[c].obj, {})
<1>1. /\ call[c].at = "locked" /\ call[c].obj \in Objects
  BY DEF CancelAll, In, CInv, CallsMade
<1> PICK o \in Objects : o = call[c].obj  BY <1>1
<1>2. CASE UNCHANGED <<call, kernel, stranded>> /\ Quiet
  BY <1>2 DEF CInv, CallsShrink, CallsMade
<1>3. CASE ~(UNCHANGED <<call, kernel, stranded>> /\ Quiet)
  <2> DEFINE x0 == Before(o)
             x1 == IF "READ" \in x0.events THEN Triggered(x0, "READ") ELSE x0
             x2 == IF "WRITE" \in x1.events THEN Triggered(x1, "WRITE")
                   ELSE x1
             n == (IF "READ" \in x0.events THEN 1 ELSE 0)
                  + (IF "WRITE" \in x1.events THEN 1 ELSE 0)
  <2>1. /\ x0.events # {} /\ Done(c) /\ UNCHANGED deleted
        /\ After(o, x2, n)
    BY <1>3 DEF CancelAll, Abort, Quiet
  <2>6. Rearms(o, {})
    BY <1>3 DEF CancelAll, Abort, Quiet, Rearm, Rearms
  <2>2. x0.events = context[o].events /\ context[o].events \subseteq Event
    BY DEF Before, WInv, Contexts
  <2>3. CallsShrink  BY <1>1, <2>1, DoneShrinks
  <2>4. CASE "READ" \in context[o].events
    <3>1. x1.events = {} /\ x1 = Triggered(x0, "READ")
      BY <2>2, <2>4 DEF Triggered, Cleared
    <3>2. x2 = Triggered(x0, "READ") /\ n = 1  BY <2>2, <2>4, <3>1
    <3>3. Takes(o, "READ", {}) /\ Fires(o, "READ")
      BY <2>1, <2>4, <3>2, TriggerTakes
    <3> QED  BY <2>3, <2>6, <3>3
  <2>5. CASE "READ" \notin context[o].events
    <3>1. x1 = x0 /\ "WRITE" \in context[o].events
      BY <2>1, <2>2, <2>5 DEF Event
    <3>2. x2 = Triggered(x0, "WRITE") /\ n = 1  BY <2>2, <2>5, <3>1
    <3>3. Takes(o, "WRITE", {}) /\ Fires(o, "WRITE")
      BY <2>1, <3>1, <3>2, TriggerTakes
    <3> QED  BY <2>3, <2>6, <3>3
  <2> QED  BY <2>4, <2>5
<1> QED  BY <1>1, <1>2, <1>3

\* So does one turn of the event loop that finds something registered,
LEMMA HandleFires ==
  ASSUME WInv, KInv, NEW b \in batch, HandleEvent(b), b \notin batch',
         RealEvents(b) \cap context[b.obj].events # {}, kernel[b.obj.fd].on
  PROVE  \E e : /\ Takes(b.obj, e, {}) /\ Fires(b.obj, e)
                /\ Rearms(b.obj, {})
<1> DEFINE o == b.obj
           real == RealEvents(b)
           x0 == Before(o)
           x1 == IF "READ" \in real THEN Triggered(x0, "READ") ELSE x0
           x2 == IF "WRITE" \in real /\ ~x1.failed THEN Triggered(x1, "WRITE")
                 ELSE x1
<1>1. /\ real \cap x0.events # {} /\ ~x2.failed
      /\ kernel' = Rearm(o, x0.events \ real)
      /\ After(o, x2, Cardinality(real))
      /\ UNCHANGED <<deleted, stranded>>
  BY DEF HandleEvent, Abort, Before
<1>2. o \in Objects /\ b.events \subseteq Event \cup {"HUP"}
  BY DEF KInv
<1>3. x0.events = context[o].events /\ context[o].events \subseteq Event
  BY <1>2 DEF Before, WInv, Contexts
<1>4. real \subseteq Event  BY <1>2, <1>3 DEF RealEvents
<1>5. ~x0.failed  BY DEF Before
<1>6. Rearms(o, {})
  <2>1. x0.events \ real \in SUBSET Event  BY <1>3
  <2> QED  BY <1>1, <2>1 DEF Rearm, Rearms
<1>7. \A x, e : e \notin x.events => Triggered(x, e) = [x EXCEPT !.failed = TRUE]
  BY DEF Triggered
<1>8. CASE "READ" \in real
  <2>1. x1 = Triggered(x0, "READ")  BY <1>8
  <2>2. "READ" \in context[o].events
    <3>1. SUFFICES ASSUME "READ" \notin x0.events PROVE FALSE  BY <1>3
    <3>2. x1.failed  BY <2>1, <3>1 DEF Triggered, Before
    <3> QED  BY <1>1, <3>2
  <2>3. x1.events = {} /\ ~x1.failed
    BY <1>3, <2>1, <2>2 DEF Triggered, Cleared
  <2>4. "WRITE" \notin real
    <3>1. SUFFICES ASSUME "WRITE" \in real PROVE FALSE  OBVIOUS
    <3>2. x2 = Triggered(x1, "WRITE")  BY <2>3, <3>1
    <3>3. x1 = [events |-> {},
                waiter |-> ResetEventContext(x0.waiter, "READ"),
                woken |-> [x0.woken EXCEPT ![x0.waiter["READ"]] = @ + 1],
                failed |-> FALSE]
      BY <1>3, <2>1, <2>2 DEF Triggered, Cleared
    <3>4. Triggered(x1, "WRITE") = [x1 EXCEPT !.failed = TRUE]
      BY <1>7, <2>3
    <3>5. x2.failed  BY <3>2, <3>3, <3>4
    <3> QED  BY <1>1, <3>5
  <2>5. real = {"READ"}  BY <1>4, <1>8, <2>4 DEF Event
  <2>6. Cardinality(real) = 1  BY <2>5, FS_Singleton
  <2>7. x2 = Triggered(x0, "READ")  BY <2>1, <2>4
  <2>8. Takes(o, "READ", {}) /\ Fires(o, "READ")
    BY <1>1, <1>2, <2>2, <2>6, <2>7, TriggerTakes
  <2> QED  BY <1>2, <1>6, <2>8
<1>9. CASE "READ" \notin real
  <2>1. real = {"WRITE"}  BY <1>1, <1>4, <1>9 DEF Event
  <2>2. "WRITE" \in context[o].events  BY <1>1, <1>3, <2>1
  <2>3. x1 = x0  BY <1>9
  <2>4. x2 = Triggered(x0, "WRITE")  BY <1>5, <2>1, <2>3
  <2>5. Cardinality(real) = 1  BY <2>1, FS_Singleton
  <2>6. Takes(o, "WRITE", {}) /\ Fires(o, "WRITE")
    BY <1>1, <1>2, <2>2, <2>4, <2>5, TriggerTakes
  <2> QED  BY <1>2, <1>6, <2>6
<1> QED  BY <1>8, <1>9

\* or it changes nothing.
LEMMA HandleKind ==
  ASSUME WInv, KInv, NEW b \in batch, HandleEvent(b)
  PROVE  \/ Quiet /\ UNCHANGED <<kernel, stranded>>
         \/ /\ b.obj \in Objects
            /\ \E e : /\ Takes(b.obj, e, {}) /\ Fires(b.obj, e)
                      /\ Rearms(b.obj, {})
<1>1. CASE Quiet /\ UNCHANGED <<kernel, stranded>>  BY <1>1
<1>2. CASE ~(Quiet /\ UNCHANGED <<kernel, stranded>>)
  <2>1. /\ RealEvents(b) \cap context[b.obj].events # {}
        /\ kernel[b.obj.fd].on /\ b \notin batch'
    BY <1>2 DEF HandleEvent, Abort, Quiet, Before
  <2>2. b.obj \in Objects  BY DEF KInv
  <2> QED  BY <2>1, <2>2, HandleFires
<1> QED  BY <1>1, <1>2

\* A new operation brings a waiter nobody used.
LEMMA CallKind ==
  ASSUME CInv, NEW c \in Callers, NEW fd \in Fds,
         NEW op \in {"add", "del", "cancel", "cancelAll", "close"},
         NEW ev \in Event \cup {None}, NEW w \in Waiters \cup {None},
         op \in {"add", "del", "cancel"} => ev \in Event,
         op = "add" => w \in Waiters,
         w # None => Unused(w),
         Call(c, op, fd, ev, w)
  PROVE  Quiet /\ UNCHANGED <<kernel, stranded>> /\ CInv'
<1>2. Quiet /\ UNCHANGED <<kernel, stranded>>  BY DEF Call, Quiet
<1> DEFINE new == [op |-> op, at |-> "lookup", fd |-> fd, ev |-> ev,
                   obj |-> None, waiter |-> w]
<1>3. call' = [call EXCEPT ![c] = new]  BY DEF Call
<1>4. new \in Calls  BY DEF Calls
<1>5. call' \in [Callers -> Calls]  BY <1>3, <1>4 DEF CInv
<1>6. CallsMade'  BY <1>3 DEF CInv, CallsMade
<1>7. \A d \in Callers : call'[d].waiter = IF d = c THEN w ELSE call[d].waiter
  BY <1>3 DEF CInv
<1>8. CallsApart'
  <2> SUFFICES ASSUME NEW d \in Callers, NEW e \in Callers,
                      call'[d].waiter = call'[e].waiter,
                      call'[d].waiter # None
               PROVE  d = e
    BY DEF CallsApart
  <2>1. w # None => \A x \in Callers : call[x].waiter # w
    BY DEF Unused
  <2> QED  BY <1>7, <2>1 DEF CInv, CallsApart
<1>9. CallsFresh'
  BY <1>2, <1>7, FdAssumption
  DEF CInv, CallsFresh, Unused, Quiet, Waits
<1> QED  BY <1>2, <1>5, <1>6, <1>8, <1>9 DEF CInv

\* The same of every operation that may begin.
LEMMA BeginKind ==
  ASSUME CInv, NEW c \in Callers, Begin(c)
  PROVE  Quiet /\ UNCHANGED <<kernel, stranded>> /\ CInv'
<1> PICK fd \in Fds :
      \/ \E e \in Event, w \in Waiters : Unused(w) /\ Call(c, "add", fd, e, w)
      \/ \E e \in Event, op \in {"del", "cancel"} : Call(c, op, fd, e, None)
      \/ \E op \in {"cancelAll", "close"} : Call(c, op, fd, None, None)
  BY DEF Begin
<1>1. ASSUME NEW e \in Event, NEW w \in Waiters, Unused(w),
             Call(c, "add", fd, e, w)
      PROVE  Quiet /\ UNCHANGED <<kernel, stranded>> /\ CInv'
  BY <1>1, CallKind
<1>2. ASSUME NEW e \in Event, NEW op \in {"del", "cancel"},
             Call(c, op, fd, e, None)
      PROVE  Quiet /\ UNCHANGED <<kernel, stranded>> /\ CInv'
  BY <1>2, CallKind
<1>3. ASSUME NEW op \in {"cancelAll", "close"}, Call(c, op, fd, None, None)
      PROVE  Quiet /\ UNCHANGED <<kernel, stranded>> /\ CInv'
  BY <1>3, CallKind
<1> QED  BY <1>1, <1>2, <1>3

\* Reading the table changes no registration.
LEMMA LookupKind ==
  ASSUME CInv, KInv, NEW c \in Callers, Lookup(c)
  PROVE  Quiet /\ UNCHANGED <<kernel, stranded>> /\ CallsShrink
<1>1. Quiet /\ UNCHANGED <<kernel, stranded>>  BY DEF Lookup, Quiet
<1>2. call[c].at = "lookup" /\ call[c].fd \in Fds
  BY DEF Lookup, CInv, CallsMade
<1>3. ASSUME NEW at \in {"locked", "resize"}, NEW obj \in Objects \cup {None},
             at = "locked" => obj \in Objects,
             call' = [call EXCEPT ![c] = [call[c] EXCEPT !.at = at,
                                                         !.obj = obj]]
      PROVE  CallsShrink
  <2>1. [call[c] EXCEPT !.at = at, !.obj = obj] \in Calls
    BY DEF CInv, Calls
  <2>2. call' \in [Callers -> Calls]  BY <1>3, <2>1 DEF CInv
  <2>3. CallsMade'  BY <1>2, <1>3 DEF CInv, CallsMade, Calls
  <2>4. \A d \in Callers : call'[d].waiter = call[d].waiter
    BY <1>3 DEF CInv, Calls
  <2> QED  BY <2>2, <2>3, <2>4 DEF CallsShrink
<1>4. CASE Done(c)  BY <1>1, <1>2, <1>4, DoneShrinks
<1>5. CASE call' = [call EXCEPT ![c].at = "locked",
                                ![c].obj = [fd |-> call[c].fd, gen |-> gen]]
  <2>1. [fd |-> call[c].fd, gen |-> gen] \in Objects
    BY <1>2 DEF KInv, Objects
  <2>2. call' = [call EXCEPT ![c] =
                   [call[c] EXCEPT !.at = "locked",
                                   !.obj = [fd |-> call[c].fd, gen |-> gen]]]
    BY <1>5 DEF CInv
  <2> QED  BY <1>1, <1>3, <2>1, <2>2
<1>6. CASE call' = [call EXCEPT ![c].at = "resize"]
  <2>1. call[c].obj \in Objects \cup {None}  BY DEF CInv, Calls
  <2>2. call' = [call EXCEPT ![c] = [call[c] EXCEPT !.at = "resize",
                                                    !.obj = call[c].obj]]
    BY <1>6 DEF CInv, Calls
  <2> QED  BY <1>1, <1>3, <2>1, <2>2
<1> QED  BY <1>4, <1>5, <1>6 DEF Lookup

\* Nor does contextResize(): the old objects stay where they were.
LEMMA ResizeKind ==
  ASSUME CInv, KInv, NEW c \in Callers, ContextResize(c)
  PROVE  /\ Quiet /\ UNCHANGED <<kernel, stranded>> /\ CallsShrink
         /\ size' \in Nat /\ gen' \in 0 .. MaxGen
<1>1. Quiet /\ UNCHANGED <<kernel, stranded>>  BY DEF ContextResize, Quiet
<1>2. call[c].at = "resize" /\ call[c].fd \in Fds
  BY DEF ContextResize, CInv, CallsMade
<1>3. gen' \in 0 .. MaxGen  BY FdAssumption DEF ContextResize, KInv
<1>4. call[c].fd \in Nat  BY <1>2, FdAssumption
<1>5. size' \in Nat  BY <1>4 DEF ContextResize
<1> DEFINE obj == [fd |-> call[c].fd, gen |-> gen']
           new == [call[c] EXCEPT !.at = "locked", !.obj = obj]
<1>6. obj \in Objects  BY <1>2, <1>3 DEF Objects
<1>7. call' = [call EXCEPT ![c] = new]  BY DEF ContextResize, CInv
<1>8. new \in Calls  BY <1>6 DEF CInv, Calls
<1>9. call' \in [Callers -> Calls]  BY <1>7, <1>8 DEF CInv
<1>10. CallsMade'  BY <1>2, <1>6, <1>7 DEF CInv, CallsMade, Calls
<1>11. \A d \in Callers : call'[d].waiter = call[d].waiter
  BY <1>7 DEF CInv, Calls
<1> QED  BY <1>1, <1>3, <1>5, <1>9, <1>10, <1>11 DEF CallsShrink

\* Nor does the descriptor being closed.
LEMMA CloseKind ==
  ASSUME CInv, NEW c \in Callers, CloseFd(c)
  PROVE  Quiet /\ CallsShrink
<1>1. Idle \in Calls  BY DEF Idle, Calls
<1>2. call' = [call EXCEPT ![c] = Idle]  BY DEF CloseFd
<1>3. call' \in [Callers -> Calls]  BY <1>1, <1>2 DEF CInv
<1>4. CallsMade'  BY <1>2 DEF CInv, CallsMade, Idle
<1> QED  BY <1>2, <1>3, <1>4 DEF CInv, CallsShrink, Idle, CloseFd, Quiet

\* A step that leaves the calls alone.
LEMMA SameShrinks ==
  ASSUME CInv, UNCHANGED call
  PROVE  CallsShrink
BY DEF CInv, CallsShrink, CallsMade

(***************************************************************************)
(* What the kernel watches                                                 *)
(***************************************************************************)
\* Registrations stay watched when neither they nor the kernel change,
LEMMA QuietWatched ==
  ASSUME Watched, Quiet, UNCHANGED <<kernel, stranded>>
  PROVE  Watched'
BY DEF Watched, Quiet

\* when one is taken out and the kernel told about what is left,
LEMMA TakeWatched ==
  ASSUME WInv, KInv, Watched, NEW o \in Objects, NEW e, NEW left,
         Takes(o, e, left), Rearms(o, left)
  PROVE  Watched'
<1> SUFFICES ASSUME NEW p \in Objects, NEW i \in context'[p].events,
                    \A q \in stranded : q.fd # p.fd
             PROVE  /\ kernel'[p.fd].on /\ i \in kernel'[p.fd].mask
                    /\ kernel'[p.fd].ptr = p
  BY DEF Watched, Rearms
<1>1. i \in context[p].events /\ (p = o => i \in left)
  BY DEF Takes, WInv, Contexts
<1>2. /\ kernel[p.fd].on /\ i \in kernel[p.fd].mask
      /\ kernel[p.fd].ptr = p
  BY <1>1 DEF Watched
<1>3. p.fd \in Fds /\ o.fd \in Fds  BY DEF Objects
<1>4. CASE p.fd # o.fd
  BY <1>2, <1>3, <1>4 DEF Rearms, KInv
<1>5. CASE p.fd = o.fd
  <2>1. kernel[o.fd].ptr = o
    BY <1>5 DEF Watched, Takes
  <2>2. p = o  BY <1>2, <1>5, <2>1
  <2>3. i \in left  BY <1>1, <2>2
  <2>4. PICK m \in SUBSET Event :
          left \subseteq m /\ kernel' = [kernel EXCEPT ![o.fd] = Watch(m, o)]
    BY <2>3 DEF Rearms
  <2>5. kernel'[o.fd] = Watch(m, o)  BY <1>3, <2>4 DEF KInv
  <2> QED  BY <2>2, <2>3, <2>4, <2>5 DEF Watch
<1> QED  BY <1>4, <1>5

\* when one is added,
LEMMA AddWatched ==
  ASSUME WInv, CInv, KInv, Watched, NEW c \in Callers, AddEvent(c)
  PROVE  Watched'
<1>1. CASE Quiet /\ UNCHANGED <<kernel, stranded>>  BY <1>1, QuietWatched
<1>2. CASE ~(Quiet /\ UNCHANGED <<kernel, stranded>>)
  <2>1. call[c].obj \in Objects /\ call[c].ev \in Event
    BY DEF AddEvent, In, CInv, CallsMade
  <2> PICK o \in Objects, e \in Event : o = call[c].obj /\ e = call[c].ev
    BY <2>1
  <2> DEFINE mask == EpollIn(context[o].events \cup {e})
  <2>2. /\ ~((context[o].events = {}) = kernel[o.fd].on)
        /\ kernel' = [kernel EXCEPT ![o.fd] = Watch(mask, o)]
        /\ context' = [context EXCEPT
              ![o] = [events |-> context[o].events \cup {e},
                      waiter |-> [@.waiter EXCEPT ![e] = call[c].waiter]]]
        /\ UNCHANGED stranded
    BY <1>2 DEF AddEvent, Abort, Quiet
  <2> SUFFICES ASSUME NEW p \in Objects, NEW i \in context'[p].events,
                      \A q \in stranded : q.fd # p.fd
               PROVE  /\ kernel'[p.fd].on /\ i \in kernel'[p.fd].mask
                      /\ kernel'[p.fd].ptr = p
    BY <2>2 DEF Watched
  <2>3. p.fd \in Fds /\ o.fd \in Fds  BY DEF Objects
  <2>4. CASE p = o
    <3>1. i \in context[o].events \cup {e}
      BY <2>2, <2>4 DEF WInv, Contexts
    <3>2. kernel'[o.fd] = Watch(mask, o)  BY <2>2, <2>3 DEF KInv
    <3>3. i \in mask  BY <3>1 DEF EpollIn
    <3> QED  BY <2>4, <3>2, <3>3 DEF Watch
  <2>5. CASE p # o
    <3>1. i \in context[p].events  BY <2>2, <2>5 DEF WInv, Contexts
    <3>2. /\ kernel[p.fd].on /\ i \in kernel[p.fd].mask
          /\ kernel[p.fd].ptr = p
      BY <3>1 DEF Watched
    <3>3. p.fd # o.fd
      <4> SUFFICES ASSUME p.fd = o.fd PROVE FALSE  OBVIOUS
      <4>1. context[o].events = {}
        <5> SUFFICES ASSUME NEW j \in context[o].events PROVE FALSE
          OBVIOUS
        <5>1. kernel[o.fd].ptr = o  BY DEF Watched
        <5> QED  BY <2>5, <3>2, <5>1
      <4>2. ~kernel[o.fd].on
        <5>1. kernel[o.fd].on \in BOOLEAN  BY <2>3 DEF KInv
        <5> QED  BY <2>2, <4>1, <5>1
      <4> QED  BY <3>2, <4>2
    <3> QED  BY <2>2, <2>3, <3>2, <3>3 DEF KInv
  <2> QED  BY <2>4, <2>5
<1> QED  BY <1>1, <1>2

\* and when the descriptor of an empty context is closed.
LEMMA CloseWatched ==
  ASSUME WInv, KInv, Watched, NEW c \in Callers, CloseFd(c)
  PROVE  Watched'
<1> SUFFICES ASSUME NEW p \in Objects, NEW i \in context[p].events,
                    \A q \in stranded' : q.fd # p.fd
             PROVE  /\ kernel'[p.fd].on /\ i \in kernel'[p.fd].mask
                    /\ kernel'[p.fd].ptr = p
  BY DEF Watched, CloseFd
<1>1. \A q \in stranded : q.fd # p.fd  BY DEF CloseFd
<1>2. p.fd # call[c].fd
  <2> SUFFICES ASSUME p.fd = call[c].fd PROVE FALSE  OBVIOUS
  <2>1. p \in stranded'  BY DEF CloseFd
  <2> QED  BY <2>1
<1>3. p.fd \in Fds  BY DEF Objects
<1> QED  BY <1>1, <1>2, <1>3 DEF CloseFd, Watched, KInv

(***************************************************************************)
(* The invariant                                                           *)
(***************************************************************************)
IInv == WInv /\ CInv /\ KInv /\ Watched

\* The invariant holds in the empty table.
LEMMA IInvInit == Init => IInv
<1> SUFFICES ASSUME Init PROVE IInv  OBVIOUS
<1>1. context \in Contexts /\ Histories  BY DEF Init, Contexts, Histories
<1>2. Slots = {}  BY DEF Init, Slots, WaiterAt
<1>3. \A w \in Waiters : ~Waits(w)  BY FdAssumption DEF Init, Waits
<1>4. Counted  BY <1>2, FS_EmptySet DEF Counted, Init
<1>5. Filled /\ Apart /\ Unfired /\ OneEnd
  BY <1>2 DEF Init, Filled, Apart, Unfired, OneEnd
<1>6. call \in [Callers -> Calls]  BY DEF Init, Idle, Calls
<1>7. CallsMade /\ CallsApart
  BY DEF Init, Idle, CallsMade, CallsApart
<1>8. CallsFresh  BY <1>3 DEF Init, CallsFresh
<1>9. KInv
  <2>1. 0 \in 0 .. MaxGen  BY FdAssumption
  <2>2. Unwatched \in [on: BOOLEAN, mask: SUBSET Event,
                       ptr: Objects \cup {None}]
    BY DEF Unwatched
  <2> QED  BY <2>1, <2>2, FdAssumption DEF Init, KInv, PtrOK, Unwatched
<1>10. Watched  BY DEF Init, Watched
<1> QED  BY <1>1, <1>4, <1>5, <1>6, <1>7, <1>8, <1>9, <1>10
         DEF IInv, WInv, CInv

\* Registrations in the kernel keep their type.
LEMMA RearmKernel ==
  ASSUME KInv, NEW o \in Objects, NEW left, Rearms(o, left)
  PROVE  (kernel \in [Fds -> [on: BOOLEAN, mask: SUBSET Event,
                              ptr: Objects \cup {None}]] /\ PtrOK)'
<1>1. o.fd \in Fds  BY DEF Objects
<1>2. CASE kernel' = [kernel EXCEPT ![o.fd] = Unwatched]
  BY <1>1, <1>2 DEF KInv, PtrOK, Unwatched
<1>3. ASSUME NEW m \in SUBSET Event,
             kernel' = [kernel EXCEPT ![o.fd] = Watch(m, o)]
      PROVE  (kernel \in [Fds -> [on: BOOLEAN, mask: SUBSET Event,
                                  ptr: Objects \cup {None}]] /\ PtrOK)'
  BY <1>1, <1>3 DEF KInv, PtrOK, Watch
<1> QED  BY <1>2, <1>3 DEF Rearms

\* Every step keeps the invariant of the rest of the state.
LEMMA KInvNext == IInv /\ Next => KInv'
<1> SUFFICES ASSUME IInv, Next PROVE KInv'  OBVIOUS
<1> USE DEF IInv
<1>1. ASSUME NEW c \in Callers, Begin(c) PROVE KInv'
  BY <1>1 DEF Begin, Call, KInv, PtrOK
<1>2. ASSUME NEW c \in Callers, Lookup(c) PROVE KInv'
  BY <1>2 DEF Lookup, KInv, PtrOK
<1>3. ASSUME NEW c \in Callers, ContextResize(c) PROVE KInv'
  <2>1. size' \in Nat /\ gen' \in 0 .. MaxGen  BY <1>3, ResizeKind
  <2> QED  BY <1>3, <2>1 DEF ContextResize, KInv, PtrOK
<1>4. ASSUME NEW c \in Callers, AddEvent(c) PROVE KInv'
  <2>1. call[c].obj \in Objects /\ call[c].ev \in Event
    BY <1>4 DEF AddEvent, In, CInv, CallsMade
  <2> PICK o \in Objects, e \in Event : o = call[c].obj /\ e = call[c].ev
    BY <2>1
  <2>2. EpollIn(context[o].events \cup {e}) \subseteq Event
    BY DEF EpollIn, Event, WInv, Contexts
  <2>3. o.fd \in Fds  BY DEF Objects
  <2>4. CASE UNCHANGED kernel
    BY <1>4, <2>4 DEF AddEvent, Abort, KInv, PtrOK
  <2>5. CASE kernel' = [kernel EXCEPT ![o.fd] =
                          Watch(EpollIn(context[o].events \cup {e}), o)]
    <3>1. (kernel \in [Fds -> [on: BOOLEAN, mask: SUBSET Event,
                               ptr: Objects \cup {None}]] /\ PtrOK)'
      BY <2>2, <2>3, <2>5 DEF KInv, PtrOK, Watch
    <3> QED  BY <1>4, <3>1 DEF AddEvent, Abort, KInv
  <2> QED  BY <1>4, <2>4, <2>5 DEF AddEvent, Abort
<1>5. ASSUME NEW c \in Callers, Nothing(c) PROVE KInv'
  BY <1>5 DEF Nothing, KInv, PtrOK
<1>6. ASSUME NEW c \in Callers, DelEvent(c) PROVE KInv'
  BY <1>6, DelKind, RearmKernel DEF DelEvent, KInv
<1>7. ASSUME NEW c \in Callers, CancelEvent(c) PROVE KInv'
  BY <1>7, CancelKind, RearmKernel DEF CancelEvent, KInv
<1>8. ASSUME NEW c \in Callers, CancelAll(c) PROVE KInv'
  <2>1. CASE UNCHANGED kernel
    BY <1>8, <2>1 DEF CancelAll, Abort, KInv, PtrOK
  <2>2. CASE kernel' = Rearm(call[c].obj, {}) /\ UNCHANGED stranded
    <3>1. call[c].obj \in Objects
      BY <1>8 DEF CancelAll, In, CInv, CallsMade
    <3>2. Rearms(call[c].obj, {})  BY <2>2 DEF Rearm, Rearms
    <3> QED  BY <1>8, <3>1, <3>2, RearmKernel DEF CancelAll, Abort, KInv
  <2> QED  BY <1>8, <2>1, <2>2 DEF CancelAll, Abort
<1>9. ASSUME NEW c \in Callers, CloseFd(c) PROVE KInv'
  BY <1>9 DEF CloseFd, KInv, PtrOK, Unwatched
<1>10. ASSUME EpollWait PROVE KInv'
  <2>1. PICK r \in [{fd \in Fds : kernel[fd].on}
                    -> SUBSET (Event \cup {"HUP"})] :
          batch' = {[obj |-> kernel[fd].ptr, events |-> r[fd]] :
                      fd \in {g \in DOMAIN r : r[g] # {}}}
    BY <1>10 DEF EpollWait
  <2>2. batch' \subseteq [obj: Objects, events: SUBSET (Event \cup {"HUP"})]
    BY <2>1 DEF KInv, PtrOK
  <2> QED  BY <1>10, <2>2 DEF EpollWait, KInv, PtrOK
<1>11. ASSUME NEW b \in batch, HandleEvent(b) PROVE KInv'
  <2>1. CASE UNCHANGED kernel
    BY <1>11, <2>1 DEF HandleEvent, Abort, KInv, PtrOK
  <2>2. CASE ~UNCHANGED kernel
    <3>1. PICK o \in Objects : \E left : Rearms(o, left)
      BY <1>11, <2>2, HandleKind
    <3> QED  BY <1>11, <3>1, RearmKernel DEF HandleEvent, Abort, KInv
  <2> QED  BY <2>1, <2>2
<1>12. ASSUME Ended PROVE KInv'
  BY <1>12 DEF Ended, vars, KInv, PtrOK
<1> QED  BY <1>1, <1>2, <1>3, <1>4, <1>5, <1>6, <1>7, <1>8, <1>9, <1>10,
            <1>11, <1>12 DEF Next

\* What every step is to the waiters: nothing, a registration or an end.
Steps == \/ UNCHANGED <<Status, Rooms, pending>>
         \/ \E w \in Waiters : Promise!Register(w)
         \/ \E w \in Waiters : Promise!Trigger(w) \/ Promise!Remove(w)
Kept == WInv' /\ CInv' /\ Watched' /\ Steps

\* The promise and the watching are kept by a quiet step
LEMMA QuietKept ==
  ASSUME IInv, Quiet, UNCHANGED <<kernel, stranded>>, CallsShrink
  PROVE  Kept
BY QuietKeeps, QuietCalls, QuietWatched, QuietStutters DEF IInv, Kept, Steps

\* and by taking a waiter out.
LEMMA TakeKept ==
  ASSUME IInv, NEW o \in Objects, NEW e, NEW left, Takes(o, e, left),
         Ends(o, e, left), Rearms(o, left), CallsShrink
  PROVE  Kept
BY TakeKeeps, TakeCalls, TakeWatched, TakeEnds DEF IInv, Kept, Steps, Ends

\* They are kept by every step.
LEMMA KeptNext == IInv /\ Next => Kept
<1> SUFFICES ASSUME IInv, Next PROVE Kept  OBVIOUS
<1> USE DEF IInv
<1>1. ASSUME NEW c \in Callers, Begin(c) PROVE Kept
  BY <1>1, BeginKind, QuietKeeps, QuietWatched, QuietStutters DEF Kept, Steps
<1>2. ASSUME NEW c \in Callers, Lookup(c) PROVE Kept
  BY <1>2, LookupKind, QuietKept
<1>3. ASSUME NEW c \in Callers, ContextResize(c) PROVE Kept
  BY <1>3, ResizeKind, QuietKept
<1>4. ASSUME NEW c \in Callers, AddEvent(c) PROVE Kept
  <2>1. Watched' /\ CallsShrink  BY <1>4, AddWatched, AddKind
  <2>2. CASE Quiet
    BY <2>1, <2>2, QuietKeeps, QuietCalls, QuietStutters DEF Kept, Steps
  <2>3. CASE /\ Puts(call[c].obj, call[c].ev, call[c].waiter)
             /\ call'[c].waiter = None
    <3>1. /\ call[c].obj \in Objects /\ call[c].ev \in Event
          /\ call[c].waiter \in Waiters
      BY <1>4 DEF AddEvent, In, CInv, CallsMade
    <3> PICK o \in Objects, e \in Event, w \in Waiters :
          o = call[c].obj /\ e = call[c].ev /\ w = call[c].waiter
      BY <3>1
    <3>2. Puts(o, e, w) /\ call[c].waiter = w  BY <2>3
    <3>3. woken[w] = 0 /\ ~deleted[w] /\ ~Waits(w)
      BY <3>2 DEF CInv, CallsFresh
    <3>4. WInv'  BY <3>2, <3>3, PutKeeps
    <3>5. CInv'  BY <2>1, <2>3, <3>2, PutCalls
    <3>6. Promise!Register(w)  BY <3>2, <3>3, PutRegisters
    <3> QED  BY <2>1, <3>4, <3>5, <3>6 DEF Kept, Steps
  <2> QED  BY <1>4, <2>2, <2>3, AddKind
<1>5. ASSUME NEW c \in Callers, Nothing(c) PROVE Kept
  <2>1. Quiet /\ UNCHANGED <<kernel, stranded>>  BY <1>5 DEF Nothing, Quiet
  <2>2. CallsShrink  BY <1>5, DoneShrinks DEF Nothing
  <2> QED  BY <2>1, <2>2, QuietKept
<1>6. ASSUME NEW c \in Callers, DelEvent(c) PROVE Kept
  BY <1>6, DelKind, TakeKept
<1>7. ASSUME NEW c \in Callers, CancelEvent(c) PROVE Kept
  BY <1>7, CancelKind, TakeKept
<1>8. ASSUME NEW c \in Callers, CancelAll(c) PROVE Kept
  BY <1>8, CancelAllKind, QuietKept, TakeKept DEF Ends
<1>9. ASSUME NEW c \in Callers, CloseFd(c) PROVE Kept
  BY <1>9, CloseKind, CloseWatched, QuietKeeps, QuietCalls, QuietStutters
  DEF Kept, Steps
<1>10. ASSUME EpollWait PROVE Kept
  BY <1>10, SameShrinks, QuietKept DEF EpollWait, Quiet
<1>11. ASSUME NEW b \in batch, HandleEvent(b) PROVE Kept
  <2>1. CallsShrink  BY <1>11, SameShrinks DEF HandleEvent, Abort
  <2> QED  BY <1>11, <2>1, HandleKind, QuietKept, TakeKept DEF Ends
<1>12. ASSUME Ended PROVE Kept
  BY <1>12, SameShrinks, QuietKept DEF Ended, vars, Quiet
<1> QED  BY <1>1, <1>2, <1>3, <1>4, <1>5, <1>6, <1>7, <1>8, <1>9, <1>10,
            <1>11, <1>12 DEF Next

\* The invariant holds in every reachable state.
THEOREM Invariant == Spec => []IInv
<1>1. IInv /\ [Next]_vars => IInv'
  <2> SUFFICES ASSUME IInv, [Next]_vars PROVE IInv'  OBVIOUS
  <2>1. CASE Next  BY <2>1, KInvNext, KeptNext DEF IInv, Kept
  <2>2. CASE UNCHANGED vars
    <3>1. Kept
      BY <2>2, SameShrinks, QuietKept DEF vars, Quiet, IInv
    <3>2. KInv'  BY <2>2 DEF vars, IInv, KInv, PtrOK
    <3> QED  BY <3>1, <3>2 DEF IInv, Kept
  <2> QED  BY <2>1, <2>2
<1> QED  BY <1>1, IInvInit, PTL DEF Spec

\* Type correctness; m_pendingEventCount, a size_t, never goes below zero.
THEOREM TypeCorrect == Spec => []TypeOK
<1>1. IInv => TypeOK
  <2>1. IInv => pending \in Nat
    BY FS_CardinalityType DEF IInv, WInv, Counted
  <2> QED  BY <2>1 DEF IInv, WInv, CInv, KInv, TypeOK, Contexts, Histories
<1> QED  BY <1>1, Invariant, PTL

\* The pending count is the number of waiters in the table (PendingCountsWaiters).
THEOREM PendingCorrect == Spec => []PendingCountsWaiters
<1>1. IInv => PendingCountsWaiters
  BY DEF IInv, WInv, Counted, PendingCountsWaiters
<1> QED  BY <1>1, Invariant, PTL

\* No waiter is duplicated, whoever got to it first (WaiterInOnePlace).
THEOREM WaitersOnce == Spec => []WaiterInOnePlace
<1>1. IInv => WaiterInOnePlace
  BY DEF IInv, WInv, CInv, Apart, Unfired, OneEnd, CallsFresh,
         WaiterInOnePlace
<1> QED  BY <1>1, Invariant, PTL

\* The kernel watches for every registered event, as long as no registration
\* was closed under its waiter (RegisteredIsWatched).
THEOREM WatchCorrect == Spec => []RegisteredIsWatched
<1>1. IInv => RegisteredIsWatched
  BY DEF IInv, WInv, Filled, Watched, RegisteredIsWatched
<1> QED  BY <1>1, Invariant, PTL

\* A cancel that finds something registered and watched fires,
LEMMA CancelFires ==
  ASSUME IInv, [Next]_vars, NEW c \in Callers
  PROVE  CancelWakes(c)
<1> DEFINE o == call[c].obj
           asked == IF call[c].op = "cancel" THEN {call[c].ev} ELSE Event
<1> SUFFICES ASSUME In(c, {"cancel", "cancelAll", "close"}, "locked"),
                    call'[c] # call[c], kernel[o.fd].on,
                    asked \cap context[o].events # {}
             PROVE  Wakes(o, asked)
  BY DEF CancelWakes
<1>1. o \in Objects /\ context[o].events \subseteq Event
  BY DEF IInv, CInv, CallsMade, WInv, Contexts, In
<1>2. ASSUME NEW e \in asked, e \in context[o].events, Fires(o, e)
      PROVE  Wakes(o, asked)
  <2>1. context[o].waiter[e] \in Waiters /\ <<o, e>> \in Slots
    BY <1>1, <1>2, SlotFacts DEF IInv, WInv, Filled, Contexts
  <2>2. woken[context[o].waiter[e]] = 0
    BY <1>1, <1>2, <2>1 DEF IInv, WInv, Unfired, WaiterAt
  <2> QED  BY <1>2, <2>1, <2>2 DEF Wakes, Fires, IInv, WInv, Histories
<1>3. CASE CancelEvent(c)
  <2>1. call[c].op = "cancel" /\ call[c].ev \in context[o].events
    BY <1>3 DEF CancelEvent, In
  <2>2. Fires(o, call[c].ev)
    BY <1>1, <1>3, <2>1, TriggerTakes DEF CancelEvent, IInv
  <2> QED  BY <1>2, <2>1, <2>2
<1>4. CASE CancelAll(c)
  <2>1. call[c].op # "cancel"  BY <1>4 DEF CancelAll, In
  <2>2. \E e \in context[o].events : Fires(o, e)
    BY <1>4, CancelAllKind DEF IInv, Takes
  <2> QED  BY <1>1, <1>2, <2>1, <2>2
<1>5. ~Nothing(c)
  BY <1>1 DEF Nothing, In
<1>6. ~Begin(c)  BY DEF Begin, Call, In, Idle
<1>7. ~(Lookup(c) \/ ContextResize(c) \/ AddEvent(c) \/ DelEvent(c) \/ CloseFd(c))
  BY DEF Lookup, ContextResize, AddEvent, DelEvent, CloseFd, In
<1>8. ASSUME NEW d \in Callers, d # c PROVE
        /\ ~(Begin(d) \/ Lookup(d) \/ ContextResize(d) \/ AddEvent(d))
        /\ ~(Nothing(d) \/ DelEvent(d) \/ CancelEvent(d) \/ CancelAll(d)
               \/ CloseFd(d))
  <2>1. Done(d) => call'[c] = call[c]  BY <1>8 DEF Done, IInv, CInv
  <2>2. ~(Begin(d) \/ Lookup(d) \/ ContextResize(d) \/ AddEvent(d))
    BY <1>8, <2>1
    DEF Begin, Call, Lookup, ContextResize, AddEvent, Abort, IInv, CInv
  <2>3. ~(Nothing(d) \/ DelEvent(d) \/ CancelEvent(d) \/ CancelAll(d)
            \/ CloseFd(d))
    BY <1>8, <2>1
    DEF Nothing, DelEvent, CancelEvent, CancelAll, CloseFd, Abort, IInv, CInv
  <2> QED  BY <2>2, <2>3
<1>9. ~(EpollWait \/ Ended \/ UNCHANGED vars)
      /\ \A b \in batch : ~HandleEvent(b)
  BY DEF EpollWait, Ended, HandleEvent, Abort, vars
<1> QED  BY <1>3, <1>4, <1>5, <1>6, <1>7, <1>8, <1>9 DEF Next

\* and so does a hangup.
LEMMA HangupFires ==
  ASSUME IInv, [Next]_vars, NEW b \in batch
  PROVE  HangupWakes(b)
<1> SUFFICES ASSUME b \notin batch', "HUP" \in b.events,
                    context[b.obj].events # {}, kernel[b.obj.fd].on
             PROVE  Wakes(b.obj, Event)
  BY DEF HangupWakes
<1> DEFINE o == b.obj
<1>1. o \in Objects /\ context[o].events \subseteq Event
  BY DEF IInv, KInv, WInv, Contexts
<1>2. HandleEvent(b)
  <2>1. ASSUME NEW c \in Callers
        PROVE  ~(Begin(c) \/ Lookup(c) \/ ContextResize(c) \/ AddEvent(c)
                   \/ Nothing(c) \/ DelEvent(c) \/ CancelEvent(c)
                   \/ CancelAll(c) \/ CloseFd(c))
    BY DEF Begin, Call, Lookup, ContextResize, AddEvent, Nothing, DelEvent,
           CancelEvent, CancelAll, CloseFd, Abort
  <2>2. ~(EpollWait \/ Ended \/ UNCHANGED vars)  BY DEF EpollWait, Ended, vars
  <2>3. \A d \in batch : HandleEvent(d) => d = b  BY DEF HandleEvent, Abort
  <2> QED  BY <2>1, <2>2, <2>3 DEF Next
<1>3. RealEvents(b) \cap context[o].events # {}
  BY <1>1 DEF RealEvents
<1>4. PICK e \in context[o].events : Fires(o, e)
  BY <1>2, <1>3, HandleFires DEF IInv, Takes
<1>5. context[o].waiter[e] \in Waiters /\ <<o, e>> \in Slots
  BY <1>1, SlotFacts DEF IInv, WInv, Filled, Contexts
<1>6. woken[context[o].waiter[e]] = 0
  BY <1>1, <1>5 DEF IInv, WInv, Unfired, WaiterAt
<1> QED  BY <1>1, <1>4, <1>5, <1>6 DEF Wakes, Fires, IInv, WInv, Histories

\* The table implements the promise of its interface (KeepsPromise): every step
\* is one of a waiter's, and those that should wake somebody do.
THEOREM PromiseKept == Spec => KeepsPromise
<1>1. Init => Promise!Init
  <2> SUFFICES ASSUME Init PROVE Promise!Init  OBVIOUS
  <2>1. \A w \in Waiters : StatusOf(w) = "new"
    BY FdAssumption DEF Init, StatusOf, Waits
  <2>2. \A o \in Objects : Room(o) = {}
    BY FdAssumption DEF Init, Room
  <2> QED  BY <2>1, <2>2 DEF Init, Promise!Init
<1>2. IInv /\ [Next]_vars => [Promise!Next]_<<Status, Rooms, pending>>
  <2> SUFFICES ASSUME IInv, [Next]_vars
               PROVE  [Promise!Next]_<<Status, Rooms, pending>>
    OBVIOUS
  <2>1. CASE Next
    BY <2>1, KeptNext DEF Kept, Steps, Promise!Next
  <2>2. CASE UNCHANGED vars
    BY <2>2, QuietStutters DEF vars, Quiet
  <2> QED  BY <2>1, <2>2
<1>3. IInv /\ [Next]_vars => [WokenWhenAsked]_vars
  BY CancelFires, HangupFires DEF WokenWhenAsked
<1> QED  BY <1>1, <1>2, <1>3, Invariant, PTL
         DEF Spec, KeepsPromise, Promise!Spec, Status, Rooms
=============================================================================

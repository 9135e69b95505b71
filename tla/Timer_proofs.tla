---------------------------- MODULE Timer_proofs ----------------------------
(***************************************************************************)
(* Proofs about Timer for any number of timers and threads and any clock.  *)
(*                                                                         *)
(* Two facts carry the proofs: m_timers holds the nodes of exactly those   *)
(* Timers that have their callback, and, while the clock only moves        *)
(* forward, every time that was read from it is at most the clock.         *)
(***************************************************************************)
EXTENDS Timer, TLAPS

\* A Timer that a thread is about to insert is that thread's alone.
Insertions ==
  /\ \A th \in Threads : caller[th].at = "insert" =>
       /\ caller[th].timer \in Timers
       /\ ms[caller[th].timer] # -1
       /\ cb[caller[th].timer]
  /\ \A th, tg \in Threads, t \in Timers :
       Inserting(th, t) /\ Inserting(tg, t) => th = tg

\* A Timer that does not exist yet has no callback.
Unmade == \A t \in Timers : ~Made(t) => ~cb[t] /\ ~spent[t]

\* A Timer is spent when it has lost its callback.
Spent == \A t \in Timers : Made(t) => (cb[t] <=> ~spent[t])

\* The deadline is m_ms after some earlier moment.
Deadlines == \A t \in Timers : Made(t) => next[t] - ms[t] \in Nat

\* listExpiredCb()'s result is empty until it is filled.
Results == pc # "drain" => cbs = {}

TInv == /\ TypeOK /\ SetHoldsActive /\ Insertions /\ Unmade /\ Spent
        /\ Deadlines /\ Results

\* What SetHoldsActive says, node by node.
LEMMA NodesOfActive ==
  ASSUME TypeOK, SetHoldsActive
  PROVE  /\ \A t \in Timers : NodeOf(t) \in timers <=> Shared(t) /\ cb[t]
         /\ \A n \in timers : n.timer \in Timers /\ n = NodeOf(n.timer)
<1>1. \A n : n \in timers <=>
              \E t \in Timers : Shared(t) /\ cb[t] /\ n = NodeOf(t)
  BY DEF SetHoldsActive
<1>2. \A t : NodeOf(t).timer = t  BY DEF NodeOf
<1> QED  BY <1>1, <1>2

\* What epoll_wait() is told: at most MAX_TIMEOUT, and a negative number only
\* when the unsigned one was 2^31 or more.
LEMMA BoundedInt ==
  ASSUME NEW x \in Nat
  PROVE  /\ Bounded(x) \in Waits /\ Bounded(x) \in Int
         /\ Bounded(x) % Width \in Nat
         /\ Bounded(x) >= 0 =>
              Bounded(x) <= x /\ Bounded(x) % Width = Bounded(x)
         /\ Bounded(x) < 0 => x >= IntEnd
         /\ x <= MaxWait => Bounded(x) = x
<1> DEFINE low == x % (2 * IntEnd)
<1>1. /\ IntEnd \in Nat /\ Width \in Nat /\ MaxWait \in Nat
      /\ MaxWait < IntEnd /\ MaxWait < Width - 1
  BY TimerAssumption
<1>2. low \in 0 .. 2 * IntEnd - 1 /\ low <= x /\ (x < 2 * IntEnd => low = x)
  BY <1>1
<1> HIDE DEF low
<1>3. AsInt(x) = IF low < IntEnd THEN low ELSE low - 2 * IntEnd
  BY DEF AsInt, low
<1>4. /\ Bounded(x) \in Waits /\ Bounded(x) \in Int
      /\ Bounded(x) >= 0 => Bounded(x) <= x
      /\ Bounded(x) < 0 => x >= IntEnd
      /\ x <= MaxWait => Bounded(x) = x
  BY <1>1, <1>2, <1>3 DEF Bounded, NoTimer, Waits
<1>5. \A b \in Int : b % Width \in Nat  BY <1>1
<1>6. \A b \in 0 .. MaxWait : b % Width = b  BY <1>1
<1> QED  BY <1>1, <1>4, <1>5, <1>6 DEF Waits

\* The invariant holds when the manager is built.
LEMMA TInvInit == Init => TInv
<1> SUFFICES ASSUME Init PROVE TInv  OBVIOUS
<1>1. TypeOK
  <2>1. Free \in Calls  BY DEF Free, Calls
  <2>2. /\ Start \in 0 .. MaxClock /\ 0 \in 0 .. MaxClock /\ "out" \in PC
        /\ 0 \in Waits
    BY TimerAssumption DEF PC, Waits
  <2>3. timeout \in Nat /\ slept \in Int /\ next \in [Timers -> Nat]
    BY DEF Init
  <2>4. ms \in [Timers -> Periods \cup {-1}] /\ caller \in [Threads -> Calls]
    BY <2>1 DEF Init
  <2> QED  BY <2>2, <2>3, <2>4 DEF Init, TypeOK
<1>2. \A t \in Timers : ~Made(t)  BY DEF Init, Made
<1>3. SetHoldsActive  BY <1>2 DEF Init, SetHoldsActive, Shared
<1>4. Insertions  BY DEF Init, Insertions, Inserting, Free
<1>5. Unmade /\ Spent /\ Deadlines /\ Results
  BY <1>2 DEF Init, Unmade, Spent, Deadlines, Results
<1> QED  BY <1>1, <1>3, <1>4, <1>5 DEF TInv

USE DEF timerVars, workerVars, sleepVars, history

\* Building a Timer.
LEMMA TInvConstruct ==
  ASSUME TInv, NEW th \in Threads, NEW t \in Timers, NEW p \in Periods,
         NEW r \in BOOLEAN, Construct(th, t, p, r)
  PROVE  TInv'
<1> USE DEF TInv
<1>1. /\ caller[th] = Free /\ ~Made(t)
      /\ ms' = [ms EXCEPT ![t] = p]
      /\ next' = [next EXCEPT ![t] = clock + p]
      /\ recurring' = [recurring EXCEPT ![t] = r]
      /\ cb' = [cb EXCEPT ![t] = TRUE]
      /\ caller' = [caller EXCEPT ![th] = [at |-> "insert", timer |-> t]]
      /\ UNCHANGED <<clock, timers, tickled, previous, workerVars, notified,
                     fault, history>>
  BY DEF Construct
<1>2. p \in Nat /\ clock \in Nat  BY TimerAssumption DEF TypeOK
<1>3. TypeOK'  BY <1>1, <1>2 DEF TypeOK, Calls
<1>4. /\ \A u \in Timers : u # t => (Made(u)' <=> Made(u))
                                    /\ cb'[u] = cb[u]
                                    /\ NodeOf(u)' = NodeOf(u)
      /\ Made(t)' /\ cb'[t]
  BY <1>1, <1>2 DEF Made, NodeOf, TypeOK
<1>5. /\ \A tg \in Threads, u \in Timers :
           u # t => (Inserting(tg, u)' <=> Inserting(tg, u))
      /\ \A tg \in Threads : Inserting(tg, t)' <=> tg = th
  <2>1. \A tg \in Threads : ~Inserting(tg, t)
    BY <1>1 DEF Insertions, Inserting, Made
  <2>2. caller'[th] = [at |-> "insert", timer |-> t]
        /\ \A tg \in Threads : tg # th => caller'[tg] = caller[tg]
    BY <1>1 DEF TypeOK
  <2>3. \A u \in Timers : ~Inserting(th, u)
    BY <1>1 DEF Inserting, Free
  <2>4. \A u \in Timers : Inserting(th, u)' <=> u = t
    BY <2>2 DEF Inserting
  <2> QED  BY <2>1, <2>2, <2>3, <2>4 DEF Inserting
<1>6. ~Shared(t) /\ ~Shared(t)'
      /\ \A u \in Timers : u # t => (Shared(u)' <=> Shared(u))
  BY <1>1, <1>4, <1>5 DEF Shared
<1>7. SetHoldsActive'
  BY <1>1, <1>4, <1>6 DEF SetHoldsActive
<1>8. Insertions'
  <2>1. ASSUME NEW tg \in Threads, caller'[tg].at = "insert"
        PROVE  /\ caller'[tg].timer \in Timers
               /\ ms'[caller'[tg].timer] # -1
               /\ cb'[caller'[tg].timer]
    BY <1>1, <1>2, <2>1 DEF Insertions, TypeOK
  <2>2. \A tg, ti \in Threads, u \in Timers :
          Inserting(tg, u)' /\ Inserting(ti, u)' => tg = ti
    BY <1>5 DEF Insertions
  <2> QED  BY <2>1, <2>2 DEF Insertions
<1>9. Unmade' /\ Spent'
  BY <1>1, <1>4 DEF Unmade, Spent
<1>10. Deadlines'  BY <1>1, <1>2 DEF Deadlines, Made, TypeOK
<1>11. Results'  BY <1>1 DEF Results
<1> QED  BY <1>3, <1>7, <1>8, <1>9, <1>10, <1>11

\* Steps that leave the Timers, the set and the calls in progress alone.
LEMMA TInvElsewhere ==
  ASSUME TInv, TypeOK', Results',
         UNCHANGED <<timerVars, caller, spent, fault>>
  PROVE  TInv'
<1>1. \A t \in Timers : /\ Made(t)' <=> Made(t)
                        /\ Shared(t)' <=> Shared(t)
                        /\ NodeOf(t)' = NodeOf(t)
  BY DEF Made, Shared, Inserting, NodeOf
<1>2. SetHoldsActive'  BY <1>1 DEF TInv, SetHoldsActive
<1>3. Insertions'  BY DEF TInv, Insertions, Inserting
<1>4. Unmade' /\ Spent' /\ Deadlines'
  BY <1>1 DEF TInv, Unmade, Spent, Deadlines
<1> QED  BY <1>2, <1>3, <1>4 DEF TInv

\* The end of addTimer().
LEMMA TInvInsert ==
  ASSUME TInv, NEW th \in Threads, Insert(th)
  PROVE  TInv'
<1> USE DEF TInv
<1>1. PICK t \in Timers : Inserting(th, t) /\ Made(t) /\ cb[t]
  <2>1. caller[th] \in Calls /\ caller[th].at = "insert"
    BY DEF Insert, TypeOK
  <2>2. caller[th] = [at |-> "insert", timer |-> caller[th].timer]
    BY <2>1 DEF Calls
  <2> QED  BY <2>1, <2>2 DEF Insertions, Inserting, Made
<1>2. PICK tell \in BOOLEAN :
        /\ timers' = timers \cup {NodeOf(t)}
        /\ tickled' \in BOOLEAN
        /\ caller' = [caller EXCEPT ![th] =
                        IF tell THEN [at |-> "tell", timer |-> None] ELSE Free]
        /\ UNCHANGED <<clock, ms, next, recurring, cb, previous, workerVars,
                       notified, fault, history>>
  <2>1. tickled \in BOOLEAN  BY DEF TypeOK
  <2>2. caller[th].timer = t  BY <1>1 DEF Inserting
  <2> DEFINE tell == AtFront(timers, NodeOf(t)) /\ ~tickled
  <2>3. /\ timers' = timers \cup {NodeOf(t)}
        /\ tickled' = (tickled \/ tell)
        /\ caller' = [caller EXCEPT ![th] =
                        IF tell THEN [at |-> "tell", timer |-> None] ELSE Free]
        /\ UNCHANGED <<clock, ms, next, recurring, cb, previous, workerVars,
                       notified, fault, history>>
    BY <2>2 DEF Insert, InsertFor
  <2>4. tell \in BOOLEAN /\ (tickled \/ tell) \in BOOLEAN  OBVIOUS
  <2> QED  BY <2>3, <2>4
<1>3. TypeOK'
  <2>1. NodeOf(t) \in Node  BY DEF NodeOf, Node, TypeOK
  <2>2. {[at |-> "tell", timer |-> None], Free} \subseteq Calls
    BY DEF Free, Calls
  <2>3. caller' \in [Threads -> Calls]  BY <1>2, <2>2 DEF TypeOK
  <2> QED  BY <1>2, <2>1, <2>3 DEF TypeOK
<1>4. \A tg \in Threads, u \in Timers :
        Inserting(tg, u)' <=> tg # th /\ Inserting(tg, u)
  BY <1>2 DEF Inserting, Free, TypeOK
<1>5. \A u \in Timers : /\ Made(u)' <=> Made(u)
                        /\ NodeOf(u)' = NodeOf(u)
                        /\ cb'[u] = cb[u]
  BY <1>2 DEF Made, NodeOf
<1>6. \A tg \in Threads, u \in Timers :
        Inserting(tg, u) => (u = t <=> tg = th)
  BY <1>1 DEF Insertions, Inserting
<1>7. \A u \in Timers : Shared(u)' <=> Shared(u) \/ u = t
  BY <1>1, <1>4, <1>5, <1>6 DEF Shared
<1>8. SetHoldsActive'
  <2>1. \A n : n \in timers' <=> n \in timers \/ n = NodeOf(t)  BY <1>2
  <2>2. \A n : n \in timers' <=>
               \E u \in Timers : Shared(u)' /\ cb'[u] /\ n = NodeOf(u)'
    BY <1>1, <1>5, <1>7, <2>1 DEF SetHoldsActive
  <2> QED  BY <1>2, <2>2 DEF SetHoldsActive
<1>9. Insertions'
  <2>1. \A tg \in Threads : caller'[tg].at = "insert" =>
          tg # th /\ caller'[tg] = caller[tg]
    BY <1>2 DEF Free, TypeOK
  <2> QED  BY <1>2, <1>4, <2>1 DEF Insertions
<1>10. Unmade' /\ Spent'  BY <1>2, <1>5 DEF Unmade, Spent
<1>11. Deadlines' /\ Results'  BY <1>2, <1>5 DEF Deadlines, Results
<1> QED  BY <1>3, <1>8, <1>9, <1>10, <1>11

\* cancel().
LEMMA TInvCancel ==
  ASSUME TInv, NEW t \in Timers, Cancel(t)
  PROVE  TInv'
<1> USE DEF TInv
<1>1. /\ Shared(t) /\ cb[t]
      /\ cb' = [cb EXCEPT ![t] = FALSE]
      /\ timers' = timers \ {NodeOf(t)}
      /\ fault' = (fault \/ NodeOf(t) \notin timers)
      /\ spent' = [spent EXCEPT ![t] = TRUE]
      /\ UNCHANGED <<clock, ms, next, recurring, tickled, previous, caller,
                     workerVars, notified, setBack>>
  BY DEF Cancel
<1>2. TypeOK'  BY <1>1 DEF TypeOK
<1>3. \A u \in Timers : /\ Made(u)' <=> Made(u)
                        /\ Shared(u)' <=> Shared(u)
                        /\ NodeOf(u)' = NodeOf(u)
                        /\ cb'[u] <=> u # t /\ cb[u]
  BY <1>1 DEF Made, Shared, NodeOf, Inserting, TypeOK
<1>4. SetHoldsActive'
  <2>1. NodeOf(t) \in timers  BY <1>1, NodesOfActive
  <2>2. \A u \in Timers : NodeOf(u) = NodeOf(t) <=> u = t  BY DEF NodeOf
  <2>3. \A n : n \in timers' <=>
               \E u \in Timers : Shared(u)' /\ cb'[u] /\ n = NodeOf(u)'
    BY <1>1, <1>3, <2>2 DEF SetHoldsActive
  <2>4. ~fault'  BY <1>1, <2>1 DEF SetHoldsActive
  <2> QED  BY <2>3, <2>4 DEF SetHoldsActive
<1>5. Insertions'
  <2>1. \A tg \in Threads : caller[tg].at = "insert" => caller[tg].timer # t
    <3> SUFFICES ASSUME NEW tg \in Threads, caller[tg].at = "insert",
                        caller[tg].timer = t
                 PROVE  FALSE
      OBVIOUS
    <3>1. caller[tg] \in Calls  BY DEF TypeOK
    <3>2. Inserting(tg, t)  BY <3>1 DEF Calls, Inserting
    <3> QED  BY <1>1, <3>2 DEF Shared
  <2> QED  BY <1>1, <1>3, <2>1 DEF Insertions, Inserting
<1>6. Unmade' /\ Spent'
  BY <1>1, <1>3 DEF Unmade, Spent, Shared, TypeOK
<1>7. Deadlines' /\ Results'  BY <1>1, <1>3 DEF Deadlines, Results
<1> QED  BY <1>2, <1>4, <1>5, <1>6, <1>7

\* Taking a Timer out of the set and putting it back with another deadline,
\* which refresh() and reset() do.
LEMMA TInvMove ==
  ASSUME TInv, NEW t \in Timers, NEW d \in Nat, NEW p \in Periods,
         d - p \in Nat, Shared(t), cb[t],
         next' = [next EXCEPT ![t] = d],
         ms' = [ms EXCEPT ![t] = p],
         timers' = Without(t) \cup {[at |-> d, timer |-> t]},
         TypeOK', Insertions', Results',
         \A u \in Timers, tg \in Threads : Inserting(tg, u)' <=> Inserting(tg, u),
         UNCHANGED <<cb, spent, fault>>
  PROVE  TInv'
<1> USE DEF TInv
<1>1. \A u \in Timers : /\ Made(u)' <=> Made(u)
                        /\ Shared(u)' <=> Shared(u)
                        /\ u # t => NodeOf(u)' = NodeOf(u)
  BY TimerAssumption DEF Made, Shared, NodeOf, TypeOK
<1>2. NodeOf(t)' = [at |-> d, timer |-> t]  BY DEF NodeOf, TypeOK
<1>3. \A u \in Timers : NodeOf(u) = NodeOf(t) <=> u = t  BY DEF NodeOf
<1>4. SetHoldsActive'
  <2>1. \A n : n \in timers' <=>
               \E u \in Timers : Shared(u)' /\ cb'[u] /\ n = NodeOf(u)'
    BY <1>1, <1>2, <1>3 DEF SetHoldsActive, Without
  <2> QED  BY <2>1 DEF SetHoldsActive
<1>5. Unmade' /\ Spent'  BY <1>1 DEF Unmade, Spent
<1>6. Deadlines'  BY <1>1 DEF Deadlines, TypeOK
<1> QED  BY <1>4, <1>5, <1>6

\* refresh().
LEMMA TInvRefresh ==
  ASSUME TInv, NEW t \in Timers, Refresh(t)
  PROVE  TInv'
<1> USE DEF TInv
<1>1. /\ Shared(t) /\ cb[t]
      /\ next' = [next EXCEPT ![t] = clock + ms[t]]
      /\ timers' = Without(t) \cup {[at |-> clock + ms[t], timer |-> t]}
      /\ UNCHANGED <<clock, ms, recurring, cb, tickled, previous, caller,
                     workerVars, notified, fault, history>>
  BY DEF Refresh
<1>2. ms[t] \in Periods /\ ms[t] \in Nat /\ clock \in Nat
  <2>1. ms[t] \in Periods  BY <1>1 DEF Shared, Made, TypeOK
  <2>2. clock \in 0 .. MaxClock  BY DEF TypeOK
  <2>3. Periods \subseteq Nat /\ MaxClock \in Nat  BY TimerAssumption
  <2>4. ms[t] \in Nat  BY <2>1, <2>3, Zenon
  <2>5. clock \in Nat  BY <2>2, <2>3
  <2> QED  BY <2>1, <2>4, <2>5
<1>3. TypeOK'
  <2>1. timers' \subseteq Node
    <3>1. [at |-> clock + ms[t], timer |-> t] \in Node  BY <1>2 DEF Node
    <3>2. timers \subseteq Node  BY DEF TypeOK
    <3> QED  BY <1>1, <3>1, <3>2 DEF Without
  <2> QED  BY <1>1, <1>2, <2>1 DEF TypeOK
<1>4. Insertions' /\ Results'
  BY <1>1 DEF Insertions, Inserting, Results
<1>5. ms' = [ms EXCEPT ![t] = ms[t]]  BY <1>1 DEF TypeOK
<1>6. \A u \in Timers, tg \in Threads : Inserting(tg, u)' <=> Inserting(tg, u)
  BY <1>1 DEF Inserting
<1>7. clock + ms[t] \in Nat /\ (clock + ms[t]) - ms[t] \in Nat  BY <1>2
<1> QED  BY <1>1, <1>2, <1>3, <1>4, <1>5, <1>6, <1>7, TInvMove

\* reset().
LEMMA TInvReset ==
  ASSUME TInv, NEW th \in Threads, NEW t \in Timers, NEW p \in Periods,
         NEW b \in BOOLEAN, Reset(th, t, p, b)
  PROVE  TInv'
<1> USE DEF TInv
<1> DEFINE start == IF b THEN clock ELSE next[t] - ms[t]
<1>1. /\ caller[th] = Free /\ Shared(t) /\ cb[t]
      /\ next' = [next EXCEPT ![t] = start + p]
      /\ timers' = Without(t) \cup {[at |-> start + p, timer |-> t]}
      /\ ms' = [ms EXCEPT ![t] = p]
      /\ UNCHANGED <<clock, recurring, cb, previous, workerVars, notified,
                     fault, history>>
  BY DEF Reset, InsertFor
<1>2. PICK tell \in BOOLEAN :
        /\ tickled' = (tickled \/ tell)
        /\ caller' = [caller EXCEPT ![th] =
                        IF tell THEN [at |-> "tell", timer |-> None] ELSE Free]
  BY DEF Reset, InsertFor
<1>3. start \in Nat /\ p \in Nat
  BY <1>1, TimerAssumption DEF Deadlines, Shared, TypeOK
<1> HIDE DEF start
<1>4. TypeOK'
  <2>1. timers' \subseteq Node  BY <1>1, <1>3 DEF Without, TypeOK, Node
  <2>2. {[at |-> "tell", timer |-> None], Free} \subseteq Calls
    BY DEF Free, Calls
  <2>3. caller' \in [Threads -> Calls]  BY <1>2, <2>2 DEF TypeOK
  <2>4. ms' \in [Timers -> Periods \cup {-1}] /\ next' \in [Timers -> Nat]
    BY <1>1, <1>3 DEF TypeOK
  <2> QED  BY <1>1, <1>2, <2>1, <2>3, <2>4 DEF TypeOK
<1>5. \A u \in Timers, tg \in Threads : Inserting(tg, u)' <=> Inserting(tg, u)
  BY <1>1, <1>2 DEF Inserting, Free, TypeOK
<1>6. Insertions'
  <2>1. \A tg \in Threads : caller'[tg].at = "insert" =>
          tg # th /\ caller'[tg] = caller[tg]
    BY <1>2 DEF Free, TypeOK
  <2>2. \A tg \in Threads : caller'[tg].at = "insert" =>
          ms'[caller'[tg].timer] # -1
    <3>1. \A u \in Timers : ms[u] # -1 => ms'[u] # -1
      BY <1>1, <1>3 DEF TypeOK
    <3> QED  BY <2>1, <3>1 DEF Insertions
  <2> QED  BY <1>1, <1>5, <2>1, <2>2 DEF Insertions
<1>7. Results'  BY <1>1 DEF Results
<1>8. start + p \in Nat /\ (start + p) - p \in Nat  BY <1>3
<1> QED  BY <1>1, <1>4, <1>5, <1>6, <1>7, <1>8, TInvMove

\* The second half of listExpiredCb().
LEMMA TInvListExpired ==
  ASSUME TInv, ListExpired
  PROVE  TInv'
<1> USE DEF TInv
<1> DEFINE hit == {n.timer : n \in Expired}
           again == {t \in hit : recurring[t]}
<1>1. /\ timers' = (timers \ Expired)
                     \cup {[at |-> now + ms[t], timer |-> t] : t \in again}
      /\ next' = [t \in Timers |-> IF t \in again THEN now + ms[t]
                                   ELSE next[t]]
      /\ cb' = [t \in Timers |-> IF t \in hit THEN cb[t] /\ recurring[t]
                                 ELSE cb[t]]
      /\ cbs' = hit
      /\ spent' = [t \in Timers |-> spent[t] \/ t \in hit \ again]
      /\ previous' \in {previous, now}
      /\ pc' = "drain"
      /\ UNCHANGED <<clock, ms, recurring, tickled, caller, sleepVars, now,
                     sawPipe, notified, fault, setBack>>
  BY DEF ListExpired, KeepIfRecurring
<1>2. Expired \subseteq timers  BY DEF Expired
<1>3. \A t \in Timers : t \in hit <=> NodeOf(t) \in Expired
  BY <1>2, NodesOfActive DEF NodeOf
<1>4. /\ hit \subseteq Timers
      /\ \A t \in hit : Shared(t) /\ cb[t] /\ ms[t] \in Nat
  <2>1. hit \subseteq Timers  BY <1>2, NodesOfActive
  <2>2. \A t \in hit : Shared(t) /\ cb[t]
    BY <1>2, <1>3, <2>1, NodesOfActive
  <2>3. \A t \in hit : ms[t] \in Periods
    BY <2>1, <2>2 DEF Shared, Made, TypeOK
  <2> QED  BY <2>1, <2>2, <2>3, TimerAssumption
<1> HIDE DEF hit
<1>5. \A t \in Timers : /\ Made(t)' <=> Made(t)
                        /\ Shared(t)' <=> Shared(t)
                        /\ cb'[t] <=> cb[t] /\ (t \in hit => recurring[t])
                        /\ t \in again => NodeOf(t)' = [at |-> now + ms[t],
                                                        timer |-> t]
                        /\ t \notin again => NodeOf(t)' = NodeOf(t)
  BY <1>1 DEF Made, Shared, Inserting, NodeOf, TypeOK
<1>6. TypeOK'
  <2>1. next' \in [Timers -> Nat]  BY <1>1, <1>4 DEF TypeOK
  <2>2. cb' \in [Timers -> BOOLEAN] /\ spent' \in [Timers -> BOOLEAN]
    BY <1>1 DEF TypeOK
  <2>3. timers' \subseteq Node
    <3>1. \A t \in again : [at |-> now + ms[t], timer |-> t] \in Node
      BY <1>4 DEF Node, TypeOK
    <3> QED  BY <1>1, <3>1 DEF TypeOK
  <2> QED  BY <1>1, <1>4, <2>1, <2>2, <2>3 DEF TypeOK, PC
<1>7. SetHoldsActive'
  <2>1. ASSUME NEW n, n \in timers'
        PROVE  \E t \in Timers : Shared(t)' /\ cb'[t] /\ n = NodeOf(t)'
    <3>1. CASE n \in timers \ Expired
      <4>1. n.timer \in Timers /\ n = NodeOf(n.timer)
            /\ Shared(n.timer) /\ cb[n.timer]
        BY <3>1, NodesOfActive
      <4>2. n.timer \notin hit  BY <1>3, <3>1, <4>1
      <4> QED  BY <1>5, <4>1, <4>2
    <3>2. CASE \E t \in again : n = [at |-> now + ms[t], timer |-> t]
      BY <1>4, <1>5, <3>2
    <3> QED  BY <1>1, <2>1, <3>1, <3>2
  <2>2. ASSUME NEW t \in Timers, Shared(t)', cb'[t]
        PROVE  NodeOf(t)' \in timers'
    <3>1. CASE t \in again  BY <1>1, <1>5, <3>1
    <3>2. CASE t \notin again
      <4>1. t \notin hit /\ NodeOf(t)' = NodeOf(t)  BY <1>5, <2>2, <3>2
      <4>2. NodeOf(t) \in timers \ Expired
        BY <1>3, <1>5, <2>2, <4>1, NodesOfActive
      <4> QED  BY <1>1, <4>1, <4>2
    <3> QED  BY <3>1, <3>2
  <2>3. timers' = {NodeOf(t)' : t \in {u \in Timers : Shared(u)' /\ cb'[u]}}
    BY <2>1, <2>2
  <2> QED  BY <1>1, <2>3 DEF SetHoldsActive
<1>8. Insertions'
  <2>1. \A th \in Threads, t \in Timers : Inserting(th, t) => t \notin hit
    BY <1>4 DEF Shared
  <2>2. ASSUME NEW th \in Threads, caller[th].at = "insert"
        PROVE  cb'[caller[th].timer]
    <3>1. caller[th] \in Calls /\ caller[th].timer \in Timers
          /\ cb[caller[th].timer]
      BY <2>2 DEF TypeOK, Insertions
    <3>2. Inserting(th, caller[th].timer)
      BY <2>2, <3>1 DEF Calls, Inserting
    <3> QED  BY <1>5, <2>1, <3>1, <3>2
  <2> QED  BY <1>1, <2>2 DEF Insertions, Inserting
<1>9. Unmade' /\ Spent'
  <2>1. \A t \in Timers : spent'[t] <=> spent[t] \/ t \in hit \ again
    BY <1>1 DEF TypeOK
  <2>2. \A t \in hit : Made(t) /\ cb[t]  BY <1>4 DEF Shared
  <2>3. Unmade'  BY <1>5, <2>1, <2>2 DEF Unmade
  <2>4. Spent'  BY <1>5, <2>1, <2>2 DEF Spent
  <2> QED  BY <2>3, <2>4
<1>10. Deadlines'
  <2>1. \A t \in again : (now + ms[t]) - ms[t] \in Nat
    BY <1>4 DEF TypeOK
  <2> QED  BY <1>1, <1>5, <2>1 DEF Deadlines, TypeOK
<1>11. Results'  BY <1>1 DEF Results
<1> QED  BY <1>6, <1>7, <1>8, <1>9, <1>10, <1>11

\* Every step of the manager, its users and the clock keeps the invariant.
LEMMA TInvNext == TInv /\ [Next]_vars => TInv'
<1> SUFFICES ASSUME TInv, [Next]_vars PROVE TInv'  OBVIOUS
<1>1. ASSUME NEW th \in Threads, User(th) PROVE TInv'
  <2>1. CASE Tell(th)
    <3>1. TypeOK'
      BY <2>1 DEF Tell, TInv, TypeOK, Free, Calls
    <3>2. \A tg \in Threads : caller'[tg].at = "insert" =>
            tg # th /\ caller'[tg] = caller[tg]
      BY <2>1 DEF Tell, Free, TInv, TypeOK
    <3>3. \A tg \in Threads, t \in Timers :
            Inserting(tg, t)' <=> Inserting(tg, t)
      BY <2>1 DEF Tell, Free, Inserting, TInv, TypeOK
    <3>4. \A t \in Timers : /\ Made(t)' <=> Made(t)
                            /\ Shared(t)' <=> Shared(t)
                            /\ NodeOf(t)' = NodeOf(t)
      BY <2>1, <3>3 DEF Tell, Made, Shared, NodeOf
    <3>5. SetHoldsActive'  BY <2>1, <3>4 DEF Tell, TInv, SetHoldsActive
    <3>6. Insertions'  BY <2>1, <3>2, <3>3 DEF Tell, TInv, Insertions
    <3>7. Unmade' /\ Spent' /\ Deadlines' /\ Results'
      BY <2>1, <3>4 DEF Tell, TInv, Unmade, Spent, Deadlines, Results
    <3> QED  BY <3>1, <3>5, <3>6, <3>7 DEF TInv
  <2> QED
    BY <1>1, <2>1, TInvConstruct, TInvInsert, TInvCancel, TInvRefresh,
       TInvReset
    DEF User
<1>2. CASE Worker
  <2>1. CASE EnterIdle
    BY <2>1, TInvElsewhere DEF EnterIdle, TInv, TypeOK, Results, PC
  <2>2. ASSUME NEW x \in Nat, EpollWait(x)
        PROVE  timeout' \in Nat /\ left' \in Waits
    BY <2>2, BoundedInt DEF EpollWait
  <2>3. clock \in 0 .. MaxClock /\ clock \in Nat /\ 0 \in 0 .. MaxClock
        /\ 0 \in Waits
    BY TimerAssumption DEF TInv, TypeOK, Waits
  <2>7. CASE GetNextTimer
    <3>1. ASSUME NEW n \in First PROVE Remaining(n) \in Nat
      BY <2>3 DEF Remaining, First, TInv, TypeOK, Node
    <3>2. NoTimer \in Nat  BY TimerAssumption DEF NoTimer
    <3>3. timeout' \in Nat /\ left' \in Waits
      BY <2>2, <2>7, <3>1, <3>2 DEF GetNextTimer
    <3>4. /\ tickled' = FALSE /\ pc' \in PC
          /\ since' \in 0 .. MaxClock /\ slept' \in Int
          /\ UNCHANGED <<clock, timerVars, previous, caller, now, cbs, sawPipe,
                         notified, fault, history>>
      BY <2>3, <2>7 DEF GetNextTimer, ClearTickled, PC
    <3>5. TypeOK'  BY <3>3, <3>4 DEF TInv, TypeOK
    <3> QED
      BY <2>7, <3>5, TInvElsewhere DEF GetNextTimer, TInv, Results
  <2>8. CASE Interrupted
    <3>1. timeout' \in Nat /\ left' \in Waits
      BY <2>2, <2>8 DEF Interrupted, TInv, TypeOK
    <3>2. slept' \in Int  BY <2>3, <2>8 DEF Interrupted, TInv, TypeOK
    <3>3. TypeOK'  BY <2>8, <3>1, <3>2 DEF Interrupted, TInv, TypeOK
    <3> QED  BY <2>8, <3>3, TInvElsewhere DEF Interrupted, TInv, Results
  <2>9. CASE Wake
    BY <2>3, <2>9, TInvElsewhere DEF Wake, TInv, TypeOK, Results, PC
  <2>4. CASE ReadClock
    BY <2>4, TInvElsewhere DEF ReadClock, TInv, TypeOK, Results, PC
  <2>5. CASE Peek
    BY <2>5, TInvElsewhere DEF Peek, TInv, TypeOK, Results, PC
  <2>6. CASE LeaveIdle
    <3>1. 0 \in 0 .. MaxClock  BY TimerAssumption
    <3> QED
      BY <2>6, <3>1, TInvElsewhere DEF LeaveIdle, TInv, TypeOK, Results, PC
  <2> QED
    BY <1>2, <2>1, <2>4, <2>5, <2>6, <2>7, <2>8, <2>9, TInvListExpired
    DEF Worker
<1>3. CASE Tick
  BY <1>3, TInvElsewhere, TimerAssumption
  DEF Tick, TInv, TypeOK, Results, Waits
<1>4. ASSUME NEW c \in 0 .. MaxClock, SetBack(c) PROVE TInv'
  BY <1>4, TInvElsewhere DEF SetBack, TInv, TypeOK, Results
<1>5. CASE UNCHANGED vars
  BY <1>5, TInvElsewhere DEF vars, TInv, TypeOK, Results
<1> QED  BY <1>1, <1>2, <1>3, <1>4, <1>5 DEF Next

\* Every variable of the timer manager keeps its type.
THEOREM TypeCorrect == Spec => []TypeOK
<1>1. TInv => TypeOK  BY DEF TInv
<1> QED  BY <1>1, TInvInit, TInvNext, PTL DEF Spec

\* However many threads add, cancel, refresh and reset timers while expired
\* ones are listed, m_timers holds exactly the active Timers, each under the
\* deadline it was placed by, and cancel() never erases end().
THEOREM ActiveTimersAreSet == Spec => []SetHoldsActive
<1>1. TInv => SetHoldsActive  BY DEF TInv
<1> QED  BY <1>1, TInvInit, TInvNext, PTL DEF Spec

\* Only ListExpired fills the result, and only with active Timers; nothing
\* revives a spent one.
LEMMA SpentStays ==
  ASSUME TInv, [Next]_vars
  PROVE  /\ \A t \in cbs' \ cbs : pc = "list" /\ NodeOf(t) \in Expired
         /\ \A t \in Timers : spent[t] => spent'[t]
         /\ \A t \in Timers : Made(t) => Made(t)'
<1> USE DEF TInv
<1>1. ASSUME NEW th \in Threads, User(th)
      PROVE  /\ cbs' = cbs
             /\ \A t \in Timers : spent[t] => spent'[t]
             /\ \A t \in Timers : Made(t) => Made(t)'
  <2>1. ASSUME NEW t \in Timers, NEW p \in Periods, NEW b \in BOOLEAN,
               Construct(th, t, p, b) \/ Reset(th, t, p, b)
        PROVE  /\ cbs' = cbs /\ spent' = spent
               /\ \A u \in Timers : Made(u) => Made(u)'
    <3>1. ms' = [ms EXCEPT ![t] = p] /\ cbs' = cbs /\ spent' = spent
      BY <2>1 DEF Construct, Reset
    <3>2. p # -1  BY TimerAssumption
    <3> QED  BY <3>1, <3>2 DEF Made, TypeOK
  <2>2. ASSUME NEW t \in Timers, Cancel(t)
        PROVE  /\ cbs' = cbs /\ ms' = ms
               /\ \A u \in Timers : spent[u] => spent'[u]
    BY <2>2 DEF Cancel, TypeOK
  <2>3. ASSUME NEW t \in Timers, Refresh(t)
        PROVE  UNCHANGED <<cbs, ms, spent>>
    BY <2>3 DEF Refresh
  <2>4. CASE Insert(th) \/ Tell(th)  BY <2>4 DEF Insert, Tell, Made
  <2> QED  BY <1>1, <2>1, <2>2, <2>3, <2>4 DEF User, Made
<1>2. CASE ListExpired
  <2>1. /\ pc = "list" /\ cbs' = {n.timer : n \in Expired} /\ ms' = ms
        /\ \A t \in Timers : spent[t] => spent'[t]
    BY <1>2 DEF ListExpired, TypeOK
  <2>2. \A n \in Expired : n = NodeOf(n.timer)
    BY NodesOfActive DEF Expired
  <2> QED  BY <2>1, <2>2 DEF Made
<1>3. CASE Worker /\ ~ListExpired
  <2>1. cbs' \subseteq cbs /\ UNCHANGED <<ms, spent>>
    BY <1>3 DEF Worker, EnterIdle, GetNextTimer, Interrupted, Wake, ReadClock,
                Peek,
                LeaveIdle
  <2> QED  BY <2>1 DEF Made
<1>4. CASE Tick \/ \E c \in 0 .. MaxClock : SetBack(c)
  BY <1>4 DEF Tick, SetBack, Made
<1>5. CASE UNCHANGED vars  BY <1>5 DEF vars, Made
<1> QED  BY <1>1, <1>2, <1>3, <1>4, <1>5 DEF Next

\* A one-shot callback is listed at most once, and a callback whose timer was
\* cancelled is never listed again, whatever the threads do.
THEOREM OneShots == Spec => OneShotOnce
<1>1. TInv /\ [Next]_vars =>
        [\A t \in Timers :
           /\ t \in cbs' \ cbs => cb[t] /\ ~spent[t]
           /\ spent[t] => spent'[t] /\ ~cb'[t]]_vars
  <2> SUFFICES ASSUME TInv, [Next]_vars, NEW t \in Timers
               PROVE  /\ t \in cbs' \ cbs => cb[t] /\ ~spent[t]
                      /\ spent[t] => spent'[t] /\ ~cb'[t]
    OBVIOUS
  <2>1. TInv'  BY TInvNext
  <2>2. ASSUME t \in cbs' \ cbs PROVE cb[t] /\ ~spent[t]
    <3>1. NodeOf(t) \in timers  BY <2>2, SpentStays DEF Expired
    <3> QED  BY <3>1, NodesOfActive DEF TInv, Spent, Shared
  <2>3. ASSUME spent[t] PROVE spent'[t] /\ ~cb'[t]
    <3>1. Made(t)' /\ spent'[t]
      BY <2>3, SpentStays DEF TInv, Unmade
    <3> QED  BY <2>1, <3>1 DEF TInv, Spent
  <2> QED  BY <2>2, <2>3
<1> QED  BY <1>1, TInvInit, TInvNext, PTL DEF Spec, OneShotOnce
-----------------------------------------------------------------------------
(***************************************************************************)
(* While the clock only moves forward                                      *)
(***************************************************************************)
\* No time that was read from the clock is ahead of it.
ClockRead == ~setBack =>
  /\ previous <= clock
  /\ pc \in {"peek", "list"} => previous <= now /\ now <= clock
  /\ \A t \in Timers : Made(t) => next[t] - ms[t] <= clock

\* What the worker knew of the first deadline when it went to sleep: with a
\* limit, that it is not before the limit; without, that it is 2^31 ms away.
Known == IF left > 0 THEN since + timeout ELSE since + IntEnd

\* m_tickled says whether somebody has seen to it that the worker wakes.
Sleep == pc = "wait" /\ left # 0 /\ ~setBack =>
  IF tickled THEN Told ELSE \A n \in timers : n.at >= Known

\* The limit is used up, but for what a signal added to it.
Limit == pc = "wait" /\ left > 0 =>
  /\ left <= timeout /\ timeout <= MaxWait
  /\ ~setBack => clock + left = since + slept + timeout

CInv == TInv /\ ClockRead /\ Sleep /\ Limit

\* The clock invariants hold when the manager is built.
LEMMA CInvInit == Init => CInv
<1> SUFFICES ASSUME Init PROVE CInv  OBVIOUS
<1>1. TInv  BY TInvInit
<1>2. previous = clock /\ clock \in 0 .. MaxClock /\ pc = "out"
      /\ \A t \in Timers : ~Made(t)
  BY TimerAssumption DEF Init, Made
<1>3. ClockRead /\ Sleep /\ Limit
  BY <1>2, TimerAssumption DEF ClockRead, Sleep, Limit
<1> QED  BY <1>1, <1>3 DEF CInv

\* No operation on timers invents a time ahead of the clock.
LEMMA ClockReadNext ==
  ASSUME TInv, ClockRead, [Next]_vars
  PROVE  ClockRead'
<1> USE DEF TInv
<1>0. /\ clock \in Nat /\ now \in Nat /\ previous \in Nat
      /\ clock \in 0 .. MaxClock
      /\ \A t \in Timers : next[t] \in Nat /\ ms[t] \in Int
  <2>1. MaxClock \in Nat /\ Periods \subseteq Nat  BY TimerAssumption
  <2>2. \A t \in Timers : ms[t] \in Periods \/ ms[t] = -1  BY DEF TypeOK
  <2>4. -1 \in Int /\ Periods \subseteq Int  BY <2>1
  <2>3. \A t \in Timers : ms[t] \in Int  BY <2>2, <2>4, Zenon
  <2> QED  BY <2>1, <2>3 DEF TypeOK
<1>1. ASSUME NEW th \in Threads, User(th)
      PROVE  ClockRead'
  <2>0. UNCHANGED <<clock, previous, pc, now, setBack>>
    BY <1>1 DEF User, Construct, Reset, Cancel, Refresh, Insert, Tell
  <2> SUFFICES ASSUME ~setBack, NEW u \in Timers, Made(u)'
               PROVE  next'[u] - ms'[u] <= clock
    BY <2>0 DEF ClockRead
  <2>1. ASSUME NEW t \in Timers, NEW p \in Periods, NEW b \in BOOLEAN,
               Construct(th, t, p, b) \/ Reset(th, t, p, b)
        PROVE  next'[u] - ms'[u] <= clock
    <3>1. p \in Nat  BY TimerAssumption
    <3>2. PICK start \in Int :
            /\ start <= clock
            /\ next' = [next EXCEPT ![t] = start + p]
            /\ ms' = [ms EXCEPT ![t] = p]
      <4>1. CASE Construct(th, t, p, b)
        <5>1. /\ next' = [next EXCEPT ![t] = clock + p]
              /\ ms' = [ms EXCEPT ![t] = p]
          BY <4>1 DEF Construct
        <5>2. clock \in Int /\ clock <= clock  BY <1>0
        <5> QED  BY <5>1, <5>2, Zenon
      <4>2. CASE Reset(th, t, p, b)
        <5>1. Made(t)  BY <4>2 DEF Reset, Shared
        <5>2. next[t] - ms[t] \in Int /\ next[t] - ms[t] <= clock
          BY <1>0, <5>1 DEF ClockRead
        <5>3. (IF b THEN clock ELSE next[t] - ms[t]) \in Int
              /\ (IF b THEN clock ELSE next[t] - ms[t]) <= clock
          BY <1>0, <5>2
        <5> QED  BY <4>2, <5>3 DEF Reset
      <4> QED  BY <2>1, <4>1, <4>2
    <3>3. CASE u = t
      <4>1. next'[u] = start + p /\ ms'[u] = p
        BY <3>2, <3>3 DEF TypeOK
      <4> QED  BY <3>1, <3>2, <4>1, <1>0
    <3>4. CASE u # t
      <4>1. next'[u] = next[u] /\ ms'[u] = ms[u]
        BY <3>2, <3>4 DEF TypeOK
      <4> QED  BY <4>1 DEF ClockRead, Made
    <3> QED  BY <3>3, <3>4
  <2>2. ASSUME NEW t \in Timers, Refresh(t)
        PROVE  next'[u] - ms'[u] <= clock
    <3>1. CASE u = t
      <4>1. next'[u] = clock + ms[u] /\ ms'[u] = ms[u]
        BY <2>2, <3>1 DEF Refresh, TypeOK
      <4> QED  BY <4>1, <1>0
    <3>2. CASE u # t
      <4>1. next'[u] = next[u] /\ ms'[u] = ms[u]
        BY <2>2, <3>2 DEF Refresh, TypeOK
      <4> QED  BY <4>1 DEF ClockRead, Made
    <3> QED  BY <3>1, <3>2
  <2>3. CASE UNCHANGED <<next, ms>>  BY <2>3 DEF ClockRead, Made
  <2>4. ASSUME NEW t \in Timers, Cancel(t) PROVE UNCHANGED <<next, ms>>
    BY <2>4 DEF Cancel
  <2>5. CASE Insert(th) \/ Tell(th)
    <3>1. UNCHANGED <<next, ms>>  BY <2>5 DEF Insert, Tell
    <3> QED  BY <2>3, <3>1
  <2> QED  BY <1>1, <2>1, <2>2, <2>3, <2>4, <2>5 DEF User
<1>2. CASE ListExpired
  <2>1. /\ pc = "list" /\ pc' = "drain" /\ UNCHANGED <<clock, ms, setBack>>
        /\ previous' \in {previous, now}
        /\ \A t \in Timers : next'[t] \in {next[t], now + ms[t]}
    BY <1>2 DEF ListExpired
  <2> SUFFICES ASSUME ~setBack
               PROVE  /\ previous' <= clock
                      /\ \A t \in Timers : Made(t) => next'[t] - ms[t] <= clock
    BY <2>1 DEF ClockRead, Made
  <2>2. previous <= clock /\ now <= clock  BY <2>1 DEF ClockRead
  <2>3. ASSUME NEW t \in Timers, Made(t)
        PROVE  next'[t] - ms[t] <= clock
    <3>1. CASE next'[t] = next[t]  BY <2>3, <3>1 DEF ClockRead
    <3>2. CASE next'[t] = now + ms[t]  BY <1>0, <2>2, <3>2
    <3> QED  BY <2>1, <3>1, <3>2
  <2> QED  BY <2>1, <2>2, <2>3
<1>3. CASE ReadClock
  BY <1>0, <1>3 DEF ReadClock, ClockRead, Made
<1>4. CASE Peek
  BY <1>4 DEF Peek, ClockRead, Made
<1>5. CASE EnterIdle \/ GetNextTimer \/ Interrupted \/ Wake \/ LeaveIdle
  BY <1>5 DEF EnterIdle, GetNextTimer, Interrupted, Wake, LeaveIdle,
              ClockRead, Made
<1>6. CASE Tick
  <2>1. clock' = clock + 1 /\ UNCHANGED <<previous, pc, now, next, ms, setBack>>
    BY <1>6 DEF Tick
  <2>2. \A t \in Timers : next[t] - ms[t] \in Int  BY <1>0
  <2> QED  BY <1>0, <2>1, <2>2 DEF ClockRead, Made
<1>7. ASSUME NEW c \in 0 .. MaxClock, SetBack(c) PROVE ClockRead'
  BY <1>7 DEF SetBack, ClockRead
<1>8. CASE UNCHANGED vars
  BY <1>8 DEF vars, ClockRead, Made
<1> QED
  BY <1>1, <1>2, <1>3, <1>4, <1>5, <1>6, <1>7, <1>8 DEF Next, Worker

\* While the worker sleeps, an earlier deadline than the one it knows cannot
\* get into the set unnoticed.
LEMMA SleepNext ==
  ASSUME CInv, [Next]_vars
  PROVE  Sleep'
<1> USE DEF CInv, TInv
<1>0. /\ clock \in Nat /\ left \in Int /\ since \in Nat /\ timeout \in Nat
      /\ IntEnd \in Nat /\ MaxWait \in Nat /\ MaxWait < IntEnd
      /\ \A t \in Timers : next[t] \in Nat
      /\ \A n \in timers : n.at \in Nat
      /\ tickled \in BOOLEAN
  BY TimerAssumption DEF TypeOK, Node, Waits
<1>9. Known \in Nat  BY <1>0 DEF Known
<1>1. ASSUME NEW th \in Threads, NEW others \in SUBSET timers,
             NEW node \in Node, InsertFor(th, others, node),
             caller[th].at # "tell",
             AtFront(others, node) \/ \E n \in others : ~Before(node, n),
             UNCHANGED <<since, timeout, left, pc, setBack, notified>>
      PROVE  Sleep'
  <2> SUFFICES ASSUME pc = "wait", left # 0, ~setBack
               PROVE  IF tickled' THEN Told'
                      ELSE \A n \in timers' : n.at >= Known
    BY <1>1 DEF Sleep, Known
  <2> DEFINE tell == AtFront(others, node) /\ ~tickled
  <2>1. /\ timers' = others \cup {node}
        /\ tickled' = (tickled \/ tell)
        /\ caller' = [caller EXCEPT ![th] =
                        IF tell THEN [at |-> "tell", timer |-> None] ELSE Free]
    BY <1>1 DEF InsertFor
  <2>2. node.at \in Nat  BY DEF Node
  <2>3. CASE tell
    <3>1. caller'[th].at = "tell"  BY <2>1, <2>3 DEF TypeOK
    <3> QED  BY <2>1, <2>3, <3>1 DEF Told
  <2>4. CASE ~tell /\ tickled
    <3>1. Told  BY <2>4 DEF Sleep
    <3>2. CASE notified  BY <1>1, <2>1, <2>4, <3>2 DEF Told
    <3>3. ASSUME NEW tg \in Threads, caller[tg].at = "tell" PROVE Told'
      <4>1. caller'[tg] = caller[tg]  BY <1>1, <2>1, <3>3 DEF TypeOK
      <4> QED  BY <3>3, <4>1 DEF Told
    <3> QED  BY <2>1, <2>4, <3>1, <3>2, <3>3 DEF Told
  <2>5. CASE ~tell /\ ~tickled
    <3>1. \A n \in timers : n.at >= Known  BY <2>5 DEF Sleep
    <3>2. node.at >= Known
      <4>1. CASE \E n \in others : ~Before(node, n)
        BY <1>0, <1>9, <2>2, <3>1, <4>1 DEF Before
      <4> QED  BY <1>1, <2>5, <4>1
    <3> QED  BY <2>1, <2>5, <3>1, <3>2
  <2> QED  BY <2>3, <2>4, <2>5
<1>2. ASSUME NEW others \in SUBSET timers, NEW node \in Node
      PROVE  AtFront(others, node) \/ \E n \in others : ~Before(node, n)
  BY DEF AtFront
<1>3. ASSUME NEW th \in Threads, User(th) PROVE Sleep'
  <2>1. ASSUME NEW t \in Timers, NEW p \in Periods, NEW b \in BOOLEAN,
               Construct(th, t, p, b)
        PROVE  Sleep'
    <3>1. caller[th] = Free /\ \E x : caller' = [caller EXCEPT ![th] = x]
          /\ UNCHANGED <<timers, tickled, pc, sleepVars, notified, setBack>>
      BY <2>1 DEF Construct
    <3>2. Told => Told'  BY <3>1 DEF Told, Free, TypeOK
    <3> QED  BY <3>1, <3>2 DEF Sleep, Known
  <2>2. ASSUME NEW t \in Timers, NEW p \in Periods, NEW b \in BOOLEAN,
               Reset(th, t, p, b)
        PROVE  Sleep'
    <3>1. PICK d \in Nat : InsertFor(th, Without(t), [at |-> d, timer |-> t])
      <4>1. (IF b THEN clock ELSE next[t] - ms[t]) \in Nat /\ p \in Nat
        BY <1>0, <2>2, TimerAssumption DEF Reset, Deadlines, Shared
      <4>2. (IF b THEN clock ELSE next[t] - ms[t]) + p \in Nat  BY <4>1
      <4> QED  BY <2>2, <4>2 DEF Reset
    <3>2. [at |-> d, timer |-> t] \in Node /\ Without(t) \subseteq timers
      BY DEF Node, Without
    <3>3. caller[th].at # "tell"
          /\ UNCHANGED <<since, timeout, left, pc, setBack, notified>>
      BY <2>2 DEF Reset, Free
    <3> QED  BY <1>1, <1>2, <3>1, <3>2, <3>3
  <2>3. ASSUME NEW t \in Timers, Cancel(t) PROVE Sleep'
    BY <2>3 DEF Cancel, Sleep, Known, Told
  <2>4. ASSUME NEW t \in Timers, Refresh(t) PROVE Sleep'
    <3>1. /\ Shared(t) /\ cb[t] /\ NodeOf(t) \in timers
          /\ timers' = Without(t) \cup {[at |-> clock + ms[t], timer |-> t]}
          /\ UNCHANGED <<clock, tickled, caller, pc, sleepVars, notified,
                         setBack>>
      BY <2>4 DEF Refresh
    <3>2. CASE tickled  BY <3>1, <3>2 DEF Sleep, Told
    <3>3. CASE ~tickled
      <4> SUFFICES ASSUME pc = "wait", left # 0, ~setBack, NEW n \in timers'
                   PROVE  n.at >= Known
        BY <3>1, <3>3 DEF Sleep, Known
      <4>1. \A m \in timers : m.at >= Known  BY <3>3 DEF Sleep
      <4>2. next[t] >= Known  BY <3>1, <4>1 DEF NodeOf
      <4>3. Made(t) /\ next[t] - ms[t] <= clock
        BY <3>1 DEF ClockRead, Shared
      <4>4. ms[t] \in Int
        <5>1. ms[t] \in Periods /\ Periods \subseteq Int
          BY <4>3, TimerAssumption DEF Made, TypeOK
        <5> QED  BY <5>1, Zenon
      <4>5. clock + ms[t] >= Known  BY <1>0, <1>9, <4>2, <4>3, <4>4
      <4> QED  BY <3>1, <4>1, <4>5 DEF Without
    <3> QED  BY <3>2, <3>3
  <2>5. CASE Insert(th)
    <3>1. /\ caller[th].at = "insert"
          /\ InsertFor(th, timers, NodeOf(caller[th].timer))
          /\ UNCHANGED <<since, timeout, left, pc, setBack, notified>>
      BY <2>5 DEF Insert
    <3>2. NodeOf(caller[th].timer) \in Node
      BY <3>1 DEF Insertions, NodeOf, Node, TypeOK
    <3> QED  BY <1>1, <1>2, <3>1, <3>2
  <2>6. CASE Tell(th)
    <3>1. /\ notified' = (notified \/ pc # "out")
          /\ UNCHANGED <<timers, tickled, pc, sleepVars, setBack>>
      BY <2>6 DEF Tell
    <3> QED  BY <3>1 DEF Sleep, Known, Told
  <2> QED  BY <1>3, <2>1, <2>2, <2>3, <2>4, <2>5, <2>6 DEF User
<1>4. CASE GetNextTimer
  <2>1. /\ tickled' = FALSE /\ since' = clock /\ UNCHANGED timers
        /\ \/ timers = {}
           \/ \E n \in First : EpollWait(Remaining(n))
    BY <1>4 DEF GetNextTimer, ClearTickled
  <2>2. ASSUME NEW n \in First, NEW m \in timers, left' # 0,
               EpollWait(Remaining(n))
        PROVE  m.at >= Known'
    <3>1. n.at \in Nat /\ m.at \in Nat /\ n.at <= m.at
      BY <1>0, <2>2 DEF First, Before
    <3>2. /\ Remaining(n) \in Nat
          /\ Remaining(n) > 0 => n.at = clock + Remaining(n)
      BY <1>0, <3>1 DEF Remaining
    <3>3. CASE left' > 0
      <4>1. left' <= Remaining(n) /\ timeout' = left' /\ left' \in Int
        BY <2>2, <3>2, <3>3, BoundedInt DEF EpollWait
      <4> QED  BY <1>0, <2>1, <3>1, <3>2, <3>3, <4>1 DEF Known
    <3>4. CASE left' < 0
      <4>1. Remaining(n) >= IntEnd /\ left' \in Int
        BY <2>2, <3>2, <3>4, BoundedInt DEF EpollWait
      <4> QED  BY <1>0, <2>1, <3>1, <3>2, <3>4, <4>1 DEF Known
    <3>5. left' \in Int  BY <2>2, <3>2, BoundedInt DEF EpollWait
    <3> QED  BY <2>2, <3>3, <3>4, <3>5
  <2> QED  BY <2>1, <2>2 DEF Sleep
<1>5. CASE Interrupted
  <2>1. /\ left # 0 /\ left' = Bounded(timeout)
        /\ timeout' = Bounded(timeout) % Width
        /\ UNCHANGED <<timers, tickled, caller, pc, notified, setBack, since>>
    BY <1>5 DEF Interrupted, EpollWait
  <2>2. left > 0 /\ pc = "wait" =>
          left' = timeout /\ left' > 0 /\ timeout' = timeout
    BY <1>0, <2>1, BoundedInt DEF Limit
  <2>3. /\ left' \in Int /\ timeout' \in Nat
        /\ left' > 0 => timeout' <= MaxWait
    BY <1>0, <2>1, BoundedInt DEF Waits
  <2>4. left < 0 => Known' <= Known
    BY <1>0, <2>1, <2>3 DEF Known
  <2>5. left > 0 /\ pc = "wait" => Known' <= Known
    BY <1>0, <2>1, <2>2 DEF Known
  <2>6. Known' \in Nat  BY <1>0, <2>1, <2>3 DEF Known
  <2> QED  BY <1>0, <1>9, <2>1, <2>4, <2>5, <2>6 DEF Sleep, Told
<1>6. CASE EnterIdle \/ Wake \/ ReadClock \/ Peek \/ ListExpired \/ LeaveIdle
  <2>1. pc' # "wait"
    BY <1>6 DEF EnterIdle, Wake, ReadClock, Peek, ListExpired, LeaveIdle
  <2> QED  BY <2>1 DEF Sleep
<1>7. CASE Tick
  <2>1. /\ left' = IF left > 0 THEN left - 1 ELSE left
        /\ UNCHANGED <<timers, tickled, caller, pc, notified, setBack, since,
                       timeout>>
    BY <1>7 DEF Tick
  <2>2. left' # 0 => left # 0 /\ (left' > 0 <=> left > 0)  BY <1>0, <2>1
  <2> QED  BY <2>1, <2>2 DEF Sleep, Known, Told
<1>8. ASSUME NEW c \in 0 .. MaxClock, SetBack(c) PROVE Sleep'
  BY <1>8 DEF SetBack, Sleep
<1>10. CASE UNCHANGED vars
  BY <1>10 DEF vars, Sleep, Known, Told
<1> QED
  BY <1>3, <1>4, <1>5, <1>6, <1>7, <1>8, <1>10 DEF Next, Worker

\* Signals renew the wait, time uses it up, and nothing else touches it.
LEMMA LimitNext ==
  ASSUME TInv, Limit, [Next]_vars
  PROVE  Limit'
<1>0. /\ clock \in Nat /\ left \in Int /\ since \in Nat /\ timeout \in Nat
      /\ slept \in Int
      /\ IntEnd \in Nat /\ MaxWait \in Nat /\ MaxWait < IntEnd
      /\ \A n \in timers : n.at \in Nat
  BY TimerAssumption DEF TInv, TypeOK, Node, Waits
<1>1. ASSUME NEW x \in Nat, EpollWait(x), left' > 0
      PROVE  left' \in Int /\ left' = timeout' /\ timeout' <= MaxWait
  BY <1>0, <1>1, BoundedInt DEF EpollWait, Waits
<1>2. CASE GetNextTimer
  <2>1. \A n \in First : Remaining(n) \in Nat
    BY <1>0 DEF First, Remaining
  <2>2. NoTimer \in Nat  BY TimerAssumption DEF NoTimer
  <2>3. left' > 0 => left' \in Int /\ left' = timeout' /\ timeout' <= MaxWait
    BY <1>1, <1>2, <2>1, <2>2 DEF GetNextTimer
  <2> QED  BY <1>0, <1>2, <2>3 DEF GetNextTimer, Limit
<1>3. CASE Interrupted
  <2>1. left' > 0 => left' \in Int /\ left' = timeout' /\ timeout' <= MaxWait
    BY <1>0, <1>1, <1>3 DEF Interrupted
  <2> QED  BY <1>0, <1>3, <2>1 DEF Interrupted, Limit
<1>4. CASE Tick
  <2>1. left' > 0 => left > 0 /\ left' = left - 1  BY <1>0, <1>4 DEF Tick
  <2> QED  BY <1>0, <1>4, <2>1 DEF Tick, Limit
<1>5. CASE EnterIdle \/ Wake \/ ReadClock \/ Peek \/ ListExpired \/ LeaveIdle
  <2>1. pc' # "wait"
    BY <1>5 DEF EnterIdle, Wake, ReadClock, Peek, ListExpired, LeaveIdle
  <2> QED  BY <2>1 DEF Limit
<1>6. ASSUME NEW c \in 0 .. MaxClock, SetBack(c) PROVE Limit'
  BY <1>6 DEF SetBack, Limit
<1>7. ASSUME NEW th \in Threads, User(th) PROVE Limit'
  <2>1. UNCHANGED <<clock, pc, sleepVars, setBack>>
    BY <1>7 DEF User, Construct, Insert, Tell, Cancel, Refresh, Reset
  <2> QED  BY <2>1 DEF Limit
<1>8. CASE UNCHANGED vars
  BY <1>8 DEF vars, Limit
<1> QED
  BY <1>2, <1>3, <1>4, <1>5, <1>6, <1>7, <1>8 DEF Next, Worker

\* No deadline is overslept by more than signals add to the wait, and only a
\* deadline 2^31 ms away makes the wait endless, unless a wake-up is on its way.
THEOREM NoOversleeping == Spec => []NeverOversleeps
<1>1. CInv /\ [Next]_vars => CInv'
  BY TInvNext, ClockReadNext, SleepNext, LimitNext DEF CInv
<1>2. CInv => NeverOversleeps
  <2> SUFFICES ASSUME CInv, pc = "wait", ~setBack, ~Told, NEW n \in timers
               PROVE  /\ left > 0 => n.at + slept >= clock + left
                      /\ left < 0 => n.at >= since + IntEnd
    BY DEF NeverOversleeps
  <2>1. /\ clock \in Nat /\ left \in Int /\ since \in Nat /\ timeout \in Nat
        /\ slept \in Int /\ n.at \in Nat
    BY TimerAssumption DEF CInv, TInv, TypeOK, Node, Waits
  <2>2. left # 0 => n.at >= Known  BY DEF CInv, Sleep
  <2> QED  BY <2>1, <2>2 DEF CInv, Limit, Known
<1> QED  BY <1>1, <1>2, CInvInit, PTL DEF Spec

\* What is listed was due by the clock that was read before.
LEMMA Deadline ==
  ASSUME CInv, [Next]_vars
  PROVE  \A t \in cbs' \ cbs : next[t] <= clock \/ setBack
<1> SUFFICES ASSUME NEW t \in cbs' \ cbs, ~setBack PROVE next[t] <= clock
  OBVIOUS
<1>1. pc = "list" /\ NodeOf(t) \in Expired  BY SpentStays DEF CInv
<1>2. previous <= now /\ now <= clock
  BY <1>1 DEF CInv, ClockRead
<1>3. clock \in Nat /\ now \in Nat /\ previous \in Nat
  BY TimerAssumption DEF CInv, TInv, TypeOK
<1>4. ~Rollover  BY <1>2, <1>3 DEF Rollover
<1>5. NodeOf(t) \in timers /\ NodeOf(t).at <= now
  BY <1>1, <1>4 DEF Expired, Due
<1>6. next[t] <= now /\ next[t] \in Nat
  <2>1. NodeOf(t).at \in Nat
    BY <1>5 DEF CInv, TInv, TypeOK, Node
  <2> QED  BY <1>5, <2>1 DEF NodeOf
<1> QED  BY <1>2, <1>3, <1>6

\* And no callback is listed before its deadline.
THEOREM NoEarlyListing == Spec => NeverEarly
<1>1. CInv /\ [Next]_vars => CInv'
  BY TInvNext, ClockReadNext, SleepNext, LimitNext DEF CInv
<1>2. CInv /\ [Next]_vars =>
        [\A t \in cbs' \ cbs : next[t] <= clock \/ setBack]_vars
  BY Deadline
<1> QED  BY <1>1, <1>2, CInvInit, PTL DEF Spec, NeverEarly

\* And whatever was due by the clock listExpiredCb() read is listed, except a
\* recurring timer that comes back at once: in the new set it is due again,
\* which is the only way a node with an old deadline can be in it.
THEOREM NothingLeftExpired == Spec => ListsAllExpired
<1>1. TInv /\ [Next]_vars =>
        [pc = "list" /\ pc' = "drain" =>
           \A n \in timers' : n.at > now \/ recurring[n.timer]]_vars
  <2> SUFFICES ASSUME TInv, Next, pc = "list", pc' = "drain",
                      NEW n \in timers'
               PROVE  n.at > now \/ recurring[n.timer]
    BY DEF vars
  <2>1. ListExpired
    BY DEF Next, User, Construct, Insert, Tell, Cancel, Refresh, Reset, Worker,
           EnterIdle, GetNextTimer, Interrupted, Wake, ReadClock, Peek,
           LeaveIdle, Tick,
           SetBack, workerVars
  <2> DEFINE again == {t \in {m.timer : m \in Expired} : recurring[t]}
  <2>2. \/ n \in timers \ Expired
        \/ \E t \in again : n = [at |-> now + ms[t], timer |-> t]
    BY <2>1 DEF ListExpired
  <2>3. CASE n \in timers \ Expired
    <3>1. ~(n.at <= now)  BY <2>3 DEF Expired, Due
    <3>2. n.at \in Nat /\ now \in Nat
      BY <2>3, TimerAssumption DEF TInv, TypeOK, Node
    <3> QED  BY <3>1, <3>2
  <2>4. CASE \E t \in again : n = [at |-> now + ms[t], timer |-> t]
    BY <2>4
  <2> QED  BY <2>2, <2>3, <2>4
<1> QED  BY <1>1, TInvInit, TInvNext, PTL DEF Spec, ListsAllExpired
-----------------------------------------------------------------------------
(***************************************************************************)
(* The promise of the interface                                            *)
(***************************************************************************)
\* What TimerQueue calls armed: a Timer its user has, with its callback.
Active(t) == Shared(t) /\ cb[t]
EntryOf(t) == [at |-> next[t], recurring |-> recurring[t]]
QueueVars == <<Entries, spent, cbs, clock, setBack>>

\* The queue holds the entries of the active Timers.
LEMMA EntriesOfActive ==
  ASSUME TypeOK, SetHoldsActive
  PROVE  Entries = [t \in {u \in Timers : Active(u)} |-> EntryOf(t)]
<1>1. {n.timer : n \in timers} = {t \in Timers : Active(t)}
  <2>1. \A t \in Timers : NodeOf(t).timer = t  BY DEF NodeOf
  <2> QED  BY <2>1, NodesOfActive DEF Active
<1> QED  BY <1>1 DEF Entries, EntryOf

LEMMA EntriesOfActiveNext ==
  ASSUME TypeOK', SetHoldsActive'
  PROVE  Entries' = [t \in {u \in Timers : Active(u)'} |-> EntryOf(t)']
<1>1. {n.timer : n \in timers'} = {t \in Timers : Active(t)'}
  <2>1. \A t \in Timers : NodeOf(t)'.timer = t  BY DEF NodeOf
  <2>2. \A n : n \in timers' <=>
               \E t \in Timers : Shared(t)' /\ cb'[t] /\ n = NodeOf(t)'
    BY DEF SetHoldsActive
  <2> QED  BY <2>1, <2>2 DEF Active
<1> QED  BY <1>1 DEF Entries, EntryOf

\* Steps that change nothing about active Timers are stutters of the queue.
LEMMA SameEntries ==
  ASSUME TInv, TInv',
         \A t \in Timers : /\ Active(t)' <=> Active(t)
                           /\ Active(t) => EntryOf(t)' = EntryOf(t)
  PROVE  Entries' = Entries
<1>1. {t \in Timers : Active(t)'} = {t \in Timers : Active(t)}  OBVIOUS
<1>2. \A t \in {u \in Timers : Active(u)} : EntryOf(t)' = EntryOf(t)  OBVIOUS
<1> QED  BY <1>1, <1>2, EntriesOfActive, EntriesOfActiveNext DEF TInv

\* addTimer(), its first half: nobody else has the Timer yet.
LEMMA ConstructStutters ==
  ASSUME TInv, TInv', NEW th \in Threads, NEW t \in Timers,
         NEW p \in Periods, NEW r \in BOOLEAN, Construct(th, t, p, r)
  PROVE  UNCHANGED QueueVars
<1>1. /\ ~Made(t) /\ caller'[th] = [at |-> "insert", timer |-> t]
      /\ \A tg \in Threads : tg # th => caller'[tg] = caller[tg]
      /\ caller[th] = Free
      /\ \A u \in Timers : u # t => /\ ms'[u] = ms[u] /\ next'[u] = next[u]
                                    /\ recurring'[u] = recurring[u]
                                    /\ cb'[u] = cb[u]
      /\ UNCHANGED <<clock, cbs, spent, setBack>>
  BY DEF Construct, TInv, TypeOK
<1>2. ~Active(t) /\ ~Active(t)'
  BY <1>1 DEF Active, Shared, Inserting
<1>3. \A u \in Timers, tg \in Threads :
        u # t => (Inserting(tg, u)' <=> Inserting(tg, u))
  BY <1>1 DEF Inserting, Free
<1>4. \A u \in Timers : u # t => /\ Active(u)' <=> Active(u)
                                 /\ EntryOf(u)' = EntryOf(u)
  BY <1>1, <1>3 DEF Active, Shared, Made, EntryOf
<1>5. Entries' = Entries  BY <1>2, <1>4, SameEntries
<1> QED  BY <1>1, <1>5 DEF QueueVars

\* addTimer(), its second half.
LEMMA InsertAdds ==
  ASSUME TInv, TInv', NEW th \in Threads, Insert(th)
  PROVE  \E t \in Timers : Promise!Add(t)
<1>1. PICK t \in Timers : Inserting(th, t) /\ Made(t) /\ cb[t] /\ ~spent[t]
  <2>1. caller[th] \in Calls /\ caller[th].at = "insert"
    BY DEF Insert, TInv, TypeOK
  <2>2. caller[th] = [at |-> "insert", timer |-> caller[th].timer]
    BY <2>1 DEF Calls
  <2> QED  BY <2>1, <2>2 DEF TInv, Insertions, Inserting, Made, Spent
<1>2. /\ UNCHANGED <<clock, ms, next, recurring, cb, cbs, spent, setBack>>
      /\ \A tg \in Threads : tg # th => caller'[tg] = caller[tg]
      /\ caller'[th].at # "insert"
  BY DEF Insert, InsertFor, Free, TInv, TypeOK
<1>3. \A tg \in Threads, u \in Timers :
        Inserting(tg, u)' <=> tg # th /\ Inserting(tg, u)
  BY <1>2 DEF Inserting
<1>4. \A tg \in Threads, u \in Timers : Inserting(tg, u) => (u = t <=> tg = th)
  BY <1>1 DEF TInv, Insertions, Inserting
<1>5. /\ ~Active(t) /\ Active(t)' /\ EntryOf(t)' = EntryOf(t)
      /\ \A u \in Timers : u # t => /\ Active(u)' <=> Active(u)
                                    /\ EntryOf(u)' = EntryOf(u)
  BY <1>1, <1>2, <1>3, <1>4 DEF Active, Shared, Made, EntryOf
<1>6. EntryOf(t) \in Promise!Entry
  BY DEF EntryOf, Promise!Entry, TInv, TypeOK
<1>7. {u \in Timers : Active(u)'} = {u \in Timers : Active(u)} \cup {t}
  BY <1>5
<1>8. Promise!Add(t)
  BY <1>1, <1>2, <1>5, <1>6, <1>7, EntriesOfActive, EntriesOfActiveNext
  DEF TInv, Promise!Add, Promise!Armed, Promise!StillArmed, Promise!Keeps
<1> QED  BY <1>8

\* cancel().
LEMMA CancelTakesBack ==
  ASSUME TInv, TInv', NEW t \in Timers, Cancel(t)
  PROVE  Promise!Cancel(t)
<1>1. /\ Active(t) /\ spent' = [spent EXCEPT ![t] = TRUE]
      /\ \A u \in Timers : cb'[u] <=> u # t /\ cb[u]
      /\ UNCHANGED <<clock, ms, next, recurring, caller, cbs, setBack>>
  BY DEF Cancel, Active, TInv, TypeOK
<1>2. \A u \in Timers : /\ Active(u)' <=> u # t /\ Active(u)
                        /\ EntryOf(u)' = EntryOf(u)
  BY <1>1 DEF Active, Shared, Made, Inserting, EntryOf
<1>3. {u \in Timers : Active(u)'} = {u \in Timers : Active(u)} \ {t}
  BY <1>2
<1> QED
  BY <1>1, <1>2, <1>3, EntriesOfActive, EntriesOfActiveNext
  DEF TInv, Promise!Cancel, Promise!Armed, Promise!StillArmed, Promise!Keeps

\* refresh() and reset().
LEMMA Moves ==
  ASSUME TInv, TInv', NEW t \in Timers,
         Refresh(t) \/ \E th \in Threads, p \in Periods, b \in BOOLEAN :
                         Reset(th, t, p, b)
  PROVE  Promise!Move(t)
<1>1. /\ Shared(t) /\ cb[t]
      /\ \A u \in Timers : u # t => ms'[u] = ms[u] /\ next'[u] = next[u]
      /\ ms'[t] # -1
      /\ UNCHANGED <<clock, recurring, cb, cbs, spent, setBack>>
  <2>1. ms \in [Timers -> Periods \cup {-1}] /\ next \in [Timers -> Nat]
    BY DEF TInv, TypeOK
  <2>2. CASE Refresh(t)  BY <2>1, <2>2 DEF Refresh, Shared, Made
  <2>3. ASSUME NEW th \in Threads, NEW p \in Periods, NEW b \in BOOLEAN,
               Reset(th, t, p, b)
        PROVE  /\ Shared(t) /\ cb[t]
               /\ \A u \in Timers :
                    u # t => ms'[u] = ms[u] /\ next'[u] = next[u]
               /\ ms'[t] # -1
               /\ UNCHANGED <<clock, recurring, cb, cbs, spent, setBack>>
    <3>1. p # -1  BY TimerAssumption
    <3>2. /\ ms' = [ms EXCEPT ![t] = p]
          /\ \E d : next' = [next EXCEPT ![t] = d]
      BY <2>3 DEF Reset
    <3>3. /\ Shared(t) /\ cb[t]
          /\ UNCHANGED <<clock, recurring, cb, cbs, spent, setBack>>
      BY <2>3 DEF Reset, workerVars, history
    <3> QED  BY <2>1, <3>1, <3>2, <3>3
  <2> QED  BY <2>2, <2>3
<1>2. \A u \in Timers, tg \in Threads : Inserting(tg, u)' <=> Inserting(tg, u)
  <2>1. CASE Refresh(t)  BY <2>1 DEF Refresh, Inserting
  <2>2. ASSUME NEW th \in Threads, NEW p \in Periods, NEW b \in BOOLEAN,
               Reset(th, t, p, b)
        PROVE  \A u \in Timers, tg \in Threads :
                 Inserting(tg, u)' <=> Inserting(tg, u)
    <3>1. /\ caller[th] = Free /\ caller'[th].at # "insert"
          /\ \A tg \in Threads : tg # th => caller'[tg] = caller[tg]
      BY <2>2 DEF Reset, InsertFor, Free, TInv, TypeOK
    <3> QED  BY <3>1 DEF Inserting, Free
  <2> QED  BY <2>1, <2>2
<1>3. /\ \A u \in Timers : Active(u)' <=> Active(u)
      /\ \A u \in Timers : u # t => EntryOf(u)' = EntryOf(u)
      /\ EntryOf(t)'.recurring = EntryOf(t).recurring
      /\ Active(t)
  BY <1>1, <1>2 DEF Active, Shared, Made, EntryOf
<1>4. EntryOf(t)' \in Promise!Entry
  BY DEF EntryOf, Promise!Entry, TInv, TypeOK
<1>5. {u \in Timers : Active(u)'} = {u \in Timers : Active(u)}  BY <1>3
<1> QED
  BY <1>1, <1>3, <1>4, <1>5, EntriesOfActive, EntriesOfActiveNext
  DEF TInv, Promise!Move, Promise!Armed, Promise!StillArmed, Promise!Keeps

\* listExpiredCb(): what NoEarlyListing says of the deadlines is what List asks.
LEMMA ListHandsOut ==
  ASSUME TInv, TInv', ListExpired,
         \A t \in cbs' \ cbs : next[t] <= clock \/ setBack
  PROVE  Promise!List
<1> DEFINE hit == {n.timer : n \in Expired}
<1>1. /\ \A t \in Timers : /\ cb'[t] <=> cb[t] /\ (t \in hit => recurring[t])
                           /\ t \notin hit => next'[t] = next[t]
      /\ cbs' = hit /\ pc = "list"
      /\ spent' = [t \in Timers |-> spent[t] \/ (t \in hit /\ ~recurring[t])]
      /\ UNCHANGED <<clock, ms, recurring, caller, setBack>>
  BY DEF ListExpired, KeepIfRecurring, TInv, TypeOK
<1>2. cbs = {}  BY <1>1 DEF TInv, Results
<1>3. hit \subseteq Timers /\ \A t \in hit : Active(t)
  <2>1. \A n \in Expired : n \in timers  BY DEF Expired
  <2> QED  BY <2>1, NodesOfActive DEF TInv, Active
<1> HIDE DEF hit
<1>4. \A t \in Timers :
        /\ Active(t)' <=> Active(t) /\ (t \in hit => recurring[t])
        /\ t \notin hit => EntryOf(t)' = EntryOf(t)
        /\ EntryOf(t)' \in Promise!Entry
        /\ EntryOf(t)'.recurring = recurring[t]
        /\ EntryOf(t).recurring = recurring[t]
        /\ EntryOf(t).at = next[t]
  BY <1>1 DEF Active, Shared, Made, Inserting, EntryOf, Promise!Entry, TInv,
              TypeOK
<1> DEFINE again == {t \in hit : recurring[t]}
<1>5. {t \in Timers : Active(t)'}
        = {t \in Timers : Active(t)} \ (hit \ again)
  BY <1>3, <1>4
<1>6. /\ Promise!Armed = {t \in Timers : Active(t)}
      /\ DOMAIN Entries' = {t \in Timers : Active(t)'}
      /\ \A t \in Promise!Armed : Entries[t] = EntryOf(t)
      /\ \A t \in DOMAIN Entries' : Entries'[t] = EntryOf(t)'
  BY EntriesOfActive, EntriesOfActiveNext DEF TInv, Promise!Armed
<1>7. {t \in hit : Entries[t].recurring} = again
  BY <1>3, <1>4, <1>6
<1>8. spent' = [t \in Timers |-> spent[t] \/ t \in hit \ again]
  BY <1>1
<1>9. /\ \A t \in hit : Entries[t].at <= clock \/ setBack
      /\ \A t \in Promise!Armed \ hit : Entries'[t] = Entries[t]
      /\ \A t \in again : Entries'[t] \in Promise!Entry /\ Entries'[t].recurring
  BY <1>1, <1>2, <1>3, <1>4, <1>5, <1>6
<1> QED
  BY <1>1, <1>2, <1>3, <1>5, <1>6, <1>7, <1>8, <1>9
  DEF Promise!List, Promise!StillArmed, Promise!Keeps

\* TimerManager implements TimerQueue.
THEOREM PromiseKept == Spec => KeepsPromise
<1>1. Init => Promise!Init
  <2> SUFFICES ASSUME Init PROVE Promise!Init  OBVIOUS
  <2>1. timers = {} /\ cbs = {} /\ clock \in Nat /\ setBack = FALSE
        /\ spent = [t \in Timers |-> FALSE]
    BY TimerAssumption DEF Init
  <2>2. DOMAIN Entries = {}  BY <2>1 DEF Entries
  <2> QED  BY <2>1, <2>2 DEF Promise!Init, Promise!Armed
<1>2. CInv /\ [Next]_vars => CInv'
  BY TInvNext, ClockReadNext, SleepNext, LimitNext DEF CInv
<1>3. CInv /\ [Next]_vars => [Promise!Next]_QueueVars
  <2> SUFFICES ASSUME CInv, [Next]_vars PROVE [Promise!Next]_QueueVars
    OBVIOUS
  <2>1. TInv /\ TInv'  BY <1>2 DEF CInv
  <2>2. ASSUME NEW th \in Threads, User(th) PROVE [Promise!Next]_QueueVars
    <3>1. ASSUME NEW t \in Timers, NEW p \in Periods, NEW b \in BOOLEAN,
                 Construct(th, t, p, b)
          PROVE  UNCHANGED QueueVars
      BY <2>1, <3>1, ConstructStutters
    <3>2. ASSUME NEW t \in Timers, NEW p \in Periods, NEW b \in BOOLEAN,
                 Reset(th, t, p, b)
          PROVE  Promise!Move(t)
      BY <2>1, <3>2, Moves
    <3>3. ASSUME NEW t \in Timers, Cancel(t) PROVE Promise!Cancel(t)
      BY <2>1, <3>3, CancelTakesBack
    <3>4. ASSUME NEW t \in Timers, Refresh(t) PROVE Promise!Move(t)
      BY <2>1, <3>4, Moves
    <3>5. CASE Insert(th)
      BY <2>1, <3>5, InsertAdds DEF Promise!Next
    <3>6. CASE Tell(th)
      <4>1. \A t \in Timers, tg \in Threads :
              Inserting(tg, t)' <=> Inserting(tg, t)
        BY <2>1, <3>6 DEF Tell, Inserting, Free, TInv, TypeOK
      <4>2. \A t \in Timers : (Active(t)' <=> Active(t))
                              /\ EntryOf(t)' = EntryOf(t)
        BY <3>6, <4>1 DEF Tell, Active, Shared, Made, EntryOf
      <4>3. Entries' = Entries  BY <2>1, <4>2, SameEntries
      <4> QED  BY <3>6, <4>3 DEF Tell, QueueVars
    <3> QED
      BY <2>2, <3>1, <3>2, <3>3, <3>4, <3>5, <3>6 DEF User, Promise!Next
  <2>3. CASE ListExpired
    <3>1. \A t \in cbs' \ cbs : next[t] <= clock \/ setBack
      BY Deadline
    <3> QED  BY <2>1, <2>3, <3>1, ListHandsOut DEF Promise!Next
  <2>4. CASE LeaveIdle
    <3>1. Entries' = Entries /\ cbs' = {} /\ UNCHANGED <<spent, clock, setBack>>
      BY <2>4 DEF LeaveIdle, Entries
    <3> QED  BY <3>1 DEF Promise!Scheduled, Promise!Next
  <2>5. CASE Worker /\ ~ListExpired /\ ~LeaveIdle
    <3>1. UNCHANGED <<timers, next, recurring, spent, cbs, clock, setBack>>
      BY <2>5 DEF Worker, EnterIdle, GetNextTimer, Interrupted, Wake,
                  ReadClock, Peek
    <3> QED  BY <3>1 DEF QueueVars, Entries
  <2>6. CASE Tick \/ \E c \in 0 .. MaxClock : SetBack(c)
    <3>1. UNCHANGED <<timers, next, recurring, spent, cbs>>
          /\ setBack' = (setBack \/ clock' < clock)
      BY <2>1, <2>6, TimerAssumption DEF Tick, SetBack, TInv, TypeOK
    <3>2. clock' \in Nat  BY <2>1, TimerAssumption DEF TInv, TypeOK
    <3>3. Entries' = Entries  BY <3>1 DEF Entries
    <3> QED  BY <3>1, <3>2, <3>3 DEF Promise!Time, Promise!Next
  <2>7. CASE UNCHANGED vars
    BY <2>7 DEF vars, QueueVars, Entries
  <2> QED  BY <2>2, <2>3, <2>4, <2>5, <2>6, <2>7 DEF Next
<1> QED  BY <1>1, <1>2, <1>3, CInvInit, PTL
         DEF Spec, KeepsPromise, Promise!Spec, Promise!vars, QueueVars
=============================================================================

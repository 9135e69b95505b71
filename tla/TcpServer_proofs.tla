---------------------------- MODULE TcpServer_proofs ---------------------------
(***************************************************************************)
(* Proofs about TcpServer for any number of users, sockets, descriptors,   *)
(* addresses and tasks.                                                    *)
(*                                                                         *)
(* A descriptor that is neither free nor refused belongs to exactly one    *)
(* Socket, and a Socket that has one is referred to: by m_socks, by a task *)
(* or by a bind() that is about to append it.  Settle() keeps that         *)
(* whatever it is given, so that an action only has to hand it descriptors *)
(* and owners that agree.  Every task has captured the shared_ptr, which   *)
(* is why the server lives.  Clients' sockets do not listen; unless        *)
(* something was bound since, a stop() is on its way until m_socks has no  *)
(* open socket and nobody is appending one: the task that empties m_socks  *)
(* while somebody does is a race.                                          *)
(***************************************************************************)
EXTENDS TcpServer, TLAPS

Numbers == [Socks -> Fds \cup {None}]
Kernel == [Fds -> {"free", "listen", "client"}]

\* f gives the sockets their descriptors, o says what these are, R are refused.
Owns(f, o, R) ==
  /\ \A s \in Socks : f[s] # None => o[f[s]] # "free" /\ f[s] \notin R
  /\ \A s, r \in Socks : f[s] # None /\ f[s] = f[r] => s = r
  /\ \A n \in Fds : o[n] # "free" /\ n \notin R => \E s \in Socks : f[s] = n
  /\ \A n \in R : o[n] = "client"
Clients == {c.sock : c \in Elements(clients)}
NoneListens(f, o, C) == \A s \in C : f[s] # None => o[f[s]] = "client"

Owned == Owns(fd, open, refused) /\ \A s \in Socks \ Used : fd[s] = None
Kinds == NoneListens(fd, open, Clients)

\* Whoever is in a call has its shared_ptr; a loop over m_socks begins at the
\* first; a call has a Socket of its own from listen() to push_back(), and no
\* task of stop() is in m_socks while one is appended.
Callers ==
  \A u \in Users :
    /\ user[u].pc # "user" => held
    /\ user[u].pc = "start" => user[u].n >= 1
    /\ user[u].pc \in {"listen", "push"} <=> user[u].sock # None
    /\ user[u].pc = "push" => worker.pc \notin {"close", "clear"}
Private(us, S) ==
  \A u \in Users : us[u].sock # None =>
    /\ us[u].sock \notin S
    /\ \A v \in Users : v # u => us[v].sock # us[u].sock

\* Every task has captured the shared_ptr, and who has one keeps the server.
Captured == /\ \A t \in Elements(queue) \cup Elements(clients) : t.self
            /\ worker # Idle => worker.self
Lives == HoldsServer => alive

\* A stop() has set m_isStop and its task has not ended yet.
Coming == \/ \E u \in Users : user[u].pc = "stop"
          \/ \E i \in DOMAIN queue : queue[i].do = "close"
          \/ worker.pc \in {"close", "clear"}
Pushing == \E u \in Users : user[u].pc = "push"
Closed == ~Pushing /\ \A s \in Elements(socks) : fd[s] = None
Closes == bound \/ Coming \/ Closed

IInv == /\ TypeOK /\ Owned /\ Kinds /\ Callers
        /\ Private(user, Elements(socks)) /\ Captured /\ Lives /\ Closes

(***************************************************************************)
(* Sequences as sets                                                       *)
(***************************************************************************)
LEMMA ElementsOfAppend ==
  ASSUME NEW S, NEW q \in Seq(S), NEW x \in S
  PROVE  /\ Elements(Append(q, x)) = Elements(q) \cup {x}
         /\ Append(q, x) \in Seq(S)
<1>1. /\ DOMAIN Append(q, x) = DOMAIN q \cup {Len(q) + 1}
      /\ Append(q, x)[Len(q) + 1] = x
      /\ \A i \in DOMAIN q : Append(q, x)[i] = q[i]
  OBVIOUS
<1> QED  BY <1>1 DEF Elements

LEMMA ElementsOfTail ==
  ASSUME NEW S, NEW q \in Seq(S), q # <<>>
  PROVE  /\ Elements(q) = {Head(q)} \cup Elements(Tail(q))
         /\ Tail(q) \in Seq(S) /\ Head(q) \in S
<1>1. /\ 1 \in DOMAIN q /\ Head(q) = q[1]
      /\ \A i \in DOMAIN Tail(q) : i + 1 \in DOMAIN q /\ Tail(q)[i] = q[i + 1]
      /\ \A i \in DOMAIN q : i # 1 => i - 1 \in DOMAIN Tail(q)
      /\ \A i \in DOMAIN q : i # 1 => q[i] = Tail(q)[i - 1]
  OBVIOUS
<1>2. Elements(q) \subseteq {Head(q)} \cup Elements(Tail(q))
  BY <1>1 DEF Elements
<1>3. {Head(q)} \cup Elements(Tail(q)) \subseteq Elements(q)
  BY <1>1 DEF Elements
<1> QED  BY <1>2, <1>3

LEMMA ElementsTyped ==
  ASSUME NEW S, NEW q \in Seq(S) PROVE Elements(q) \subseteq S
BY DEF Elements

LEMMA ClientsTyped ==
  ASSUME clients \in Seq(Client) PROVE Clients \subseteq Socks
<1>1. Elements(clients) \subseteq Client  BY ElementsTyped
<1> QED  BY <1>1 DEF Clients, Client

(***************************************************************************)
(* Descriptors and their owners                                            *)
(***************************************************************************)
\* Closing sockets frees their descriptors and nobody else's.
LEMMA Closing ==
  ASSUME NEW f \in Numbers, NEW o \in Kernel, NEW R \in SUBSET Fds,
         NEW C \in SUBSET Socks, NEW S \in SUBSET Socks,
         Owns(f, o, R), NoneListens(f, o, C)
  PROVE  LET f2 == Forget(f, S) o2 == CloseAll(o, f, S) IN
         /\ f2 \in Numbers /\ o2 \in Kernel
         /\ Owns(f2, o2, R) /\ NoneListens(f2, o2, C)
         /\ \A s \in S : f2[s] = None
         /\ \A s \in Socks : f2[s] \in {f[s], None}
<1> DEFINE f2 == Forget(f, S)
           o2 == CloseAll(o, f, S)
<1>1. /\ f2 = [s \in Socks |-> IF s \in S THEN None ELSE f[s]]
      /\ o2 = [n \in Fds |-> IF \E s \in S : f[s] = n THEN "free" ELSE o[n]]
  BY DEF Forget, CloseAll
<1> HIDE DEF f2, o2
<1>2. f2 \in Numbers /\ o2 \in Kernel  BY <1>1 DEF Numbers, Kernel
<1>3. /\ \A s \in S : f2[s] = None
      /\ \A s \in Socks : f2[s] \in {f[s], None}
      /\ \A s \in Socks \ S : f2[s] = f[s]
  BY <1>1
<1>4. ASSUME NEW s \in Socks, f2[s] # None
      PROVE  f2[s] = f[s] /\ f[s] \in Fds /\ o2[f2[s]] = o[f[s]]
  <2>1. s \notin S /\ f2[s] = f[s]  BY <1>3, <1>4
  <2>2. f[s] \in Fds  BY <1>4, <2>1 DEF Numbers
  <2>3. ~ \E r \in S : f[r] = f[s]  BY <1>4, <2>1 DEF Owns
  <2> QED  BY <1>1, <2>1, <2>2, <2>3
<1>5. Owns(f2, o2, R)
  <2>1. \A s \in Socks : f2[s] # None => o2[f2[s]] # "free" /\ f2[s] \notin R
    BY <1>4 DEF Owns
  <2>2. \A s, r \in Socks : f2[s] # None /\ f2[s] = f2[r] => s = r
    BY <1>4 DEF Owns
  <2>3. ASSUME NEW n \in Fds, o2[n] # "free", n \notin R
        PROVE  \E s \in Socks : f2[s] = n
    <3>1. o2[n] = o[n] /\ ~ \E s \in S : f[s] = n  BY <2>3, <1>1
    <3>2. PICK s \in Socks : f[s] = n  BY <2>3, <3>1 DEF Owns
    <3> QED  BY <1>3, <3>1, <3>2
  <2>4. ASSUME NEW n \in R PROVE o2[n] = "client"
    <3>1. o[n] = "client" /\ n \in Fds /\ n # None
      BY <2>4, TcpServerAssumption DEF Owns
    <3>2. ~ \E s \in S : f[s] = n  BY <2>4, <3>1 DEF Owns
    <3> QED  BY <1>1, <3>1, <3>2
  <2> QED  BY <2>1, <2>2, <2>3, <2>4 DEF Owns
<1>6. NoneListens(f2, o2, C)  BY <1>4 DEF NoneListens
<1> QED  BY <1>2, <1>3, <1>5, <1>6 DEF f2, o2

\* A new Socket with a descriptor of its own, which is a client's or listens.
LEMMA NewOwner ==
  ASSUME IInv, NEW s \in Socks, NEW n \in Fds, FreeSocket(s), FreeFd(n),
         NEW k \in {"listen", "client"}
  PROVE  LET f == [fd EXCEPT ![s] = n] o == [open EXCEPT ![n] = k] IN
         /\ f \in Numbers /\ o \in Kernel /\ Owns(f, o, refused)
         /\ NoneListens(f, o, Clients)
         /\ k = "client" => NoneListens(f, o, Clients \cup {s})
         /\ s \notin Elements(socks) /\ \A u \in Users : user[u].sock # s
<1> DEFINE f == [fd EXCEPT ![s] = n]
           o == [open EXCEPT ![n] = k]
<1>1. fd \in Numbers /\ open \in Kernel  BY DEF IInv, TypeOK, Numbers, Kernel
<1>2. fd[s] = None /\ s \notin Used /\ open[n] = "free"
  BY DEF IInv, Owned, FreeSocket, FreeFd
<1>3. /\ f \in Numbers /\ o \in Kernel
      /\ f[s] = n /\ \A r \in Socks \ {s} : f[r] = fd[r]
      /\ o[n] = k /\ \A m \in Fds \ {n} : o[m] = open[m]
  BY <1>1 DEF Numbers, Kernel
<1> HIDE DEF f, o
<1>4. \A r \in Socks : fd[r] # n
  BY <1>2, TcpServerAssumption DEF IInv, Owned, Owns
<1>5. \A r \in Socks \ {s} : f[r] # None => f[r] \in Fds \ {n}
  BY <1>1, <1>3, <1>4 DEF Numbers
<1>6. n \notin refused  BY <1>2 DEF IInv, Owned, Owns
<1>7. Owns(f, o, refused)
  <2>1. ASSUME NEW r \in Socks, f[r] # None
        PROVE  o[f[r]] # "free" /\ f[r] \notin refused
    <3>1. CASE r = s  BY <1>3, <1>6, <3>1
    <3>2. CASE r # s
      <4>1. f[r] = fd[r] /\ o[f[r]] = open[fd[r]]
        BY <1>3, <1>5, <2>1, <3>2
      <4> QED  BY <2>1, <4>1 DEF IInv, Owned, Owns
    <3> QED  BY <3>1, <3>2
  <2>2. \A r, q \in Socks : f[r] # None /\ f[r] = f[q] => r = q
    BY <1>3, <1>4 DEF IInv, Owned, Owns
  <2>3. ASSUME NEW m \in Fds, o[m] # "free", m \notin refused
        PROVE  \E r \in Socks : f[r] = m
    <3>1. CASE m = n  BY <1>3, <3>1
    <3>2. CASE m # n
      <4>1. PICK r \in Socks : fd[r] = m
        BY <1>3, <2>3, <3>2 DEF IInv, Owned, Owns
      <4>2. r # s  BY <1>2, <4>1, TcpServerAssumption
      <4> QED  BY <1>3, <4>1, <4>2
    <3> QED  BY <3>1, <3>2
  <2>4. \A m \in refused : o[m] = "client"
    BY <1>3, <1>6 DEF IInv, TypeOK, Owned, Owns
  <2> QED  BY <2>1, <2>2, <2>3, <2>4 DEF Owns
<1>8. /\ s \notin Clients /\ s \notin Elements(socks)
      /\ \A u \in Users : user[u].sock # s
  BY <1>2 DEF Used, SocketsOfTasks, Clients
<1>9. Clients \subseteq Socks  BY ClientsTyped DEF IInv, TypeOK
<1>10. NoneListens(f, o, Clients)
  BY <1>3, <1>5, <1>8, <1>9 DEF IInv, Kinds, NoneListens
<1>11. k = "client" => NoneListens(f, o, Clients \cup {s})
  BY <1>3, <1>10 DEF NoneListens
<1> QED  BY <1>3, <1>7, <1>8, <1>10, <1>11 DEF f, o

(***************************************************************************)
(* Settle()                                                                *)
(***************************************************************************)
\* It closes what nobody refers to, and nothing else.
LEMMA Settled ==
  ASSUME NEW q \in Seq(Socks), NEW f \in Numbers, NEW o \in Kernel,
         \A i, j \in DOMAIN q : q[i] = q[j] => i = j,
         refused' \subseteq Fds, Clients' \subseteq Socks,
         Owns(f, o, refused'), NoneListens(f, o, Clients'), Settle(q, f, o)
  PROVE  /\ fd' \in Numbers /\ open' \in Kernel /\ alive' \in BOOLEAN
         /\ socks' \in Seq(Socks)
         /\ \A i, j \in DOMAIN socks' : socks'[i] = socks'[j] => i = j
         /\ Owned' /\ Kinds' /\ (HoldsServer => alive)'
         /\ \A s \in Socks : fd'[s] \in {f[s], None}
         /\ Elements(socks') \subseteq Elements(q)
<1> DEFINE kept == IF HoldsServer' THEN Elements(q) ELSE {}
           gone == Socks \ (kept \cup SocketsOfTasks')
<1>1. /\ alive' = HoldsServer'
      /\ socks' = IF HoldsServer' THEN q ELSE <<>>
      /\ fd' = Forget(f, gone) /\ open' = CloseAll(o, f, gone)
  BY DEF Settle
<1>2. gone \in SUBSET Socks  OBVIOUS
<1> HIDE DEF gone
<1>3. /\ fd' \in Numbers /\ open' \in Kernel
      /\ Owns(fd', open', refused') /\ NoneListens(fd', open', Clients')
      /\ \A s \in gone : fd'[s] = None
      /\ \A s \in Socks : fd'[s] \in {f[s], None}
  BY <1>1, <1>2, Closing
<1>4. alive' \in BOOLEAN /\ (HoldsServer => alive)'
  BY <1>1 DEF HoldsServer
<1>5. /\ socks' \in Seq(Socks) /\ Elements(socks') = kept
      /\ \A i, j \in DOMAIN socks' : socks'[i] = socks'[j] => i = j
  BY <1>1 DEF Elements
<1>6. Owned'
  <2>1. Used' = kept \cup SocketsOfTasks'  BY <1>5 DEF Used
  <2>2. \A s \in Socks \ Used' : s \in gone  BY <2>1 DEF gone
  <2> QED  BY <1>3, <2>2 DEF Owned
<1> QED  BY <1>3, <1>4, <1>5, <1>6 DEF Kinds

\* A step that leaves sockets and descriptors alone.
LEMMA Quiet ==
  ASSUME IInv, UNCHANGED <<socketVars, refused>>,
         SocketsOfTasks \subseteq SocketsOfTasks' \cup {None},
         Clients' \subseteq Clients
  PROVE  Owned' /\ Kinds'
<1>1. UNCHANGED <<alive, socks, fd, open, refused>>  BY DEF socketVars
<1>2. Used \subseteq Used' \cup {None}  BY <1>1 DEF Used
<1>3. Owned'  BY <1>1, <1>2, TcpServerAssumption DEF IInv, Owned
<1>4. Kinds'  BY <1>1 DEF IInv, Kinds, NoneListens
<1> QED  BY <1>3, <1>4
\* One user goes on, the others stay where they are.
LEMMA OneGoes ==
  ASSUME IInv, NEW u \in Users, NEW c \in Call, Goes(u, c)
  PROVE  /\ user' \in [Users -> Call] /\ user'[u] = c
         /\ \A v \in Users : v # u => user'[v] = user[v]
BY DEF IInv, TypeOK, Goes

\* What a step finds.
LEMMA Before ==
  ASSUME IInv
  PROVE  /\ socks \in Seq(Socks) /\ fd \in Numbers /\ open \in Kernel
         /\ \A i, j \in DOMAIN socks : socks[i] = socks[j] => i = j
         /\ Owns(fd, open, refused) /\ NoneListens(fd, open, Clients)
         /\ Clients \in SUBSET Socks /\ refused \in SUBSET Fds
         /\ Elements(socks) \in SUBSET Socks
         /\ user \in [Users -> Call] /\ queue \in Seq(Task)
         /\ worker \in Worker /\ clients \in Seq(Client)
         /\ held \in BOOLEAN /\ bound \in BOOLEAN /\ isStop \in BOOLEAN
         /\ Callers /\ Private(user, Elements(socks)) /\ Captured /\ Lives
         /\ Closes
<1>1. Elements(socks) \subseteq Socks  BY ElementsTyped DEF IInv, TypeOK
<1> QED
  BY <1>1, ClientsTyped DEF IInv, TypeOK, Owned, Kinds, Numbers, Kernel

(***************************************************************************)
(* Users                                                                   *)
(***************************************************************************)
USE DEF serverVars, taskVars, socketVars

\* A user goes on without touching a socket; it may queue a task.
LEMMA UserGoes ==
  ASSUME IInv, NEW u \in Users, NEW c \in Call, Goes(u, c), held,
         UNCHANGED <<held, socketVars, worker, clients, refused, proc>>,
         queue' \in Seq(Task), \A t \in Elements(queue') : t.self,
         Elements(queue) \subseteq Elements(queue'),
         isStop' \in BOOLEAN, bound' \in BOOLEAN,
         c.sock = user[u].sock,
         c.pc \in {"listen", "push"} <=> c.sock # None,
         c.pc = "start" => c.n >= 1,
         c.pc = "push" => bound' /\ worker.pc \notin {"close", "clear"},
         Coming \/ bound => Coming' \/ bound'
  PROVE  IInv'
<1>1. /\ user' \in [Users -> Call] /\ user'[u] = c
      /\ \A v \in Users : v # u => user'[v] = user[v]
  BY OneGoes
<1>2. \A v \in Users : user'[v].sock = user[v].sock  BY <1>1
<1>3. TypeOK'  BY <1>1 DEF IInv, TypeOK
<1>4. Clients' = Clients  BY DEF Clients
<1>5. {task.sock : task \in Elements(queue)}
      \subseteq {task.sock : task \in Elements(queue')}
  OBVIOUS
<1>6. SocketsOfTasks \subseteq SocketsOfTasks' \cup {None}
  BY <1>2, <1>5 DEF SocketsOfTasks
<1>7. Owned' /\ Kinds'  BY <1>4, <1>6, Quiet
<1>8. Callers'  BY <1>1, Before DEF Callers
<1>9. Private(user, Elements(socks))'  BY <1>2, Before DEF Private
<1>10. Captured' /\ Lives'
  BY Before DEF Captured, Lives, HoldsServer
<1>11. Closes'
  BY <1>1, Before DEF Closes, Closed, Pushing
<1> QED  BY <1>3, <1>7, <1>8, <1>9, <1>10, <1>11 DEF IInv

\* The same when the queue stays.
LEMMA UserMoves ==
  ASSUME IInv, NEW u \in Users, NEW c \in Call, Goes(u, c), held,
         UNCHANGED <<held, socketVars, queue, worker, clients, refused, proc>>,
         isStop' \in BOOLEAN, bound' \in BOOLEAN, bound => bound',
         c.sock = user[u].sock, user[u].pc # "stop",
         c.pc \in {"listen", "push"} <=> c.sock # None,
         c.pc = "start" => c.n >= 1,
         c.pc = "push" => bound' /\ worker.pc \notin {"close", "clear"}
  PROVE  IInv'
<1>1. \A v \in Users : v # u => user'[v] = user[v]  BY OneGoes
<1>2. Coming => Coming'  BY <1>1 DEF Coming
<1>3. queue' \in Seq(Task) /\ \A t \in Elements(queue') : t.self
  BY Before DEF Captured
<1> QED  BY <1>2, <1>3, UserGoes

\* A race ends the process and changes nothing else.
LEMMA Races == ASSUME IInv, Race PROVE IInv'
<1>1. UNCHANGED <<serverVars, taskVars, socketVars, refused>> /\ proc' = "ub"
  BY DEF Race
<1>2. TypeOK'  BY <1>1 DEF IInv, TypeOK
<1>3. Owned' /\ Kinds'
  BY <1>1, Quiet DEF IInv, SocketsOfTasks, Clients
<1>4. Callers' /\ Private(user, Elements(socks))' /\ Captured' /\ Lives'
  BY <1>1 DEF IInv, Callers, Private, Captured, Lives, HoldsServer
<1>5. Closes'
  BY <1>1 DEF IInv, Closes, Coming, Closed, Pushing
<1> QED  BY <1>2, <1>3, <1>4, <1>5 DEF IInv

\* What is known of the call of a user that takes a step.
LEMMA Caller ==
  ASSUME IInv, NEW u \in Users
  PROVE  /\ user[u] \in Call
         /\ user[u].pc # "user" => held
         /\ user[u].pc \in {"listen", "push"} => user[u].sock \in Socks
         /\ user[u].pc \notin {"listen", "push"} => user[u].sock = None
BY Before DEF Callers, Call

\* A call that begins with its addresses to count down.
LEMMA Counted ==
  ASSUME NEW c \in Call, NEW n \in Nat
  PROVE  LET d == [c EXCEPT !.pc = "bind", !.n = n] IN
         d \in Call /\ d.pc = "bind" /\ d.sock = c.sock
BY DEF Call

\* Entering a call, and the steps of start() and stop().
LEMMA QuietUsers ==
  ASSUME IInv, NEW u \in Users,
         Bind(u) \/ Start(u) \/ Stop(u) \/ BindEnd(u) \/ StartSet(u)
  PROVE  IInv'
<1>1. user[u] \in Call /\ isStop \in BOOLEAN /\ bound \in BOOLEAN
      /\ (user[u].pc # "user" => held) /\ queue \in Seq(Task)
      /\ (user[u].pc \notin {"listen", "push"} => user[u].sock = None)
  BY Before, Caller
<1>2. CASE Bind(u)
  <2>1. PICK n \in 1 .. MaxAddrs :
          Goes(u, [NoCall EXCEPT !.pc = "bind", !.n = n])
    BY <1>2 DEF Bind
  <2> DEFINE c == [NoCall EXCEPT !.pc = "bind", !.n = n]
  <2>2. c \in Call /\ Goes(u, c) /\ c.pc = "bind" /\ c.sock = None
    <3>1. n \in Nat  BY TcpServerAssumption
    <3>2. NoCall \in Call /\ NoCall.sock = None  BY DEF NoCall, Call
    <3> QED  BY <2>1, <3>1, <3>2, Counted
  <2>3. held /\ user[u].pc = "user"
        /\ UNCHANGED <<serverVars, socketVars, queue, worker, clients, refused,
                       proc>>
    BY <1>2 DEF Bind, May
  <2> HIDE DEF c
  <2> QED  BY <1>1, <2>2, <2>3, UserMoves
<1>3. CASE Start(u)
  <2> DEFINE c == [NoCall EXCEPT !.pc = "set"]
  <2>1. c \in Call /\ c.pc = "set" /\ c.sock = None  BY DEF NoCall, Call
  <2>2. Goes(u, c) /\ held /\ user[u].pc = "user"
        /\ UNCHANGED <<serverVars, socketVars, queue, worker, clients, refused,
                       proc>>
    BY <1>3 DEF Start, May
  <2> HIDE DEF c
  <2> QED  BY <1>1, <2>1, <2>2, UserMoves
<1>4. CASE Stop(u)
  <2>1. Stopping \in Call /\ Stopping.pc = "stop" /\ Stopping.sock = None
    BY DEF Stopping, NoCall, Call
  <2>2. Goes(u, Stopping) /\ held /\ user[u].pc = "user"
        /\ isStop' = TRUE /\ bound' = FALSE
        /\ UNCHANGED <<held, socketVars, queue, worker, clients, refused, proc>>
    BY <1>4 DEF Stop, May
  <2>3. Coming'  BY <2>1, <2>2, OneGoes DEF Coming
  <2>4. \A t \in Elements(queue') : t.self  BY <2>2, Before DEF Captured
  <2>5. isStop' \in BOOLEAN /\ bound' \in BOOLEAN  BY <2>2
  <2> QED  BY <1>1, <2>1, <2>2, <2>3, <2>4, <2>5, UserGoes
<1>5. CASE BindEnd(u)
  <2> DEFINE c(pc) == [NoCall EXCEPT !.pc = pc]
             others == UNCHANGED <<serverVars, socketVars, queue, worker,
                                   clients, refused, proc>>
  <2>1. /\ user[u].pc = "bind"
        /\ \/ Race
           \/ Goes(u, c("clear")) /\ others
           \/ Goes(u, c("list")) /\ others
    BY <1>5 DEF BindEnd, Changes, Walks
  <2>2. \A pc \in {"clear", "list"} :
          c(pc) \in Call /\ c(pc).pc = pc /\ c(pc).sock = None
    BY DEF NoCall, Call
  <2>3. ASSUME NEW pc \in {"clear", "list"}, Goes(u, c(pc)), others PROVE IInv'
    <3> DEFINE d == c(pc)
    <3>1. d \in Call /\ d.pc = pc /\ d.sock = None /\ Goes(u, d)
      BY <2>2, <2>3
    <3> HIDE DEF d
    <3> QED  BY <1>1, <2>1, <2>3, <3>1, UserMoves
  <2> QED  BY <2>1, <2>3, Races
<1>6. CASE StartSet(u)
  <2> DEFINE c == [NoCall EXCEPT !.pc = "start", !.n = 1]
  <2>1. c \in Call /\ c.pc = "start" /\ c.sock = None /\ c.n = 1
    BY DEF NoCall, Call
  <2>2. CASE Race  BY <2>2, Races
  <2>3. CASE ~Race
    <3>1. Goes(u, c) /\ user[u].pc = "set" /\ isStop' = FALSE
          /\ UNCHANGED <<held, bound, socketVars, queue, worker, clients,
                         refused, proc>>
      BY <1>6, <2>3 DEF StartSet, Walks
    <3>2. isStop' \in BOOLEAN  BY <3>1
    <3> HIDE DEF c
    <3> QED  BY <1>1, <2>1, <3>1, <3>2, UserMoves
  <2> QED  BY <2>2, <2>3
<1> QED  BY <1>2, <1>3, <1>4, <1>5, <1>6

\* start() and stop() queue their tasks, each with the shared_ptr.
LEMMA Queues ==
  ASSUME IInv, NEW task \in Task, task.self, queue' = Append(queue, task)
  PROVE  /\ queue' \in Seq(Task) /\ \A t \in Elements(queue') : t.self
         /\ Elements(queue) \subseteq Elements(queue')
         /\ \A i \in DOMAIN queue : i \in DOMAIN queue' /\ queue'[i] = queue[i]
         /\ Len(queue') \in DOMAIN queue' /\ queue'[Len(queue')] = task
<1>1. queue \in Seq(Task) /\ \A t \in Elements(queue) : t.self
  BY Before DEF Captured
<1>2. queue' \in Seq(Task) /\ Elements(queue') = Elements(queue) \cup {task}
  BY <1>1, ElementsOfAppend
<1>3. /\ \A i \in DOMAIN queue : i \in DOMAIN queue' /\ queue'[i] = queue[i]
      /\ Len(queue') \in DOMAIN queue' /\ queue'[Len(queue')] = task
  BY <1>1
<1> QED  BY <1>1, <1>2, <1>3

LEMMA StartNextKeeps == ASSUME IInv, NEW u \in Users, StartNext(u) PROVE IInv'
<1>1. /\ user[u] \in Call /\ held /\ user[u].sock = None
      /\ user[u].pc = "start" /\ user[u].n >= 1
      /\ isStop \in BOOLEAN /\ bound \in BOOLEAN
      /\ UNCHANGED <<serverVars, socketVars, worker, clients, refused, proc>>
  BY Before, Caller DEF StartNext, Callers
<1>2. CASE user[u].n > Len(socks)
  <2>1. Goes(u, NoCall) /\ UNCHANGED queue  BY <1>2 DEF StartNext
  <2>2. NoCall \in Call /\ NoCall.pc = "user" /\ NoCall.sock = None
    BY DEF NoCall, Call
  <2> QED  BY <1>1, <2>1, <2>2, UserMoves
<1>3. CASE ~ (user[u].n > Len(socks))
  <2> DEFINE c == [user[u] EXCEPT !.n = @ + 1]
             task == AcceptTask(socks[user[u].n])
  <2>1. Goes(u, c) /\ queue' = Append(queue, task)
    BY <1>3 DEF StartNext
  <2>2. c \in Call /\ c.pc = "start" /\ c.n >= 1 /\ c.sock = None
    BY <1>1 DEF Call
  <2>3. task \in Task /\ task.self
    <3>1. user[u].n \in Nat /\ user[u].n <= Len(socks)
      BY <1>1, <1>3, Before DEF Call
    <3>2. socks[user[u].n] \in Socks  BY <1>1, <3>1, Before
    <3> QED  BY <3>2 DEF Task, AcceptTask
  <2> HIDE DEF task, c
  <2>4. /\ queue' \in Seq(Task) /\ \A t \in Elements(queue') : t.self
        /\ Elements(queue) \subseteq Elements(queue')
        /\ \A i \in DOMAIN queue : i \in DOMAIN queue' /\ queue'[i] = queue[i]
    BY <2>1, <2>3, Queues
  <2>5. Coming => Coming'
    BY <1>1, <2>1, <2>2, <2>4, OneGoes DEF Coming
  <2> QED  BY <1>1, <2>1, <2>2, <2>4, <2>5, UserGoes
<1> QED  BY <1>2, <1>3

LEMMA StopEndKeeps == ASSUME IInv, NEW u \in Users, StopEnd(u) PROVE IInv'
<1>1. /\ user[u].pc = "stop" /\ queue' = Append(queue, CloseTask)
      /\ Goes(u, NoCall)
      /\ UNCHANGED <<serverVars, socketVars, worker, clients, refused, proc>>
  BY DEF StopEnd
<1>2. /\ user[u] \in Call /\ held /\ user[u].sock = None
      /\ isStop \in BOOLEAN /\ bound \in BOOLEAN
  BY <1>1, Before, Caller
<1>3. NoCall \in Call /\ NoCall.pc = "user" /\ NoCall.sock = None
  BY DEF NoCall, Call
<1>4. CloseTask \in Task /\ CloseTask.self /\ CloseTask.do = "close"
  BY DEF CloseTask, Task
<1>5. /\ queue' \in Seq(Task) /\ \A t \in Elements(queue') : t.self
      /\ Elements(queue) \subseteq Elements(queue')
      /\ Len(queue') \in DOMAIN queue' /\ queue'[Len(queue')] = CloseTask
  BY <1>1, <1>4, Queues
<1>6. Coming'  BY <1>4, <1>5 DEF Coming
<1> QED  BY <1>1, <1>2, <1>3, <1>5, <1>6, UserGoes

\* m_socks.push_back() begins while nobody is in m_socks.
LEMMA PushBackKeeps == ASSUME IInv, NEW u \in Users, PushBack(u) PROVE IInv'
<1>1. CASE Race  BY <1>1, Races
<1>2. CASE ~Race
  <2> DEFINE c == [user[u] EXCEPT !.pc = "push"]
  <2>1. /\ user[u].pc = "listen" /\ Goes(u, c) /\ bound' = TRUE
        /\ UNCHANGED <<held, isStop, socketVars, queue, worker, clients,
                       refused, proc>>
        /\ worker.pc \notin {"close", "clear"}
    BY <1>2 DEF PushBack, Changes, Changing, Walking
  <2>2. /\ user[u] \in Call /\ held /\ user[u].sock \in Socks
        /\ isStop \in BOOLEAN
    BY <2>1, Before, Caller
  <2>3. c \in Call /\ c.pc = "push" /\ c.sock = user[u].sock
    BY <2>2 DEF Call
  <2>4. user[u].sock # None  BY <2>2, TcpServerAssumption
  <2>5. isStop' \in BOOLEAN /\ bound' \in BOOLEAN  BY <2>1, <2>2
  <2> HIDE DEF c
  <2> QED  BY <2>1, <2>2, <2>3, <2>4, <2>5, UserMoves
<1> QED  BY <1>1, <1>2

\* A step that ends with Settle() of descriptors and owners that agree.
LEMMA Settling ==
  ASSUME IInv, NEW q \in Seq(Socks), NEW f \in Numbers, NEW o \in Kernel,
         \A i, j \in DOMAIN q : q[i] = q[j] => i = j,
         Settle(q, f, o), Owns(f, o, refused'), NoneListens(f, o, Clients'),
         user' \in [Users -> Call], queue' \in Seq(Task), worker' \in Worker,
         clients' \in Seq(Client), refused' \subseteq Fds,
         held' \in BOOLEAN, bound' \in BOOLEAN, isStop' = isStop, proc' = proc,
         Callers', Private(user', Elements(q)), Captured',
         \/ bound' \/ Coming'
         \/ ~Pushing' /\ \A s \in Elements(q) : f[s] = None
  PROVE  IInv'
<1>1. Clients' \subseteq Socks
  <2>1. Elements(clients') \subseteq Client  BY ElementsTyped
  <2> QED  BY <2>1 DEF Clients, Client
<1>2. /\ fd' \in Numbers /\ open' \in Kernel /\ alive' \in BOOLEAN
      /\ socks' \in Seq(Socks)
      /\ \A i, j \in DOMAIN socks' : socks'[i] = socks'[j] => i = j
      /\ Owned' /\ Kinds' /\ (HoldsServer => alive)'
      /\ \A s \in Socks : fd'[s] \in {f[s], None}
      /\ Elements(socks') \subseteq Elements(q)
  BY <1>1, Settled
<1>3. TypeOK'  BY <1>2 DEF IInv, TypeOK, Numbers, Kernel
<1>4. Private(user', Elements(socks'))  BY <1>2 DEF Private
<1>5. Lives'  BY <1>2 DEF Lives
<1>6. Closes'
  <2>1. Elements(socks') \subseteq Socks  BY <1>2, ElementsTyped
  <2> QED  BY <1>2, <2>1 DEF Closes, Closed
<1> QED  BY <1>2, <1>3, <1>4, <1>5, <1>6 DEF IInv

\* Socket(), bind() and listen(), or an address that failed.
LEMMA BindNextKeeps == ASSUME IInv, NEW u \in Users, BindNext(u) PROVE IInv'
<1>1. /\ user[u].pc = "bind" /\ user[u] \in Call /\ user[u].n \in Nat \ {0}
      /\ held /\ user[u].sock = None
      /\ UNCHANGED <<serverVars, queue, worker, clients, refused, proc>>
  <2>1. /\ user[u].pc = "bind" /\ user[u].n > 0
        /\ UNCHANGED <<serverVars, queue, worker, clients, refused, proc>>
    BY DEF BindNext, AddressLeft
  <2>2. user[u] \in Call /\ held /\ user[u].sock = None  BY <2>1, Caller
  <2>3. user[u].n \in Nat  BY <2>2 DEF Call
  <2> QED  BY <2>1, <2>2, <2>3
<1>0. PICK n1 \in Nat : n1 = user[u].n - 1  BY <1>1
<1>2. CASE /\ Goes(u, [user[u] EXCEPT !.n = @ - 1, !.failed = TRUE])
           /\ UNCHANGED socketVars
  <2> DEFINE c == [user[u] EXCEPT !.n = n1, !.failed = TRUE]
  <2>1. c \in Call /\ c.pc = "bind" /\ c.sock = None /\ Goes(u, c)
    <3>1. c \in Call /\ c.pc = user[u].pc /\ c.sock = user[u].sock
      BY <1>1 DEF Call
    <3> QED  BY <1>0, <1>1, <1>2, <3>1
  <2>2. isStop \in BOOLEAN /\ bound \in BOOLEAN  BY Before
  <2> HIDE DEF c
  <2> QED  BY <1>1, <1>2, <2>1, <2>2, UserMoves
<1>3. ASSUME NEW s \in Socks, NEW n \in Fds, FreeSocket(s), FreeFd(n),
             Goes(u, [user[u] EXCEPT !.pc = "listen", !.n = @ - 1, !.sock = s]),
             Settle(socks, Bound(s, n), Listening(n))
      PROVE  IInv'
  <2> DEFINE c == [user[u] EXCEPT !.pc = "listen", !.n = n1, !.sock = s]
             f == [fd EXCEPT ![s] = n]
             o == [open EXCEPT ![n] = "listen"]
  <2>1. c \in Call /\ c.pc = "listen" /\ c.sock = s /\ Goes(u, c)
    <3>1. c \in Call /\ c.pc = "listen" /\ c.sock = s
      BY <1>1 DEF Call
    <3> QED  BY <1>0, <1>3, <3>1
  <2>2. /\ f \in Numbers /\ o \in Kernel /\ Owns(f, o, refused)
        /\ NoneListens(f, o, Clients)
        /\ s \notin Elements(socks) /\ \A v \in Users : user[v].sock # s
    BY <1>3, NewOwner
  <2>3. \A r \in Elements(socks) : f[r] = fd[r]  BY <2>2, Before DEF Numbers
  <2>4. Settle(socks, f, o)  BY <1>3 DEF Bound, Listening
  <2> HIDE DEF c, f, o
  <2>5. /\ user' \in [Users -> Call] /\ user'[u] = c
        /\ \A v \in Users : v # u => user'[v] = user[v]
    BY <2>1, OneGoes
  <2>6. s # None  BY TcpServerAssumption
  <2>7. Callers'
    BY <1>1, <2>1, <2>5, <2>6, Before DEF Callers
  <2>8. Private(user', Elements(socks))
    BY <2>1, <2>2, <2>5, Before DEF Private
  <2>9. Captured'  BY <1>1, Before DEF Captured
  <2>10. Coming => Coming'  BY <1>1, <2>5 DEF Coming
  <2>11. Pushing' => Pushing  BY <2>1, <2>5 DEF Pushing
  <2>12. \/ bound' \/ Coming'
         \/ ~Pushing' /\ \A r \in Elements(socks) : f[r] = None
    BY <1>1, <2>3, <2>10, <2>11, Before DEF Closes, Closed
  <2>13. /\ socks \in Seq(Socks)
         /\ \A i, j \in DOMAIN socks : socks[i] = socks[j] => i = j
         /\ queue' \in Seq(Task) /\ worker' \in Worker
         /\ clients' \in Seq(Client) /\ refused' \subseteq Fds
         /\ held' \in BOOLEAN /\ bound' \in BOOLEAN
         /\ isStop' = isStop /\ proc' = proc
         /\ Owns(f, o, refused') /\ NoneListens(f, o, Clients')
    BY <1>1, <2>2, Before DEF Clients
  <2> QED
    BY <2>2, <2>4, <2>5, <2>7, <2>8, <2>9, <2>12, <2>13, Settling
<1> QED  BY <1>1, <1>2, <1>3 DEF BindNext

\* The new listener is appended; if nothing says bound, a stop() is coming.
LEMMA PushEndKeeps == ASSUME IInv, NEW u \in Users, PushEnd(u) PROVE IInv'
<1> DEFINE s == user[u].sock
           c == [user[u] EXCEPT !.pc = "bind", !.sock = None]
           q == Append(socks, s)
<1>1. /\ user[u].pc = "push" /\ Goes(u, c) /\ Settle(q, fd, open)
      /\ UNCHANGED <<serverVars, queue, worker, clients, refused, proc>>
  BY DEF PushEnd
<1>2. /\ user[u] \in Call /\ held /\ s \in Socks /\ s # None
  BY <1>1, Caller, TcpServerAssumption
<1>3. c \in Call /\ c.pc = "bind" /\ c.sock = None
  BY <1>2 DEF Call
<1>4. /\ s \notin Elements(socks)
      /\ \A v \in Users : v # u => user[v].sock # s
  BY <1>2, Before DEF Private
<1>5. /\ q \in Seq(Socks) /\ \A i, j \in DOMAIN q : q[i] = q[j] => i = j
  <2>1. \A i \in DOMAIN socks : socks[i] # s  BY <1>4 DEF Elements
  <2>2. socks \in Seq(Socks)
        /\ \A i, j \in DOMAIN socks : socks[i] = socks[j] => i = j
    BY Before
  <2> QED  BY <1>2, <2>1, <2>2
<1>6. Elements(q) = Elements(socks) \cup {s}
  BY <1>2, Before, ElementsOfAppend
<1> HIDE DEF c, q
<1>7. /\ user' \in [Users -> Call] /\ user'[u] = c
      /\ \A v \in Users : v # u => user'[v] = user[v]
  BY <1>1, <1>3, OneGoes
<1>8. Callers'  BY <1>1, <1>3, <1>7, Before DEF Callers
<1>9. Private(user', Elements(q))
  BY <1>3, <1>4, <1>6, <1>7, Before DEF Private
<1>10. Captured'  BY <1>1, Before DEF Captured
<1>11. bound' \/ Coming'
  <2>1. bound \/ Coming  BY <1>1, Before DEF Closes, Closed, Pushing
  <2>2. Coming => Coming'  BY <1>1, <1>7 DEF Coming
  <2> QED  BY <1>1, <2>1, <2>2
<1>12. /\ fd \in Numbers /\ open \in Kernel
       /\ queue' \in Seq(Task) /\ worker' \in Worker
       /\ clients' \in Seq(Client) /\ refused' \subseteq Fds
       /\ held' \in BOOLEAN /\ bound' \in BOOLEAN
       /\ isStop' = isStop /\ proc' = proc
       /\ Owns(fd, open, refused') /\ NoneListens(fd, open, Clients')
  BY <1>1, Before DEF Clients
<1> QED
  BY <1>1, <1>5, <1>7, <1>8, <1>9, <1>10, <1>11, <1>12, Settling

\* Nobody is given a Socket, and m_socks stays or is emptied.
LEMMA Standing ==
  ASSUME IInv, UNCHANGED <<held, isStop, bound, refused, proc>>,
         NEW q \in {socks, <<>>}, NEW S \in SUBSET Socks,
         Settle(q, Forget(fd, S), CloseAll(open, fd, S)),
         user' \in [Users -> Call], queue' \in Seq(Task), worker' \in Worker,
         clients' \in Seq(Client), Clients' \subseteq Clients,
         \A u \in Users : user'[u].sock = user[u].sock,
         Callers', Captured', Pushing' => Pushing,
         Coming => Coming' \/ (q = <<>> /\ ~Pushing')
  PROVE  IInv'
<1> DEFINE f == Forget(fd, S)
           o == CloseAll(open, fd, S)
<1>1. /\ f \in Numbers /\ o \in Kernel
      /\ Owns(f, o, refused) /\ NoneListens(f, o, Clients)
      /\ \A s \in Socks : f[s] \in {fd[s], None}
  BY Before, Closing
<1>2. Settle(q, f, o)  OBVIOUS
<1> HIDE DEF f, o
<1>3. /\ q \in Seq(Socks) /\ \A i, j \in DOMAIN q : q[i] = q[j] => i = j
      /\ Elements(q) \subseteq Elements(socks)
      /\ q = <<>> => Elements(q) = {}
  <2>1. CASE q = socks  BY <2>1, Before DEF Elements
  <2>2. CASE q = <<>>  BY <2>2 DEF Elements
  <2> QED  BY <2>1, <2>2
<1>4. Owns(f, o, refused') /\ NoneListens(f, o, Clients')
  BY <1>1 DEF NoneListens
<1>5. \/ bound' \/ Coming'
      \/ ~Pushing' /\ \A s \in Elements(q) : f[s] = None
  BY <1>1, <1>3, Before DEF Closes, Closed
<1>6. refused' \subseteq Fds /\ held' \in BOOLEAN /\ bound' \in BOOLEAN
  BY Before
<1>7. Private(user', Elements(q))  BY <1>3, Before DEF Private
<1> QED
  BY <1>1, <1>2, <1>3, <1>4, <1>5, <1>6, <1>7, Settling

\* Nothing is closed before Settle().
LEMMA ForgetNobody ==
  ASSUME IInv PROVE Forget(fd, {}) = fd /\ CloseAll(open, fd, {}) = open
BY Before DEF Forget, CloseAll, Numbers, Kernel

LEMMA BindReturnsKeeps ==
  ASSUME IInv, NEW u \in Users, BindReturns(u) PROVE IInv'
<1> DEFINE q == IF user[u].pc = "clear" THEN <<>> ELSE socks
<1>1. /\ user[u].pc \in {"clear", "list"} /\ Goes(u, NoCall)
      /\ Settle(q, fd, open)
      /\ UNCHANGED <<serverVars, queue, worker, clients, refused, proc>>
  BY DEF BindReturns
<1>2. q \in {socks, <<>>}  OBVIOUS
<1> HIDE DEF q
<1>3. NoCall \in Call /\ NoCall.pc = "user" /\ NoCall.sock = None
  BY DEF NoCall, Call
<1>4. /\ user' \in [Users -> Call] /\ user'[u] = NoCall
      /\ \A v \in Users : v # u => user'[v] = user[v]
  BY <1>1, <1>3, OneGoes
<1>5. \A v \in Users : user'[v].sock = user[v].sock
  BY <1>1, <1>3, <1>4, Caller
<1>6. Coming => Coming'  BY <1>1, <1>4 DEF Coming
<1>7. Pushing' => Pushing  BY <1>3, <1>4 DEF Pushing
<1>8. Callers'  BY <1>1, <1>3, <1>4, Before DEF Callers
<1>9. Captured' /\ Clients' \subseteq Clients
  BY <1>1, Before DEF Captured, Clients
<1>10. {} \in SUBSET Socks  OBVIOUS
<1>11. /\ queue' \in Seq(Task) /\ worker' \in Worker /\ clients' \in Seq(Client)
       /\ UNCHANGED <<held, isStop, bound, refused, proc>>
  BY <1>1, Before
<1>12. Settle(q, Forget(fd, {}), CloseAll(open, fd, {}))
  BY <1>1, ForgetNobody
<1> QED
  BY <1>2, <1>4, <1>5, <1>6, <1>7, <1>8, <1>9, <1>10, <1>11, <1>12, Standing

\* Letting go of the server: nobody is in a call, and its sockets may go too.
LEMMA DropKeeps == ASSUME IInv, Drop PROVE IInv'
<1>1. /\ held' = FALSE /\ \A u \in Users : user[u].pc = "user"
      /\ UNCHANGED <<isStop, bound, taskVars, refused, proc>>
      /\ Settle(socks, fd, open)
  BY DEF Drop
<1>2. held' \in BOOLEAN  BY <1>1
<1>3. Coming' = Coming /\ Clients' = Clients /\ Pushing' = Pushing
  BY <1>1 DEF Coming, Clients, Pushing
<1>4. Callers' /\ Captured'
  BY <1>1, Before DEF Callers, Captured
<1>5. /\ user' \in [Users -> Call] /\ queue' \in Seq(Task)
      /\ worker' \in Worker /\ clients' \in Seq(Client)
      /\ refused' \subseteq Fds /\ bound' \in BOOLEAN
      /\ isStop' = isStop /\ proc' = proc
      /\ Owns(fd, open, refused') /\ NoneListens(fd, open, Clients')
      /\ Private(user', Elements(socks))
  BY <1>1, <1>3, Before
<1>6. \/ bound' \/ Coming'
      \/ ~Pushing' /\ \A s \in Elements(socks) : fd[s] = None
  BY <1>1, <1>3, Before DEF Closes, Closed
<1>7. /\ socks \in Seq(Socks) /\ fd \in Numbers /\ open \in Kernel
      /\ \A i, j \in DOMAIN socks : socks[i] = socks[j] => i = j
  BY Before
<1> QED  BY <1>1, <1>2, <1>4, <1>5, <1>6, <1>7, Settling

(***************************************************************************)
(* Workers                                                                 *)
(***************************************************************************)
\* A task is taken out of the queue with what it captured; stop()'s begins
\* while nobody changes m_socks.
LEMMA TakeKeeps == ASSUME IInv, Take PROVE IInv'
<1> DEFINE h == Head(queue)
           pc == IF h.do = "accept" THEN "check" ELSE "close"
           w == [pc |-> pc, sock |-> h.sock, i |-> 1, self |-> h.self]
<1>1. CASE Race  BY <1>1, Races
<1>2. CASE ~Race
  <2>1. /\ worker = Idle /\ queue # <<>> /\ queue' = Tail(queue) /\ worker' = w
        /\ UNCHANGED <<serverVars, socketVars, user, clients, refused, proc>>
        /\ h.do = "accept" \/ ~Changing
    BY <1>2 DEF Take, Takes, Walks
  <2>2. /\ Elements(queue) = {h} \cup Elements(queue')
        /\ queue' \in Seq(Task) /\ h \in Task
    BY <2>1, Before, ElementsOfTail
  <2>3. /\ worker' \in Worker /\ worker'.sock = h.sock /\ worker'.self
        /\ worker'.pc = pc
    <3>1. h.self  BY <2>2, Before DEF Captured
    <3> QED  BY <2>1, <2>2, <3>1 DEF Worker, Task
  <2> HIDE DEF w
  <2>4. TypeOK'  BY <2>1, <2>2, <2>3 DEF IInv, TypeOK
  <2>5. Owned' /\ Kinds'
    <3>1. Clients' = Clients  BY <2>1 DEF Clients
    <3>2. SocketsOfTasks \subseteq SocketsOfTasks' \cup {None}
      BY <2>1, <2>2, <2>3 DEF SocketsOfTasks, Idle
    <3> QED  BY <2>1, <3>1, <3>2, Quiet
  <2>6. Callers' /\ Private(user, Elements(socks))'
    <3>1. worker'.pc \in {"close", "clear"} => ~Pushing
      BY <2>1, <2>3 DEF Changing, InCall, Pushing
    <3> QED  BY <2>1, <3>1, Before DEF Callers, Private, Pushing
  <2>7. Captured' /\ Lives'
    <3>1. Captured'  BY <2>1, <2>2, <2>3, Before DEF Captured
    <3>2. h.self /\ h \in Elements(queue)  BY <2>2, Before DEF Captured
    <3>3. alive  BY <3>2, Before DEF Lives, HoldsServer
    <3> QED  BY <2>1, <3>1, <3>3 DEF Lives
  <2>8. Coming => Coming'
    <3>1. CASE \E u \in Users : user[u].pc = "stop"  BY <2>1, <3>1 DEF Coming
    <3>2. ASSUME NEW i \in DOMAIN queue, queue[i].do = "close" PROVE Coming'
      <4>1. queue[i] \in Elements(queue)  BY DEF Elements
      <4>2. CASE queue[i] = h  BY <2>3, <3>2, <4>2 DEF Coming
      <4>3. CASE queue[i] \in Elements(queue')
        BY <3>2, <4>3 DEF Coming, Elements
      <4> QED  BY <2>2, <4>1, <4>2, <4>3
    <3> QED  BY <2>1, <3>1, <3>2 DEF Coming, Idle
  <2>9. Closes'
    BY <2>1, <2>8, Before DEF Closes, Closed, Pushing
  <2> QED  BY <2>4, <2>5, <2>6, <2>7, <2>9 DEF IInv
<1> QED  BY <1>1, <1>2

\* A step of a worker that no user sees.
LEMMA WorkerStands ==
  ASSUME IInv, UNCHANGED <<serverVars, user, queue, refused, proc>>,
         NEW q \in {socks, <<>>}, NEW S \in SUBSET Socks,
         Settle(q, Forget(fd, S), CloseAll(open, fd, S)),
         worker' \in Worker, worker' # Idle => worker'.self,
         worker'.pc \in {"close", "clear"} => worker.pc \in {"close", "clear"},
         clients' \in Seq(Client), Elements(clients') \subseteq Elements(clients),
         Coming => Coming' \/ (q = <<>> /\ ~Pushing)
  PROVE  IInv'
<1>1. Callers'  BY Before DEF Callers
<1>2. Captured'  BY Before DEF Captured
<1>3. Clients' \subseteq Clients  BY DEF Clients
<1>4. Pushing' = Pushing  BY DEF Pushing
<1>5. /\ user' \in [Users -> Call] /\ queue' \in Seq(Task)
      /\ \A u \in Users : user'[u].sock = user[u].sock
      /\ UNCHANGED <<held, isStop, bound, refused, proc>>
  BY Before
<1> QED  BY <1>1, <1>2, <1>3, <1>4, <1>5, Standing

LEMMA CheckKeeps == ASSUME IInv, Check PROVE IInv'
<1>1. /\ worker.pc = "check" /\ Settle(socks, fd, open)
      /\ worker' = IF isStop THEN Idle ELSE [worker EXCEPT !.pc = "accept"]
      /\ UNCHANGED <<serverVars, user, queue, clients, refused, proc>>
  BY DEF Check
<1>2. worker # Idle /\ worker.self  BY <1>1, Before DEF Idle, Captured
<1>3. /\ worker' \in Worker /\ worker'.pc \in {"idle", "accept"}
      /\ worker' # Idle => worker'.self
  BY <1>1, <1>2, Before DEF Worker, Idle
<1>4. Coming => Coming'  BY <1>1 DEF Coming
<1>5. Settle(socks, Forget(fd, {}), CloseAll(open, fd, {}))
  BY <1>1, ForgetNobody
<1>6. clients' \in Seq(Client) /\ Elements(clients') \subseteq Elements(clients)
  BY <1>1, Before
<1>7. {} \in SUBSET Socks /\ socks \in {socks, <<>>}  OBVIOUS
<1> QED  BY <1>1, <1>3, <1>4, <1>5, <1>6, <1>7, WorkerStands

\* A descriptor that init() refused has no owner and stays open.
LEMMA Refuses ==
  ASSUME IInv, NEW n \in Fds, FreeFd(n)
  PROVE  LET o == [open EXCEPT ![n] = "client"] IN
         /\ o \in Kernel /\ Owns(fd, o, refused \cup {n})
         /\ NoneListens(fd, o, Clients)
<1> DEFINE o == [open EXCEPT ![n] = "client"]
<1>1. fd \in Numbers /\ open \in Kernel /\ open[n] = "free"
      /\ Clients \subseteq Socks /\ refused \subseteq Fds
  BY Before DEF FreeFd
<1>2. /\ o \in Kernel /\ o[n] = "client"
      /\ \A m \in Fds \ {n} : o[m] = open[m]
  BY <1>1 DEF Kernel
<1> HIDE DEF o
<1>3. \A s \in Socks : fd[s] # None => fd[s] \in Fds \ {n}
  BY <1>1, Before DEF Numbers, Owns
<1>4. Owns(fd, o, refused \cup {n})
  <2>1. ASSUME NEW s \in Socks, fd[s] # None
        PROVE  o[fd[s]] # "free" /\ fd[s] \notin refused \cup {n}
    BY <1>2, <1>3, <2>1, Before DEF Owns
  <2>2. \A s, r \in Socks : fd[s] # None /\ fd[s] = fd[r] => s = r
    BY Before DEF Owns
  <2>3. ASSUME NEW m \in Fds, o[m] # "free", m \notin refused \cup {n}
        PROVE  \E s \in Socks : fd[s] = m
    BY <1>2, <2>3, Before DEF Owns
  <2>4. ASSUME NEW m \in refused \cup {n} PROVE o[m] = "client"
    <3>1. CASE m = n  BY <1>2, <3>1
    <3>2. CASE m # n  BY <1>1, <1>2, <2>4, <3>2, Before DEF Owns
    <3> QED  BY <3>1, <3>2
  <2> QED  BY <2>1, <2>2, <2>3, <2>4 DEF Owns
<1>5. NoneListens(fd, o, Clients)
  BY <1>1, <1>2, <1>3, Before DEF NoneListens
<1> QED  BY <1>2, <1>4, <1>5 DEF o

LEMMA AcceptKeeps == ASSUME IInv, Accept PROVE IInv'
<1>1. /\ worker.pc = "accept" /\ worker' = [worker EXCEPT !.pc = "check"]
      /\ UNCHANGED <<serverVars, user, queue, proc>>
  BY DEF Accept
<1>2. /\ worker' \in Worker /\ worker'.sock = worker.sock
      /\ worker'.self /\ worker.self /\ worker'.pc = "check"
  BY <1>1, Before DEF Worker, Idle, Captured
<1>3. /\ Coming' = Coming /\ Pushing' = Pushing
      /\ Callers' /\ Private(user', Elements(socks))
  BY <1>1, <1>2, Before DEF Coming, Pushing, Callers
<1>4. CASE UNCHANGED <<socketVars, clients, refused>>
  <2>1. TypeOK'  BY <1>1, <1>2, <1>4 DEF IInv, TypeOK
  <2>2. Owned' /\ Kinds'
    BY <1>1, <1>2, <1>4, Quiet DEF SocketsOfTasks, Clients
  <2>3. Captured' /\ Lives'
    BY <1>1, <1>2, <1>4, Before DEF Captured, Lives, HoldsServer
  <2>4. Closes'
    BY <1>1, <1>3, <1>4, Before DEF Closes, Closed
  <2> QED  BY <1>3, <1>4, <2>1, <2>2, <2>3, <2>4 DEF IInv
<1>5. ASSUME NEW n \in Fds, FreeFd(n), open' = [open EXCEPT ![n] = "client"],
             refused' = refused \cup {n}, UNCHANGED <<alive, socks, fd, clients>>
      PROVE  IInv'
  <2>1. /\ open' \in Kernel /\ Owns(fd, open', refused')
        /\ NoneListens(fd, open', Clients)
    BY <1>5, Refuses
  <2>2. TypeOK'  BY <1>1, <1>2, <1>5, <2>1 DEF IInv, TypeOK, Kernel
  <2>3. Owned'
    <3>1. Used' = Used
      BY <1>1, <1>2, <1>5 DEF Used, SocketsOfTasks
    <3> QED  BY <1>5, <2>1, <3>1 DEF IInv, Owned
  <2>4. Kinds'  BY <1>5, <2>1 DEF Kinds, Clients
  <2>5. Captured' /\ Lives'
    BY <1>1, <1>2, <1>5, Before DEF Captured, Lives, HoldsServer
  <2>6. Closes'
    BY <1>1, <1>3, <1>5, Before DEF Closes, Closed
  <2> QED  BY <1>3, <1>5, <2>2, <2>3, <2>4, <2>5, <2>6 DEF IInv
<1>6. ASSUME UNCHANGED refused, NEW s \in Socks, NEW n \in Fds,
             FreeSocket(s), FreeFd(n), ScheduleClient(s),
             Settle(socks, [fd EXCEPT ![s] = n], [open EXCEPT ![n] = "client"])
      PROVE  IInv'
  <2> DEFINE f == [fd EXCEPT ![s] = n]
             o == [open EXCEPT ![n] = "client"]
             c == [sock |-> s, self |-> TRUE, running |-> FALSE]
  <2>1. /\ f \in Numbers /\ o \in Kernel /\ Owns(f, o, refused)
        /\ NoneListens(f, o, Clients \cup {s}) /\ s \notin Elements(socks)
    BY <1>6, NewOwner
  <2>2. \A r \in Elements(socks) : f[r] = fd[r]  BY <2>1, Before DEF Numbers
  <2>3. /\ c \in Client /\ c.sock = s /\ c.self
        /\ clients' = Append(clients, c) /\ Settle(socks, f, o)
    BY <1>6 DEF ScheduleClient, Client
  <2> HIDE DEF f, o, c
  <2>4. /\ clients' \in Seq(Client)
        /\ Elements(clients') = Elements(clients) \cup {c}
    BY <2>3, Before, ElementsOfAppend
  <2>5. Clients' = Clients \cup {s}  BY <2>3, <2>4 DEF Clients
  <2>6. /\ user' \in [Users -> Call] /\ queue' \in Seq(Task)
        /\ refused' \subseteq Fds /\ held' \in BOOLEAN /\ bound' \in BOOLEAN
        /\ isStop' = isStop /\ proc' = proc
    BY <1>1, <1>6, Before
  <2>7. \/ bound' \/ Coming'
        \/ ~Pushing' /\ \A r \in Elements(socks) : f[r] = None
    BY <1>1, <1>3, <2>2, Before DEF Closes, Closed
  <2>8. Owns(f, o, refused') /\ NoneListens(f, o, Clients')
    BY <1>6, <2>1, <2>5
  <2>9. socks \in Seq(Socks)
        /\ \A i, j \in DOMAIN socks : socks[i] = socks[j] => i = j
    BY Before
  <2>10. Captured'
    BY <1>1, <1>2, <2>3, <2>4, Before DEF Captured
  <2> QED
    BY <1>2, <1>3, <2>1, <2>3, <2>4, <2>6, <2>7, <2>8, <2>9, <2>10, Settling
<1> QED  BY <1>4, <1>5, <1>6 DEF Accept

\* Closing the sockets one by one, and forgetting them.
LEMMA CloseKeeps == ASSUME IInv, Close PROVE IInv'
<1>1. /\ worker.pc = "close" /\ worker.i <= Len(socks)
      /\ worker' = [worker EXCEPT !.i = @ + 1]
      /\ UNCHANGED <<serverVars, user, queue, clients, refused, proc>>
      /\ Settle(socks, Forget(fd, {socks[worker.i]}),
                       CloseAll(open, fd, {socks[worker.i]}))
  BY DEF Close
<1>2. worker' \in Worker /\ worker'.pc = "close" /\ worker.i \in Nat \ {0}
      /\ worker'.self
  <2>1. /\ worker.i \in Nat \ {0} /\ worker.sock \in Socks \cup {None}
        /\ worker.self
    BY <1>1, Before DEF Worker, Captured, Idle
  <2>2. worker' = [pc |-> "close", sock |-> worker.sock, i |-> worker.i + 1,
                   self |-> worker.self]
    BY <1>1, Before DEF Worker
  <2> QED  BY <2>1, <2>2 DEF Worker
<1>3. socks[worker.i] \in Socks  BY <1>1, <1>2, Before
<1>4. Coming => Coming'  BY <1>2 DEF Coming
<1>5. clients' \in Seq(Client) /\ Elements(clients') \subseteq Elements(clients)
  BY <1>1, Before
<1>6. {socks[worker.i]} \in SUBSET Socks /\ socks \in {socks, <<>>}
  BY <1>3
<1> QED  BY <1>1, <1>2, <1>4, <1>5, <1>6, WorkerStands

LEMMA CloseEndKeeps == ASSUME IInv, CloseEnd PROVE IInv'
<1>1. CASE Race  BY <1>1, Races
<1>2. CASE ~Race
  <2>1. /\ worker.pc = "close" /\ worker' = [worker EXCEPT !.pc = "clear"]
        /\ UNCHANGED <<serverVars, socketVars, user, queue, clients, refused,
                       proc>>
    BY <1>2 DEF CloseEnd
  <2>2. /\ worker' \in Worker /\ worker'.pc = "clear" /\ worker'.self
        /\ worker'.sock = worker.sock /\ worker.self
    BY <2>1, Before DEF Worker, Captured, Idle
  <2>3. TypeOK'  BY <2>1, <2>2 DEF IInv, TypeOK
  <2>4. Owned' /\ Kinds'
    BY <2>1, <2>2, Quiet DEF SocketsOfTasks, Clients
  <2>5. Callers' /\ Private(user, Elements(socks))'
    BY <2>1, Before DEF Callers, Private
  <2>6. Captured' /\ Lives'
    BY <2>1, <2>2, Before DEF Captured, Lives, HoldsServer
  <2>7. Closes'  BY <2>2 DEF Closes, Coming
  <2> QED  BY <2>3, <2>4, <2>5, <2>6, <2>7 DEF IInv
<1> QED  BY <1>1, <1>2

\* m_socks is empty, and nobody was appending.
LEMMA ClearEndKeeps == ASSUME IInv, ClearEnd PROVE IInv'
<1>1. /\ worker.pc = "clear" /\ worker' = Idle /\ Settle(<<>>, fd, open)
      /\ UNCHANGED <<serverVars, user, queue, clients, refused, proc>>
  BY DEF ClearEnd
<1>2. worker' \in Worker /\ worker'.pc = "idle"  BY <1>1 DEF Worker, Idle
<1>3. Settle(<<>>, Forget(fd, {}), CloseAll(open, fd, {}))
  BY <1>1, ForgetNobody
<1>4. ~Pushing  BY <1>1, Before DEF Pushing, Callers
<1>5. clients' \in Seq(Client) /\ Elements(clients') \subseteq Elements(clients)
  BY <1>1, Before
<1>6. {} \in SUBSET Socks /\ <<>> \in {socks, <<>>}  OBVIOUS
<1> QED  BY <1>1, <1>2, <1>3, <1>4, <1>5, <1>6, WorkerStands

\* A client's task begins, closes its socket, and ends with it.
LEMMA HandleClientKeeps == ASSUME IInv, HandleClient PROVE IInv'
<1>1. /\ clients # <<>> /\ clients' = [clients EXCEPT ![1].running = TRUE]
      /\ UNCHANGED <<serverVars, socketVars, user, queue, worker, refused, proc>>
  BY DEF HandleClient
<1>2. /\ 1 \in DOMAIN clients /\ clients[1] \in Client
      /\ \A i \in DOMAIN clients : clients[i] \in Client
  BY <1>1, Before
<1>3. /\ clients' \in Seq(Client) /\ DOMAIN clients' = DOMAIN clients
      /\ \A i \in DOMAIN clients : /\ clients'[i].sock = clients[i].sock
                                   /\ clients'[i].self = clients[i].self
  <2> DEFINE c == [clients[1] EXCEPT !.running = TRUE]
  <2>1. c \in Client /\ c.sock = clients[1].sock /\ c.self = clients[1].self
    BY <1>2 DEF Client
  <2>2. clients' = [clients EXCEPT ![1] = c]  BY <1>1
  <2> HIDE DEF c
  <2> QED  BY <1>2, <2>1, <2>2, Before
<1>4. TypeOK'  BY <1>1, <1>3 DEF IInv, TypeOK
<1>5. Clients' = Clients  BY <1>3 DEF Clients, Elements
<1>6. Owned' /\ Kinds'
  <2>1. SocketsOfTasks \subseteq SocketsOfTasks'
    BY <1>1, <1>5 DEF SocketsOfTasks, Clients
  <2> QED  BY <1>1, <1>5, <2>1, Quiet
<1>7. Captured'
  <2>1. \A t \in Elements(clients') : t.self
    BY <1>3, Before DEF Captured, Elements
  <2> QED  BY <1>1, <2>1, Before DEF Captured
<1>8. Lives'
  <2>1. alive
    BY <1>2, Before DEF Lives, HoldsServer, Captured, Elements
  <2> QED  BY <1>1, <2>1 DEF Lives
<1>9. Callers' /\ Private(user, Elements(socks))' /\ Closes'
  BY <1>1, Before DEF Callers, Private, Closes, Closed, Coming, Pushing
<1> QED  BY <1>4, <1>6, <1>7, <1>8, <1>9 DEF IInv

LEMMA ClientKeeps == ASSUME IInv, CloseClient \/ ClientEnd PROVE IInv'
<1>1. UNCHANGED <<serverVars, user, queue, worker, refused, proc>>
      /\ clients # <<>>
  BY DEF CloseClient, ClientEnd
<1>2. /\ Coming => Coming'
      /\ worker' \in Worker
      /\ worker' # Idle => worker'.self
  BY <1>1, Before DEF Coming, Captured
<1>3. /\ Elements(clients) = {Head(clients)} \cup Elements(Tail(clients))
      /\ Tail(clients) \in Seq(Client) /\ Head(clients) \in Client
  BY <1>1, Before, ElementsOfTail
<1>4. socks \in {socks, <<>>}  OBVIOUS
<1>5. CASE CloseClient
  <2> DEFINE s == Head(clients).sock
  <2>1. Settle(socks, Forget(fd, {s}), CloseAll(open, fd, {s}))
        /\ UNCHANGED clients
    BY <1>5 DEF CloseClient
  <2>2. {s} \in SUBSET Socks  BY <1>3 DEF Client
  <2>3. /\ clients' \in Seq(Client)
        /\ Elements(clients') \subseteq Elements(clients)
    BY <2>1, Before
  <2> QED  BY <1>1, <1>2, <1>4, <2>1, <2>2, <2>3, WorkerStands
<1>6. CASE ClientEnd
  <2>1. clients' = Tail(clients) /\ Settle(socks, fd, open)
    BY <1>6 DEF ClientEnd
  <2>2. /\ clients' \in Seq(Client)
        /\ Elements(clients') \subseteq Elements(clients)
    BY <1>3, <2>1
  <2>3. Settle(socks, Forget(fd, {}), CloseAll(open, fd, {}))
    BY <2>1, ForgetNobody
  <2>4. {} \in SUBSET Socks  OBVIOUS
  <2> QED  BY <1>1, <1>2, <1>4, <2>2, <2>3, <2>4, WorkerStands
<1> QED  BY <1>5, <1>6

(***************************************************************************)
(* The invariant and what follows                                          *)
(***************************************************************************)
LEMMA IInvInit == Init => IInv
<1> SUFFICES ASSUME Init PROVE IInv  OBVIOUS
<1>1. TypeOK
  <2>1. NoCall \in Call /\ Idle \in Worker  BY DEF NoCall, Call, Idle, Worker
  <2>2. user \in [Users -> Call] /\ worker \in Worker  BY <2>1 DEF Init
  <2>3. /\ socks = <<>> /\ queue = <<>> /\ clients = <<>> /\ refused = {}
        /\ fd \in [Socks -> Fds \cup {None}]
        /\ open \in [Fds -> {"free", "listen", "client"}]
    BY DEF Init
  <2>4. /\ held \in BOOLEAN /\ alive \in BOOLEAN /\ isStop \in BOOLEAN
        /\ bound \in BOOLEAN
    BY DEF Init
  <2>5. /\ socks \in Seq(Socks) /\ queue \in Seq(Task) /\ clients \in Seq(Client)
        /\ \A i, j \in DOMAIN socks : socks[i] = socks[j] => i = j
    BY <2>3
  <2>6. refused \subseteq Fds /\ proc \in {"up", "ub"}  BY <2>3 DEF Init
  <2> QED  BY <2>2, <2>3, <2>4, <2>5, <2>6 DEF TypeOK
<1>2. \A n \in Fds : open[n] = "free"  BY DEF Init
<1>3. Owned /\ Kinds
  BY <1>2 DEF Init, Owned, Owns, Kinds, NoneListens, Clients, Elements
<1>4. Callers /\ Private(user, Elements(socks))
  BY DEF Init, Callers, Private, NoCall
<1>5. Captured /\ Lives  BY DEF Init, Captured, Lives, Elements
<1>6. Closes
  BY DEF Init, Closes, Closed, Pushing, NoCall, Elements
<1> QED  BY <1>1, <1>3, <1>4, <1>5, <1>6 DEF IInv

LEMMA IInvNext == IInv /\ [Next]_vars => IInv'
<1> SUFFICES ASSUME IInv, [Next]_vars PROVE IInv'  OBVIOUS
<1>1. ASSUME NEW u \in Users,
             \/ Bind(u) \/ BindNext(u) \/ PushBack(u) \/ PushEnd(u)
             \/ BindEnd(u) \/ BindReturns(u)
             \/ Start(u) \/ StartSet(u) \/ StartNext(u)
             \/ Stop(u) \/ StopEnd(u)
      PROVE  IInv'
  BY <1>1, QuietUsers, BindNextKeeps, PushBackKeeps, PushEndKeeps,
     BindReturnsKeeps, StartNextKeeps, StopEndKeeps
<1>2. CASE Drop \/ Take \/ Check \/ Accept \/ Close \/ CloseEnd \/ ClearEnd
  BY <1>2, DropKeeps, TakeKeeps, CheckKeeps, AcceptKeeps, CloseKeeps,
     CloseEndKeeps, ClearEndKeeps
<1>3. CASE HandleClient \/ CloseClient \/ ClientEnd
  BY <1>3, HandleClientKeeps, ClientKeeps
<1>4. CASE UNCHANGED vars
  <2>1. TypeOK'  BY <1>4 DEF vars, IInv, TypeOK
  <2>2. Owned' /\ Kinds'
    BY <1>4, Quiet DEF vars, IInv, SocketsOfTasks, Clients
  <2>3. Callers' /\ Private(user, Elements(socks))' /\ Captured' /\ Lives'
    BY <1>4, Before
    DEF vars, Callers, Private, Captured, Lives, HoldsServer
  <2>4. Closes'
    BY <1>4, Before DEF vars, Closes, Closed, Coming, Pushing
  <2> QED  BY <2>1, <2>2, <2>3, <2>4 DEF IInv
<1> QED  BY <1>1, <1>2, <1>3, <1>4 DEF Next, Ended

LEMMA IInvAlways == Spec => []IInv
<1>1. Init => IInv  BY IInvInit
<1>2. IInv /\ [Next]_vars => IInv'  BY IInvNext
<1> QED  BY <1>1, <1>2, PTL DEF Spec

\* The members of TcpServer and of its workers keep their types; no socket is in
\* m_socks twice.
THEOREM TypeCorrect == Spec => []TypeOK
<1>1. IInv => TypeOK  BY DEF IInv
<1> QED  BY <1>1, IInvAlways, PTL

\* A descriptor in use has one Socket, unless init() refused it, and is never
\* closed by another that had its number before (socket.cc:255-268, 77).
THEOREM OwnersCorrect == Spec => []OneOwner
<1>1. IInv => OneOwner
  <2> SUFFICES ASSUME IInv PROVE OneOwner  OBVIOUS
  <2>1. ASSUME NEW n \in Fds, open[n] # "free", n \notin refused
        PROVE  \E s \in Socks : \A r \in Socks : fd[r] = n <=> r = s
    <3>1. PICK s \in Socks : fd[s] = n  BY <2>1, Before DEF Owns
    <3>2. \A r \in Socks : fd[r] = n => r = s
      BY <3>1, Before, TcpServerAssumption DEF Owns
    <3> QED  BY <3>1, <3>2
  <2>2. ASSUME NEW n \in Fds, n \in refused PROVE \A s \in Socks : fd[s] # n
    BY <2>2, Before, TcpServerAssumption DEF Owns
  <2> QED  BY <2>1, <2>2, Before DEF Owns, OneOwner
<1> QED  BY <1>1, IInvAlways, PTL

\* Every task that uses the server has captured its shared_ptr, so ~TcpServer()
\* runs when none is left (tcpserver.cc:77, 93, 100-101).
THEOREM ServerOutlives == Spec => []ServerOutlivesTasks
<1>1. IInv => ServerOutlivesTasks
  <2> SUFFICES ASSUME IInv, ~alive
               PROVE  queue = <<>> /\ worker = Idle /\ clients = <<>>
    BY DEF ServerOutlivesTasks
  <2>1. /\ queue \in Seq(Task) /\ clients \in Seq(Client)
        /\ Captured /\ Lives
    BY Before
  <2>2. ~HoldsServer  BY <2>1 DEF Lives
  <2>3. Elements(queue) = {} /\ Elements(clients) = {} /\ worker = Idle
    BY <2>1, <2>2 DEF HoldsServer, Captured
  <2>4. DOMAIN queue = {} /\ DOMAIN clients = {}  BY <2>3 DEF Elements
  <2> QED  BY <2>1, <2>3, <2>4
<1> QED  BY <1>1, IInvAlways, PTL

\* A stopped server does not listen once its accept worker has done what it was
\* asked, unless it was bound since (tcpserver.cc:98-108).
THEOREM StopCloses == Spec => []StoppedIsDeaf
<1>1. IInv => StoppedIsDeaf
  <2> SUFFICES ASSUME IInv, ~bound, queue = <<>>, worker = Idle,
                      \A u \in Users : user[u].pc = "user",
                      NEW n \in Fds, open[n] = "listen"
               PROVE  FALSE
    BY DEF StoppedIsDeaf
  <2>1. ~Coming  BY DEF Coming, Idle
  <2>2. n \notin refused  BY Before DEF Owns
  <2>3. PICK s \in Socks : fd[s] = n  BY <2>2, Before DEF Owns
  <2>4. n # None  BY TcpServerAssumption
  <2>5. s \in Used  BY <2>3, <2>4 DEF IInv, Owned
  <2>6. s \notin Clients  BY <2>3, <2>4, Before DEF NoneListens
  <2>7. s \in Elements(socks)
    <3>1. s \notin {user[u].sock : u \in Users}
      BY Before, TcpServerAssumption DEF Callers
    <3> QED
      BY <2>5, <2>6, <3>1, TcpServerAssumption
      DEF Used, SocketsOfTasks, Clients, Elements, Idle
  <2> QED  BY <2>1, <2>3, <2>4, <2>7, Before DEF Closes, Closed
<1> QED  BY <1>1, IInvAlways, PTL
================================================================================

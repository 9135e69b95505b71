------------------------------- MODULE TcpServer -------------------------------
(***************************************************************************)
(* TcpServer (tcpserver.cc) and the sockets it owns (socket.cc): threads   *)
(* that bind, start and stop it, the worker that accepts, the worker that  *)
(* handles clients.  Nothing of it is locked: two threads inside m_socks   *)
(* at once, one of them changing it, are a data race.                      *)
(*                                                                         *)
(* Each IOManager is one worker that runs its tasks in order; a task runs  *)
(* to its end, since accept() is not hooked and blocks the worker.  What a *)
(* socket's system calls answer is left open, and so is whether FdManager  *)
(* knows an accepted descriptor, without which it is refused (no hook of   *)
(* accept() ever tells it).                                                *)
(***************************************************************************)
EXTENDS Integers, Sequences

CONSTANTS
  Users,     \* threads that use the server
  Socks,     \* Socket objects
  Fds,       \* descriptor numbers
  MaxAddrs,  \* bound on the addresses of a bind()
  MaxTasks,  \* bound on the tasks the accept worker has queued
  None

ASSUME TcpServerAssumption ==
  /\ MaxAddrs \in Nat \ {0} /\ MaxTasks \in Nat
  /\ None \notin Users \cup Socks \cup Fds

VARIABLES
  held,     \* the users still have their shared_ptr
  alive,    \* ~TcpServer() has not run
  isStop,   \* m_isStop
  socks,    \* m_socks
  fd,       \* m_sock of each Socket object
  open,     \* the kernel: what a descriptor number is
  user,     \* each user's call in progress
  queue,    \* tasks of m_acceptWorker
  worker,   \* what it is doing
  clients,  \* tasks of m_ioWorker, the first may be running
  bound,    \* history: something was bound after the last stop()
  refused,  \* history: descriptors Socket::init() refused
  proc      \* "up", or "ub" after a race on m_socks

serverVars == <<held, isStop, bound>>
taskVars == <<user, queue, worker, clients>>
socketVars == <<alive, socks, fd, open>>
vars == <<held, alive, isStop, socks, fd, open, user, queue, worker, clients,
          bound, refused, proc>>

\* A task with what it captured: a Socket, and a shared_ptr to the server
\* (self) or its bare this.
Task == [do: {"accept"}, sock: Socks, self: BOOLEAN]
        \cup [do: {"close"}, sock: {None}, self: BOOLEAN]
Call == [pc: {"user", "bind", "listen", "push", "clear", "list", "set",
              "start", "stop"},
         n: Nat, failed: BOOLEAN, sock: Socks \cup {None}]
NoCall == [pc |-> "user", n |-> 0, failed |-> FALSE, sock |-> None]
Idle == [pc |-> "idle", sock |-> None, i |-> 1, self |-> FALSE]
Worker == [pc: {"idle", "check", "accept", "close", "clear"},
           sock: Socks \cup {None}, i: Nat \ {0}, self: BOOLEAN]
Client == [sock: Socks, self: BOOLEAN, running: BOOLEAN]

Init ==
  /\ held = TRUE /\ alive = TRUE /\ isStop = TRUE
  /\ socks = <<>>
  /\ fd = [s \in Socks |-> None]
  /\ open = [n \in Fds |-> "free"]
  /\ user = [u \in Users |-> NoCall]
  /\ queue = <<>> /\ worker = Idle /\ clients = <<>>
  /\ bound = FALSE /\ refused = {} /\ proc = "up"

(***************************************************************************)
(* Who refers to what                                                      *)
(***************************************************************************)
Elements(q) == {q[i] : i \in DOMAIN q}
SocketsOfTasks == {task.sock : task \in Elements(queue)} \cup {worker.sock}
                  \cup {c.sock : c \in Elements(clients)}
                  \cup {user[u].sock : u \in Users}

\* Somebody has a shared_ptr to the server.
HoldsServer == \/ held \/ worker.self
               \/ \E t \in Elements(queue) \cup Elements(clients) : t.self

\* Socket::close()
KeepsNumber(f, S) == f                                        \* variant
Forget(f, S) == [s \in Socks |-> IF s \in S THEN None ELSE f[s]]
CloseAll(o, f, S) ==
  [n \in Fds |-> IF \E s \in S : f[s] = n THEN "free" ELSE o[n]]

\* A step ends with m_socks, m_sock and the descriptors as given, then lets go
\* of what nobody refers to any more: ~TcpServer() closes its sockets, ~Socket()
\* its descriptor.
Settle(q, f, o) ==
  LET kept == IF HoldsServer' THEN Elements(q) ELSE {}
      gone == Socks \ (kept \cup SocketsOfTasks')
  IN /\ alive' = HoldsServer'
     /\ socks' = IF HoldsServer' THEN q ELSE <<>>
     /\ fd' = Forget(f, gone)
     /\ open' = CloseAll(o, f, gone)

Used == Elements(socks) \cup SocketsOfTasks
FreeSocket(s) == s \in Socks \ Used
FreeFd(n) == open[n] = "free"

\* Who changes m_socks, and who walks over it.
InCall(pcs) == \E u \in Users : user[u].pc \in pcs
Changing == worker.pc = "clear" \/ InCall({"push", "clear"})
Walking == worker.pc = "close" \/ InCall({"list", "start"})
Race == proc' = "ub" /\ UNCHANGED <<serverVars, taskVars, socketVars, refused>>

\* A step that enters m_socks, to change it or to walk over it.
Changes(step) == IF Changing \/ Walking THEN Race ELSE step
Walks(step) == IF Changing THEN Race ELSE step

(***************************************************************************)
(* Users                                                                   *)
(***************************************************************************)
Goes(u, c) == user' = [user EXCEPT ![u] = c]
May(u) == held /\ user[u].pc = "user"

Bind(u) ==
  /\ May(u)
  /\ \E n \in 1 .. MaxAddrs : Goes(u, [NoCall EXCEPT !.pc = "bind", !.n = n])
  /\ UNCHANGED <<serverVars, socketVars, queue, worker, clients, refused, proc>>

AddressLeft(u) == user[u].n > 0

\* Socket::bind() gives a new Socket its descriptor, listen() the kernel a
\* listener.
Bound(s, n) == [fd EXCEPT ![s] = n]
Listening(n) == [open EXCEPT ![n] = "listen"]

\* One address: socket(), bind() and listen() succeed, or the new Socket is
\* destroyed with its descriptor.
BindNext(u) ==
  /\ user[u].pc = "bind" /\ AddressLeft(u)
  /\ UNCHANGED <<serverVars, queue, worker, clients, refused, proc>>
  /\ \/ /\ Goes(u, [user[u] EXCEPT !.n = @ - 1, !.failed = TRUE])
        /\ UNCHANGED socketVars
     \/ \E s \in Socks, n \in Fds :
          /\ FreeSocket(s) /\ FreeFd(n)
          /\ Goes(u, [user[u] EXCEPT !.pc = "listen", !.n = @ - 1, !.sock = s])
          /\ Settle(socks, Bound(s, n), Listening(n))

\* m_socks.push_back()
PushBack(u) ==
  /\ user[u].pc = "listen"
  /\ Changes(/\ Goes(u, [user[u] EXCEPT !.pc = "push"])
             /\ bound' = TRUE
             /\ UNCHANGED <<held, isStop, socketVars, queue, worker, clients,
                            refused, proc>>)
PushEnd(u) ==
  /\ user[u].pc = "push"
  /\ Goes(u, [user[u] EXCEPT !.pc = "bind", !.sock = None])
  /\ UNCHANGED <<serverVars, queue, worker, clients, refused, proc>>
  /\ Settle(Append(socks, user[u].sock), fd, open)

\* If one address failed, all sockets go, those of earlier calls included;
\* otherwise they are logged.
BindEnd(u) ==
  /\ user[u].pc = "bind" /\ user[u].n = 0
  /\ LET enter(pc) == /\ Goes(u, [NoCall EXCEPT !.pc = pc])
                      /\ UNCHANGED <<serverVars, socketVars, queue, worker,
                                     clients, refused, proc>>
     IN IF user[u].failed THEN Changes(enter("clear")) ELSE Walks(enter("list"))
BindReturns(u) ==
  /\ user[u].pc \in {"clear", "list"}
  /\ Goes(u, NoCall)
  /\ UNCHANGED <<serverVars, queue, worker, clients, refused, proc>>
  /\ Settle(IF user[u].pc = "clear" THEN <<>> ELSE socks, fd, open)

\* start() looks at m_isStop, sets it and walks over the sockets.
Start(u) ==
  /\ May(u) /\ isStop
  /\ Goes(u, [NoCall EXCEPT !.pc = "set"])
  /\ UNCHANGED <<serverVars, socketVars, queue, worker, clients, refused, proc>>

StartSet(u) ==
  /\ user[u].pc = "set"
  /\ Walks(/\ isStop' = FALSE
           /\ Goes(u, [NoCall EXCEPT !.pc = "start", !.n = 1])
           /\ UNCHANGED <<held, bound, socketVars, queue, worker, clients,
                          refused, proc>>)

AcceptTask(s) == [do |-> "accept", sock |-> s, self |-> TRUE]
StartNext(u) ==
  /\ user[u].pc = "start" /\ Len(queue) < MaxTasks
  /\ IF user[u].n > Len(socks)
     THEN Goes(u, NoCall) /\ UNCHANGED queue
     ELSE /\ Goes(u, [user[u] EXCEPT !.n = @ + 1])
          /\ queue' = Append(queue, AcceptTask(socks[user[u].n]))
  /\ UNCHANGED <<serverVars, socketVars, worker, clients, refused, proc>>

\* Whether it runs or not, stop() has the worker close the listeners.
IfStarted == IF isStop THEN NoCall ELSE [NoCall EXCEPT !.pc = "stop"] \* variant
Stopping == [NoCall EXCEPT !.pc = "stop"]
Stop(u) ==
  /\ May(u)
  /\ isStop' = TRUE /\ bound' = FALSE
  /\ Goes(u, Stopping)
  /\ UNCHANGED <<held, socketVars, queue, worker, clients, refused, proc>>

ThisOnly == [do |-> "close", sock |-> None, self |-> FALSE]    \* variant
CloseTask == [do |-> "close", sock |-> None, self |-> TRUE]
StopEnd(u) ==
  /\ user[u].pc = "stop" /\ Len(queue) < MaxTasks
  /\ queue' = Append(queue, CloseTask)
  /\ Goes(u, NoCall)
  /\ UNCHANGED <<serverVars, socketVars, worker, clients, refused, proc>>

\* The last user's shared_ptr goes.
Drop ==
  /\ held /\ \A u \in Users : user[u].pc = "user"
  /\ held' = FALSE
  /\ UNCHANGED <<isStop, bound, taskVars, refused, proc>>
  /\ Settle(socks, fd, open)

(***************************************************************************)
(* The accept worker: startAccept() and the task of stop()                 *)
(***************************************************************************)
Takes(pc) ==
  /\ queue' = Tail(queue)
  /\ worker' = [pc |-> pc, sock |-> Head(queue).sock, i |-> 1,
                self |-> Head(queue).self]
  /\ UNCHANGED <<serverVars, socketVars, user, clients, refused, proc>>
Take ==
  /\ worker = Idle /\ queue # <<>>
  /\ IF Head(queue).do = "accept" THEN Takes("check") ELSE Walks(Takes("close"))

Check ==
  /\ worker.pc = "check"
  /\ worker' = IF isStop THEN Idle ELSE [worker EXCEPT !.pc = "accept"]
  /\ UNCHANGED <<serverVars, user, queue, clients, refused, proc>>
  /\ Settle(socks, fd, open)

\* The other worker is given the client, with a pointer to the server.
ScheduleClient(s) ==
  clients' = Append(clients, [sock |-> s, self |-> TRUE, running |-> FALSE])

\* Socket::accept(): it fails, at once on a closed socket; or a connection has
\* come, and is scheduled, or refused by init() and left open.
Accept ==
  /\ worker.pc = "accept"
  /\ worker' = [worker EXCEPT !.pc = "check"]
  /\ UNCHANGED <<serverVars, user, queue, proc>>
  /\ \/ UNCHANGED <<socketVars, clients, refused>>
     \/ /\ fd[worker.sock] # None
        /\ \E n \in Fds : /\ FreeFd(n)
                          /\ open' = [open EXCEPT ![n] = "client"]
                          /\ refused' = refused \cup {n}
        /\ UNCHANGED <<alive, socks, fd, clients>>
     \/ /\ fd[worker.sock] # None
        /\ UNCHANGED refused
        /\ \E s \in Socks, n \in Fds :
             /\ FreeSocket(s) /\ FreeFd(n)
             /\ ScheduleClient(s)
             /\ Settle(socks, [fd EXCEPT ![s] = n],
                       [open EXCEPT ![n] = "client"])

\* The loop of stop()'s task: cancelAll() finds nobody, close().
Close ==
  /\ worker.pc = "close" /\ worker.i <= Len(socks)
  /\ worker' = [worker EXCEPT !.i = @ + 1]
  /\ UNCHANGED <<serverVars, user, queue, clients, refused, proc>>
  /\ LET s == socks[worker.i]
     IN Settle(socks, Forget(fd, {s}), CloseAll(open, fd, {s}))

CloseEnd ==
  /\ worker.pc = "close" /\ worker.i > Len(socks)
  /\ IF InCall({"push", "clear", "list", "start"}) THEN Race
     ELSE /\ worker' = [worker EXCEPT !.pc = "clear"]
          /\ UNCHANGED <<serverVars, socketVars, user, queue, clients, refused,
                         proc>>
ClearEnd ==
  /\ worker.pc = "clear"
  /\ worker' = Idle
  /\ UNCHANGED <<serverVars, user, queue, clients, refused, proc>>
  /\ Settle(<<>>, fd, open)

(***************************************************************************)
(* The other worker: handleClient()                                        *)
(***************************************************************************)
HandleClient ==
  /\ clients # <<>> /\ ~Head(clients).running
  /\ clients' = [clients EXCEPT ![1].running = TRUE]
  /\ UNCHANGED <<serverVars, socketVars, user, queue, worker, refused, proc>>

\* It may close the client itself.
CloseClient ==
  /\ clients # <<>> /\ Head(clients).running
  /\ fd[Head(clients).sock] # None
  /\ UNCHANGED <<serverVars, taskVars, refused, proc>>
  /\ LET s == Head(clients).sock
     IN Settle(socks, Forget(fd, {s}), CloseAll(open, fd, {s}))

ClientEnd ==
  /\ clients # <<>> /\ Head(clients).running
  /\ clients' = Tail(clients)
  /\ UNCHANGED <<serverVars, user, queue, worker, refused, proc>>
  /\ Settle(socks, fd, open)

\* Nothing left to do, or the process is beyond its definition.
Ended == (proc = "ub" \/ ~alive) /\ UNCHANGED vars

Next ==
  \/ /\ proc = "up"
     /\ \/ \E u \in Users :
             \/ Bind(u) \/ BindNext(u) \/ PushBack(u) \/ PushEnd(u)
             \/ BindEnd(u) \/ BindReturns(u)
             \/ Start(u) \/ StartSet(u) \/ StartNext(u)
             \/ Stop(u) \/ StopEnd(u)
        \/ Drop
        \/ Take \/ Check \/ Accept \/ Close \/ CloseEnd \/ ClearEnd
        \/ HandleClient \/ CloseClient \/ ClientEnd
  \/ Ended

Spec == Init /\ [][Next]_vars

(***************************************************************************)
(* Properties                                                              *)
(***************************************************************************)
\* Types of the members of TcpServer (tcpserver.h:54-62) and of the workers.
TypeOK ==
  /\ held \in BOOLEAN /\ alive \in BOOLEAN /\ isStop \in BOOLEAN
  /\ socks \in Seq(Socks)
  /\ \A i, j \in DOMAIN socks : socks[i] = socks[j] => i = j
  /\ fd \in [Socks -> Fds \cup {None}]
  /\ open \in [Fds -> {"free", "listen", "client"}]
  /\ user \in [Users -> Call]
  /\ queue \in Seq(Task) /\ worker \in Worker /\ clients \in Seq(Client)
  /\ bound \in BOOLEAN /\ refused \subseteq Fds /\ proc \in {"up", "ub"}

\* Socket::close() and ~Socket() (socket.cc:255-268, 77): a descriptor in use
\* has exactly one Socket, apart from those that init() refused, and a
\* Socket's descriptor is in use: nobody closes a number that was reused.
OneOwner ==
  /\ \A s \in Socks : fd[s] # None => open[fd[s]] # "free"
  /\ \A n \in Fds : open[n] # "free" =>
       IF n \in refused THEN \A s \in Socks : fd[s] # n
       ELSE \E s \in Socks : \A r \in Socks : fd[r] = n <=> r = s

\* tcpserver.cc:77, 93, 100-101: nobody but the users and the tasks that
\* captured shared_from_this() keeps the server, and it outlives every task
\* that uses it, whenever the users let go of it.
ServerOutlivesTasks ==
  ~alive => queue = <<>> /\ worker = Idle /\ clients = <<>>

\* tcpserver.cc:98-108: once the accept worker has done all it was asked, a
\* stopped server that nobody bound since the stop() does not listen, whatever
\* start(), stop() and failing bind() came before and at the same time.
StoppedIsDeaf ==
  (/\ isStop /\ ~bound /\ queue = <<>> /\ worker = Idle
   /\ \A u \in Users : user[u].pc = "user")
  => \A n \in Fds : open[n] # "listen"
================================================================================

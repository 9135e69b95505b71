--------------------------------- MODULE Daemon ---------------------------------
(***************************************************************************)
(* start_daemon() (daemon.cc): a parent that forks a child to run main_cb, *)
(* waits for it and forks another one until a child ends with status 0.    *)
(*                                                                         *)
(* A process is its number; each has a copy of ProcessInfoMgr's object and *)
(* of the variables of real_daemon().  fork(), waitpid() and signals are   *)
(* the kernel's.                                                           *)
(***************************************************************************)
EXTENDS Integers

CONSTANTS
  Pids,        \* process numbers
  MaxCrashes,  \* bound on the children that end with another status than 0
  MaxTime,     \* bound on the clock
  NoPid        \* 0, which is no process's number

ASSUME DaemonAssumption ==
  /\ NoPid \notin Pids
  /\ MaxCrashes \in Nat /\ MaxTime \in Nat

VARIABLES
  first,      \* the process that called start_daemon()
  parent,     \* the process that runs real_daemon()'s loop
  pc,         \* where the parent is
  pid,        \* the child it waits for
  status,     \* status of its last waitpid()
  proc,       \* the kernel: processes, and the status of those not waited for
  info,       \* each process's ProcessInfo
  now,        \* the clock
  ignored,    \* SIGCHLD is ignored, as the program inherited it
  interrupts, \* signal handlers that run without SA_RESTART
  crashes,    \* history: children that did not end with 0
  unheard     \* history: waitpid() failed

vars == <<first, parent, pc, pid, status, proc, info, now, ignored,
          interrupts, crashes, unheard>>
kernelVars == <<first, ignored, interrupts>>

NoInfo == [parent_id |-> NoPid, main_id |-> NoPid, parent_start_time |-> 0,
           main_start_time |-> 0, restart_count |-> 0]

\* Processes: none; between fork() and main_cb; in main_cb; ended with status 0
\* or another one, and not waited for yet.
Process == {"none", "forked", "main", "zero", "crashed"}
Alive(p) == proc[p] \in {"forked", "main"}
Children == Pids \ {parent}
Unused == {p \in Pids : proc[p] = "none"}

Init ==
  /\ first \in Pids /\ parent = first
  /\ pc = "call" /\ pid = NoPid /\ status = "zero"
  /\ proc = [p \in Pids |-> IF p = first THEN "main" ELSE "none"]
  /\ info = [p \in Pids |-> NoInfo]
  /\ now = 0
  /\ ignored \in BOOLEAN /\ interrupts \in BOOLEAN
  /\ crashes = 0 /\ unheard = FALSE

(***************************************************************************)
(* The parent                                                              *)
(***************************************************************************)
\* is_daemon is false: main_cb runs in this very process.
RealStart ==
  /\ pc = "call"
  /\ pc' = "main"
  /\ UNCHANGED <<parent, pid, status, proc, info, now, crashes, unheard>>
  /\ UNCHANGED kernelVars

\* daemon(1, 0): the caller ends and its child goes on; if it fails, which
\* nobody notices, the caller does.
Daemonize(p) ==
  /\ pc = "call"
  /\ \/ p = parent /\ UNCHANGED <<proc, info>>
     \/ /\ p \in Unused
        /\ proc' = [proc EXCEPT ![parent] = "none", ![p] = "main"]
        /\ info' = [info EXCEPT ![p] = info[parent], ![parent] = NoInfo]
  /\ parent' = p /\ pc' = "record"
  /\ UNCHANGED <<pid, status, now, crashes, unheard>> /\ UNCHANGED kernelVars

\* parent_id and parent_start_time, before the loop.
Caller == first                                                \* variant
Getpid == parent
Record ==
  /\ pc = "record"
  /\ info' = [info EXCEPT ![parent].parent_id = Getpid,
                          ![parent].parent_start_time = now]
  /\ pc' = "fork"
  /\ UNCHANGED <<parent, pid, status, proc, now, crashes, unheard>>
  /\ UNCHANGED kernelVars

\* fork(): the child has a copy of everything.
Fork(p) ==
  /\ pc = "fork" /\ p \in Unused
  /\ proc' = [proc EXCEPT ![p] = "forked"]
  /\ info' = [info EXCEPT ![p] = info[parent]]
  /\ pid' = p /\ pc' = "wait" /\ status' = "zero"
  /\ UNCHANGED <<parent, now, crashes, unheard>> /\ UNCHANGED kernelVars

\* A fork() that fails is logged, and tried again at once.
ForkFails == pc = "fork" /\ UNCHANGED vars

\* waitpid() reports the child, or fails and leaves status as it is: a handler
\* interrupted it, or, SIGCHLD being ignored, there is nobody left to report.
Reap ==
  /\ pc = "wait" /\ proc[pid] \in {"zero", "crashed"}
  /\ status' = proc[pid]
  /\ proc' = [proc EXCEPT ![pid] = "none"]
  /\ pc' = "waited"
  /\ UNCHANGED <<parent, pid, info, now, crashes, unheard>>
  /\ UNCHANGED kernelVars
WaitFails ==
  /\ pc = "wait"
  /\ interrupts \/ (ignored /\ proc[pid] = "none")
  /\ pc' = "waited" /\ unheard' = TRUE
  /\ UNCHANGED <<parent, pid, status, proc, info, now, crashes>>
  /\ UNCHANGED kernelVars

\* The child finished, or there will be another one.
Inverted(s) == s = "zero"                                      \* variant
Crashed(s) == s # "zero"
Finished(s) == ~Crashed(s)
Finish ==
  /\ pc = "waited" /\ Finished(status)
  /\ pc' = "done"
  /\ UNCHANGED <<parent, pid, status, proc, info, now, crashes, unheard>>
  /\ UNCHANGED kernelVars

NotCounted(n) == n                                             \* variant
Counted(n) == n + 1
Restart ==
  /\ pc = "waited" /\ ~Finished(status)
  /\ info' = [info EXCEPT ![parent].restart_count = Counted(@)]
  /\ pc' = "sleep"
  /\ UNCHANGED <<parent, pid, status, proc, now, crashes, unheard>>
  /\ UNCHANGED kernelVars
Awake ==
  /\ pc = "sleep"
  /\ pc' = "fork"
  /\ UNCHANGED <<parent, pid, status, proc, info, now, crashes, unheard>>
  /\ UNCHANGED kernelVars

(***************************************************************************)
(* A child, and time                                                       *)
(***************************************************************************)
EnterMain(p) ==
  /\ p \in Children /\ proc[p] = "forked"
  /\ proc' = [proc EXCEPT ![p] = "main"]
  /\ info' = [info EXCEPT ![p].main_id = p, ![p].main_start_time = now]
  /\ UNCHANGED <<parent, pc, pid, status, now, crashes, unheard>>
  /\ UNCHANGED kernelVars

\* It returns from main_cb, or is killed at any time.  If SIGCHLD is ignored
\* nothing is left of it.
Ends(p, s) ==
  /\ proc' = [proc EXCEPT ![p] = IF ignored THEN "none" ELSE s]
  /\ info' = [info EXCEPT ![p] = NoInfo]
  /\ UNCHANGED <<parent, pc, pid, status, now, unheard>> /\ UNCHANGED kernelVars
Return(p) == /\ p \in Children /\ proc[p] = "main"
             /\ Ends(p, "zero") /\ UNCHANGED crashes
Crash(p) == /\ p \in Children /\ Alive(p)
            /\ crashes < MaxCrashes /\ crashes' = crashes + 1
            /\ Ends(p, "crashed")

\* time() only goes forward here.
Tick ==
  /\ now < MaxTime /\ now' = now + 1
  /\ UNCHANGED <<parent, pc, pid, status, proc, info, crashes, unheard>>
  /\ UNCHANGED kernelVars

\* The program is over, or main_cb runs without a daemon.
Over == pc \in {"done", "main"} /\ UNCHANGED vars

Forks == \E p \in Pids : Fork(p)
Parent == \/ Record \/ Reap \/ Finish \/ Restart \/ Awake
          \/ \E p \in Pids : Daemonize(p)
Child == \E p \in Pids : EnterMain(p) \/ Return(p) \/ Crash(p)
Next == Parent \/ Forks \/ ForkFails \/ RealStart \/ WaitFails \/ Child \/ Tick
        \/ Over

\* The parent is scheduled, and fork() does not fail for ever.
Fairness == WF_vars(Parent) /\ WF_vars(Forks)
Spec == Init /\ [][Next]_vars /\ Fairness

(***************************************************************************)
(* Properties                                                              *)
(***************************************************************************)
\* daemon.cc:31-61: whatever crashes and restarts came before, a child that runs
\* main_cb knows its own number, the process that waits for it, when they began,
\* and how many children crashed before it.
InfoIsTrue ==
  \A p \in Children : proc[p] = "main" /\ pc \in {"wait", "waited"} =>
    /\ p = pid
    /\ info[p].main_id = p /\ info[p].parent_id = parent
    /\ info[p].parent_start_time <= info[p].main_start_time
    /\ info[p].main_start_time <= now
    /\ info[p].restart_count = crashes

\* daemon.cc:48-60: there is one child at most, none between two of them, and the
\* daemon ends only after a child that ended with status 0, unless waitpid()
\* failed.
OneChild ==
  /\ \A p, q \in Children : proc[p] # "none" /\ proc[q] # "none" => p = q
  /\ pc \notin {"wait", "waited", "done"} => \A p \in Children : proc[p] = "none"
  /\ pc = "done" /\ ~unheard =>
       /\ \A p \in Children : proc[p] = "none"
       /\ status = "zero"

\* daemon.cc:34-60: a child that crashed is followed by another one, unless
\* waitpid() failed and the parent took it for finished.
CrashedIsReplaced ==
  \A n \in 1 .. MaxCrashes :
    (crashes = n /\ \E p \in Children : proc[p] = "crashed")
      ~> (unheard \/ \E p \in Children : Alive(p) /\ info[p].restart_count >= n)
=================================================================================

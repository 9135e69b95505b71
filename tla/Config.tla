-------------------------------- MODULE Config --------------------------------
(***************************************************************************)
(* Configuration variables (config.h, config.cc): the registry, setValue() *)
(* with its listeners, and loading a file, by several threads.             *)
(*                                                                         *)
(* Locks are read as scoped.  The registry's lock is never held over a     *)
(* call, so that its operations are single steps.  A variable's lock is    *)
(* shared while listeners are called, taken again for the assignment.      *)
(***************************************************************************)
EXTENDS Integers, Sequences, FiniteSets, SequencesExt

CONSTANTS
  Threads,
  Keys,       \* what a file or a program may call a variable
  LegalKeys,  \* keys of letters, '.', '_' and the digits 0 to 8
  StaticKeys, \* variables that exist before main()
  Listeners,  \* callbacks of users
  Values,
  Default,    \* the value a variable is created with
  Docs,       \* files: the nodes of each, in order
  None

\* A node's text converts to a value, or FromStr throws (None).
Node == [key: Keys, value: Values \cup {None}]

ASSUME ConfigAssumption ==
  /\ LegalKeys \subseteq Keys /\ StaticKeys \subseteq LegalKeys
  /\ Default \in Values
  /\ None \notin Threads \cup Keys \cup Listeners \cup Values
  /\ Docs \subseteq Seq(Node)

VARIABLES
  datas,    \* GetDatas(): the keys that have a ConfigVar
  val,      \* m_val of each
  cbs,      \* m_cbs of each, in the order of their ids
  call,     \* each thread's call in progress
  heard,    \* history: the value a listener was last told
  dispute   \* history: whether calls on a variable got in each other's way

configVars == <<datas, val, cbs, call, heard, dispute>>

\* Positions: not in a call; in the loop of LoadFromYaml(); calling listeners
\* under the shared lock; between the two locks; listing a directory.
Call == [pc: {"user", "load", "notify", "store", "listing"},
         todo: Seq(Node),
         key: Keys \cup {None},
         new: Values \cup {None},
         left: Seq(Listeners),
         alone: BOOLEAN]
NoCall == [pc |-> "user", todo |-> <<>>, key |-> None, new |-> None,
           left |-> <<>>, alone |-> TRUE]

\* Static initialisers have registered variables and listeners.
ConfigInit(static) ==
  /\ datas = StaticKeys
  /\ val = [k \in Keys |-> Default]
  /\ cbs = static
  /\ call = [t \in Threads |-> NoCall]
  /\ heard = [k \in Keys |-> [l \in Listeners |-> Default]]
  /\ dispute = [k \in Keys |-> "never"]

In(t, k, where) == call[t].key = k /\ call[t].pc \in where
Reading(k) == \E t \in Threads : In(t, k, {"notify"})
Setting(k) == \E t \in Threads : In(t, k, {"notify", "store"})
Registered(k) == {cbs[k][i] : i \in DOMAIN cbs[k]}

(***************************************************************************)
(* The registry and the listeners of a variable                            *)
(***************************************************************************)
\* Lookup(name, default): an illegal name is logged and registered like any
\* other.
Lookup(t, k) ==
  /\ call[t].pc = "user" /\ k \notin datas
  /\ datas' = datas \cup {k}
  /\ UNCHANGED <<val, cbs, call, heard, dispute>>

\* addListener() by somebody who knows the value at that time.  Between the
\* notification and the assignment of a call it comes too late for that call.
AddListener(t, k, l) ==
  /\ call[t].pc = "user" /\ k \in datas /\ ~Reading(k)
  /\ l \notin Registered(k)
  /\ cbs' = [cbs EXCEPT ![k] = Append(@, l)]
  /\ heard' = [heard EXCEPT ![k][l] = val[k]]
  /\ call' = [u \in Threads |->
                IF In(u, k, {"store"}) THEN [call[u] EXCEPT !.alone = FALSE]
                ELSE call[u]]
  /\ UNCHANGED <<datas, val, dispute>>

DelListener(t, k, l) ==
  /\ call[t].pc = "user" /\ ~Reading(k)
  /\ \E i \in DOMAIN cbs[k] : /\ cbs[k][i] = l
                              /\ cbs' = [cbs EXCEPT ![k] = RemoveAt(@, i)]
  /\ UNCHANGED <<datas, val, call, heard, dispute>>

ClearListener(t, k) ==
  /\ call[t].pc = "user" /\ ~Reading(k)
  /\ cbs' = [cbs EXCEPT ![k] = <<>>]
  /\ UNCHANGED <<datas, val, call, heard, dispute>>

(***************************************************************************)
(* setValue() and LoadFromYaml()                                           *)
(***************************************************************************)
\* Where a call of setValue() returns to, with the nodes still to set.
Resume(rest) == [NoCall EXCEPT !.pc = IF rest = <<>> THEN "user" ELSE "load",
                               !.todo = rest]

\* setValue() up to its first listener: shared lock, comparison.  Whoever is
\* setting the variable already, is no longer alone.
Compare(t, k, v, rest) ==
  IF v = val[k]
  THEN call' = [call EXCEPT ![t] = Resume(rest)]
  ELSE call' = [u \in Threads |->
         IF u = t
         THEN [pc |-> "notify", todo |-> rest, key |-> k, new |-> v,
               left |-> cbs[k], alone |-> ~Setting(k)]
         ELSE IF In(u, k, {"notify", "store"})
         THEN [call[u] EXCEPT !.alone = FALSE] ELSE call[u]]

SetValue(t, k, v) ==
  /\ call[t].pc = "user" /\ k \in datas
  /\ Compare(t, k, v, <<>>)
  /\ UNCHANGED <<datas, val, cbs, heard, dispute>>

\* LoadFromYaml() of a file's nodes.
Load(t, doc) ==
  /\ call[t].pc = "user" /\ doc # <<>>
  /\ call' = [call EXCEPT ![t] = Resume(doc)]
  /\ UNCHANGED <<datas, val, cbs, heard, dispute>>

\* LoadFromConDir() of a directory that can be opened: ListAllFile() reads the
\* first entry again and again, and never gets to a file.
LoadFromConDir(t) ==
  /\ call[t].pc = "user"
  /\ call' = [call EXCEPT ![t].pc = "listing"]
  /\ UNCHANGED <<datas, val, cbs, heard, dispute>>

\* The next node: setValue(), unless its key is illegal, so that ListAllMember()
\* drops it and all nodes below it, or no variable's, or its text does not convert.
IsListed(node) == node.key \in LegalKeys
LoadNode(t) ==
  /\ call[t].pc = "load"
  /\ LET node == Head(call[t].todo)
         rest == Tail(call[t].todo)
     IN IF IsListed(node) /\ node.key \in datas /\ node.value # None
        THEN Compare(t, node.key, node.value, rest)
        ELSE call' = [call EXCEPT ![t] = Resume(rest)]
  /\ UNCHANGED <<datas, val, cbs, heard, dispute>>

\* A listener is told, and returns or throws.  The exception ends the call;
\* fromString() goes on with the file if it is a std::exception, otherwise
\* LoadFromYaml() is left as well.
Told(t) == heard' = [heard EXCEPT ![call[t].key][Head(call[t].left)] =
                                    call[t].new]
Notify(t) ==
  /\ call[t].pc = "notify" /\ call[t].left # <<>>
  /\ Told(t)
  /\ call' = [call EXCEPT ![t].left = Tail(@)]
  /\ UNCHANGED <<datas, val, cbs, dispute>>

Throw(t) ==
  /\ call[t].pc = "notify" /\ call[t].left # <<>>
  /\ Told(t)
  /\ \E rest \in {call[t].todo, <<>>} :
       call' = [call EXCEPT ![t] = Resume(rest)]
  /\ dispute' = [dispute EXCEPT ![call[t].key] = "now"]
  /\ UNCHANGED <<datas, val, cbs>>

\* The shared lock is released, and the exclusive one taken later.
AnyTold(t) == TRUE                                             \* variant
AllTold(t) == call[t].left = <<>>
Release(t) ==
  /\ call[t].pc = "notify" /\ AllTold(t)
  /\ call' = [call EXCEPT ![t].pc = "store"]
  /\ UNCHANGED <<datas, val, cbs, heard, dispute>>

\* A call that was alone settles what was disputed before.
After(t) == IF ~call[t].alone THEN "now"
            ELSE IF dispute[call[t].key] = "never" THEN "never" ELSE "before"
Store(t) ==
  /\ call[t].pc = "store" /\ ~Reading(call[t].key)
  /\ val' = [val EXCEPT ![call[t].key] = call[t].new]
  /\ call' = [call EXCEPT ![t] = Resume(call[t].todo)]
  /\ dispute' = [dispute EXCEPT ![call[t].key] = After(t)]
  /\ UNCHANGED <<datas, cbs, heard>>

(***************************************************************************)
(* Properties                                                              *)
(***************************************************************************)
\* Types: datas, val, cbs of config.h, and the position of every call.
ConfigTypeOK ==
  /\ datas \subseteq Keys
  /\ val \in [Keys -> Values]
  /\ cbs \in [Keys -> Seq(Listeners)]
  /\ \A k \in Keys : \A i, j \in DOMAIN cbs[k] : cbs[k][i] = cbs[k][j] => i = j
  /\ call \in [Threads -> Call]
  /\ heard \in [Keys -> [Listeners -> Values]]
  /\ dispute \in [Keys -> {"never", "now", "before"}]

\* config.h:338-350: when nobody is setting a variable, each of its listeners
\* was last told the value it has, unless the last call overlapped another one,
\* was overtaken by addListener(), or was ended by a listener's exception.  It is
\* what a copy of a value, such as s_connect_timeout of hook.cc:98-102, relies on.
ListenersHaveHeard ==
  \A k \in datas : ~Setting(k) /\ dispute[k] # "now" =>
    \A l \in Registered(k) : heard[k][l] = val[k]
===============================================================================

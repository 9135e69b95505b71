---------------------------------- MODULE Log ----------------------------------
(***************************************************************************)
(* The loggers (log.cc) and the listener on the variable "logs" that       *)
(* brings them in line with it.  Config runs the listener in a thread that *)
(* sets the variable; it works logger by logger, one locked operation of   *)
(* Logger after the other, so that two threads may do so at a time.        *)
(*                                                                         *)
(* A formatter is "" (none given), "valid" or "invalid": what a pattern    *)
(* prints is left out, and so is log() itself, which changes nothing here. *)
(***************************************************************************)
EXTENDS Config

CONSTANTS
  Names,      \* of loggers
  Logs,       \* the key of the variable
  Used,       \* bound: the variables the program sets and listens to itself
  LogIniter   \* its listener, registered before main()

Level == {"UNKNOW", "DEBUG", "ERROR"}
Pattern == {"", "valid", "invalid"}
AppenderDefine == [type: {"file", "stdout"}, formatter: Pattern]
Define == [level: Level, formatter: Pattern, appenders: Seq(AppenderDefine)]
Logger == [level: Level, formatter: {"default", "valid"},
           appenders: Seq({"file", "stdout"})]
NewLogger == [level |-> "DEBUG", formatter |-> "default", appenders |-> <<>>]

\* A std::set<LogDefine> is ordered, and searched, by name: a function on names.
ASSUME LogAssumption ==
  /\ Logs \in StaticKeys /\ Used \subseteq Keys /\ LogIniter \in Listeners
  /\ \A v \in Values : DOMAIN v \subseteq Names /\ \A n \in DOMAIN v : v[n] \in Define
  /\ Default = <<>> /\ None \notin Logger

VARIABLES
  loggers,  \* LoggerManager::m_loggers
  run,      \* where a thread's run of the listener is
  spun,     \* loggers whose lock a thread holds, spinning
  daemon    \* whether the program was given the argument -d

logVars == <<loggers, run, spun, daemon>>
vars == <<configVars, logVars>>

\* A run is between two loggers, or about to do its next operation on one; done
\* counts the appenders it has seen of that one.
Run == [at: {"next", "level", "formatter", "clear", "add"},
        left: SUBSET Names, logger: Names \cup {None}, done: Nat]
Between(left) == [at |-> "next", left |-> left, logger |-> None, done |-> 0]

Init ==
  /\ ConfigInit([k \in Keys |-> IF k = Logs THEN <<LogIniter>> ELSE <<>>])
  /\ loggers = [n \in Names |-> None]
  /\ run = [t \in Threads |-> Between({})]
  /\ spun = {}
  /\ daemon \in BOOLEAN

(***************************************************************************)
(* LexicalCast<std::string, std::set<LogDefine>>                           *)
(***************************************************************************)
\* The entries of a YAML list: a name or none, and appenders of which some
\* are not usable.  An unnamed entry throws; of two with one name the first is
\* inserted.
Usable(a) == a.type = "stdout" \/ (a.type = "file" /\ a.file)
ToAppender(a) == [type |-> a.type, formatter |-> a.formatter]
ToDefine(e) == [level |-> e.level, formatter |-> e.formatter,
                appenders |-> LET use == SelectSeq(e.appenders, Usable)
                              IN [i \in DOMAIN use |-> ToAppender(use[i])]]
FromYaml(entries) ==
  IF \E i \in DOMAIN entries : entries[i].name = None THEN None
  ELSE LET first(n) == CHOOSE i \in DOMAIN entries :
             /\ entries[i].name = n
             /\ \A j \in 1 .. i - 1 : entries[j].name # n
       IN [n \in {entries[i].name : i \in DOMAIN entries} |->
             ToDefine(entries[first(n)])]

(***************************************************************************)
(* The listener, logger by logger.  The old value is m_val, which nobody   *)
(* can change meanwhile.  It throws nothing itself.                        *)
(***************************************************************************)
\* Definitions that are the same in both are left alone.
Changed(old, new) ==
  {n \in DOMAIN new : n \notin DOMAIN old \/ old[n] # new[n]}
NoneDropped(old, new) == {}                                    \* variant
Dropped(old, new) == DOMAIN old \ DOMAIN new

Idle(t) == run[t] = Between({})
IsLogIniter(t) == call[t].left # <<>> /\ Head(call[t].left) = LogIniter
NotifyLogs(t) ==
  /\ Idle(t) /\ IsLogIniter(t)
  /\ Notify(t)
  /\ LET old == val[Logs]
         new == call[t].new
     IN run' = [run EXCEPT ![t] = Between(Changed(old, new) \cup Dropped(old, new))]
  /\ UNCHANGED <<loggers, spun, daemon>>

\* What the logger is to be: a dropped one is silenced and loses its appenders.
Silent == [level |-> "UNKNOW", formatter |-> "", appenders |-> <<>>]
Target(t) == LET n == run[t].logger
                 new == call[t].new
             IN IF n \in DOMAIN new THEN new[n] ELSE Silent

\* Each set is worked through in its order; first the new one.
NextLogger(t) ==
  LET changed == run[t].left \cap DOMAIN call[t].new
  IN CHOOSE n \in IF changed # {} THEN changed ELSE run[t].left : TRUE
GetLogger(t) ==
  /\ run[t].at = "next" /\ run[t].left # {}
  /\ LET n == NextLogger(t) IN
     /\ loggers' = [loggers EXCEPT ![n] = IF @ = None THEN NewLogger ELSE @]
     /\ run' = [run EXCEPT ![t] = [at |-> "level", left |-> run[t].left \ {n},
                                   logger |-> n, done |-> 0]]
  /\ UNCHANGED <<configVars, spun, daemon>>

\* One operation on the logger: where the run is, and where it goes from there.
\* All but setLevel() and a formatter that is refused take the logger's lock.
Doing(t, where) == run[t].at = where /\ UNCHANGED <<configVars, spun, daemon>>
Goes(t, where) == run' = [run EXCEPT ![t].at = where]
Locked(t) == run[t].logger \in spun
Update(t, logger) == loggers' = [loggers EXCEPT ![run[t].logger] = logger]
Now(t) == loggers[run[t].logger]

SetLevel(t) ==
  /\ Doing(t, "level")
  /\ Update(t, [Now(t) EXCEPT !.level = Target(t).level])
  /\ Goes(t, IF Target(t).formatter = "" THEN "clear" ELSE "formatter")

\* Every appender of a logger has a formatter of its own (see AddAppender), so
\* that none takes over the logger's.
SetFormatter(t) ==
  /\ Doing(t, "formatter") /\ Goes(t, "clear")
  /\ IF Target(t).formatter = "invalid" THEN UNCHANGED loggers
     ELSE ~Locked(t) /\ Update(t, [Now(t) EXCEPT !.formatter = "valid"])

ClearAppender(t) ==
  /\ Doing(t, "clear") /\ ~Locked(t) /\ Goes(t, "add")
  /\ Update(t, [Now(t) EXCEPT !.appenders = <<>>])

\* The loop over the appenders; a daemon has none to stdout.
More(t) == run[t].at = "add" /\ run[t].done < Len(Target(t).appenders)
Appender(t) == Target(t).appenders[run[t].done + 1]
Skips(a) == a.type = "stdout" /\ daemon
Advance(t) == run' = [run EXCEPT ![t].done = @ + 1]
SkipAppender(t) ==
  /\ More(t) /\ Skips(Appender(t)) /\ Advance(t)
  /\ UNCHANGED <<configVars, loggers, spun, daemon>>
AddAppender(t) ==
  /\ More(t) /\ ~Skips(Appender(t)) /\ ~Locked(t) /\ Advance(t)
  /\ Appender(t).formatter = "valid"
  /\ Update(t, [Now(t) EXCEPT !.appenders = Append(@, Appender(t).type)])
  /\ UNCHANGED <<configVars, spun, daemon>>

\* An appender without a formatter is locked by addAppender() and again by
\* setFormatter(): the thread spins for ever, and holds the logger's lock.
Spin(t) ==
  /\ More(t) /\ ~Skips(Appender(t)) /\ ~Locked(t)
  /\ Appender(t).formatter # "valid"
  /\ spun' = spun \cup {run[t].logger}
  /\ UNCHANGED <<configVars, loggers, run, daemon>>

LeaveLogger(t) ==
  /\ run[t].at = "add" /\ ~More(t)
  /\ run' = [run EXCEPT ![t] = Between(@.left)]
  /\ UNCHANGED <<configVars, loggers, spun, daemon>>

\* ZZ_LOG_NAME() anywhere in the program.
UseLogger(n) ==
  /\ loggers[n] = None
  /\ loggers' = [loggers EXCEPT ![n] = NewLogger]
  /\ UNCHANGED <<configVars, run, spun, daemon>>

Listener(t) == \/ NotifyLogs(t) \/ GetLogger(t) \/ SetLevel(t)
               \/ SetFormatter(t) \/ ClearAppender(t)
               \/ SkipAppender(t) \/ AddAppender(t) \/ Spin(t)
               \/ LeaveLogger(t)

User(t) ==
  \/ \E k \in Keys : Lookup(t, k)
  \/ \E k \in Used :
       \/ ClearListener(t, k)
       \/ \E l \in Listeners \ {LogIniter} :
            AddListener(t, k, l) \/ DelListener(t, k, l)
       \/ \E v \in Values : SetValue(t, k, v)

Setter(t) == \/ \E doc \in Docs : Load(t, doc)
             \/ LoadFromConDir(t)
             \/ LoadNode(t)
             \/ ~IsLogIniter(t) /\ (Notify(t) \/ Throw(t))
             \/ Release(t) \/ Store(t)

\* A thread that spins or lists stays where it is, and may keep others there.
Stuck == /\ spun # {} \/ \E t \in Threads : call[t].pc = "listing"
         /\ UNCHANGED vars

Next ==
  \/ \E t \in Threads :
       \/ Idle(t) /\ (User(t) \/ Setter(t)) /\ UNCHANGED logVars
       \/ Listener(t)
  \/ \E n \in Names : UseLogger(n)
  \/ Stuck

Spec == Init /\ [][Next]_vars

(***************************************************************************)
(* Properties                                                              *)
(***************************************************************************)
\* Types, of the variables of Config as well (log.h:241-305, config.h:290-396).
TypeOK ==
  /\ ConfigTypeOK
  /\ loggers \in [Names -> {None} \cup Logger]
  /\ run \in [Threads -> Run]
  /\ spun \subseteq Names
  /\ daemon \in BOOLEAN

\* The types of the first m appenders of a definition that a logger has: all of
\* them, or those of files.
TypesUpTo(d, m) ==
  LET files == {i \in 1 .. m : d.appenders[i].type = "file"}
  IN IF daemon THEN [i \in 1 .. Cardinality(files) |-> "file"]
     ELSE [i \in 1 .. m |-> d.appenders[i].type]

\* A logger is as a value defines it, or it has no appenders.
Agrees(n, v) ==
  IF n \in DOMAIN v
  THEN /\ loggers[n] # None
       /\ loggers[n].level = v[n].level
       /\ loggers[n].appenders = TypesUpTo(v[n], Len(v[n].appenders))
  ELSE loggers[n] = None \/ loggers[n].appenders = <<>>

\* log.cc:677-740: the listener works by the difference of two values.  As long
\* as calls never got in each other's way and the listener is registered, the
\* loggers still agree with the variable whenever nobody is setting it: those it
\* defines have its level and just its appenders, and no others have any.
LoggersFollow ==
  ~Setting(Logs) /\ dispute[Logs] = "never" /\ LogIniter \in Registered(Logs)
  => \A n \in Names : Agrees(n, val[Logs])
================================================================================

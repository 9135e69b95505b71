-------------------------------- MODULE MCLog ---------------------------------
EXTENDS Log, TLC
CONSTANTS t1, t2, init, user, logs, bad, a, b

File == [type |-> "file", file |-> TRUE, formatter |-> "valid"]
NoFile == [type |-> "file", file |-> FALSE, formatter |-> "valid"]
Stdout == [type |-> "stdout", file |-> FALSE, formatter |-> "valid"]
Plain == [type |-> "stdout", file |-> FALSE, formatter |-> "invalid"]
Other == [type |-> "other", file |-> FALSE, formatter |-> ""]
Entry(n, level, formatter, appenders) ==
  [name |-> n, level |-> level, formatter |-> formatter,
   appenders |-> appenders]

\* Loggers that come, change and go; one value makes addAppender() spin.
Nothing == <<>>
One == FromYaml(<<Entry(a, "DEBUG", "", <<File, NoFile, Stdout>>)>>)
Two == FromYaml(<<Entry(a, "ERROR", "valid", <<File, Other>>),
                  Entry(b, "DEBUG", "invalid", <<>>),
                  Entry(b, "ERROR", "", <<Stdout>>)>>)
Spins == FromYaml(<<Entry(b, "DEBUG", "invalid", <<Plain>>)>>)
Unnamed == FromYaml(<<Entry(None, "ERROR", "", <<>>)>>)
SomeValues == {Nothing, One, Two, Spins}

SomeDocs == {<<[key |-> bad, value |-> One], [key |-> logs, value |-> Unnamed],
               [key |-> logs, value |-> Two]>>}
SymThreads == Permutations({t1, t2})
===============================================================================

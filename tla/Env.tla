---------------------------------- MODULE Env ----------------------------------
(***************************************************************************)
(* Env::init() (env.cc): the program's arguments, "-key" or "-key value".  *)
(* The loop over argv, from argv[0] on, remembers now_key.                 *)
(***************************************************************************)
EXTENDS Integers, Sequences

CONSTANT None

\* An argument that begins with "-", the key behind it, or any other one.
Dash(key) == [dash |-> TRUE, text |-> key]
Word(text) == [dash |-> FALSE, text |-> text]
Lone == Dash("")                \* "-" alone

Start == [args |-> <<>>, key |-> None, ok |-> TRUE]

\* add(): the last value of a key counts.
Add(args, key, val) ==
  [k \in DOMAIN args \cup {key} |-> IF k = key THEN val ELSE args[k]]
AddPending(st) == IF st.key = None THEN st
                  ELSE [st EXCEPT !.args = Add(@, st.key, ""), !.key = None]

KeepsKey(st, text) == [st EXCEPT !.args = Add(@, st.key, text)] \* variant
AddValue(st, text) == [st EXCEPT !.args = Add(@, st.key, text), !.key = None]
TakeArgument(st, a) ==
  IF ~st.ok THEN st
  ELSE IF a = Lone THEN [st EXCEPT !.ok = FALSE]
  ELSE IF a.dash THEN [AddPending(st) EXCEPT !.key = a.text]
  ELSE IF st.key # None THEN AddValue(st, a.text)
  ELSE [st EXCEPT !.ok = FALSE]

\* What init() returns, and m_args: a key still pending when an argument is
\* refused is forgotten.
Taken(argv) ==
  LET st[i \in 0 .. Len(argv)] == IF i = 0 THEN Start
                                  ELSE TakeArgument(st[i - 1], argv[i])
  IN st[Len(argv)]
InitArgs(argv) ==
  LET end == Taken(argv)
  IN IF end.ok THEN [ok |-> TRUE, args |-> AddPending(end).args]
     ELSE [ok |-> FALSE, args |-> end.args]

\* has(), get()
Has(args, key) == key \in DOMAIN args
Get(args, key, default) == IF Has(args, key) THEN args[key] ELSE default
================================================================================

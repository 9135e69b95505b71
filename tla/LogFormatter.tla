------------------------------ MODULE LogFormatter ------------------------------
(***************************************************************************)
(* LogFormatter::init() (log.cc): a pattern becomes a sequence of items.   *)
(* A pattern is a sequence of characters; the loop over it has a mode that *)
(* says what the next character is taken for.                              *)
(***************************************************************************)
EXTENDS Integers, Sequences, SequencesExt

CONSTANT Items        \* the letters of s_format_items, without "d" and "%"

DateItem == "d"
Open == "{"           \* the braces of a format
Close == "}"
Known(c) == c \in Items \cup {DateItem, "%"}

Text(s) == [item |-> "text", arg |-> s]
Item(c, arg) == [item |-> c, arg |-> arg]

\* vec, tmp, dateFormat, and the mode: plain text; behind "%"; behind "%d";
\* in its braces.
Scan == [vec |-> <<>>, tmp |-> <<>>, date |-> <<>>, mode |-> "text"]

FlushText(st) == IF st.tmp = <<>> THEN st
                 ELSE [st EXCEPT !.vec = Append(@, Text(st.tmp)), !.tmp = <<>>]
PlainChar(st, c) ==
  IF c = "%" THEN [FlushText(st) EXCEPT !.mode = "item"]
  ELSE [st EXCEPT !.tmp = Append(@, c), !.mode = "text"]
ItemChar(st, c) ==
  [st EXCEPT !.vec = Append(@, Item(c, <<>>)),
             !.mode = IF c = DateItem THEN "date?" ELSE "text"]
DateChar(st, c) == IF c = Close THEN [st EXCEPT !.mode = "text"]
                   ELSE [st EXCEPT !.date = Append(@, c)]
SwallowsChar(st, c) == [st EXCEPT !.mode = IF c = Open THEN "date" ELSE "text"]
                                                               \* variant
AfterDate(st, c) == IF c = Open THEN [st EXCEPT !.mode = "date"]
                    ELSE PlainChar(st, c)
Read(st, c) == CASE st.mode = "text"  -> PlainChar(st, c)
                 [] st.mode = "item"  -> ItemChar(st, c)
                 [] st.mode = "date?" -> AfterDate(st, c)
                 [] st.mode = "date"  -> DateChar(st, c)

\* "{" that is not closed is an error.  Behind a "%d" at the end the loop reads
\* two characters past the pattern, which may or may not be "}".
Unclosed(mode) == CASE mode = "date"  -> {TRUE}
                    [] mode = "date?" -> BOOLEAN
                    [] OTHER          -> {FALSE}

\* All "%d" get the one dateFormat.  Items up to an unknown one are made.
FirstUnknown(vec) == SelectInSeq(vec, LAMBDA v : v.item # "text" /\ ~Known(v.item))
Made(st) == [i \in DOMAIN st.vec |->
               IF st.vec[i].item = DateItem THEN Item(DateItem, st.date)
               ELSE st.vec[i]]
Formatter(st, unclosed) ==
  IF unclosed THEN [items |-> <<>>, error |-> TRUE]
  ELSE LET bad == FirstUnknown(st.vec)
       IN IF bad = 0 THEN [items |-> Made(st), error |-> FALSE]
          ELSE [items |-> SubSeq(Made(st), 1, bad - 1), error |-> TRUE]

\* The state at the end of a pattern.
Scanned(pattern) ==
  LET st[i \in 0 .. Len(pattern)] == IF i = 0 THEN Scan
                                     ELSE Read(st[i - 1], pattern[i])
  IN st[Len(pattern)]

\* The formatters a pattern may become.
Parse(pattern) ==
  LET end == Scanned(pattern)
  IN {Formatter(FlushText(end), unclosed) : unclosed \in Unclosed(end.mode)}
=================================================================================

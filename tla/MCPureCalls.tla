------------------------------ MODULE MCPureCalls ------------------------------
(***************************************************************************)
(* The calls TLC makes: real widths of addresses, short texts.             *)
(***************************************************************************)
EXTENDS PureCalls

Pattern01(n, f(_)) == [i \in 1 .. n |-> IF f(i) THEN 1 ELSE 0]
Kinds(n) == {Pattern01(n, LAMBDA i : FALSE), Pattern01(n, LAMBDA i : TRUE),
             Pattern01(n, LAMBDA i : i % 2 = 0), Pattern01(n, LAMBDA i : i % 3 = 1)}
FewAddresses4 == Kinds(IPv4Bits)
FewAddresses6 == Kinds(IPv6Bits + Byte)

ShortPaths == BoundedSeq({"a", "b"}, 3)
              \cup {<<Nul>> \o p : p \in BoundedSeq({"a"}, 2)}
LongPath(n) == [i \in 1 .. n |-> "a"]
LongPaths == {LongPath(n) : n \in SunPath - 2 .. SunPath + 1}
             \cup {<<Nul>> \o LongPath(n) : n \in SunPath - 2 .. SunPath + 1}
FewPaths == ShortPaths \cup LongPaths
ShortNodes == BoundedSeq({"x", ":"}, 4) \ {<<>>}
ShortServices == BoundedSeq({"y"}, 2)

SomeItems == {Text(<<"x">>), Text(<<"}", "m">>), Item("%", <<>>), Item("m", <<>>),
              Item("q", <<>>), Item("d", <<>>), Item("d", <<"m", "{">>)}
ShortPatterns == {s \in BoundedSeq(SomeItems, 4) : IsPattern(s)}

SomeArguments == {E!Dash("a"), E!Dash("b"), E!Lone, E!Word("v"), E!Word("")}
ShortArgvs == BoundedSeq(SomeArguments, 5) \ {<<>>}
================================================================================

------------------------------- MODULE PureCalls -------------------------------
(***************************************************************************)
(* One call of a function that keeps no state: the masks and texts of      *)
(* addresses, the pattern of a formatter, the arguments of the program.    *)
(* A state is a call with its arguments, and then with its result.         *)
(***************************************************************************)
EXTENDS Address, LogFormatter

CONSTANTS
  Addresses4, Addresses6,  \* addresses to mask
  GroupValues,             \* of an IPv6 address
  Paths,                   \* of a UnixAddress
  Nodes, Services,         \* parts of a host name
  Patterns,                \* items to write a pattern of
  Argvs                    \* arguments of the program

E == INSTANCE Env

\* What somebody may write: a node without brackets, a service without colon; a
\* path, or a name in the abstract space; items of a pattern, at most one "%d"
\* (all would get the same format), not bare at the end (the loop would read past
\* the pattern) and not followed by a text that would be read as its format.
Lacks(s, c) == \A i \in DOMAIN s : s[i] # c
IsNode(s) == s # <<>> /\ s[1] # "[" /\ Lacks(s, "]")
IsPath(s) == s # <<>> => s[1] = Nul \/ Lacks(s, Nul)
IsItem(v) == \/ v.item = "text" /\ v.arg # <<>> /\ Lacks(v.arg, "%")
             \/ v.item = "d" /\ Lacks(v.arg, Close)
             \/ v.item \notin {"text", "d"} /\ v.arg = <<>>
BareDate == Item("d", <<>>)
IsPattern(s) ==
  /\ \A i \in DOMAIN s : IsItem(s[i])
  /\ \A i, j \in DOMAIN s : s[i].item = "d" /\ s[j].item = "d" => i = j
  /\ \A i \in 1 .. Len(s) - 1 : s[i + 1].item = "text" =>
       s[i].item # "text" /\ (s[i] = BareDate => s[i + 1].arg[1] # Open)
  /\ s # <<>> => s[Len(s)] # BareDate

ASSUME PureCallsAssumption ==
  /\ Addresses4 \subseteq [1 .. IPv4Bits -> {0, 1}]
  /\ Addresses6 \subseteq [1 .. IPv6Bits + Byte -> {0, 1}]
  /\ \A s \in Nodes : s \in Seq(STRING) /\ IsNode(s)
  /\ \A s \in Services : s \in Seq(STRING) /\ Lacks(s, ":")
  /\ \A s \in Paths : s \in Seq(STRING) /\ IsPath(s)
  /\ \A s \in Patterns : s \in Seq([item: STRING, arg: Seq(STRING)]) /\ IsPattern(s)
  /\ \A s \in Argvs : /\ s \in Seq([dash: BOOLEAN, text: STRING]) /\ s # <<>>
                      /\ \A i \in DOMAIN s : s[i].text # None

VARIABLES call, result
callVars == <<call, result>>

Calls ==
  [to: {"IPv4"}, addr: Addresses4, prefix: 0 .. IPv4Bits + 1]
  \cup [to: {"IPv6"}, addr: Addresses6, prefix: 0 .. IPv6Bits]
  \cup [to: {"groups"}, groups: [Groups -> GroupValues]]
  \cup [to: {"path"}, path: Paths]
  \cup [to: {"host"}, node: Nodes, service: Services \cup {None}]
  \cup [to: {"pattern"}, items: Patterns]
  \cup [to: {"argv"}, argv: Argvs]

CallInit == call \in Calls /\ result = None

To(f) == call.to = f /\ result = None /\ UNCHANGED call
Done(f) == call.to = f /\ result # None

\* broadcastAddress(), networkAddress(), subnetMask() and the length of the mask
\* as GetInterfaceAddresses() finds it.
CallIPv4 ==
  /\ To("IPv4")
  /\ \E b \in Broadcast4(call.addr, call.prefix),
        n \in Network4(call.addr, call.prefix) :
       IF call.prefix > IPv4Bits
       THEN result' = [broadcast |-> b, network |-> n]
       ELSE \E m \in SubnetMask4(call.prefix) :
              result' = [broadcast |-> b, network |-> n, mask |-> m,
                         length |-> CountBytes(m)]
CallIPv6 ==
  /\ To("IPv6")
  /\ LET m == SubnetMask6(call.prefix) IN
     result' = [broadcast |-> Broadcast6(call.addr, call.prefix),
                network |-> Network6(call.addr, call.prefix),
                mask |-> m,
                length |-> CountBytes(SubSeq(m, 1, IPv6Bits))]

\* insert()
CallInsert ==
  \/ To("groups") /\ result' = PrintGroups(call.groups)
  \/ /\ To("path")
     /\ LET u == UnixAddress(call.path)
        IN result' = [thrown |-> u.thrown,
                      text |-> IF u.thrown THEN <<>> ELSE GetPath(u)]

\* Lookup() of a host name that somebody wrote: a node with colons needs
\* brackets, and a service a colon.
WriteHost(node, service) ==
  (IF Find(node, ":", 1) = 0 THEN node ELSE <<"[">> \o node \o <<"]">>)
  \o (IF service = None THEN <<>> ELSE <<":">> \o service)
CallLookup ==
  /\ To("host")
  /\ result' = Split(WriteHost(call.node, call.service))

\* A pattern that somebody wrote: text, "%c", and "%d" with or without a format.
WriteItem(v) ==
  IF v.item = "text" THEN v.arg
  ELSE IF v.arg = <<>> THEN <<"%", v.item>>
  ELSE <<"%", v.item, Open>> \o v.arg \o <<Close>>
WritePattern(items) == FlattenSeq([i \in DOMAIN items |-> WriteItem(items[i])])
CallPattern ==
  /\ To("pattern")
  /\ \E f \in Parse(WritePattern(call.items)) : result' = f

CallEnvInit ==
  /\ To("argv")
  /\ result' = E!InitArgs(call.argv)

CallNext == CallIPv4 \/ CallIPv6 \/ CallInsert \/ CallLookup \/ CallPattern
            \/ CallEnvInit
CallSpec == CallInit /\ [][CallNext]_callVars

(***************************************************************************)
(* Properties                                                              *)
(***************************************************************************)
\* x has the bits of y up to the prefix, and the bit b from there on.
Extends(x, y, prefix, b, bits) ==
  \A i \in 1 .. bits : x[i] = IF i <= prefix THEN y[i] ELSE b

\* address.cc:25-35, 310-340, 408-440, 142-156: the broadcast address keeps the
\* prefix and sets the rest, the network address of IPv4 clears the rest, the
\* subnet mask is the prefix, and an interface with that mask is listed with that
\* length.  A prefix of 0 shifts by the whole width for IPv4, and is left out.
MasksCohere ==
  /\ Done("IPv4") /\ call.prefix \in 1 .. IPv4Bits =>
       /\ Extends(result.broadcast, call.addr, call.prefix, 1, IPv4Bits)
       /\ Extends(result.network, call.addr, call.prefix, 0, IPv4Bits)
       /\ result.network = And(call.addr, result.mask)
       /\ result.length = call.prefix
  /\ Done("IPv6") =>
       /\ Extends(result.broadcast, call.addr, call.prefix, 1, IPv6Bits)
       /\ result.length = call.prefix
       /\ \A i \in 1 .. IPv6Bits : result.mask[i] = 1 <=> i <= call.prefix

\* The texts inet_pton() reads as the groups g: all of them, or "::" for a run of
\* zeros.
Join(s) == [k \in 1 .. 2 * Len(s) - 1 |-> IF k % 2 = 1 THEN s[(k + 1) \div 2]
                                           ELSE ":"]
ZeroRuns(g) == {p \in Groups \X Groups :
                  p[1] <= p[2] /\ \A k \in p[1] .. p[2] : g[k] = "0"}
Writings(g) ==
  {Join(g)} \cup
  {Join(SubSeq(g, 1, p[1] - 1)) \o <<":", ":">> \o Join(SubSeq(g, p[2] + 1, 8)) :
     p \in ZeroRuns(g)}

\* address.cc:382-406, 457-500: what insert() prints reads back as the address;
\* the empty path, which prints as the empty abstract name, is left out.  A path
\* fits into an address if there is room for its Nul, an abstract name needs
\* none, and just the longer ones are an error.
Abstract(path) == Head(path) = Nul
Room(path) == IF Abstract(path) THEN SunPath ELSE SunPath - 1
PrintReadsBack ==
  /\ Done("groups") => result \in Writings(call.groups)
  /\ Done("path") /\ call.path # <<>> =>
       /\ result.thrown = (Len(call.path) > Room(call.path))
       /\ ~result.thrown =>
            result.text = IF Abstract(call.path)
                          THEN <<"\\", "0">> \o Tail(call.path)
                          ELSE call.path

\* address.cc:73-101: Lookup() finds the node and the service of a host name that
\* was written with its brackets, whatever the service is.
HostIsSplit ==
  Done("host") => result = [node |-> call.node, service |-> call.service]

\* log.cc:226-355: a pattern becomes the items it was written of, or an error if
\* one of them is unknown.
PatternReadsBack ==
  Done("pattern") =>
    IF FirstUnknown(call.items) # 0 THEN result.error
    ELSE result = [items |-> call.items, error |-> FALSE]

\* env.cc:33-58: of arguments that begin with a key, init() refuses just those
\* with a lone "-" or a word that follows no key; of whatever it accepts, every
\* key has the word behind its last occurrence, or "".  A program's name in
\* argv[0] is CommandLineAccepted's.
Follows(argv, i) == /\ i + 1 \in DOMAIN argv /\ ~argv[i + 1].dash
LastOf(argv, key) == CHOOSE i \in DOMAIN argv :
  /\ argv[i] = E!Dash(key)
  /\ \A j \in i + 1 .. Len(argv) : argv[j] # E!Dash(key)
Misplaced(argv) ==
  \E i \in DOMAIN argv :
    argv[i] = E!Lone \/ (i > 1 /\ ~argv[i].dash /\ ~argv[i - 1].dash)
ArgumentsReadBack ==
  Done("argv") =>
    LET argv == call.argv
        keys == {argv[i].text : i \in {j \in DOMAIN argv : argv[j].dash}}
    IN /\ argv[1].dash => result.ok = ~Misplaced(argv)
       /\ result.ok => /\ DOMAIN result.args = keys
                       /\ \A k \in keys : LET i == LastOf(argv, k) IN
                            E!Get(result.args, k, None) =
                              IF Follows(argv, i) THEN argv[i + 1].text ELSE ""

\* env.cc:31-33, 103: init() accepts a command line as its comment and its help
\* show one, the program's name and then "-config /path/to/config -file xxxx -d".
CommandLineAccepted ==
  Done("argv") =>
    LET argv == call.argv
        options == Tail(argv)
    IN (~argv[1].dash /\ options # <<>> /\ options[1].dash /\ ~Misplaced(options))
       => result.ok
================================================================================

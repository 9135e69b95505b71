-------------------------------- MODULE Address --------------------------------
(***************************************************************************)
(* Addresses (address.h, address.cc): prefix masks, texts, and the host    *)
(* names Lookup() takes apart.  These are functions; no state is kept.     *)
(*                                                                         *)
(* An address is the sequence of its bits in memory, in network order.     *)
(* byteswapOnLittleEndian() turns a mask into that order, so that a mask   *)
(* is the sequence of its bits too, the highest one first.                 *)
(***************************************************************************)
EXTENDS Integers, Sequences, FiniteSets, SequencesExt

CONSTANT None

Byte == 8                       \* bits
IPv4Bits == 32
IPv6Bits == 16 * Byte
Groups == 1 .. 8                \* of 16 bits, of an IPv6 address
Or(x, y) == [i \in DOMAIN x |-> IF x[i] + y[i] > 0 THEN 1 ELSE 0]
And(x, y) == [i \in DOMAIN x |-> x[i] * y[i]]
Not(x) == [i \in DOMAIN x |-> 1 - x[i]]

(***************************************************************************)
(* Masks                                                                   *)
(***************************************************************************)
\* The number 2^n - 1 of w bits.
Low(w, n) == [i \in 1 .. w |-> IF i > w - n THEN 1 ELSE 0]

\* CreateMask<T>() for a type of w bits: (1 << (w - bits)) - 1.  The shift is
\* one of an int of 32 bits; by 32 it is undefined, and gives 0 or 1.
MaskOffByOne(w, bits) == {Low(w, w - bits - 1)}              \* variant
CreateMask(w, bits) == IF w - bits = 32 THEN {Low(w, 0), Low(w, w)}
                       ELSE {Low(w, w - bits)}

\* CountBytes() of the netmask of an interface: how many bits are set.
CountBytes(mask) == Cardinality({i \in DOMAIN mask : mask[i] = 1})

\* IPv4Address.  subnetMask() does not look at its argument.
Broadcast4(a, prefix) == IF prefix > IPv4Bits THEN {None}
                         ELSE {Or(a, m) : m \in CreateMask(IPv4Bits, prefix)}
Network4(a, prefix) == IF prefix > IPv4Bits THEN {None}
                       ELSE {And(a, Not(m)) : m \in CreateMask(IPv4Bits, prefix)}
SubnetMask4(prefix) == {Not(m) : m \in CreateMask(IPv4Bits, prefix)}

\* IPv6Address: sin6_addr, and the first byte of sin6_scope_id behind it, which
\* is what s6_addr[16] is, should the prefix be 128.
ByteOf(i) == (i - 1) \div Byte
InByte(i) == ((i - 1) % Byte) + 1
MaskBit(prefix, i) ==
  (CHOOSE m \in CreateMask(Byte, prefix % Byte) : TRUE)[InByte(i)]

Beyond(prefix, i) == ByteOf(i) > prefix \div Byte /\ i <= IPv6Bits
Broadcast6(a, prefix) ==
  [i \in DOMAIN a |->
     IF Beyond(prefix, i) THEN 1
     ELSE IF ByteOf(i) = prefix \div Byte
     THEN IF a[i] + MaskBit(prefix, i) > 0 THEN 1 ELSE 0
     ELSE a[i]]

\* The mask is not inverted: it takes away the network's bits of its byte.
Network6(a, prefix) ==
  [i \in DOMAIN a |->
     IF Beyond(prefix, i) THEN 0
     ELSE IF ByteOf(i) = prefix \div Byte THEN a[i] * MaskBit(prefix, i)
     ELSE a[i]]

SubnetMask6(prefix) ==
  [i \in 1 .. IPv6Bits + Byte |->
     IF ByteOf(i) < prefix \div Byte THEN 1
     ELSE IF ByteOf(i) = prefix \div Byte THEN 1 - MaskBit(prefix, i)
     ELSE 0]

(***************************************************************************)
(* Texts                                                                   *)
(***************************************************************************)
\* IPv6Address::insert(): the groups between the brackets, in order.
SkipsAll(g, i, used) == g[i] = "0"                              \* variant
SkipsZeros(g, i, used) == g[i] = "0" /\ ~used
PrintGroup(g, st, i) ==
  IF SkipsZeros(g, i, st.used) THEN st
  ELSE LET gap == i > 1 /\ g[i - 1] = "0" /\ ~st.used
       IN [text |-> st.text \o (IF gap THEN <<":">> ELSE <<>>)
                            \o (IF i > 1 THEN <<":">> ELSE <<>>) \o <<g[i]>>,
           used |-> st.used \/ gap]
Printed(g) ==                   \* what there is after each group
  LET st[i \in 0 .. 8] == IF i = 0 THEN [text |-> <<>>, used |-> FALSE]
                          ELSE PrintGroup(g, st[i - 1], i)
  IN st
PrintGroups(g) ==
  LET end == Printed(g)[8]
  IN IF ~end.used /\ g[8] = "0" THEN end.text \o <<":", ":">> ELSE end.text

\* UnixAddress of a path, which ends with a Nul unless it begins with one (a
\* name in the abstract space).  The constructor throws if sun_path is too small.
Nul == "\\0"
SunPath == 108                  \* sizeof(sockaddr_un::sun_path)
UnixAddress(path) ==
  LET len == IF path # <<>> /\ Head(path) = Nul THEN Len(path)
             ELSE Len(path) + 1
  IN [path |-> path, len |-> len, thrown |-> len > SunPath]

\* getPath(), insert(): the bytes behind the first, or up to the first Nul.
\* The bytes behind the path are Nul.
UpToNul(path) == SelectInSeq(path \o <<Nul>>, LAMBDA c : c = Nul) - 1
GetPath(u) ==
  LET bytes == u.path \o <<Nul>>
  IN IF u.len > 0 /\ Head(bytes) = Nul
     THEN <<"\\", "0">> \o SubSeq(bytes, 2, u.len)
     ELSE SubSeq(bytes, 1, UpToNul(u.path))

(***************************************************************************)
(* Lookup(): host, [host], host:service or [host]:service                  *)
(***************************************************************************)
Find(host, c, from) ==
  LET at == {i \in from .. Len(host) : host[i] = c}
  IN IF at = {} THEN 0 ELSE CHOOSE i \in at : \A j \in at : i <= j
From(host, i) == SubSeq(host, i, Len(host))
NotBracketed(host) == 0                                        \* variant
Bracketed(host) == IF host # <<>> /\ host[1] = "[" THEN Find(host, "]", 2) ELSE 0

\* The first part: what the brackets hold, and a service behind ":".
InBrackets(host) ==
  LET end == Bracketed(host)
  IN IF end = 0 THEN [node |-> <<>>, service |-> None]
     ELSE [node |-> SubSeq(host, 2, end - 1),
           service |-> IF end < Len(host) /\ host[end + 1] = ":"
                       THEN From(host, end + 2) ELSE None]

\* The second one, if the first found no node: a single ":" separates; of
\* several, the service is left at the first.
AtColon(host) ==
  LET colon == Find(host, ":", 1)
  IN IF colon = 0 THEN [node |-> <<>>, service |-> None]
     ELSE IF Find(host, ":", colon + 1) # 0
     THEN [node |-> <<>>, service |-> From(host, colon)]
     ELSE [node |-> SubSeq(host, 1, colon - 1),
           service |-> From(host, colon + 1)]

Parts(host) == IF InBrackets(host).node # <<>> THEN InBrackets(host)
               ELSE AtColon(host)
Split(host) == IF Parts(host).node # <<>> THEN Parts(host)
               ELSE [Parts(host) EXCEPT !.node = host]
================================================================================

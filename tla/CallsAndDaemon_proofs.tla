-------------------------- MODULE CallsAndDaemon_proofs --------------------------
(***************************************************************************)
(* Proofs about PureCalls, for every address, prefix, path, host name,     *)
(* pattern and argument vector, and about Daemon, for any number of        *)
(* process numbers, crashes and clock ticks.                               *)
(*                                                                         *)
(* The loops over groups, characters and arguments are recursive           *)
(* functions.  What they compute is proved by induction: the numbers at    *)
(* which a fact about the first n elements holds are a set with 0 that is  *)
(* closed under + 1, and so all of them (Induction, from the smallest      *)
(* number that is missing).                                                *)
(***************************************************************************)
EXTENDS Daemon, PureCalls, SequenceTheorems, FiniteSetTheorems,
        WellFoundedInduction, TLAPS

(***************************************************************************)
(* Induction, and sequences                                                *)
(***************************************************************************)

\* A set of numbers has a smallest one.
LEMMA Smallest ==
  ASSUME NEW T \in SUBSET Nat, T # {}
  PROVE  \E m \in T : \A k \in T : m <= k
<1> DEFINE R == OpToRel(<, Nat)
<1>1. IsWellFoundedOn(R, Nat)  BY NatLessThanWellFounded
<1>2. \A x, y \in Nat : x < y => <<x, y>> \in R  BY DEF OpToRel
<1> HIDE DEF R
<1>3. PICK x \in T : \A y \in T : ~ (<<y, x>> \in R)  BY <1>1, WFMin
<1>4. \A y \in T : ~(y < x)  BY <1>2, <1>3
<1> QED  BY <1>4

\* Induction on numbers, for a set instead of a formula.
LEMMA Induction ==
  ASSUME NEW S \in SUBSET Nat, 0 \in S, \A n \in S : n + 1 \in S
  PROVE  S = Nat
<1> SUFFICES ASSUME Nat \ S # {} PROVE FALSE  OBVIOUS
<1>1. PICK m \in Nat \ S : \A k \in Nat \ S : m <= k  BY Smallest
<1>2. m - 1 \in S  BY <1>1
<1> QED  BY <1>2

\* The first elements of a sequence, and one more.
LEMMA PrefixNext ==
  ASSUME NEW T, NEW s \in Seq(T), NEW k \in Nat, k < Len(s)
  PROVE  /\ SubSeq(s, 1, k) \in Seq(T) /\ s[k + 1] \in T
         /\ SubSeq(s, 1, k + 1) = Append(SubSeq(s, 1, k), s[k + 1])
<1>1. k + 1 \in 1 .. Len(s) /\ Len(s) \in Nat  OBVIOUS
<1>2. s[k + 1] \in T  BY <1>1
<1>3. SubSeq(s, 1, k) \in Seq(T) /\ Len(SubSeq(s, 1, k)) = k /\ \A i \in 1 .. k : SubSeq(s, 1, k)[i] = s[i]
  BY <1>1, SubSeqProperties
<1>4. SubSeq(s, 1, k + 1) = [i \in 1 .. k + 1 |-> s[i]]  BY <1>1, SubSeqProperties
<1> QED  BY <1>1, <1>2, <1>3, <1>4, AppendProperties

LEMMA PrefixEnds ==
  ASSUME NEW T, NEW s \in Seq(T)
  PROVE  SubSeq(s, 1, 0) = <<>> /\ SubSeq(s, 1, Len(s)) = s
<1>1. Len(s) \in Nat  OBVIOUS
<1>2. SubSeq(s, 1, Len(s)) = [i \in 1 .. Len(s) |-> s[i]]  BY <1>1, SubSeqProperties
<1> QED  BY <1>1, <1>2, SubSeqProperties

\* FlattenSeq(), one sequence after the other.
LEMMA FlatRec ==
  ASSUME NEW s, NEW n \in Nat \ {0}
  PROVE  \E g : g = [i \in 1 .. n |-> IF i = 1 THEN s[i] ELSE g[i - 1] \o s[i]]
<1> DEFINE Sol(g, m) == g = [i \in 1 .. m |-> IF i = 1 THEN s[i] ELSE g[i - 1] \o s[i]]
           S == {m \in Nat : \E g : Sol(g, m + 1)}
<1> HIDE DEF Sol
<1>1. 0 \in S
  <2> DEFINE g == [i \in 1 .. 1 |-> s[i]]
  <2>1. \A i \in 1 .. 1 : i = 1  OBVIOUS
  <2>2. g = [i \in 1 .. 1 |-> IF i = 1 THEN s[i] ELSE g[i - 1] \o s[i]]  BY <2>1
  <2>3. Sol(g, 1)  BY <2>2 DEF Sol
  <2> HIDE DEF g
  <2>4. 0 + 1 = 1  OBVIOUS
  <2> QED  BY <2>3, <2>4
<1>2. ASSUME NEW l \in S PROVE l + 1 \in S
  <2> DEFINE m == l + 1
  <2>1. m \in Nat /\ m >= 1  OBVIOUS
  <2>2. PICK g : Sol(g, m)  OBVIOUS
  <2>a. g = [i \in 1 .. m |-> IF i = 1 THEN s[i] ELSE g[i - 1] \o s[i]]
    BY <2>2 DEF Sol
  <2> DEFINE h == [i \in 1 .. m + 1 |-> IF i = m + 1 THEN g[m] \o s[m + 1] ELSE g[i]]
  <2> HIDE DEF m
  <2>3. Sol(h, m + 1)
    <3>1. ASSUME NEW i \in 1 .. m + 1
          PROVE  h[i] = (IF i = 1 THEN s[i] ELSE h[i - 1] \o s[i])
      <4>1. CASE i = m + 1
        <5>0. m \in 1 .. m + 1 /\ m + 1 \in 1 .. m + 1 /\ m # m + 1 /\ m + 1 # 1 /\ i - 1 = m
          BY <2>1, <4>1
        <5>1. h[m + 1] = g[m] \o s[m + 1] /\ h[m] = g[m]  BY <5>0
        <5> HIDE DEF h
        <5> QED  BY <4>1, <5>0, <5>1
      <4>2. CASE i # m + 1
        <5>1. i \in 1 .. m /\ (i # 1 => i - 1 \in 1 .. m)  BY <2>1, <4>2
        <5>2. h[i] = g[i] /\ (i # 1 => h[i - 1] = g[i - 1])  BY <2>1, <5>1
        <5>3. g[i] = (IF i = 1 THEN s[i] ELSE g[i - 1] \o s[i])  BY <2>a, <5>1
        <5> QED  BY <5>2, <5>3
      <4> QED  BY <4>1, <4>2
    <3>2. h = [i \in 1 .. m + 1 |-> IF i = 1 THEN s[i] ELSE h[i - 1] \o s[i]]
      <4> DEFINE H(x) == IF x = 1 THEN s[x] ELSE h[x - 1] \o s[x]
      <4>1. \A i \in 1 .. m + 1 : h[i] = H(i)  BY <3>1
      <4>2. h = [i \in 1 .. m + 1 |-> h[i]]  OBVIOUS
      <4> HIDE DEF H, h
      <4>3. h = [i \in 1 .. m + 1 |-> H(i)]  BY <4>1, <4>2
      <4> QED  BY <4>3 DEF H
    <3> HIDE DEF h
    <3> QED  BY <3>2 DEF Sol
  <2>4. \E g1 : Sol(g1, m + 1)
    <3> HIDE DEF h
    <3> QED  BY <2>3
  <2> QED  BY <2>1, <2>4 DEF m
<1>3. S = Nat
  <2>1. S \in SUBSET Nat  OBVIOUS
  <2> HIDE DEF S
  <2> QED  BY <1>1, <1>2, <2>1, Induction
<1>4. n - 1 \in S /\ (n - 1) + 1 = n
  <2>1. n - 1 \in Nat /\ (n - 1) + 1 = n  OBVIOUS
  <2> HIDE DEF S
  <2> QED  BY <1>3, <2>1
<1>5. \E g : Sol(g, n)  BY <1>4
<1> QED  BY <1>5 DEF Sol

\* FlattenSeq() of one more sequence.
LEMMA FlatNext ==
  ASSUME NEW T, NEW s \in Seq(Seq(T)), NEW t \in Seq(T)
  PROVE  /\ FlattenSeq(s) \in Seq(T)
         /\ FlattenSeq(Append(s, t)) = FlattenSeq(s) \o t
<1> DEFINE q == Append(s, t)
           m == Len(s)
           f == CHOOSE g : g = [i \in 1 .. m |-> IF i = 1 THEN s[i] ELSE g[i - 1] \o s[i]]
           h == CHOOSE g : g = [i \in 1 .. Len(q) |-> IF i = 1 THEN q[i] ELSE g[i - 1] \o q[i]]
<1> HIDE DEF f, h
<1>0. m \in Nat  BY LenProperties
<1>1. /\ m \in Nat /\ Len(q) = m + 1 /\ q[m + 1] = t /\ \A i \in 1 .. m : q[i] = s[i]
      /\ \A i \in 1 .. m : s[i] \in Seq(T)
  BY AppendProperties, LenProperties
<1>2. FlattenSeq(q) = h[m + 1]
  <2>1. Len(q) # 0  BY <1>1
  <2>2. FlattenSeq(q) = h[Len(q)]  BY <2>1 DEF FlattenSeq, h
  <2> QED  BY <1>1, <2>2
<1>3. FlattenSeq(s) = IF m = 0 THEN s ELSE f[m]  BY DEF FlattenSeq, f
<1>4. h = [i \in 1 .. m + 1 |-> IF i = 1 THEN q[i] ELSE h[i - 1] \o q[i]]
  <2> HIDE DEF q, m
  <2>1. m + 1 \in Nat \ {0}  BY <1>1
  <2>2. \E g : g = [i \in 1 .. m + 1 |-> IF i = 1 THEN q[i] ELSE g[i - 1] \o q[i]]
    <3> HIDE DEF h
    <3> QED  BY <2>1, FlatRec
  <2>3. h = CHOOSE g : g = [i \in 1 .. m + 1 |-> IF i = 1 THEN q[i] ELSE g[i - 1] \o q[i]]
    BY <1>1 DEF h
  <2> QED  BY <2>2, <2>3
<1>5. CASE m = 0
  <2>1. h[1] = q[1] /\ s = <<>>  BY <1>1, <1>4, <1>5
  <2>2. FlattenSeq(q) = t /\ FlattenSeq(s) = <<>>  BY <1>1, <1>2, <1>3, <1>5, <2>1
  <2> QED  BY <2>2
<1>6. CASE m # 0
  <2> HIDE DEF q, m
  <2> DEFINE F(g) == g = [i \in 1 .. m |-> IF i = 1 THEN s[i] ELSE g[i - 1] \o s[i]]
             S == {i \in Nat : i < m => f[i + 1] = h[i + 1] /\ f[i + 1] \in Seq(T)}
  <2>1. m \in Nat \ {0}  BY <1>0, <1>6, Zenon
  <2>2. F(f)
    <3>1. \E g : F(g)  BY <2>1, FlatRec
    <3> QED  BY <3>1 DEF f
  <2>3. 0 \in S  BY <1>1, <1>4, <2>1, <2>2
  <2>4. ASSUME NEW i \in S PROVE i + 1 \in S
    <3> SUFFICES ASSUME i + 1 < m
                 PROVE  f[(i + 1) + 1] = h[(i + 1) + 1] /\ f[(i + 1) + 1] \in Seq(T)
      OBVIOUS
    <3> DEFINE j == (i + 1) + 1
    <3>1. i + 1 \in 1 .. m /\ j \in 1 .. m /\ j \in 1 .. m + 1 /\ j # 1 /\ j - 1 = i + 1  BY <2>1
    <3>2. f[i + 1] = h[i + 1] /\ f[i + 1] \in Seq(T)  BY <2>1
    <3> HIDE DEF j
    <3>3. f[j] = f[j - 1] \o s[j]  BY <2>2, <3>1
    <3>4. h[j] = h[j - 1] \o q[j]  BY <1>4, <3>1
    <3>5. q[j] = s[j] /\ s[j] \in Seq(T)  BY <1>1, <3>1
    <3>6. f[j - 1] = h[j - 1] /\ f[j - 1] \in Seq(T)  BY <3>1, <3>2
    <3>7. f[j] = h[j]  BY <3>3, <3>4, <3>5, <3>6
    <3>8. f[j] \in Seq(T)
      <4>1. \A x, y \in Seq(T) : x \o y \in Seq(T)  OBVIOUS
      <4> QED  BY <3>3, <3>5, <3>6, <4>1
    <3> QED  BY <3>7, <3>8 DEF j
  <2>5. S = Nat
    <3>1. S \in SUBSET Nat  OBVIOUS
    <3> HIDE DEF S
    <3> QED  BY <2>3, <2>4, <3>1, Induction
  <2>6. f[m] = h[m] /\ f[m] \in Seq(T)
    <3>1. m - 1 \in Nat /\ (m - 1) + 1 = m /\ m - 1 < m  BY <2>1
    <3>2. m - 1 \in S  BY <2>5, <3>1
    <3> QED  BY <3>1, <3>2
  <2>7. h[m + 1] = h[m] \o t
    <3>1. m + 1 \in 1 .. m + 1 /\ m + 1 # 1 /\ (m + 1) - 1 = m  BY <2>1
    <3>2. h[m + 1] = h[(m + 1) - 1] \o q[m + 1]  BY <1>4, <3>1
    <3> QED  BY <1>1, <3>1, <3>2
  <2>8. FlattenSeq(q) = h[m] \o t  BY <1>2, <2>7
  <2>9. FlattenSeq(s) = f[m]  BY <1>3, <1>6
  <2> QED  BY <2>6, <2>8, <2>9 DEF q
<1> QED  BY <1>1, <1>5, <1>6

LEMMA FlatNone == FlattenSeq(<<>>) = <<>>
BY DEF FlattenSeq

(***************************************************************************)
(* Masks: IPv4Address, IPv6Address                                         *)
(***************************************************************************)

USE DEF Byte, IPv4Bits, IPv6Bits

\* A call of each kind has its own arguments, and only that action answers it.
LEMMA Kinds ==
  ASSUME call \in Calls
  PROVE  /\ call.to = "IPv4" => call.addr \in Addresses4 /\ call.prefix \in 0 .. IPv4Bits + 1
         /\ call.to = "IPv6" => call.addr \in Addresses6 /\ call.prefix \in 0 .. IPv6Bits
         /\ call.to = "groups" => call.groups \in [Groups -> GroupValues]
         /\ call.to = "path" => call.path \in Paths
         /\ call.to = "host" => call.node \in Nodes /\ call.service \in Services \cup {None}
         /\ call.to = "pattern" => call.items \in Patterns
         /\ call.to = "argv" => call.argv \in Argvs
BY DEF Calls

\* The bits of a byte that CreateMask<uint8_t>() sets are those from the prefix on.
LEMMA ByteMask ==
  ASSUME NEW prefix \in 0 .. 128, NEW i \in 1 .. 136
  PROVE  MaskBit(prefix, i) = IF InByte(i) > (prefix % 8) THEN 1 ELSE 0
<1>1. (prefix % 8) \in 0 .. 7 /\ (i - 1) % 8 \in 0 .. 7 /\ InByte(i) \in 1 .. 8  BY DEF InByte
<1>2. CreateMask(8, prefix % 8) = {Low(8, 8 - (prefix % 8))}  BY <1>1 DEF CreateMask
<1>3. MaskBit(prefix, i) = Low(8, 8 - (prefix % 8))[InByte(i)]  BY <1>2 DEF MaskBit
<1> QED  BY <1>1, <1>3 DEF Low

\* Where a bit is relative to the prefix, by its byte and its place in it.
LEMMA Places ==
  ASSUME NEW prefix \in 0 .. 128, NEW i \in 1 .. 136
  PROVE  /\ ByteOf(i) \in Nat /\ prefix \div 8 \in Nat
         /\ ByteOf(i) < prefix \div 8 => i <= prefix
         /\ ByteOf(i) > prefix \div 8 => i > prefix
         /\ ByteOf(i) = prefix \div 8 => (InByte(i) > (prefix % 8) <=> i > prefix)
<1>1. prefix = 8 * (prefix \div 8) + (prefix % 8) /\ (prefix % 8) \in 0 .. 7 /\ prefix \div 8 \in Nat  OBVIOUS
<1>2. i - 1 = 8 * ((i - 1) \div 8) + ((i - 1) % 8) /\ ((i - 1) % 8) \in 0 .. 7 /\ (i - 1) \div 8 \in Nat  OBVIOUS
<1> QED  BY <1>1, <1>2 DEF ByteOf, InByte

\* The mask of IPv4: no shift is by 32 bits from a prefix of 1 on.
LEMMA Mask4 ==
  ASSUME NEW prefix \in 1 .. 32
  PROVE  CreateMask(32, prefix) = {[i \in 1 .. 32 |-> IF i > prefix THEN 1 ELSE 0]}
<1>1. CreateMask(32, prefix) = {Low(32, 32 - prefix)}  BY DEF CreateMask
<1>2. 32 - (32 - prefix) = prefix  OBVIOUS
<1> QED  BY <1>1, <1>2 DEF Low

\* CountBytes() of a mask is its length.
LEMMA MaskLength ==
  ASSUME NEW w \in Nat, NEW p \in 0 .. w, NEW m,
         DOMAIN m = 1 .. w, \A i \in 1 .. w : m[i] = 1 <=> i <= p
  PROVE  CountBytes(m) = p
<1>1. {i \in DOMAIN m : m[i] = 1} = 1 .. p  OBVIOUS
<1>2. Cardinality(1 .. p) = p  BY FS_Interval
<1> QED  BY <1>1, <1>2 DEF CountBytes

\* What the assumption says of the addresses.
LEMMA Bits ==
  /\ \A a \in Addresses4 : a \in [1 .. 32 -> {0, 1}]
  /\ \A a \in Addresses6 : a \in [1 .. 136 -> {0, 1}]
<1>1. 16 * 8 + 8 = 136  OBVIOUS
<1> QED  BY <1>1, PureCallsAssumption

\* The calls for IPv4.
LEMMA Masks4 ==
  ASSUME CallIPv4, call \in Calls
  PROVE  MasksCohere'
<1> USE DEF Done, To
<1>1. call' = call /\ call.to = "IPv4"  BY DEF CallIPv4
<1>a. call.addr \in [1 .. 32 -> {0, 1}]  BY <1>1, Kinds, Bits
<1> SUFFICES ASSUME call.prefix \in 1 .. 32
             PROVE  /\ Extends(result'.broadcast, call.addr, call.prefix, 1, 32)
                    /\ Extends(result'.network, call.addr, call.prefix, 0, 32)
                    /\ result'.network = And(call.addr, result'.mask)
                    /\ result'.length = call.prefix
  BY <1>1 DEF MasksCohere
<1> DEFINE p == call.prefix
           a == call.addr
           m == [i \in 1 .. 32 |-> IF i > p THEN 1 ELSE 0]
           k == Not(m)
<1>2. CreateMask(32, p) = {m} /\ ~(p > 32)  BY Mask4
<1>3. k = [i \in 1 .. 32 |-> IF i <= p THEN 1 ELSE 0]  BY DEF Not
<1>4. Extends(Or(a, m), a, p, 1, 32)  BY <1>a DEF Extends, Or
<1>5. Extends(And(a, k), a, p, 0, 32)  BY <1>a, <1>3 DEF Extends, And
<1>6. CountBytes(k) = p
  <2>1. DOMAIN k = 1 .. 32 /\ \A i \in 1 .. 32 : k[i] = 1 <=> i <= p  BY <1>3
  <2>2. p \in 0 .. 32  OBVIOUS
  <2> HIDE DEF k, p
  <2> QED  BY <2>1, <2>2, MaskLength
<1> HIDE DEF m, a, p
<1>7. Broadcast4(a, p) = {Or(a, m)} /\ Network4(a, p) = {And(a, k)} /\ SubnetMask4(p) = {k}
  BY <1>2 DEF Broadcast4, Network4, SubnetMask4
<1> HIDE DEF k
<1>8. result' = [broadcast |-> Or(a, m), network |-> And(a, k), mask |-> k, length |-> CountBytes(k)]
  BY <1>2, <1>7 DEF CallIPv4, a, p
<1> QED  BY <1>4, <1>5, <1>6, <1>8 DEF a, p

\* The subnet mask of IPv6, bit by bit.
LEMMA MaskBits6 ==
  ASSUME NEW p \in 0 .. 128
  PROVE  SubnetMask6(p) = [i \in 1 .. 136 |-> IF ByteOf(i) > p \div 8 \/ i > p THEN 0 ELSE 1]
<1> SUFFICES ASSUME NEW i \in 1 .. 136
             PROVE  SubnetMask6(p)[i] = IF ByteOf(i) > p \div 8 \/ i > p THEN 0 ELSE 1
  BY DEF SubnetMask6
<1>1. SubnetMask6(p)[i] = IF ByteOf(i) < p \div 8 THEN 1
        ELSE IF ByteOf(i) = p \div 8 THEN 1 - MaskBit(p, i) ELSE 0
  <2> DEFINE H(j) == IF ByteOf(j) < p \div 8 THEN 1
                     ELSE IF ByteOf(j) = p \div 8 THEN 1 - MaskBit(p, j) ELSE 0
  <2>1. 16 * 8 + 8 = 136  OBVIOUS
  <2>2. SubnetMask6(p) = [j \in 1 .. 136 |-> H(j)]  BY <2>1, Zenon DEF SubnetMask6
  <2> HIDE DEF H
  <2>3. SubnetMask6(p)[i] = H(i)  BY <2>2
  <2> QED  BY <2>3 DEF H
<1>2. MaskBit(p, i) = IF InByte(i) > (p % 8) THEN 1 ELSE 0  BY ByteMask, ZenonT(60)
<1>3. /\ ByteOf(i) \in Nat /\ p \div 8 \in Nat
      /\ ByteOf(i) < p \div 8 => i <= p
      /\ ByteOf(i) = p \div 8 => (InByte(i) > (p % 8) <=> i > p)
  BY Places, ZenonT(60)
<1> QED  BY <1>1, <1>2, <1>3

\* The broadcast address of IPv6, bit by bit.
LEMMA BroadcastBits6 ==
  ASSUME NEW p \in 0 .. 128, NEW a \in [1 .. 136 -> {0, 1}], NEW i \in 1 .. 128
  PROVE  Broadcast6(a, p)[i] = IF i <= p THEN a[i] ELSE 1
<1>1. Broadcast6(a, p)[i] = IF Beyond(p, i) THEN 1
        ELSE IF ByteOf(i) = p \div 8 THEN IF a[i] + MaskBit(p, i) > 0 THEN 1 ELSE 0
        ELSE a[i]
  BY DEF Broadcast6
<1>2. i \in 1 .. 136  OBVIOUS
<1>3. MaskBit(p, i) = IF InByte(i) > (p % 8) THEN 1 ELSE 0  BY <1>2, ByteMask, ZenonT(60)
<1>4. Beyond(p, i) <=> ByteOf(i) > p \div 8  BY DEF Beyond
<1>5. a[i] \in {0, 1}  BY <1>2
<1>6. /\ ByteOf(i) \in Nat /\ p \div 8 \in Nat
      /\ ByteOf(i) < p \div 8 => i <= p
      /\ ByteOf(i) > p \div 8 => i > p
      /\ ByteOf(i) = p \div 8 => (InByte(i) > (p % 8) <=> i > p)
  BY <1>2, Places, ZenonT(60)
<1> QED  BY <1>1, <1>3, <1>4, <1>5, <1>6

\* The calls for IPv6.
LEMMA Masks6 ==
  ASSUME CallIPv6, call \in Calls
  PROVE  MasksCohere'
<1> DEFINE p == call.prefix
           a == call.addr
           m == SubnetMask6(p)
           n == SubSeq(m, 1, 128)
<1>1. call' = call /\ call.to = "IPv6"  BY DEF CallIPv6, To
<1>2. a \in [1 .. 136 -> {0, 1}] /\ p \in 0 .. 128  BY <1>1, Kinds, Bits
<1>3. result'.broadcast = Broadcast6(a, p) /\ result'.mask = m
      /\ result'.length = CountBytes(n)
  <2>1. 16 * 8 = 128  OBVIOUS
  <2> DEFINE b == Broadcast6(a, p)
             k == Network6(a, p)
             c == CountBytes(n)
  <2>2. result' = [broadcast |-> b, network |-> k, mask |-> m, length |-> c]
    BY <2>1, Zenon DEF CallIPv6
  <2> HIDE DEF a, p, m, n, b, k, c
  <2>3. result'.broadcast = b /\ result'.mask = m /\ result'.length = c  BY <2>2
  <2> QED  BY <2>3 DEF b, c
<1> HIDE DEF a, p
<1>4. Extends(Broadcast6(a, p), a, p, 1, 128)  BY <1>2, BroadcastBits6, ZenonT(60) DEF Extends
<1>5. m = [i \in 1 .. 136 |-> IF ByteOf(i) > p \div 8 \/ i > p THEN 0 ELSE 1]
  BY <1>2, MaskBits6, ZenonT(60)
<1> HIDE DEF m
<1>6. m \in Seq(Int) /\ Len(m) = 136  BY <1>5
<1>7. \A i \in 1 .. 128 : m[i] = 1 <=> i <= p
  <2> SUFFICES ASSUME NEW i \in 1 .. 128 PROVE m[i] = 1 <=> i <= p  OBVIOUS
  <2>1. i \in 1 .. 136  OBVIOUS
  <2>2. ByteOf(i) > p \div 8 => i > p  BY <1>2, <2>1, Places, ZenonT(60)
  <2> QED  BY <1>2, <1>5, <2>1, <2>2
<1>8. n = [i \in 1 .. 128 |-> m[i]]  BY <1>6, SubSeqProperties
<1>9. CountBytes(n) = p
  <2> HIDE DEF n
  <2>1. DOMAIN n = 1 .. 128 /\ \A i \in 1 .. 128 : n[i] = 1 <=> i <= p  BY <1>7, <1>8
  <2>2. p \in 0 .. 128  BY <1>2
  <2>3. 128 \in Nat  OBVIOUS
  <2> QED  BY <2>1, <2>2, <2>3, MaskLength, ZenonT(60)
<1> QED  BY <1>1, <1>3, <1>4, <1>7, <1>9 DEF MasksCohere, Done, a, p

HIDE DEF Byte, IPv4Bits, IPv6Bits

(***************************************************************************)
(* Texts: insert()                                                         *)
(***************************************************************************)

\* A path, and a name in the abstract space, which fit in sun_path.
LEMMA PathRead ==
  ASSUME NEW path \in Seq(STRING), path # <<>>, IsPath(path)
  PROVE  /\ GetPath(UnixAddress(path))
              = IF Abstract(path) THEN <<"\\", "0">> \o Tail(path) ELSE path
         /\ UnixAddress(path).thrown = (Len(path) > Room(path))
<1> DEFINE n == Len(path)
           T == STRING \cup {Nul}
           bytes == path \o <<Nul>>
           u == UnixAddress(path)
<1>1. n \in Nat \ {0} /\ path \in Seq(T) /\ Nul \in T  OBVIOUS
<1> HIDE DEF T
<1>2. /\ bytes \in Seq(T) /\ Len(bytes) = n + 1 /\ bytes[n + 1] = Nul
      /\ \A i \in 1 .. n : bytes[i] = path[i]
  BY <1>1
<1>3. Head(path) = path[1] /\ Head(bytes) = path[1]
  <2> HIDE DEF bytes
  <2>1. Head(bytes) = bytes[1]  BY <1>1, <1>2
  <2> QED  BY <1>1, <1>2, <2>1
<1>4. /\ u.path = path
      /\ u.len = IF path[1] = Nul THEN n ELSE n + 1
      /\ u.thrown = (u.len > SunPath)
  BY <1>3 DEF UnixAddress
<1>10. u.thrown = (n > Room(path))
  BY <1>1, <1>3, <1>4 DEF Room, Abstract, SunPath
<1>5. u.len > 0  BY <1>1, <1>4
<1> HIDE DEF bytes, n, u
<1>6. CASE path[1] = Nul
  <2>1. GetPath(u) = <<"\\", "0">> \o SubSeq(bytes, 2, n)
    BY <1>3, <1>4, <1>5, <1>6 DEF GetPath, bytes
  <2>2. SubSeq(bytes, 2, n) = Tail(path)
    <3>1. SubSeq(bytes, 2, n) \in Seq(T) /\ Len(SubSeq(bytes, 2, n)) = n - 1
          /\ \A i \in 1 .. n - 1 : SubSeq(bytes, 2, n)[i] = bytes[i + 1]
      BY <1>1, <1>2
    <3>2. Tail(path) \in Seq(T) /\ Len(Tail(path)) = n - 1
          /\ \A i \in 1 .. n - 1 : Tail(path)[i] = path[i + 1]
      BY <1>1 DEF n
    <3>3. \A i \in 1 .. n - 1 : bytes[i + 1] = path[i + 1]  BY <1>1, <1>2
    <3> DEFINE x == SubSeq(bytes, 2, n)
               y == Tail(path)
    <3> HIDE DEF x, y
    <3>4. x \in Seq(T) /\ y \in Seq(T) /\ Len(x) = n - 1 /\ Len(y) = n - 1
          /\ \A i \in 1 .. n - 1 : x[i] = y[i]
      BY <3>1, <3>2, <3>3 DEF x, y
    <3>5. x = y  BY <3>4, SeqEqual
    <3> QED  BY <3>5 DEF x, y
  <2> QED  BY <1>3, <1>6, <1>10, <2>1, <2>2 DEF u, n, Abstract
<1>7. CASE path[1] # Nul
  <2>1. \A i \in 1 .. n : path[i] # Nul
    <3>1. DOMAIN path = 1 .. n  BY DEF n
    <3> QED  BY <1>7, <3>1 DEF IsPath, Lacks
  <2>2. GetPath(u) = SubSeq(bytes, 1, UpToNul(path))
    BY <1>3, <1>4, <1>5, <1>7 DEF GetPath, bytes
  <2>3. UpToNul(path) = n
    <3> DEFINE I == {i \in 1 .. Len(bytes) : bytes[i] = Nul}
    <3>1. I = {n + 1}  BY <1>1, <1>2, <2>1
    <3>2. UpToNul(path) = (IF I # {} THEN Min(I) ELSE 0) - 1
      BY DEF UpToNul, SelectInSeq, bytes
    <3>3. Min({n + 1}) = n + 1  BY <1>1 DEF Min
    <3> HIDE DEF I
    <3> QED  BY <1>1, <3>1, <3>2, <3>3
  <2>4. SubSeq(bytes, 1, n) = path
    <3> DEFINE x == SubSeq(bytes, 1, n)
    <3>1. x \in Seq(T) /\ Len(x) = n /\ \A i \in 1 .. n : x[i] = bytes[i]
      BY <1>1, <1>2
    <3> HIDE DEF x
    <3>2. x = path  BY <1>1, <1>2, <3>1, SeqEqual DEF n
    <3> QED  BY <3>2 DEF x
  <2> QED  BY <1>3, <1>7, <1>10, <2>2, <2>3, <2>4 DEF u, n, Abstract
<1> QED  BY <1>6, <1>7

\* One more group, behind a colon.
LEMMA JoinNext ==
  ASSUME NEW T, NEW s \in Seq(T), NEW x \in T
  PROVE  /\ Join(s) \in Seq(T \cup {":"})
         /\ Join(Append(s, x)) = IF s = <<>> THEN <<x>>
                                 ELSE (Join(s) \o <<":">>) \o <<x>>
<1> DEFINE n == Len(s)
           q == Append(s, x)
           C == T \cup {":"}
<1>1. n \in Nat /\ q \in Seq(T) /\ Len(q) = n + 1 /\ q[n + 1] = x
      /\ \A i \in 1 .. n : q[i] = s[i]
  BY AppendProperties, LenProperties
<1>2. ASSUME NEW r \in Seq(T), r # <<>>
      PROVE  /\ Join(r) \in Seq(C) /\ Len(Join(r)) = 2 * Len(r) - 1
             /\ \A k \in 1 .. 2 * Len(r) - 1 :
                  Join(r)[k] = IF k % 2 = 1 THEN r[(k + 1) \div 2] ELSE ":"
  <2> DEFINE m == Len(r)
             F(k) == IF k % 2 = 1 THEN r[(k + 1) \div 2] ELSE ":"
  <2>1. m \in Nat \ {0}  BY <1>2
  <2>2. ASSUME NEW k \in 1 .. 2 * m - 1 PROVE F(k) \in C
    <3>1. k % 2 = 1 => (k + 1) \div 2 \in 1 .. m  BY <2>1
    <3> QED  BY <3>1
  <2>3. Join(r) = [k \in 1 .. 2 * m - 1 |-> F(k)]  BY DEF Join
  <2> HIDE DEF F, m, C
  <2>4. 2 * m - 1 \in Nat  BY <2>1
  <2>5. Join(r) \in Seq(C) /\ Len(Join(r)) = 2 * m - 1
        /\ \A k \in 1 .. 2 * m - 1 : Join(r)[k] = F(k)
    BY <2>2, <2>3, <2>4
  <2> QED  BY <2>5 DEF F, m
<1>3. CASE s = <<>>
  <2>1. q = <<x>> /\ Join(s) = <<>>  BY <1>3 DEF Join
  <2>2. Len(<<x>>) = 1 /\ <<x>>[1] = x  OBVIOUS
  <2>3. Join(<<x>>) = [k \in 1 .. 1 |-> IF k % 2 = 1 THEN <<x>>[(k + 1) \div 2] ELSE ":"]
    BY <2>2 DEF Join
  <2>4. Join(<<x>>) = <<x>>  BY <2>3
  <2>5. <<>> \in Seq(C)  OBVIOUS
  <2> QED  BY <1>3, <2>1, <2>4, <2>5
<1>4. CASE s # <<>>
  <2> DEFINE j == Join(s)
             y == (j \o <<":">>) \o <<x>>
             z == Join(q)
  <2>1. n > 0 /\ q # <<>>  BY <1>1, <1>4
  <2>2. /\ j \in Seq(C) /\ Len(j) = 2 * n - 1
        /\ \A k \in 1 .. 2 * n - 1 : j[k] = IF k % 2 = 1 THEN s[(k + 1) \div 2] ELSE ":"
    BY <1>2, <1>4
  <2>3. /\ z \in Seq(C) /\ Len(z) = 2 * (n + 1) - 1
        /\ \A k \in 1 .. 2 * (n + 1) - 1 : z[k] = IF k % 2 = 1 THEN q[(k + 1) \div 2] ELSE ":"
    BY <1>1, <1>2, <2>1
  <2>4. x \in C /\ ":" \in C  OBVIOUS
  <2> HIDE DEF j, z, C, n, q
  <2>5. /\ y \in Seq(C) /\ Len(y) = 2 * n + 1 /\ y[2 * n] = ":" /\ y[2 * n + 1] = x
        /\ \A k \in 1 .. 2 * n - 1 : y[k] = j[k]
    <3> DEFINE a == j \o <<":">>
    <3>1. a \in Seq(C) /\ Len(a) = 2 * n /\ a[2 * n] = ":"
          /\ \A k \in 1 .. 2 * n - 1 : a[k] = j[k]
      <4> DEFINE m == 2 * n - 1
      <4>1. m \in Nat /\ m + 1 = 2 * n /\ j \in Seq(C) /\ Len(j) = m  BY <1>1, <2>1, <2>2
      <4> HIDE DEF m
      <4>2. a \in Seq(C) /\ Len(a) = m + 1 /\ a[m + 1] = ":" /\ \A k \in 1 .. m : a[k] = j[k]
        BY <2>4, <4>1
      <4> QED  BY <4>1, <4>2 DEF m
    <3> HIDE DEF a
    <3>2. LET b == a \o <<x>>
          IN  /\ b \in Seq(C) /\ Len(b) = 2 * n + 1 /\ b[2 * n + 1] = x
              /\ \A k \in 1 .. 2 * n : b[k] = a[k]
      <4> DEFINE m == 2 * n
      <4>1. m \in Nat /\ a \in Seq(C) /\ Len(a) = m  BY <1>1, <3>1
      <4> HIDE DEF m
      <4>2. LET b == a \o <<x>>
            IN  /\ b \in Seq(C) /\ Len(b) = m + 1 /\ b[m + 1] = x
                /\ \A k \in 1 .. m : b[k] = a[k]
        BY <2>4, <4>1
      <4> QED  BY <4>2 DEF m
    <3> QED  BY <1>1, <2>1, <3>1, <3>2 DEF a
  <2> HIDE DEF y
  <2>6. ASSUME NEW k \in 1 .. 2 * n + 1 PROVE z[k] = y[k]
    <3>1. CASE k = 2 * n + 1
      <4>1. k % 2 = 1 /\ (k + 1) \div 2 = n + 1  BY <1>1, <3>1
      <4> QED  BY <1>1, <2>3, <2>5, <3>1, <4>1
    <3>2. CASE k = 2 * n
      <4>1. k % 2 # 1  BY <1>1, <3>2
      <4> QED  BY <1>1, <2>3, <2>5, <3>2, <4>1
    <3>3. CASE k \in 1 .. 2 * n - 1
      <4>1. k % 2 = 1 => (k + 1) \div 2 \in 1 .. n  BY <1>1, <3>3
      <4>2. z[k] = IF k % 2 = 1 THEN q[(k + 1) \div 2] ELSE ":"  BY <1>1, <2>3
      <4>3. y[k] = IF k % 2 = 1 THEN s[(k + 1) \div 2] ELSE ":"  BY <2>2, <2>5, <3>3
      <4> QED  BY <1>1, <4>1, <4>2, <4>3
    <3>4. k = 2 * n + 1 \/ k = 2 * n \/ k \in 1 .. 2 * n - 1
      <4>1. n \in Nat  BY <1>1
      <4> QED  BY <4>1
    <3> QED  BY <3>1, <3>2, <3>3, <3>4
  <2>7. y = z
    <3>1. 2 * (n + 1) - 1 = 2 * n + 1  BY <1>1
    <3> QED  BY <2>3, <2>5, <2>6, <3>1, SeqEqual
  <2> QED  BY <1>4, <2>2, <2>7 DEF y, z, q, j, C
<1> QED  BY <1>3, <1>4

\* The recursion of Printed() has a solution.
LEMMA PrintedRec ==
  ASSUME NEW g, NEW n \in Nat
  PROVE  \E s : s = [i \in 0 .. n |-> IF i = 0 THEN [text |-> <<>>, used |-> FALSE]
                                      ELSE PrintGroup(g, s[i - 1], i)]
<1> DEFINE F(x, i) == IF i = 0 THEN [text |-> <<>>, used |-> FALSE]
                      ELSE PrintGroup(g, x, i)
           Sol(s, m) == s = [i \in 0 .. m |-> F(s[i - 1], i)]
           S == {m \in Nat : \E s : Sol(s, m)}
<1>0. \A x, y : F(x, 0) = F(y, 0)  OBVIOUS
<1> HIDE DEF F
<1>1. 0 \in S
  <2> DEFINE s == [i \in 0 .. 0 |-> F(0, 0)]
  <2>1. \A i \in 0 .. 0 : i = 0  OBVIOUS
  <2>2. Sol(s, 0)  BY <1>0, <2>1
  <2> HIDE DEF s, Sol
  <2> QED  BY <2>2
<1>2. ASSUME NEW m \in S PROVE m + 1 \in S
  <2>1. PICK s : Sol(s, m)  OBVIOUS
  <2> DEFINE h == [i \in 0 .. m + 1 |-> IF i = m + 1 THEN F(s[m], m + 1) ELSE s[i]]
  <2>2. Sol(h, m + 1)
    <3>1. ASSUME NEW i \in 0 .. m + 1 PROVE h[i] = F(h[i - 1], i)
      <4>1. CASE i = m + 1  BY <4>1
      <4>2. CASE i # m + 1
        <5>1. i \in 0 .. m /\ (i # 0 => i - 1 \in 0 .. m)  BY <4>2
        <5>2. h[i] = s[i] /\ (i # 0 => h[i - 1] = s[i - 1])  BY <5>1
        <5>3. s[i] = F(s[i - 1], i)  BY <2>1, <5>1
        <5> QED  BY <1>0, <5>2, <5>3
      <4> QED  BY <4>1, <4>2
    <3> QED  BY <3>1
  <2> HIDE DEF h, Sol
  <2> QED  BY <2>2
<1>3. S = Nat
  <2>1. S \in SUBSET Nat  OBVIOUS
  <2> HIDE DEF S
  <2> QED  BY <1>1, <1>2, <2>1, Induction
<1>4. \E s : Sol(s, n)  BY <1>3
<1> QED  BY <1>4 DEF F

\* What there is after no group, and after one more.
LEMMA PrintedNext ==
  ASSUME NEW g
  PROVE  /\ Printed(g)[0] = [text |-> <<>>, used |-> FALSE]
         /\ \A i \in Groups : Printed(g)[i] = PrintGroup(g, Printed(g)[i - 1], i)
<1> DEFINE f == CHOOSE s : s = [i \in 0 .. 8 |-> IF i = 0 THEN [text |-> <<>>, used |-> FALSE]
                                                 ELSE PrintGroup(g, s[i - 1], i)]
<1>1. Printed(g) = f  BY DEF Printed
<1>2. f = [i \in 0 .. 8 |-> IF i = 0 THEN [text |-> <<>>, used |-> FALSE]
                            ELSE PrintGroup(g, f[i - 1], i)]
  <2>1. 8 \in Nat  OBVIOUS
  <2> QED  BY <2>1, PrintedRec
<1> HIDE DEF f
<1>3. f[0] = [text |-> <<>>, used |-> FALSE]  BY <1>2
<1>4. ASSUME NEW i \in 1 .. 8 PROVE f[i] = PrintGroup(g, f[i - 1], i)
  <2> DEFINE F(j) == IF j = 0 THEN [text |-> <<>>, used |-> FALSE]
                     ELSE PrintGroup(g, f[j - 1], j)
  <2>1. f = [j \in 0 .. 8 |-> F(j)]  BY <1>2
  <2>2. i \in 0 .. 8 /\ i # 0  OBVIOUS
  <2> HIDE DEF F
  <2>3. f[i] = F(i)  BY <2>1, <2>2
  <2> QED  BY <2>2, <2>3 DEF F
<1> QED  BY <1>1, <1>3, <1>4 DEF Groups

\* A part of the groups and the next one.
LEMMA PartNext ==
  ASSUME NEW T, NEW g \in Seq(T), NEW i \in 0 .. Len(g) - 1, NEW a \in 1 .. i + 1
  PROVE  /\ SubSeq(g, a, i) \in Seq(T) /\ g[i + 1] \in T
         /\ SubSeq(g, a, i) = <<>> <=> a = i + 1
         /\ SubSeq(g, a, i + 1) = Append(SubSeq(g, a, i), g[i + 1])
<1> DEFINE s == SubSeq(g, a, i)
           q == SubSeq(g, a, i + 1)
           m == i + 1 - a
           x == g[i + 1]
<1>1. m \in Nat /\ i \in Nat /\ x \in T  OBVIOUS
<1>2. s \in Seq(T) /\ Len(s) = m /\ \A k \in 1 .. m : s[k] = g[a + k - 1]  OBVIOUS
<1>3. q \in Seq(T) /\ Len(q) = m + 1 /\ \A k \in 1 .. m + 1 : q[k] = g[a + k - 1]  OBVIOUS
<1>4. a + (m + 1) - 1 = i + 1  OBVIOUS
<1>5. m = 0 <=> a = i + 1  OBVIOUS
<1> HIDE DEF s, q, m
<1>6. q[m + 1] = x  BY <1>1, <1>3, <1>4
<1> HIDE DEF x
<1>7. Append(s, x) \in Seq(T) /\ Len(Append(s, x)) = m + 1
      /\ \A k \in 1 .. m + 1 : Append(s, x)[k] = q[k]
  BY <1>1, <1>2, <1>3, <1>6, SMTT(60)
<1>8. q = Append(s, x)  BY <1>3, <1>7, SeqEqual
<1>9. s = <<>> <=> m = 0  BY <1>1, <1>2
<1> QED  BY <1>1, <1>2, <1>5, <1>8, <1>9 DEF s, q, x

\* A function on 1 .. n is a sequence.
LEMMA SeqOfFunction ==
  ASSUME NEW T, NEW n \in Nat, NEW g \in [1 .. n -> T]
  PROVE  g \in Seq(T) /\ Len(g) = n
OBVIOUS

Zeros(g, a, b) == \A k \in a .. b : g[k] = "0"

Before(g, a) == Join(SubSeq(g, 1, a))

Behind(g, b, i) == Join(SubSeq(g, b + 1, i))

\* What there is after i groups: those before the first zeros, or also the gap and
\* those behind it.
AfterGroup(g, i, st) ==
  IF st.used
  THEN \E a \in Groups : \E b \in Groups :
         /\ a <= b /\ b < i /\ Zeros(g, a, b)
         /\ st.text = (Before(g, a - 1) \o <<":", ":">>) \o Behind(g, b, i)
  ELSE \E a \in 0 .. i :
         /\ \A k \in 1 .. a : g[k] # "0"
         /\ Zeros(g, a + 1, i)
         /\ st.text = Before(g, a)

\* One more group.
LEMMA NextGroup ==
  ASSUME NEW g \in [Groups -> GroupValues], NEW st, NEW i \in 0 .. 7, AfterGroup(g, i, st)
  PROVE  AfterGroup(g, i + 1, PrintGroup(g, st, i + 1))
<1> DEFINE T == GroupValues
           C == T \cup {":"}
           x == g[i + 1]
           r == PrintGroup(g, st, i + 1)
<1>1. g \in Seq(T) /\ Len(g) = 8 /\ i \in 0 .. Len(g) - 1
  <2>1. 8 \in Nat /\ g \in [1 .. 8 -> T]  BY DEF Groups
  <2>2. g \in Seq(T) /\ Len(g) = 8
    <3> DEFINE n == 8
    <3>1. n \in Nat /\ g \in [1 .. n -> T]  BY <2>1
    <3> HIDE DEF n, T
    <3>2. g \in Seq(T) /\ Len(g) = n  BY <3>1, SeqOfFunction
    <3> QED  BY <3>2 DEF n
  <2> QED  BY <2>2
<1>2. i + 1 \in Groups /\ x \in T /\ (i + 1) - 1 = i  BY DEF Groups
<1>3. ASSUME NEW a \in 1 .. i + 1
      PROVE  /\ Join(SubSeq(g, a, i)) \in Seq(C)
             /\ Join(SubSeq(g, a, i + 1)) = IF a = i + 1 THEN <<x>>
                                            ELSE (Join(SubSeq(g, a, i)) \o <<":">>) \o <<x>>
  <2> DEFINE s == SubSeq(g, a, i)
  <2>1. s \in Seq(T) /\ x \in T /\ (s = <<>> <=> a = i + 1)
        /\ SubSeq(g, a, i + 1) = Append(s, x)
    BY <1>1, PartNext
  <2> HIDE DEF s, x, T
  <2>2. Join(s) \in Seq(C)
        /\ Join(Append(s, x)) = IF s = <<>> THEN <<x>> ELSE (Join(s) \o <<":">>) \o <<x>>
    BY <2>1, JoinNext
  <2> QED  BY <2>1, <2>2 DEF s
<1>4. CASE st.used
  <2>1. PICK a \in Groups, b \in Groups :
          /\ a <= b /\ b < i /\ Zeros(g, a, b)
          /\ st.text = (Before(g, a - 1) \o <<":", ":">>) \o Behind(g, b, i)
    BY <1>4 DEF AfterGroup
  <2>2. b + 1 \in 1 .. i + 1 /\ b + 1 # i + 1 /\ i + 1 > 1  BY <2>1 DEF Groups
  <2>3. r.used /\ r.text = ((st.text \o <<>>) \o <<":">>) \o <<x>>
    <3>1. ~SkipsZeros(g, i + 1, st.used)  BY <1>4 DEF SkipsZeros
    <3>2. r = [text |-> ((st.text \o <<>>) \o <<":">>) \o <<x>>,
               used |-> st.used \/ (i + 1 > 1 /\ g[(i + 1) - 1] = "0" /\ ~st.used)]
      BY <1>4, <2>2, <3>1 DEF PrintGroup
    <3> DEFINE t == ((st.text \o <<>>) \o <<":">>) \o <<x>>
               w == st.used \/ (i + 1 > 1 /\ g[(i + 1) - 1] = "0" /\ ~st.used)
    <3> HIDE DEF t, w, r
    <3>3. r = [text |-> t, used |-> w]  BY <3>2 DEF t, w, r
    <3>4. r.text = t /\ r.used = w  BY <3>3
    <3>5. w  BY <1>4 DEF w
    <3> QED  BY <3>4, <3>5 DEF t
  <2>4. Before(g, a - 1) \in Seq(C)
    <3>1. SubSeq(g, 1, a - 1) \in Seq(T)  BY <1>1 DEF Groups
    <3> DEFINE s == SubSeq(g, 1, a - 1)
    <3> HIDE DEF s, T
    <3>2. s \in Seq(T) /\ x \in T  BY <1>2, <3>1 DEF s
    <3>3. Join(s) \in Seq(C)  BY <3>2, JoinNext
    <3> QED  BY <3>3 DEF Before, s
  <2>5. Behind(g, b, i) \in Seq(C)
        /\ Behind(g, b, i + 1) = (Behind(g, b, i) \o <<":">>) \o <<x>>
    BY <1>3, <2>2 DEF Behind
  <2>6. r.text = (Before(g, a - 1) \o <<":", ":">>) \o Behind(g, b, i + 1)
    <3> DEFINE m == Before(g, a - 1) \o <<":", ":">>
               u == Behind(g, b, i)
               c == <<":">>
               y == <<x>>
    <3>1. c \in Seq(C) /\ y \in Seq(C)  BY <1>2
    <3>2. m \in Seq(C)
      <4> DEFINE f == Before(g, a - 1)
      <4>1. f \in Seq(C) /\ ":" \in C  BY <2>4
      <4> HIDE DEF f, C
      <4> QED  BY <4>1 DEF f
    <3>3. u \in Seq(C)  BY <2>5
    <3> HIDE DEF m, u, c, y, C
    <3>4. ((m \o u) \o c) \o y = m \o ((u \o c) \o y)
      <4> DEFINE z == u \o c
      <4>1. (m \o u) \o c = m \o (u \o c)  BY <3>1, <3>2, <3>3, ConcatAssociative, SMTT(60)
      <4>2. z \in Seq(C)  BY <3>1, <3>3, ConcatProperties
      <4> HIDE DEF z
      <4>3. (m \o z) \o y = m \o (z \o y)  BY <3>1, <3>2, <4>2, ConcatAssociative, SMTT(60)
      <4> QED  BY <4>1, <4>3 DEF z
    <3>5. st.text = m \o u  BY <2>1 DEF m, u
    <3>6. st.text \o <<>> = st.text
      <4>1. m \o u \in Seq(C)  BY <3>2, <3>3, ConcatProperties
      <4> QED  BY <3>5, <4>1, ConcatEmptySeq
    <3>7. r.text = ((m \o u) \o c) \o y  BY <2>3, <3>5, <3>6 DEF c, y
    <3>8. Behind(g, b, i + 1) = (u \o c) \o y  BY <2>5 DEF u, c, y
    <3> QED  BY <3>4, <3>7, <3>8 DEF m
  <2>7. b < i + 1  BY <2>1 DEF Groups
  <2> HIDE DEF r
  <2> QED  BY <2>1, <2>3, <2>6, <2>7 DEF AfterGroup, r
<1>5. CASE ~st.used
  <2>1. PICK a \in 0 .. i : /\ \A k \in 1 .. a : g[k] # "0"
                            /\ Zeros(g, a + 1, i) /\ st.text = Before(g, a)
    BY <1>5 DEF AfterGroup
  <2>2. CASE x = "0"
    <3>1. r = st  BY <1>5, <2>2 DEF PrintGroup, SkipsZeros
    <3>2. a \in 0 .. i + 1 /\ Zeros(g, a + 1, i + 1)
      <4> SUFFICES ASSUME NEW k \in a + 1 .. i + 1 PROVE g[k] = "0"  BY DEF Zeros
      <4>1. k \in a + 1 .. i \/ k = i + 1  OBVIOUS
      <4> QED  BY <2>1, <2>2, <4>1 DEF Zeros
    <3> HIDE DEF r
    <3> QED  BY <1>5, <2>1, <3>1, <3>2 DEF AfterGroup, r
  <2>3. CASE x # "0"
    <3> DEFINE gap == i + 1 > 1 /\ g[i] = "0" /\ ~st.used
               colon == IF gap THEN <<":">> ELSE <<>>
               between == IF i + 1 > 1 THEN <<":">> ELSE <<>>
    <3>1. ~SkipsZeros(g, i + 1, st.used)  BY <2>3 DEF SkipsZeros
    <3>2. r = [text |-> ((st.text \o colon) \o between) \o <<x>>, used |-> st.used \/ gap]
      BY <1>2, <3>1 DEF PrintGroup
    <3>a. r.text = ((st.text \o colon) \o between) \o <<x>> /\ r.used = (st.used \/ gap)
      <4> DEFINE t == ((st.text \o colon) \o between) \o <<x>>
                 w == st.used \/ gap
      <4> HIDE DEF t, w, r
      <4>1. r = [text |-> t, used |-> w]  BY <3>2 DEF t, w, r
      <4>2. r.text = t /\ r.used = w  BY <4>1
      <4> QED  BY <4>2 DEF t, w
    <3>3. st.text \in Seq(C)
      <4> DEFINE s == SubSeq(g, 1, a)
      <4>1. s \in Seq(T)  BY <1>1
      <4> HIDE DEF s, T
      <4>2. Join(s) \in Seq(C)  BY <1>2, <4>1, JoinNext
      <4> QED  BY <2>1, <4>2 DEF Before, s
    <3>4. CASE i >= 1 /\ g[i] = "0"
      <4>1. a + 1 <= i
        <5>1. a # i  BY <2>1, <3>4
        <5> QED  BY <5>1
      <4>2. gap  BY <1>5, <3>4
      <4>3. r.used /\ r.text = ((st.text \o <<":">>) \o <<":">>) \o <<x>>
        <5>1. colon = <<":">> /\ between = <<":">>  BY <4>2
        <5> HIDE DEF gap, colon, between, r
        <5> QED  BY <3>a, <4>2, <5>1
      <4>4. Behind(g, i, i + 1) = <<x>>  BY <1>3 DEF Behind
      <4>5. (st.text \o <<":">>) \o <<":">> = st.text \o <<":", ":">>
        <5> DEFINE t == st.text
                   c == <<":">>
        <5>1. c \in Seq(C) /\ t \in Seq(C) /\ <<":", ":">> = c \o c  BY <3>3
        <5> HIDE DEF t, c, C
        <5>2. (t \o c) \o c = t \o (c \o c)  BY <5>1, ConcatAssociative
        <5> QED  BY <5>1, <5>2 DEF t, c
      <4>6. r.text = (Before(g, (a + 1) - 1) \o <<":", ":">>) \o Behind(g, i, i + 1)
        <5>1. (a + 1) - 1 = a  OBVIOUS
        <5> QED  BY <2>1, <4>3, <4>4, <4>5, <5>1
      <4>7. a + 1 \in Groups /\ i \in Groups /\ i < i + 1 /\ Zeros(g, a + 1, i)
        BY <2>1, <3>4, <4>1 DEF Groups
      <4> HIDE DEF r
      <4> QED  BY <4>1, <4>3, <4>6, <4>7 DEF AfterGroup, r
    <3>5. CASE ~(i >= 1 /\ g[i] = "0")
      <4>1. a = i
        <5>1. CASE i = 0  BY <5>1
        <5>2. CASE i >= 1 /\ a < i
          <6>1. i \in a + 1 .. i  BY <5>2
          <6> QED  BY <2>1, <3>5, <5>2, <6>1 DEF Zeros
        <5> QED  BY <5>1, <5>2
      <4>2. ~gap  BY <3>5
      <4>3. ~r.used /\ r.text = (st.text \o between) \o <<x>>
        <5>1. st.text \o <<>> = st.text  BY <3>3, ConcatEmptySeq
        <5>2. colon = <<>>  BY <4>2
        <5> HIDE DEF gap, colon, between, r
        <5> QED  BY <1>5, <3>a, <4>2, <5>1, <5>2
      <4>4. Before(g, i + 1) = (st.text \o between) \o <<x>>
        <5>1. CASE i = 0
          <6>1. Before(g, 1) = <<x>>  BY <1>3, <5>1 DEF Before
          <6>2. SubSeq(g, 1, 0) = <<>>  BY <1>1, PrefixEnds
          <6>3. st.text = <<>>
            <7>1. Before(g, 0) = <<>>  BY <6>2 DEF Before, Join
            <7> QED  BY <2>1, <4>1, <5>1, <7>1
          <6>4. between = <<>>  BY <5>1
          <6>5. (<<>> \o <<>>) \o <<x>> = <<x>>  OBVIOUS
          <6> QED  BY <5>1, <6>1, <6>3, <6>4, <6>5
        <5>2. CASE i # 0
          <6>1. 1 \in 1 .. i + 1 /\ 1 # i + 1 /\ i + 1 > 1  BY <5>2
          <6> QED  BY <1>3, <2>1, <4>1, <6>1 DEF Before
        <5> QED  BY <5>1, <5>2
      <4>5. i + 1 \in 0 .. i + 1 /\ Zeros(g, (i + 1) + 1, i + 1)
            /\ \A k \in 1 .. i + 1 : g[k] # "0"
        <5>1. \A k \in 1 .. i + 1 : k \in 1 .. a \/ k = i + 1  BY <4>1
        <5> QED  BY <2>1, <2>3, <5>1 DEF Zeros
      <4> HIDE DEF r, between
      <4> QED  BY <4>3, <4>4, <4>5 DEF AfterGroup, r
    <3> QED  BY <3>4, <3>5
  <2> QED  BY <2>2, <2>3
<1> QED  BY <1>4, <1>5

\* The groups as a sequence, and parts of it.
LEMMA GroupSeq ==
  ASSUME NEW g \in [Groups -> GroupValues]
  PROVE  /\ g \in Seq(GroupValues) /\ Len(g) = 8 /\ SubSeq(g, 1, 8) = g
         /\ SubSeq(g, 1, 0) = <<>> /\ SubSeq(g, 8 + 1, 8) = <<>>
         /\ \A a \in 0 .. 8 : SubSeq(g, 1, a) \in Seq(GroupValues)
<1> DEFINE T == GroupValues
           n == 8
<1>1. n \in Nat /\ g \in [1 .. n -> T]  BY DEF Groups
<1> HIDE DEF n, T
<1>2. g \in Seq(T) /\ Len(g) = n  BY <1>1, SeqOfFunction
<1>3. SubSeq(g, 1, n) = g /\ SubSeq(g, 1, 0) = <<>>  BY <1>2, PrefixEnds
<1>4. SubSeq(g, n + 1, n) = <<>>  BY <1>1, <1>2
<1>5. \A a \in 0 .. n : SubSeq(g, 1, a) \in Seq(T)  BY <1>1, <1>2
<1> QED  BY <1>2, <1>3, <1>4, <1>5 DEF n, T

\* What insert() prints of an IPv6 address.
LEMMA GroupsRead ==
  ASSUME NEW g \in [Groups -> GroupValues]
  PROVE  PrintGroups(g) \in Writings(g)
<1> DEFINE st(i) == Printed(g)[i]
           S == {i \in Nat : i <= 8 => AfterGroup(g, i, st(i))}
<1>1. 0 \in S
  <2>1. st(0).text = <<>> /\ ~st(0).used  BY PrintedNext
  <2>2. Before(g, 0) = <<>>  BY GroupSeq DEF Before, Join
  <2>3. Zeros(g, 1, 0) /\ 0 \in 0 .. 0  BY DEF Zeros
  <2> HIDE DEF st
  <2>4. AfterGroup(g, 0, st(0))  BY <2>1, <2>2, <2>3 DEF AfterGroup
  <2> QED  BY <2>4
<1>2. ASSUME NEW i \in S PROVE i + 1 \in S
  <2> SUFFICES ASSUME i + 1 <= 8 PROVE AfterGroup(g, i + 1, st(i + 1))  OBVIOUS
  <2>1. i \in 0 .. 7 /\ i + 1 \in Groups /\ (i + 1) - 1 = i /\ AfterGroup(g, i, st(i))
    BY DEF Groups
  <2>2. st(i + 1) = PrintGroup(g, st((i + 1) - 1), i + 1)  BY <2>1, PrintedNext
  <2> HIDE DEF st
  <2> QED  BY <2>1, <2>2, NextGroup
<1>3. S = Nat
  <2>1. S \in SUBSET Nat  OBVIOUS
  <2> HIDE DEF S
  <2> QED  BY <1>1, <1>2, <2>1, Induction
<1>4. AfterGroup(g, 8, st(8))
  <2> HIDE DEF st
  <2> QED  BY <1>3
<1> DEFINE end == Printed(g)[8]
<1>5. PrintGroups(g) = IF ~end.used /\ g[8] = "0" THEN end.text \o <<":", ":">> ELSE end.text
  BY DEF PrintGroups
<1> HIDE DEF end
<1>6. AfterGroup(g, 8, end)  BY <1>4 DEF end
<1>7. ASSUME NEW a \in Groups, NEW b \in Groups, a <= b, Zeros(g, a, b)
      PROVE  (Before(g, a - 1) \o <<":", ":">>) \o Behind(g, b, 8) \in Writings(g)
  <2> DEFINE p == <<a, b>>
  <2>1. p \in ZeroRuns(g)
    <3>1. p \in Groups \X Groups /\ p[1] = a /\ p[2] = b  OBVIOUS
    <3> HIDE DEF p
    <3> QED  BY <1>7, <3>1 DEF ZeroRuns, Zeros
  <2>2. p[1] = a /\ p[2] = b  OBVIOUS
  <2> HIDE DEF p
  <2>3. Join(SubSeq(g, 1, p[1] - 1)) \o <<":", ":">> \o Join(SubSeq(g, p[2] + 1, 8))
          = (Before(g, a - 1) \o <<":", ":">>) \o Behind(g, b, 8)
    BY <2>2 DEF Before, Behind
  <2> QED  BY <2>1, <2>3 DEF Writings
<1>8. CASE end.used
  <2>1. PICK a \in Groups, b \in Groups :
          /\ a <= b /\ b < 8 /\ Zeros(g, a, b)
          /\ end.text = (Before(g, a - 1) \o <<":", ":">>) \o Behind(g, b, 8)
    BY <1>6, <1>8 DEF AfterGroup
  <2> QED  BY <1>5, <1>7, <1>8, <2>1
<1>9. CASE ~end.used
  <2>1. PICK a \in 0 .. 8 : /\ \A k \in 1 .. a : g[k] # "0"
                            /\ Zeros(g, a + 1, 8) /\ end.text = Before(g, a)
    BY <1>6, <1>9 DEF AfterGroup
  <2>2. CASE g[8] = "0"
    <3>1. a # 8  BY <2>1, <2>2
    <3>2. a + 1 \in Groups /\ 8 \in Groups /\ a + 1 <= 8 /\ (a + 1) - 1 = a
      BY <3>1 DEF Groups
    <3>3. (Before(g, a) \o <<":", ":">>) \o Behind(g, 8, 8) \in Writings(g)
      BY <1>7, <2>1, <3>2
    <3>4. Behind(g, 8, 8) = <<>>  BY GroupSeq DEF Behind, Join
    <3>5. (Before(g, a) \o <<":", ":">>) \o <<>> = Before(g, a) \o <<":", ":">>
      <4> DEFINE C == GroupValues \cup {":"}
                 x == Before(g, a)
      <4>1. SubSeq(g, 1, a) \in Seq(GroupValues)  BY GroupSeq
      <4>2. Before(g, a) \in Seq(C)
        <5> DEFINE s == SubSeq(g, 1, a)
        <5>1. s \in Seq(GroupValues) /\ g[8] \in GroupValues  BY <4>1 DEF Groups
        <5> HIDE DEF s
        <5>2. Join(s) \in Seq(C)  BY <5>1, JoinNext
        <5> QED  BY <5>2 DEF Before, s
      <4>3. ":" \in C  OBVIOUS
      <4> HIDE DEF x, C
      <4>4. x \in Seq(C)  BY <4>2 DEF x
      <4>5. x \o <<":", ":">> \in Seq(C)  BY <4>3, <4>4
      <4>6. (x \o <<":", ":">>) \o <<>> = x \o <<":", ":">>  BY <4>5, ConcatEmptySeq
      <4> QED  BY <4>6 DEF x
    <3>6. PrintGroups(g) = Before(g, a) \o <<":", ":">>  BY <1>5, <1>9, <2>1, <2>2
    <3> QED  BY <3>3, <3>4, <3>5, <3>6
  <2>3. CASE g[8] # "0"
    <3>1. a = 8
      <4>1. a # 8 => 8 \in a + 1 .. 8  OBVIOUS
      <4> QED  BY <2>1, <2>3, <4>1 DEF Zeros
    <3>2. PrintGroups(g) = Before(g, 8)  BY <1>5, <1>9, <2>1, <2>3, <3>1
    <3>3. SubSeq(g, 1, 8) = g  BY GroupSeq
    <3> QED  BY <3>2, <3>3 DEF Before, Writings
  <2> QED  BY <2>2, <2>3
<1> QED  BY <1>8, <1>9

\* The calls that print an address.
LEMMA TextsRead ==
  ASSUME call \in Calls, CallInsert
  PROVE  PrintReadsBack'
<1>1. call' = call  BY DEF CallInsert, To
<1>2. CASE call.to = "groups" /\ result' = PrintGroups(call.groups)
  <2>1. call.groups \in [Groups -> GroupValues]  BY <1>2, Kinds
  <2> QED  BY <1>1, <1>2, <2>1, GroupsRead DEF PrintReadsBack, Done
<1>3. CASE To("path") /\ CallInsert
  <2> DEFINE u == UnixAddress(call.path)
  <2>1. call.path \in Seq(STRING) /\ IsPath(call.path)
    BY <1>3, Kinds, PureCallsAssumption DEF To
  <2>2. call.to = "path"
        /\ result' = [thrown |-> u.thrown,
                      text |-> IF u.thrown THEN <<>> ELSE GetPath(u)]
    BY <1>3 DEF CallInsert, To
  <2>3. call.path # <<>> =>
          /\ u.thrown = (Len(call.path) > Room(call.path))
          /\ GetPath(u) = IF Abstract(call.path)
                          THEN <<"\\", "0">> \o Tail(call.path)
                          ELSE call.path
    BY <2>1, PathRead
  <2> HIDE DEF u
  <2>4. /\ result'.thrown = u.thrown
        /\ ~u.thrown => result'.text = GetPath(u)
    BY <2>2
  <2> QED  BY <1>1, <2>2, <2>3, <2>4 DEF PrintReadsBack, Done
<1> QED  BY <1>2, <1>3 DEF CallInsert, To

(***************************************************************************)
(* Host names: Lookup()                                                    *)
(***************************************************************************)

\* What Find() finds.
LEMMA FindNone ==
  ASSUME NEW s, NEW c, NEW from, \A i \in from .. Len(s) : s[i] # c
  PROVE  Find(s, c, from) = 0
BY DEF Find

LEMMA FindFirst ==
  ASSUME NEW s, NEW c, NEW from \in Nat, NEW k \in from .. Len(s), Len(s) \in Nat,
         s[k] = c, \A i \in from .. k - 1 : s[i] # c
  PROVE  Find(s, c, from) = k
<1> DEFINE at == {i \in from .. Len(s) : s[i] = c}
           m == CHOOSE i \in at : \A j \in at : i <= j
<1>1. k \in at  OBVIOUS
<1>2. \A j \in at : k <= j  OBVIOUS
<1>3. m \in at /\ \A j \in at : m <= j  BY <1>1, <1>2
<1>4. m = k  BY <1>1, <1>2, <1>3
<1> QED  BY <1>1, <1>4 DEF Find

LEMMA FindSome ==
  ASSUME NEW s, Len(s) \in Nat, NEW c, NEW i \in 1 .. Len(s), s[i] = c
  PROVE  Find(s, c, 1) # 0
<1> DEFINE at == {j \in 1 .. Len(s) : s[j] = c}
<1>1. PICK k \in at : \A j \in at : k <= j
  <2>1. at \in SUBSET Nat /\ at # {}  OBVIOUS
  <2> HIDE DEF at
  <2> QED  BY <2>1, Smallest
<1>2. \A j \in 1 .. k - 1 : s[j] # c  BY <1>1
<1> QED  BY <1>1, <1>2, FindFirst

\* A node without colons is left as it is, and a service is behind a colon.
LEMMA PlainHost ==
  ASSUME NEW node \in Seq(STRING), IsNode(node), Lacks(node, ":"),
         NEW service \in Seq(STRING), Lacks(service, ":")
  PROVE  Split(node \o <<":">> \o service) = [node |-> node, service |-> service]
<1> DEFINE n == Len(node)
           h == node \o <<":">> \o service
<1>1. n \in Nat \ {0} /\ Len(service) \in Nat /\ Len(h) = n + 1 + Len(service)
  BY DEF IsNode
<1>2. /\ \A i \in 1 .. n : h[i] = node[i]
      /\ h[n + 1] = ":"
      /\ \A i \in 1 .. Len(service) : h[n + 1 + i] = service[i]
  OBVIOUS
<1>3. h \in Seq(STRING \cup {":"})  OBVIOUS
<1>4. SubSeq(h, 1, n) = node  BY <1>1, <1>2, <1>3, SubSeqProperties
<1>5. SubSeq(h, n + 2, Len(h)) = service  BY <1>1, <1>2, <1>3, SubSeqProperties
<1> HIDE DEF h, n
<1>6. h # <<>> /\ h[1] # "["  BY <1>1, <1>2 DEF IsNode, n
<1>7. InBrackets(h) = [node |-> <<>>, service |-> None]  BY <1>6 DEF InBrackets, Bracketed
<1>8. Find(h, ":", 1) = n + 1
  <2>1. \A i \in 1 .. n : h[i] # ":"  BY <1>2 DEF Lacks, n
  <2> QED  BY <1>1, <1>2, <2>1, FindFirst
<1>9. Find(h, ":", n + 2) = 0
  <2>1. \A i \in n + 2 .. Len(h) : h[i] # ":"
    <3> SUFFICES ASSUME NEW i \in n + 2 .. Len(h) PROVE h[i] # ":"  OBVIOUS
    <3>1. i - (n + 1) \in 1 .. Len(service)  BY <1>1
    <3>2. h[i] = service[i - (n + 1)]  BY <1>1, <1>2, <3>1
    <3> QED  BY <3>1, <3>2 DEF Lacks
  <2> QED  BY <2>1, FindNone
<1>10. AtColon(h) = [node |-> node, service |-> service]
  <2>1. (n + 1) - 1 = n /\ (n + 1) + 1 = n + 2 /\ n + 1 # 0  BY <1>1
  <2> QED  BY <1>4, <1>5, <1>8, <1>9, <2>1 DEF AtColon, From
<1>11. Parts(h) = [node |-> node, service |-> service]  BY <1>7, <1>10 DEF Parts
<1> QED  BY <1>11 DEF Split, IsNode, h

\* A node alone.
LEMMA PlainNode ==
  ASSUME NEW node \in Seq(STRING), IsNode(node), Lacks(node, ":")
  PROVE  Split(node) = [node |-> node, service |-> None]
<1>1. InBrackets(node) = [node |-> <<>>, service |-> None]  BY DEF InBrackets, Bracketed, IsNode
<1>2. Find(node, ":", 1) = 0  BY FindNone DEF Lacks
<1>3. Parts(node) = [node |-> <<>>, service |-> None]  BY <1>1, <1>2 DEF Parts, AtColon
<1> QED  BY <1>3 DEF Split

\* A node in brackets, with a service or without.
LEMMA BracketedHost ==
  ASSUME NEW node \in Seq(STRING), IsNode(node), NEW rest \in Seq(STRING \cup {":"}),
         rest # <<>> => rest[1] = ":"
  PROVE  Split(<<"[">> \o node \o <<"]">> \o rest)
           = [node |-> node, service |-> IF rest = <<>> THEN None ELSE SubSeq(rest, 2, Len(rest))]
<1> DEFINE n == Len(node)
           h == <<"[">> \o node \o <<"]">> \o rest
<1>1. n \in Nat \ {0} /\ Len(rest) \in Nat /\ Len(h) = n + 2 + Len(rest)
  BY DEF IsNode
<1>2. /\ h[1] = "["
      /\ \A i \in 1 .. n : h[i + 1] = node[i]
      /\ h[n + 2] = "]"
      /\ \A i \in 1 .. Len(rest) : h[n + 2 + i] = rest[i]
  OBVIOUS
<1>3. h \in Seq(STRING \cup {":", "[", "]"})  OBVIOUS
<1>4. SubSeq(h, 2, n + 1) = node  BY <1>1, <1>2, <1>3, SubSeqProperties
<1>5. SubSeq(h, n + 4, Len(h)) = SubSeq(rest, 2, Len(rest))  BY <1>1, <1>2, <1>3, SubSeqProperties
<1> HIDE DEF h, n
<1>6. Find(h, "]", 2) = n + 2
  <2>1. \A i \in 2 .. n + 1 : h[i] # "]"
    <3> SUFFICES ASSUME NEW i \in 2 .. n + 1 PROVE h[i] # "]"  OBVIOUS
    <3>1. i - 1 \in 1 .. n /\ h[i] = node[i - 1]  BY <1>1, <1>2
    <3> QED  BY <3>1 DEF IsNode, Lacks, n
  <2> QED  BY <1>1, <1>2, <2>1, FindFirst
<1>7. Bracketed(h) = n + 2  BY <1>1, <1>2, <1>6 DEF Bracketed
<1>8. rest # <<>> <=> n + 2 < Len(h) /\ h[n + 3] = ":"
  BY <1>1, <1>2
<1>9. InBrackets(h) = [node |-> node, service |-> IF rest = <<>> THEN None ELSE SubSeq(rest, 2, Len(rest))]
  <2>1. (n + 2) - 1 = n + 1 /\ (n + 2) + 2 = n + 4 /\ (n + 2) + 1 = n + 3 /\ n + 2 # 0  BY <1>1
  <2> QED  BY <1>4, <1>5, <1>7, <1>8, <2>1 DEF InBrackets, From
<1> QED  BY <1>9 DEF Parts, Split, IsNode, h

\* A host name, however it is written.
LEMMA HostSplit ==
  ASSUME CallLookup, call \in Calls
  PROVE  HostIsSplit'
<1> DEFINE node == call.node
           service == call.service
           h == WriteHost(node, service)
<1>1. call' = call /\ call.to = "host" /\ result' = Split(h)  BY DEF CallLookup, To
<1>2. /\ node \in Seq(STRING) /\ IsNode(node)
      /\ service # None => service \in Seq(STRING) /\ Lacks(service, ":")
  BY <1>1, Kinds, PureCallsAssumption
<1> HIDE DEF node, service
<1>3. result' = [node |-> node, service |-> service]
  <2> DEFINE tail == IF service = None THEN <<>> ELSE <<":">> \o service
  <2>1. CASE Find(node, ":", 1) = 0
    <3>1. Lacks(node, ":")
      <4> SUFFICES ASSUME NEW i \in DOMAIN node, node[i] = ":" PROVE FALSE  BY DEF Lacks
      <4> QED  BY <1>2, <2>1, FindSome
    <3>2. h = node \o tail  BY <2>1 DEF WriteHost
    <3>3. CASE service = None
      <4>1. h = node  BY <1>2, <3>2, <3>3
      <4> QED  BY <1>1, <1>2, <3>1, <3>3, <4>1, PlainNode
    <3>4. CASE service # None
      <4>1. h = node \o <<":">> \o service  BY <1>2, <3>2, <3>4
      <4> HIDE DEF h
      <4> QED  BY <1>1, <1>2, <3>1, <3>4, <4>1, PlainHost
    <3> QED  BY <3>3, <3>4
  <2>2. CASE Find(node, ":", 1) # 0
    <3>1. h = <<"[">> \o node \o <<"]">> \o tail  BY <2>2 DEF WriteHost
    <3>2. tail \in Seq(STRING \cup {":"}) /\ (tail # <<>> => tail[1] = ":")
      <4>1. CASE service = None  BY <4>1
      <4>2. CASE service # None
        <5>1. <<":">> \in Seq(STRING \cup {":"}) /\ service \in Seq(STRING \cup {":"})
          BY <1>2, <4>2
        <5>2. tail = <<":">> \o service  BY <4>2
        <5>3. (<<":">> \o service)[1] = ":"  BY <5>1
        <5>4. <<":">> \o service \in Seq(STRING \cup {":"})  BY <5>1
        <5> HIDE DEF tail
        <5> QED  BY <5>2, <5>3, <5>4
      <4> QED  BY <4>1, <4>2
    <3>3. tail = <<>> <=> service = None
      <4> SUFFICES ASSUME service # None PROVE <<":">> \o service # <<>>  OBVIOUS
      <4> QED  BY <1>2, ConcatProperties
    <3>4. ASSUME service # None PROVE SubSeq(tail, 2, Len(tail)) = service
      <4>1. Len(tail) = Len(service) + 1 /\ \A i \in 1 .. Len(service) : tail[i + 1] = service[i]
        BY <1>2, <3>4
      <4> DEFINE back == SubSeq(tail, 2, Len(tail))
                 l == Len(service)
      <4>2. service \in Seq(STRING) /\ l \in Nat  BY <1>2, <3>4
      <4> HIDE DEF tail, l
      <4>3. back = [i \in 1 .. l |-> tail[i + 1]]  BY <3>2, <4>1, <4>2, SubSeqProperties DEF l
      <4>4. back = [i \in 1 .. l |-> service[i]]  BY <4>1, <4>3 DEF l
      <4> QED  BY <4>2, <4>4 DEF l
    <3> HIDE DEF tail
    <3> QED  BY <1>1, <1>2, <3>1, <3>2, <3>3, <3>4, BracketedHost
  <2> QED  BY <2>1, <2>2
<1> QED  BY <1>1, <1>3 DEF HostIsSplit, Done, node, service

(***************************************************************************)
(* Patterns: LogFormatter::init()                                          *)
(***************************************************************************)

\* The recursion of Scanned() has a solution.
LEMMA ScannedRec ==
  ASSUME NEW p, NEW n \in Nat
  PROVE  \E g : g = [i \in 0 .. n |-> IF i = 0 THEN Scan ELSE Read(g[i - 1], p[i])]
<1> DEFINE Sol(g, m) == g = [i \in 0 .. m |-> IF i = 0 THEN Scan ELSE Read(g[i - 1], p[i])]
           S == {m \in Nat : \E g : Sol(g, m)}
<1>1. 0 \in S
  <2>1. Sol([i \in 0 .. 0 |-> Scan], 0)  OBVIOUS
  <2> QED  BY <2>1
<1>2. ASSUME NEW m \in S PROVE m + 1 \in S
  <2>1. PICK g : Sol(g, m)  OBVIOUS
  <2> DEFINE h == [i \in 0 .. m + 1 |-> IF i = m + 1 THEN Read(g[m], p[m + 1]) ELSE g[i]]
  <2>2. Sol(h, m + 1)
    <3>1. ASSUME NEW i \in 0 .. m + 1
          PROVE  h[i] = IF i = 0 THEN Scan ELSE Read(h[i - 1], p[i])
      <4>1. CASE i = m + 1  BY <4>1
      <4>2. CASE i # m + 1
        <5>1. i \in 0 .. m /\ (i # 0 => i - 1 \in 0 .. m)  BY <4>2
        <5>2. h[i] = g[i] /\ (i # 0 => h[i - 1] = g[i - 1])  BY <5>1
        <5>3. g[i] = IF i = 0 THEN Scan ELSE Read(g[i - 1], p[i])  BY <2>1, <5>1
        <5> QED  BY <5>2, <5>3
      <4> QED  BY <4>1, <4>2
    <3> QED  BY <3>1
  <2> HIDE DEF h, Sol
  <2>3. \E g1 : Sol(g1, m + 1)  BY <2>2
  <2> QED  BY <2>3
<1> HIDE DEF S
<1>3. n \in S  BY <1>1, <1>2, Induction DEF S
<1> QED  BY <1>3 DEF S

\* Scanned() of no character, and of one more.
LEMMA ScannedNone == Scanned(<<>>) = Scan
<1> DEFINE f == CHOOSE g : g = [i \in 0 .. 0 |-> IF i = 0 THEN Scan ELSE Read(g[i - 1], <<>>[i])]
<1>1. Scanned(<<>>) = f[0]  BY DEF Scanned
<1>2. f = [i \in 0 .. 0 |-> IF i = 0 THEN Scan ELSE Read(f[i - 1], <<>>[i])]
  BY ScannedRec
<1> QED  BY <1>1, <1>2

LEMMA ScannedNext ==
  ASSUME NEW T, NEW p \in Seq(T), NEW c \in T
  PROVE  Scanned(Append(p, c)) = Read(Scanned(p), c)
<1> DEFINE q == Append(p, c)
           m == Len(p)
           f == CHOOSE g : g = [i \in 0 .. m |-> IF i = 0 THEN Scan ELSE Read(g[i - 1], p[i])]
           h == CHOOSE g : g = [i \in 0 .. Len(q) |-> IF i = 0 THEN Scan ELSE Read(g[i - 1], q[i])]
<1>1. Scanned(p) = f[m] /\ Scanned(q) = h[Len(q)]  BY DEF Scanned
<1> HIDE DEF q, m
<1>2. m \in Nat /\ Len(q) = m + 1 /\ q[m + 1] = c /\ \A i \in 1 .. m : q[i] = p[i]
  BY AppendProperties, LenProperties DEF q, m
<1>3. f = [i \in 0 .. m |-> IF i = 0 THEN Scan ELSE Read(f[i - 1], p[i])]
  BY <1>2, ScannedRec
<1>4. h = [i \in 0 .. Len(q) |-> IF i = 0 THEN Scan ELSE Read(h[i - 1], q[i])]
  <2>1. Len(q) \in Nat  BY <1>2
  <2>2. \E g : g = [i \in 0 .. Len(q) |-> IF i = 0 THEN Scan ELSE Read(g[i - 1], q[i])]
    BY <2>1, ScannedRec
  <2> QED  BY <2>2
<1> HIDE DEF f, h
<1> DEFINE S == {i \in Nat : i <= m => f[i] = h[i]}
<1>5. 0 \in S  BY <1>2, <1>3, <1>4
<1>6. ASSUME NEW i \in S PROVE i + 1 \in S
  <2>1. CASE i + 1 <= m
    <3>1. i + 1 \in 0 .. m /\ i + 1 \in 0 .. Len(q) /\ i + 1 # 0 /\ (i + 1) - 1 = i
      BY <1>2, <2>1
    <3>2. f[i + 1] = Read(f[i], p[i + 1])  BY <1>3, <3>1
    <3>3. h[i + 1] = Read(h[i], q[i + 1])  BY <1>4, <3>1
    <3>4. f[i] = h[i] /\ q[i + 1] = p[i + 1]  BY <1>2, <2>1
    <3> QED  BY <3>2, <3>3, <3>4
  <2> QED  BY <2>1
<1> HIDE DEF S
<1>7. S = Nat  BY <1>5, <1>6, Induction DEF S
<1>8. f[m] = h[m]  BY <1>2, <1>7 DEF S
<1>9. h[m + 1] = Read(h[m], q[m + 1])  BY <1>2, <1>4
<1> QED  BY <1>1, <1>2, <1>8, <1>9 DEF q

\* The characters of a pattern: strings.  (The provers do not know that these
\* four are.)
Letters == STRING \cup {"%", "d", Open, Close}

FormatItems == [item: STRING, arg: Seq(STRING)]

\* The braces are not "%".
LEMMA Braces == /\ Open \notin {Close, "%"} /\ Close # "%" /\ "%" # Open /\ "%" # Close
BY Zenon DEF Open, Close

\* What the loop keeps.
IsState(st) == /\ st.tmp \in Seq(Letters) /\ st.date \in Seq(Letters)
               /\ st = [vec |-> st.vec, tmp |-> st.tmp, date |-> st.date, mode |-> st.mode]

\* A record of these fields.
LEMMA StateOf ==
  ASSUME NEW v, NEW t \in Seq(Letters), NEW d \in Seq(Letters), NEW m
  PROVE  IsState([vec |-> v, tmp |-> t, date |-> d, mode |-> m])
BY DEF IsState

\* The pending text is the next item.
LEMMA Flush ==
  ASSUME NEW st, IsState(st)
  PROVE  /\ IsState(FlushText(st))
         /\ FlushText(st).vec = IF st.tmp = <<>> THEN st.vec
                                ELSE Append(st.vec, Text(st.tmp))
         /\ FlushText(st).tmp = <<>> /\ FlushText(st).date = st.date
         /\ FlushText(st).mode = st.mode
<1>1. CASE st.tmp = <<>>  BY <1>1 DEF FlushText
<1>2. CASE st.tmp # <<>>
  <2>2. FlushText(st) = [vec |-> Append(st.vec, Text(st.tmp)), tmp |-> <<>>,
                         date |-> st.date, mode |-> st.mode]
    BY <1>2 DEF FlushText, IsState
  <2>4. <<>> \in Seq(Letters) /\ st.date \in Seq(Letters)  BY DEF IsState
  <2> QED  BY <1>2, <2>2, <2>4 DEF IsState
<1> QED  BY <1>1, <1>2

\* A character of a text.
LEMMA TextChar ==
  ASSUME NEW st, IsState(st), NEW c \in Letters, c # "%",
         st.mode = "text" \/ (st.mode = "date?" /\ c # Open)
  PROVE  /\ IsState(Read(st, c)) /\ Read(st, c).mode = "text"
         /\ Read(st, c).vec = st.vec /\ Read(st, c).date = st.date
         /\ Read(st, c).tmp = Append(st.tmp, c)
<1>1. Read(st, c) = [st EXCEPT !.tmp = Append(@, c), !.mode = "text"]
  BY Braces DEF Read, PlainChar, AfterDate
<1>2. Read(st, c) = [vec |-> st.vec, tmp |-> Append(st.tmp, c), date |-> st.date,
                     mode |-> "text"]
  BY <1>1 DEF IsState
<1>3. Append(st.tmp, c) \in Seq(Letters)  BY DEF IsState
<1> QED  BY <1>2, <1>3 DEF IsState

\* "%"
LEMMA PercentChar ==
  ASSUME NEW st, IsState(st), st.mode \in {"text", "date?"}
  PROVE  /\ IsState(Read(st, "%")) /\ Read(st, "%").mode = "item"
         /\ Read(st, "%").vec = FlushText(st).vec /\ Read(st, "%").date = st.date
         /\ Read(st, "%").tmp = <<>>
<1>1. Read(st, "%") = [FlushText(st) EXCEPT !.mode = "item"]
  <2>1. PlainChar(st, "%") = [FlushText(st) EXCEPT !.mode = "item"]  BY DEF PlainChar
  <2>2. AfterDate(st, "%") = PlainChar(st, "%")  BY Braces DEF AfterDate
  <2>3. Read(st, "%") = PlainChar(st, "%")
    <3>1. CASE st.mode = "text"  BY <3>1 DEF Read
    <3>2. CASE st.mode = "date?"  BY <2>2, <3>2 DEF Read
    <3> QED  BY <3>1, <3>2
  <2> QED  BY <2>1, <2>3
<1> DEFINE f == FlushText(st)
<1>2. IsState(f) /\ f.tmp = <<>> /\ f.date = st.date  BY Flush
<1> HIDE DEF f
<1>3. [f EXCEPT !.mode = "item"] = [vec |-> f.vec, tmp |-> f.tmp, date |-> f.date,
                                    mode |-> "item"]
  BY <1>2 DEF IsState
<1>4. Read(st, "%") = [vec |-> f.vec, tmp |-> f.tmp, date |-> f.date, mode |-> "item"]
  BY <1>1, <1>3 DEF f
<1>5. Read(st, "%").vec = f.vec /\ Read(st, "%").mode = "item"
      /\ Read(st, "%").date = f.date /\ Read(st, "%").tmp = f.tmp
  BY <1>4
<1>6. IsState(Read(st, "%"))
  <2>1. f.tmp \in Seq(Letters) /\ f.date \in Seq(Letters)  BY <1>2 DEF IsState
  <2> QED  BY <1>4, <2>1, StateOf
<1> QED  BY <1>2, <1>5, <1>6 DEF f

\* The letter behind "%".
LEMMA LetterChar ==
  ASSUME NEW st, IsState(st), NEW c \in Letters, st.mode = "item"
  PROVE  /\ IsState(Read(st, c)) /\ Read(st, c).mode = IF c = "d" THEN "date?" ELSE "text"
         /\ Read(st, c).vec = Append(st.vec, Item(c, <<>>))
         /\ Read(st, c).date = st.date /\ Read(st, c).tmp = st.tmp
<1> DEFINE m == IF c = "d" THEN "date?" ELSE "text"
           v == Append(st.vec, Item(c, <<>>))
<1>1. Read(st, c) = [st EXCEPT !.vec = v, !.mode = m]
  BY DEF Read, ItemChar, DateItem
<1> HIDE DEF v, m
<1>3. Read(st, c) = [vec |-> v, tmp |-> st.tmp, date |-> st.date, mode |-> m]
  BY <1>1 DEF IsState
<1>4. IsState(Read(st, c)) /\ Read(st, c).mode = m /\ Read(st, c).vec = v
      /\ Read(st, c).date = st.date /\ Read(st, c).tmp = st.tmp
  BY <1>3 DEF IsState
<1> QED  BY <1>4 DEF m, v

\* Open behind "%d".
LEMMA OpenChar ==
  ASSUME NEW st, IsState(st), st.mode = "date?"
  PROVE  /\ IsState(Read(st, Open)) /\ Read(st, Open).mode = "date"
         /\ Read(st, Open).vec = st.vec /\ Read(st, Open).date = st.date
         /\ Read(st, Open).tmp = st.tmp
<1>1. Read(st, Open) = [st EXCEPT !.mode = "date"]  BY DEF Read, AfterDate
<1>2. Read(st, Open) = [vec |-> st.vec, tmp |-> st.tmp, date |-> st.date, mode |-> "date"]
  BY <1>1 DEF IsState
<1> QED  BY <1>2 DEF IsState

\* A character of a format.
LEMMA FormatChar ==
  ASSUME NEW st, IsState(st), NEW c \in Letters, c # Close, st.mode = "date"
  PROVE  /\ IsState(Read(st, c)) /\ Read(st, c).mode = "date"
         /\ Read(st, c).vec = st.vec /\ Read(st, c).date = Append(st.date, c)
         /\ Read(st, c).tmp = st.tmp
<1>1. Read(st, c) = [st EXCEPT !.date = Append(@, c)]  BY DEF Read, DateChar
<1>2. Read(st, c) = [vec |-> st.vec, tmp |-> st.tmp, date |-> Append(st.date, c),
                     mode |-> "date"]
  BY <1>1 DEF IsState
<1>3. Append(st.date, c) \in Seq(Letters)  BY DEF IsState
<1> QED  BY <1>2, <1>3 DEF IsState

\* Close behind a format.
LEMMA CloseChar ==
  ASSUME NEW st, IsState(st), st.mode = "date"
  PROVE  /\ IsState(Read(st, Close)) /\ Read(st, Close).mode = "text"
         /\ Read(st, Close).vec = st.vec /\ Read(st, Close).date = st.date
         /\ Read(st, Close).tmp = st.tmp
<1>1. Read(st, Close) = [st EXCEPT !.mode = "text"]  BY DEF Read, DateChar
<1>2. Read(st, Close) = [vec |-> st.vec, tmp |-> st.tmp, date |-> st.date, mode |-> "text"]
  BY <1>1 DEF IsState
<1> QED  BY <1>2 DEF IsState

\* A character read behind another text.
LEMMA ReadOn ==
  ASSUME NEW p \in Seq(Letters), NEW w \in Seq(Letters), NEW k \in Nat, k < Len(w)
  PROVE  /\ w[k + 1] \in Letters
         /\ Scanned(p \o SubSeq(w, 1, k + 1)) = Read(Scanned(p \o SubSeq(w, 1, k)), w[k + 1])
<1> DEFINE u == SubSeq(w, 1, k)
<1>1. u \in Seq(Letters) /\ w[k + 1] \in Letters /\ SubSeq(w, 1, k + 1) = Append(u, w[k + 1])
  BY PrefixNext
<1> HIDE DEF u
<1>2. p \o Append(u, w[k + 1]) = Append(p \o u, w[k + 1]) /\ p \o u \in Seq(Letters)
  BY <1>1
<1>3. Scanned(Append(p \o u, w[k + 1])) = Read(Scanned(p \o u), w[k + 1])
  BY <1>1, <1>2, ScannedNext
<1> QED  BY <1>1, <1>2, <1>3 DEF u

\* A text behind the pattern p becomes the pending text.
LEMMA TextRun ==
  ASSUME NEW p \in Seq(Letters), NEW w \in Seq(Letters), w # <<>>, Lacks(w, "%"),
         IsState(Scanned(p)), Scanned(p).tmp = <<>>,
         Scanned(p).mode = "text" \/ (Scanned(p).mode = "date?" /\ w[1] # Open)
  PROVE  LET r == Scanned(p \o w)
         IN  /\ IsState(r) /\ r.mode = "text" /\ r.tmp = w
             /\ r.vec = Scanned(p).vec /\ r.date = Scanned(p).date
<1> DEFINE st == Scanned(p)
           at(j) == Scanned(p \o SubSeq(w, 1, j))
           Good(r, j) == /\ IsState(r) /\ r.tmp = SubSeq(w, 1, j)
                         /\ r.vec = st.vec /\ r.date = st.date
                         /\ IF j = 0 THEN r.mode = st.mode ELSE r.mode = "text"
           S == {j \in Nat : j <= Len(w) => Good(at(j), j)}
<1>0. Len(w) \in Nat \ {0}  OBVIOUS
<1>1. SubSeq(w, 1, 0) = <<>> /\ SubSeq(w, 1, Len(w)) = w /\ p \o <<>> = p  BY PrefixEnds
<1>2. 0 \in S
  <2>1. at(0) = st  BY <1>1
  <2> HIDE DEF st, at
  <2>2. Good(st, 0)  BY <1>1 DEF st
  <2> QED  BY <2>1, <2>2
<1>3. ASSUME NEW j \in S PROVE j + 1 \in S
  <2> SUFFICES ASSUME j < Len(w) PROVE Good(at(j + 1), j + 1)  BY <1>0
  <2>1. j \in Nat /\ j <= Len(w) /\ j + 1 \in 1 .. Len(w) /\ Good(at(j), j)  BY <1>0
  <2>2. w[j + 1] \in Letters /\ at(j + 1) = Read(at(j), w[j + 1])  BY <2>1, ReadOn
  <2>3. w[j + 1] # "%"  BY <2>1 DEF Lacks
  <2>4. SubSeq(w, 1, j + 1) = Append(SubSeq(w, 1, j), w[j + 1])  BY <2>1, PrefixNext
  <2> HIDE DEF at
  <2>5. IsState(at(j)) /\ (at(j).mode = "text" \/ (at(j).mode = "date?" /\ w[j + 1] # Open))
    BY <2>1
  <2>6. LET r == Read(at(j), w[j + 1])
        IN /\ IsState(r) /\ r.mode = "text"
           /\ r.vec = at(j).vec /\ r.date = at(j).date /\ r.tmp = Append(at(j).tmp, w[j + 1])
    BY <2>2, <2>3, <2>5, TextChar
  <2>7. j + 1 # 0  BY <2>1
  <2> HIDE DEF st
  <2> DEFINE r == at(j + 1)
  <2>8. r = Read(at(j), w[j + 1])  BY <2>2
  <2> HIDE DEF r, S
  <2>9. IsState(r) /\ r.mode = "text" /\ r.vec = st.vec /\ r.date = st.date
        /\ r.tmp = SubSeq(w, 1, j + 1)
    BY <2>1, <2>4, <2>6, <2>8
  <2> QED  BY <2>7, <2>9 DEF r
<1>4. S = Nat
  <2>1. S \in SUBSET Nat  OBVIOUS
  <2> HIDE DEF S
  <2> QED  BY <1>2, <1>3, <2>1, Induction
<1>5. Good(at(Len(w)), Len(w))
  <2> HIDE DEF Good, at
  <2> QED  BY <1>0, <1>4
<1> HIDE DEF st
<1> QED  BY <1>0, <1>1, <1>5 DEF st

\* The characters of a format become the format.
LEMMA FormatRun ==
  ASSUME NEW p \in Seq(Letters), NEW w \in Seq(Letters), Lacks(w, Close),
         IsState(Scanned(p)), Scanned(p).date = <<>>, Scanned(p).mode = "date"
  PROVE  LET r == Scanned(p \o w)
         IN  /\ IsState(r) /\ r.mode = "date" /\ r.date = w
             /\ r.vec = Scanned(p).vec /\ r.tmp = Scanned(p).tmp
<1> DEFINE st == Scanned(p)
           at(j) == Scanned(p \o SubSeq(w, 1, j))
           Good(r, j) == /\ IsState(r) /\ r.date = SubSeq(w, 1, j)
                         /\ r.vec = st.vec /\ r.tmp = st.tmp /\ r.mode = "date"
           S == {j \in Nat : j <= Len(w) => Good(at(j), j)}
<1>0. Len(w) \in Nat  OBVIOUS
<1>1. SubSeq(w, 1, 0) = <<>> /\ SubSeq(w, 1, Len(w)) = w /\ p \o <<>> = p  BY PrefixEnds
<1>2. 0 \in S
  <2>1. at(0) = st  BY <1>1
  <2> HIDE DEF st, at
  <2>2. Good(st, 0)  BY <1>1 DEF st
  <2> QED  BY <2>1, <2>2
<1>3. ASSUME NEW j \in S PROVE j + 1 \in S
  <2> SUFFICES ASSUME j < Len(w) PROVE Good(at(j + 1), j + 1)  BY <1>0
  <2>1. j \in Nat /\ j <= Len(w) /\ j + 1 \in 1 .. Len(w) /\ Good(at(j), j)  BY <1>0
  <2>2. w[j + 1] \in Letters /\ at(j + 1) = Read(at(j), w[j + 1])  BY <2>1, ReadOn
  <2>3. w[j + 1] # Close  BY <2>1 DEF Lacks
  <2>4. SubSeq(w, 1, j + 1) = Append(SubSeq(w, 1, j), w[j + 1])  BY <2>1, PrefixNext
  <2> HIDE DEF at
  <2>6. LET r == Read(at(j), w[j + 1])
        IN /\ IsState(r) /\ r.mode = "date"
           /\ r.vec = at(j).vec /\ r.tmp = at(j).tmp /\ r.date = Append(at(j).date, w[j + 1])
    BY <2>1, <2>2, <2>3, FormatChar
  <2> HIDE DEF st
  <2> QED  BY <2>1, <2>2, <2>4, <2>6
<1>4. S = Nat
  <2>1. S \in SUBSET Nat  OBVIOUS
  <2> HIDE DEF S
  <2> QED  BY <1>2, <1>3, <2>1, Induction
<1>5. Good(at(Len(w)), Len(w))
  <2> HIDE DEF Good, at
  <2> QED  BY <1>0, <1>4
<1> HIDE DEF st
<1> QED  BY <1>0, <1>1, <1>5 DEF st

\* What an item is read as: every format, so far, is left to the end.
Blank(v) == IF v.item = DateItem THEN BareDate ELSE v

\* "%" and a letter behind the pattern p.
LEMMA LetterRun ==
  ASSUME NEW p \in Seq(Letters), NEW c \in Letters,
         IsState(Scanned(p)), Scanned(p).mode \in {"text", "date?"}
  PROVE  LET r == Scanned(p \o <<"%", c>>)
         IN  /\ IsState(r) /\ r.mode = IF c = "d" THEN "date?" ELSE "text"
             /\ r.vec = Append(FlushText(Scanned(p)).vec, Item(c, <<>>))
             /\ r.tmp = <<>> /\ r.date = Scanned(p).date
<1> DEFINE q == Append(p, "%")
<1>1. "%" \in Letters  BY DEF Letters
<1>2. q \in Seq(Letters) /\ p \o <<"%", c>> = Append(q, c)  BY <1>1
<1>3. Scanned(q) = Read(Scanned(p), "%")  BY <1>1, ScannedNext
<1> HIDE DEF q
<1>4. Scanned(p \o <<"%", c>>) = Read(Scanned(q), c)  BY <1>1, <1>2, ScannedNext
<1>5. /\ IsState(Scanned(q)) /\ Scanned(q).mode = "item"
      /\ Scanned(q).vec = FlushText(Scanned(p)).vec /\ Scanned(q).date = Scanned(p).date
      /\ Scanned(q).tmp = <<>>
  BY <1>3, PercentChar
<1>6. LET r == Read(Scanned(q), c)
      IN /\ IsState(r) /\ r.mode = IF c = "d" THEN "date?" ELSE "text"
         /\ r.vec = Append(Scanned(q).vec, Item(c, <<>>))
         /\ r.date = Scanned(q).date /\ r.tmp = Scanned(q).tmp
  BY <1>1, <1>5, LetterChar
<1> QED  BY <1>4, <1>5, <1>6

\* A pattern that grows by "%d" and a format grows by one character after the other.
LEMMA Regroup ==
  ASSUME NEW T, NEW p \in Seq(T), NEW w \in Seq(T),
         NEW a \in T, NEW b \in T, NEW c \in T, NEW d \in T
  PROVE  p \o (<<a, b, c>> \o w \o <<d>>) = Append(Append(p \o <<a, b>>, c) \o w, d)
<1> DEFINE q == p \o <<a, b>>
           r == q \o <<c>>
           s == r \o w
<1>1. <<a, b, c>> \in Seq(T) /\ <<a, b>> \in Seq(T) /\ <<c>> \in Seq(T) /\ <<d>> \in Seq(T)
  OBVIOUS
<1>2. <<a, b, c>> = <<a, b>> \o <<c>>  OBVIOUS
<1>3. q \in Seq(T) /\ r \in Seq(T) /\ s \in Seq(T)
  <2>1. q \in Seq(T)  BY <1>1
  <2> HIDE DEF q
  <2>2. r \in Seq(T)  BY <1>1, <2>1
  <2> HIDE DEF r
  <2> QED  BY <2>1, <2>2
<1>4. p \o <<a, b, c>> = r
  <2> DEFINE u == <<a, b>>
             v == <<c>>
  <2>1. u \in Seq(T) /\ v \in Seq(T)  BY <1>1
  <2> HIDE DEF u, v
  <2>2. p \o (u \o v) = (p \o u) \o v  BY <2>1, ConcatAssociative, SMTT(30)
  <2> QED  BY <1>2, <2>2 DEF u, v
<1> HIDE DEF r
<1>5. <<a, b, c>> \o w \in Seq(T)
  <2> DEFINE u == <<a, b, c>>
  <2>1. u \in Seq(T)  BY <1>1
  <2> HIDE DEF u
  <2> QED  BY <2>1, ConcatProperties
<1>6. p \o (<<a, b, c>> \o w) = s
  <2> DEFINE u == <<a, b, c>>
  <2>1. u \in Seq(T)  BY <1>1
  <2>2. p \o u = r  BY <1>4
  <2> HIDE DEF u
  <2>3. p \o (u \o w) = (p \o u) \o w  BY <2>1, ConcatAssociative
  <2> QED  BY <2>2, <2>3 DEF u, s
<1> HIDE DEF s
<1>7. p \o (<<a, b, c>> \o w \o <<d>>) = s \o <<d>>
  <2> DEFINE u == <<a, b, c>> \o w
             v == <<d>>
  <2>1. u \in Seq(T) /\ v \in Seq(T)  BY <1>1, <1>5
  <2>2. p \o u = s  BY <1>6
  <2> HIDE DEF u, v
  <2>3. p \o (u \o v) = (p \o u) \o v  BY <2>1, ConcatAssociative, SMTT(30)
  <2> QED  BY <2>2, <2>3 DEF u, v
<1>8. s \o <<d>> = Append(s, d)  BY <1>3, AppendIsConcat
<1>9. r = Append(q, c)
  <2> HIDE DEF q
  <2> QED  BY <1>3, AppendIsConcat DEF r
<1> QED  BY <1>7, <1>8, <1>9 DEF s

\* "%d" with a format.
LEMMA DateRun ==
  ASSUME NEW p \in Seq(Letters), NEW w \in Seq(Letters), Lacks(w, Close),
         IsState(Scanned(p)), Scanned(p).mode \in {"text", "date?"}, Scanned(p).date = <<>>
  PROVE  LET r == Scanned(p \o (<<"%", "d", Open>> \o w \o <<Close>>))
         IN  /\ IsState(r) /\ r.mode = "text"
             /\ r.vec = Append(FlushText(Scanned(p)).vec, BareDate)
             /\ r.tmp = <<>> /\ r.date = w
<1> DEFINE a == p \o <<"%", "d">>
           b == Append(a, Open)
           c == b \o w
           r == Scanned(p \o (<<"%", "d", Open>> \o w \o <<Close>>))
<1>1. "%" \in Letters /\ "d" \in Letters /\ Open \in Letters /\ Close \in Letters
  BY DEF Letters
<1>2. a \in Seq(Letters) /\ b \in Seq(Letters) /\ c \in Seq(Letters)
  <2>1. a \in Seq(Letters)  BY <1>1
  <2> HIDE DEF a
  <2>2. b \in Seq(Letters)  BY <1>1, <2>1
  <2> HIDE DEF b
  <2>3. c \in Seq(Letters)  BY <2>2
  <2> QED  BY <2>1, <2>2, <2>3
<1>3. p \o (<<"%", "d", Open>> \o w \o <<Close>>) = Append(c, Close)
  BY <1>1, Regroup, SMTT(30)
<1>4. LET s == Scanned(a)
      IN  /\ IsState(s) /\ s.mode = "date?"
          /\ s.vec = Append(FlushText(Scanned(p)).vec, BareDate)
          /\ s.tmp = <<>> /\ s.date = <<>>
  BY <1>1, LetterRun DEF BareDate
<1>5. Scanned(b) = Read(Scanned(a), Open)  BY <1>1, <1>2, ScannedNext
<1>6. r = Read(Scanned(c), Close)  BY <1>1, <1>2, <1>3, ScannedNext
<1> HIDE DEF a
<1>7. LET s == Scanned(b)
      IN  /\ IsState(s) /\ s.mode = "date" /\ s.vec = Scanned(a).vec
          /\ s.tmp = <<>> /\ s.date = <<>>
  BY <1>4, <1>5, OpenChar
<1> HIDE DEF b
<1>8. LET s == Scanned(c)
      IN  /\ IsState(s) /\ s.mode = "date" /\ s.vec = Scanned(a).vec
          /\ s.tmp = <<>> /\ s.date = w
  BY <1>2, <1>7, FormatRun
<1> HIDE DEF c, r
<1>9. IsState(r) /\ r.mode = "text" /\ r.vec = Scanned(a).vec /\ r.tmp = <<>> /\ r.date = w
  BY <1>6, <1>8, CloseChar
<1> QED  BY <1>4, <1>9 DEF r

\* The loop behind the first k items.
AfterItem(items, k, st) ==
  /\ IsState(st)
  /\ st.mode = IF k > 0 /\ items[k] = BareDate THEN "date?" ELSE "text"
  /\ FlushText(st).vec = [i \in 1 .. k |-> Blank(items[i])]
  /\ st.tmp # <<>> => k > 0 /\ items[k].item = "text"
  /\ \A i \in 1 .. k : items[i].item = DateItem => st.date = items[i].arg
  /\ (\A i \in 1 .. k : items[i].item # DateItem) => st.date = <<>>

\* The first k + 1 of a sequence of items.
LEMMA BlankNext ==
  ASSUME NEW items, NEW k \in Nat
  PROVE  Append([i \in 1 .. k |-> Blank(items[i])], Blank(items[k + 1]))
           = [i \in 1 .. k + 1 |-> Blank(items[i])]
<1> DEFINE f == [i \in 1 .. k |-> Blank(items[i])]
           g == [i \in 1 .. k + 1 |-> Blank(items[i])]
           T == {Blank(items[i]) : i \in 1 .. k + 1}
<1>1. \A i \in 1 .. k + 1 : Blank(items[i]) \in T  OBVIOUS
<1>2. f \in Seq(T) /\ g \in Seq(T) /\ Len(f) = k /\ Len(g) = k + 1 /\ Blank(items[k + 1]) \in T
  <2> HIDE DEF T
  <2>1. \A i \in 1 .. k : Blank(items[i]) \in T  BY <1>1
  <2> QED  BY <1>1, <2>1
<1>3. \A i \in 1 .. k : f[i] = g[i]  OBVIOUS
<1>4. g[k + 1] = Blank(items[k + 1])  OBVIOUS
<1> DEFINE b == Blank(items[k + 1])
<1> HIDE DEF f, g, T, b
<1>5. b \in T /\ g[k + 1] = b  BY <1>2, <1>4 DEF b
<1>6. Append(f, b) \in Seq(T) /\ Len(Append(f, b)) = k + 1  BY <1>2, <1>5
<1>7. \A i \in 1 .. k + 1 : Append(f, b)[i] = g[i]  BY <1>2, <1>3, <1>5
<1>8. Append(f, b) = g  BY <1>2, <1>6, <1>7, SeqEqual
<1> QED  BY <1>8 DEF f, g, b

\* One more text.
LEMMA NextText ==
  ASSUME NEW items \in Seq(FormatItems), IsPattern(items), NEW k \in Nat, k < Len(items),
         NEW p \in Seq(Letters), AfterItem(items, k, Scanned(p)), items[k + 1].item = "text"
  PROVE  AfterItem(items, k + 1, Scanned(p \o WriteItem(items[k + 1])))
<1> DEFINE v == items[k + 1]
           st == Scanned(p)
           r == Scanned(p \o v.arg)
<1>1. v \in FormatItems /\ k + 1 \in 1 .. Len(items)  OBVIOUS
<1>2. v.arg \in Seq(STRING) /\ v = [item |-> v.item, arg |-> v.arg]  BY <1>1 DEF FormatItems
<1>3. v.arg # <<>> /\ Lacks(v.arg, "%")
  <2>1. k + 1 \in DOMAIN items  BY <1>1
  <2>2. IsItem(v)  BY <2>1 DEF IsPattern
  <2> QED  BY <2>2 DEF IsItem
<1>4. k > 0 => items[k].item # "text" /\ (items[k] = BareDate => v.arg[1] # Open)
  <2>1. k > 0 => k \in 1 .. Len(items) - 1  OBVIOUS
  <2> QED  BY <2>1 DEF IsPattern
<1>5. IsState(st) /\ st.tmp = <<>>  BY <1>4 DEF AfterItem
<1>6. st.mode = "text" \/ (st.mode = "date?" /\ v.arg[1] # Open)  BY <1>4 DEF AfterItem
<1>7. v.arg \in Seq(Letters)  BY <1>2 DEF Letters
<1>8. WriteItem(v) = v.arg  BY DEF WriteItem
<1> HIDE DEF v, st
<1>9. IsState(r) /\ r.mode = "text" /\ r.tmp = v.arg /\ r.vec = st.vec /\ r.date = st.date
  BY <1>3, <1>5, <1>6, <1>7, TextRun DEF st
<1> HIDE DEF r
<1>10. FlushText(r).vec = Append(st.vec, Text(v.arg)) /\ FlushText(st).vec = st.vec
  BY <1>3, <1>5, <1>9, Flush
<1>11. Text(v.arg) = Blank(v) /\ v # BareDate /\ v.item # DateItem
  <2>1. v.item = "text"  BY DEF v
  <2>2. v = Text(v.arg)  BY <1>2, <2>1 DEF Text
  <2>3. v.item # "d" /\ BareDate.item = "d"  BY <2>1 DEF BareDate, Item
  <2> QED  BY <2>2, <2>3 DEF Blank, DateItem
<1>12. FlushText(r).vec = [i \in 1 .. k + 1 |-> Blank(items[i])]
  <2>1. st.vec = [i \in 1 .. k |-> Blank(items[i])]  BY <1>10 DEF AfterItem, st
  <2> QED  BY <1>10, <1>11, <2>1, BlankNext DEF v
<1>13. /\ \A i \in 1 .. k + 1 : items[i].item = DateItem => r.date = items[i].arg
       /\ (\A i \in 1 .. k + 1 : items[i].item # DateItem) => r.date = <<>>
  BY <1>9, <1>11 DEF AfterItem, st, v
<1>14. AfterItem(items, k + 1, r)
  BY <1>9, <1>11, <1>12, <1>13 DEF AfterItem, v
<1> QED  BY <1>8, <1>14 DEF r, v

\* One more item that is not a text, with the format of "%d" or without.
LEMMA NextLetter ==
  ASSUME NEW items \in Seq(FormatItems), IsPattern(items), NEW k \in Nat, k < Len(items),
         NEW p \in Seq(Letters), AfterItem(items, k, Scanned(p)), items[k + 1].item # "text"
  PROVE  AfterItem(items, k + 1, Scanned(p \o WriteItem(items[k + 1])))
<1> DEFINE v == items[k + 1]
           st == Scanned(p)
           r == Scanned(p \o WriteItem(v))
<1>1. v \in FormatItems /\ k + 1 \in 1 .. Len(items) /\ k + 1 \in DOMAIN items  OBVIOUS
<1>2. /\ v.arg \in Seq(STRING) /\ v.item \in STRING
      /\ v = [item |-> v.item, arg |-> v.arg]
  BY <1>1 DEF FormatItems
<1>3. IF v.item = "d" THEN Lacks(v.arg, Close) ELSE v.arg = <<>>
  <2>1. IsItem(v)  BY <1>1 DEF IsPattern
  <2> QED  BY <2>1 DEF IsItem
<1>4. IsState(st) /\ st.mode \in {"text", "date?"}  BY DEF AfterItem
<1>5. v.item = "d" => st.date = <<>>
  <2> SUFFICES ASSUME v.item = "d" PROVE st.date = <<>>  OBVIOUS
  <2>1. ASSUME NEW i \in 1 .. k PROVE items[i].item # DateItem
    <3>1. i \in DOMAIN items /\ i # k + 1  BY <1>1
    <3> QED  BY <1>1, <3>1 DEF IsPattern, DateItem
  <2> QED  BY <2>1 DEF AfterItem
<1>6. v.arg \in Seq(Letters) /\ v.item \in Letters  BY <1>2 DEF Letters
<1>7. Blank(v) = Item(v.item, <<>>)
  <2>1. CASE v.item = "d"  BY <2>1 DEF Blank, BareDate, DateItem
  <2>2. CASE v.item # "d"
    <3>1. v = [item |-> v.item, arg |-> <<>>]  BY <1>2, <1>3, <2>2
    <3> HIDE DEF v
    <3> QED  BY <2>2, <3>1 DEF Blank, DateItem, Item
  <2> QED  BY <2>1, <2>2
<1>8. v = BareDate <=> v.item = "d" /\ v.arg = <<>>
  <2> HIDE DEF v
  <2>1. BareDate = [item |-> "d", arg |-> <<>>]  BY DEF BareDate, Item
  <2> QED  BY <1>2, <2>1
<1>9. v.item # "text"  OBVIOUS
<1> HIDE DEF v, st, r
<1>10. /\ IsState(r) /\ r.mode = IF v = BareDate THEN "date?" ELSE "text"
       /\ r.vec = Append(FlushText(st).vec, Item(v.item, <<>>)) /\ r.tmp = <<>>
       /\ r.date = IF v.item = "d" THEN v.arg ELSE st.date
  <2>1. CASE v.arg = <<>>
    <3>1. WriteItem(v) = <<"%", v.item>>  BY <1>9, <2>1 DEF WriteItem
    <3>2. /\ IsState(r) /\ r.mode = IF v.item = "d" THEN "date?" ELSE "text"
          /\ r.vec = Append(FlushText(st).vec, Item(v.item, <<>>)) /\ r.tmp = <<>>
          /\ r.date = st.date
      BY <1>4, <1>6, <3>1, LetterRun DEF r, st
    <3> QED  BY <1>5, <1>8, <2>1, <3>2
  <2>2. CASE v.arg # <<>>
    <3>1. v.item = "d" /\ Lacks(v.arg, Close) /\ st.date = <<>>  BY <1>3, <1>5, <2>2
    <3>2. WriteItem(v) = <<"%", "d", Open>> \o v.arg \o <<Close>>
      BY <1>9, <2>2, <3>1 DEF WriteItem
    <3>3. /\ IsState(r) /\ r.mode = "text"
          /\ r.vec = Append(FlushText(st).vec, BareDate) /\ r.tmp = <<>>
          /\ r.date = v.arg
      <4> DEFINE w == v.arg
      <4>1. IsState(Scanned(p)) /\ Scanned(p).mode \in {"text", "date?"} /\ Scanned(p).date = <<>>
        BY <1>4, <3>1 DEF st
      <4>2. w \in Seq(Letters) /\ Lacks(w, Close)  BY <1>6, <3>1
      <4> HIDE DEF w
      <4>3. LET x == Scanned(p \o (<<"%", "d", Open>> \o w \o <<Close>>))
            IN  /\ IsState(x) /\ x.mode = "text"
                /\ x.vec = Append(FlushText(Scanned(p)).vec, BareDate)
                /\ x.tmp = <<>> /\ x.date = w
        BY <4>1, <4>2, DateRun
      <4>4. r = Scanned(p \o (<<"%", "d", Open>> \o w \o <<Close>>))  BY <3>2 DEF r, w
      <4> QED  BY <4>3, <4>4 DEF st, w
    <3>4. BareDate = Item(v.item, <<>>) /\ v # BareDate  BY <1>8, <2>2, <3>1 DEF BareDate
    <3> QED  BY <3>1, <3>3, <3>4
  <2> QED  BY <2>1, <2>2
<1>11. FlushText(r).vec = r.vec  BY <1>10, Flush
<1>12. FlushText(r).vec = [i \in 1 .. k + 1 |-> Blank(items[i])]
  <2>1. FlushText(st).vec = [i \in 1 .. k |-> Blank(items[i])]  BY DEF AfterItem, st
  <2>2. r.vec = Append(FlushText(st).vec, Item(v.item, <<>>))  BY <1>10
  <2>3. Append([i \in 1 .. k |-> Blank(items[i])], Blank(v))
          = [i \in 1 .. k + 1 |-> Blank(items[i])]
    BY BlankNext DEF v
  <2> QED  BY <1>7, <1>11, <2>1, <2>2, <2>3
<1>13. /\ \A i \in 1 .. k + 1 : items[i].item = DateItem => r.date = items[i].arg
       /\ (\A i \in 1 .. k + 1 : items[i].item # DateItem) => r.date = <<>>
  <2>1. CASE v.item = "d"
    <3>1. ASSUME NEW i \in 1 .. k + 1, items[i].item = DateItem PROVE i = k + 1
      <4>1. i \in DOMAIN items  BY <1>1
      <4> QED  BY <1>1, <2>1, <3>1, <4>1 DEF IsPattern, DateItem, v
    <3> QED  BY <1>10, <2>1, <3>1 DEF DateItem, v
  <2>2. CASE v.item # "d"
    <3>1. r.date = st.date  BY <1>10, <2>2
    <3>2. items[k + 1].item # DateItem  BY <2>2 DEF DateItem, v
    <3>3. \A i \in 1 .. k + 1 : i \in 1 .. k \/ i = k + 1  OBVIOUS
    <3>4. \A i \in 1 .. k : i \in 1 .. k + 1  OBVIOUS
    <3>5. /\ \A i \in 1 .. k : items[i].item = DateItem => st.date = items[i].arg
          /\ (\A i \in 1 .. k : items[i].item # DateItem) => st.date = <<>>
      BY DEF AfterItem, st
    <3> QED  BY <3>1, <3>2, <3>3, <3>4, <3>5
  <2> QED  BY <2>1, <2>2
<1>14. AfterItem(items, k + 1, r)
  BY <1>10, <1>12, <1>13 DEF AfterItem, v
<1> QED  BY <1>14 DEF r, v

\* The pattern of one more item.
LEMMA WriteNext ==
  ASSUME NEW items \in Seq(FormatItems), NEW v \in FormatItems
  PROVE  /\ WritePattern(items) \in Seq(Letters)
         /\ WritePattern(Append(items, v)) = WritePattern(items) \o WriteItem(v)
<1> DEFINE W(s) == [i \in DOMAIN s |-> WriteItem(s[i])]
<1>1. ASSUME NEW x \in FormatItems PROVE WriteItem(x) \in Seq(Letters)
  <2>1. x.item \in STRING /\ x.arg \in Seq(STRING)  BY DEF FormatItems
  <2>2. x.item \in Letters /\ x.arg \in Seq(Letters)  BY <2>1 DEF Letters
  <2>3. "%" \in Letters /\ Open \in Letters /\ Close \in Letters  BY DEF Letters
  <2>4. <<"%", x.item>> \in Seq(Letters) /\ <<"%", x.item, Open>> \in Seq(Letters)
        /\ <<Close>> \in Seq(Letters)
    BY <2>2, <2>3
  <2>5. <<"%", x.item, Open>> \o x.arg \o <<Close>> \in Seq(Letters)
    <3> DEFINE a == <<"%", x.item, Open>>
               b == <<Close>>
               c == x.arg
    <3>1. a \in Seq(Letters) /\ b \in Seq(Letters) /\ c \in Seq(Letters)  BY <2>2, <2>4
    <3> HIDE DEF a, b, c
    <3>2. a \o c \in Seq(Letters)  BY <3>1, ConcatProperties
    <3>3. (a \o c) \o b \in Seq(Letters)  BY <3>1, <3>2, ConcatProperties
    <3> QED  BY <3>3 DEF a, b, c
  <2> QED  BY <2>2, <2>4, <2>5 DEF WriteItem
<1>2. ASSUME NEW s \in Seq(FormatItems) PROVE W(s) \in Seq(Seq(Letters))
  <2>1. \A i \in 1 .. Len(s) : WriteItem(s[i]) \in Seq(Letters)  BY <1>1
  <2> QED  BY <2>1
<1>3. W(Append(items, v)) = Append(W(items), WriteItem(v))
  <2> DEFINE q == Append(items, v)
             t == WriteItem(v)
             x == W(q)
             y == Append(W(items), t)
             n == Len(items)
  <2>1. q \in Seq(FormatItems) /\ Len(q) = n + 1 /\ q[n + 1] = v /\ n \in Nat
        /\ \A i \in 1 .. n : q[i] = items[i]
    BY AppendProperties, LenProperties
  <2>2. x \in Seq(Seq(Letters))  BY <1>2, <2>1
  <2>3. W(items) \in Seq(Seq(Letters)) /\ t \in Seq(Letters)  BY <1>1, <1>2
  <2>4. Len(W(items)) = n /\ \A i \in 1 .. n : W(items)[i] = WriteItem(items[i])  OBVIOUS
  <2>5. Len(x) = n + 1 /\ \A i \in 1 .. n + 1 : x[i] = WriteItem(q[i])
    <3> HIDE DEF q, n
    <3>1. DOMAIN q = 1 .. n + 1  BY <2>1
    <3> QED  BY <2>1, <3>1
  <2> HIDE DEF q, x, t, n
  <2>6. y \in Seq(Seq(Letters)) /\ Len(y) = n + 1
    <3> DEFINE w == W(items)
    <3>1. w \in Seq(Seq(Letters)) /\ Len(w) = n  BY <2>3, <2>4
    <3> HIDE DEF w
    <3>2. Append(w, t) \in Seq(Seq(Letters)) /\ Len(Append(w, t)) = n + 1
      BY <2>3, <3>1, AppendProperties
    <3> QED  BY <3>2 DEF w
  <2>7. \A i \in 1 .. n + 1 : y[i] = x[i]
    <3> DEFINE w == W(items)
    <3>1. w \in Seq(Seq(Letters)) /\ Len(w) = n /\ \A i \in 1 .. n : w[i] = WriteItem(items[i])
      BY <2>3, <2>4
    <3>2. \A i \in 1 .. n : x[i] = WriteItem(items[i])  BY <2>1, <2>5
    <3>3. x[n + 1] = t  BY <2>1, <2>5 DEF t
    <3> HIDE DEF w
    <3>4. Append(w, t)[n + 1] = t /\ \A i \in 1 .. n : Append(w, t)[i] = w[i]
      BY <2>3, <3>1, AppendProperties
    <3>5. \A i \in 1 .. n + 1 : Append(w, t)[i] = x[i]
      BY <2>1, <3>1, <3>2, <3>3, <3>4
    <3> QED  BY <3>5 DEF w
  <2> HIDE DEF y
  <2>8. x = y  BY <2>2, <2>5, <2>6, <2>7, SeqEqual
  <2> QED  BY <2>8 DEF x, y, t, q
<1>4. FlattenSeq(W(items)) \in Seq(Letters)
      /\ FlattenSeq(Append(W(items), WriteItem(v))) = FlattenSeq(W(items)) \o WriteItem(v)
  <2> DEFINE w == W(items)
             t == WriteItem(v)
  <2>1. w \in Seq(Seq(Letters)) /\ t \in Seq(Letters)  BY <1>1, <1>2
  <2> HIDE DEF w, t
  <2>2. FlattenSeq(w) \in Seq(Letters) /\ FlattenSeq(Append(w, t)) = FlattenSeq(w) \o t
    BY <2>1, FlatNext
  <2> QED  BY <2>2 DEF w, t
<1> QED  BY <1>3, <1>4 DEF WritePattern

\* The whole pattern, item after item.
LEMMA AllItems ==
  ASSUME NEW items \in Seq(FormatItems), IsPattern(items)
  PROVE  AfterItem(items, Len(items), Scanned(WritePattern(items)))
<1> DEFINE at(k) == WritePattern(SubSeq(items, 1, k))
           S == {k \in Nat : k <= Len(items) => at(k) \in Seq(Letters)
                                                /\ AfterItem(items, k, Scanned(at(k)))}
<1>1. Len(items) \in Nat /\ SubSeq(items, 1, 0) = <<>> /\ SubSeq(items, 1, Len(items)) = items
  BY PrefixEnds
<1>2. 0 \in S
  <2>1. at(0) = <<>>
    <3>1. [i \in DOMAIN <<>> |-> WriteItem(<<>>[i])] = <<>>  OBVIOUS
    <3> QED  BY <1>1, <3>1, FlatNone DEF WritePattern
  <2>2. Scanned(at(0)) = Scan  BY <2>1, ScannedNone
  <2>3. AfterItem(items, 0, Scan)
    <3>1. Scan.mode = "text" /\ Scan.tmp = <<>> /\ Scan.date = <<>> /\ Scan.vec = <<>>
      BY DEF Scan
    <3>2. IsState(Scan)
      <4>1. <<>> \in Seq(Letters)  OBVIOUS
      <4> QED  BY <4>1, StateOf DEF Scan
    <3>3. FlushText(Scan).vec = <<>>  BY <3>1, <3>2, Flush
    <3>4. <<>> = [i \in 1 .. 0 |-> Blank(items[i])]  OBVIOUS
    <3> QED  BY <3>1, <3>2, <3>3, <3>4 DEF AfterItem
  <2>4. at(0) \in Seq(Letters)
    <3>1. <<>> \in Seq(Letters)  OBVIOUS
    <3> HIDE DEF at
    <3> QED  BY <2>1, <3>1
  <2>5. AfterItem(items, 0, Scanned(at(0)))  BY <2>2, <2>3
  <2> HIDE DEF at
  <2> QED  BY <2>4, <2>5
<1>3. ASSUME NEW k \in S PROVE k + 1 \in S
  <2> SUFFICES ASSUME k < Len(items)
               PROVE  at(k + 1) \in Seq(Letters) /\ AfterItem(items, k + 1, Scanned(at(k + 1)))
    BY <1>1
  <2>1. k \in Nat /\ k < Len(items) /\ at(k) \in Seq(Letters)
        /\ AfterItem(items, k, Scanned(at(k)))
    BY <1>1
  <2> DEFINE s == SubSeq(items, 1, k)
             v == items[k + 1]
  <2>2. s \in Seq(FormatItems) /\ v \in FormatItems /\ SubSeq(items, 1, k + 1) = Append(s, v)
    BY <2>1, PrefixNext
  <2>3. Append(s, v) \in Seq(FormatItems)
    <3> HIDE DEF s, v
    <3> QED  BY <2>2, AppendProperties
  <2>4. WritePattern(Append(s, v)) = WritePattern(s) \o WriteItem(v)
        /\ WritePattern(Append(s, v)) \in Seq(Letters)
    <3> HIDE DEF s, v
    <3> QED  BY <2>2, <2>3, WriteNext
  <2>5. at(k + 1) = at(k) \o WriteItem(items[k + 1]) /\ at(k + 1) \in Seq(Letters)
    BY <2>2, <2>4
  <2> HIDE DEF at
  <2>6. AfterItem(items, k + 1, Scanned(at(k) \o WriteItem(items[k + 1])))
    BY <2>1, NextText, NextLetter
  <2> QED  BY <2>5, <2>6
<1>4. S = Nat
  <2>1. S \in SUBSET Nat  OBVIOUS
  <2> HIDE DEF S
  <2> QED  BY <1>2, <1>3, <2>1, Induction
<1>5. AfterItem(items, Len(items), Scanned(at(Len(items))))
  <2> HIDE DEF at
  <2> QED  BY <1>1, <1>4
<1> QED  BY <1>1, <1>5

\* The items of a pattern that is read without an error are the ones it was
\* written of; an unknown one is an error.
LEMMA PatternRead ==
  ASSUME call \in Calls, CallPattern
  PROVE  PatternReadsBack'
<1> DEFINE items == call.items
           end == Scanned(WritePattern(items))
           f == FlushText(end)
           n == Len(items)
<1>1. call' = call /\ call.to = "pattern" /\ result' \in Parse(WritePattern(items))
  BY DEF CallPattern, To
<1>2. items \in Seq(FormatItems) /\ IsPattern(items)
  BY <1>1, Kinds, PureCallsAssumption DEF FormatItems
<1>3. n \in Nat /\ DOMAIN items = 1 .. n  BY <1>2
<1>4. AfterItem(items, n, end)  BY <1>2, AllItems
<1>5. \A i \in 1 .. n : items[i] \in FormatItems  BY <1>2
<1>6. n > 0 => items[n] # BareDate  BY <1>2, <1>3 DEF IsPattern
<1> HIDE DEF items, end, f, n
<1>7. end.mode = "text"  BY <1>4, <1>6 DEF AfterItem
<1>8. Unclosed(end.mode) = {FALSE}  BY <1>7 DEF Unclosed
<1>9. result' = Formatter(f, FALSE)  BY <1>1, <1>8 DEF Parse, end, f
<1>10. f.vec = [i \in 1 .. n |-> Blank(items[i])] /\ f.date = end.date
  <2>1. IsState(end)  BY <1>4 DEF AfterItem
  <2>2. f.date = end.date  BY <2>1, Flush DEF f
  <2> QED  BY <1>4, <2>2 DEF AfterItem, f
<1>11. \A i \in 1 .. n : Blank(items[i]).item = items[i].item
  BY DEF Blank, BareDate, Item, DateItem
<1>12. FirstUnknown(f.vec) = FirstUnknown(items)
  <2> DEFINE P(v) == v.item # "text" /\ ~Known(v.item)
             I(s) == {i \in 1 .. Len(s) : P(s[i])}
  <2>1. Len(f.vec) = n /\ \A i \in 1 .. n : f.vec[i].item = items[i].item
    BY <1>3, <1>10, <1>11
  <2>2. I(f.vec) = I(items)  BY <2>1, <1>3 DEF n
  <2> QED  BY <2>2 DEF FirstUnknown, SelectInSeq
<1>13. Made(f) = items
  <2> DEFINE F(i) == IF f.vec[i].item = DateItem THEN Item(DateItem, f.date) ELSE f.vec[i]
  <2>1. DOMAIN f.vec = 1 .. n  BY <1>10
  <2>2. ASSUME NEW i \in 1 .. n PROVE F(i) = items[i]
    <3>1. f.vec[i] = Blank(items[i]) /\ f.vec[i].item = items[i].item  BY <1>10, <1>11
    <3>2. CASE items[i].item = DateItem
      <4>1. f.date = items[i].arg  BY <1>4, <1>10, <3>2 DEF AfterItem
      <4>2. items[i] = [item |-> items[i].item, arg |-> items[i].arg]
        BY <1>5 DEF FormatItems
      <4> QED  BY <3>1, <3>2, <4>1, <4>2 DEF Item
    <3>3. CASE items[i].item # DateItem  BY <3>1, <3>3 DEF Blank
    <3> QED  BY <3>2, <3>3
  <2>3. items = [i \in 1 .. n |-> items[i]]  BY <1>2, <1>3
  <2>4. Made(f) = [i \in 1 .. n |-> F(i)]  BY <2>1 DEF Made
  <2> HIDE DEF F
  <2>5. [i \in 1 .. n |-> F(i)] = [i \in 1 .. n |-> items[i]]  BY <2>2
  <2> QED  BY <2>3, <2>4, <2>5
<1>14. CASE FirstUnknown(items) = 0
  <2>1. result' = [items |-> items, error |-> FALSE]
    BY <1>9, <1>12, <1>13, <1>14 DEF Formatter
  <2> QED  BY <1>1, <1>14, <2>1 DEF PatternReadsBack, items
<1>15. CASE FirstUnknown(items) # 0
  <2>1. result'.error = TRUE  BY <1>9, <1>12, <1>15 DEF Formatter
  <2> QED  BY <1>1, <1>15, <2>1 DEF PatternReadsBack, items
<1> QED  BY <1>14, <1>15

(***************************************************************************)
(* Arguments: Env::init()                                                  *)
(***************************************************************************)

\* The recursion of E!Taken() has a solution.
LEMMA TakenRec ==
  ASSUME NEW p, NEW n \in Nat
  PROVE  \E g : g = [i \in 0 .. n |-> IF i = 0 THEN E!Start ELSE E!TakeArgument(g[i - 1], p[i])]
<1> DEFINE Sol(g, m) == g = [i \in 0 .. m |-> IF i = 0 THEN E!Start ELSE E!TakeArgument(g[i - 1], p[i])]
           S == {m \in Nat : \E g : Sol(g, m)}
<1>1. 0 \in S
  <2>1. Sol([i \in 0 .. 0 |-> E!Start], 0)  OBVIOUS
  <2> QED  BY <2>1
<1>2. ASSUME NEW m \in S PROVE m + 1 \in S
  <2>1. PICK g : Sol(g, m)  OBVIOUS
  <2> DEFINE h == [i \in 0 .. m + 1 |-> IF i = m + 1 THEN E!TakeArgument(g[m], p[m + 1]) ELSE g[i]]
  <2>2. Sol(h, m + 1)
    <3>1. ASSUME NEW i \in 0 .. m + 1
          PROVE  h[i] = IF i = 0 THEN E!Start ELSE E!TakeArgument(h[i - 1], p[i])
      <4>1. CASE i = m + 1  BY <4>1
      <4>2. CASE i # m + 1
        <5>1. i \in 0 .. m /\ (i # 0 => i - 1 \in 0 .. m)  BY <4>2
        <5>2. h[i] = g[i] /\ (i # 0 => h[i - 1] = g[i - 1])  BY <5>1
        <5>3. g[i] = IF i = 0 THEN E!Start ELSE E!TakeArgument(g[i - 1], p[i])  BY <2>1, <5>1
        <5> QED  BY <5>2, <5>3
      <4> QED  BY <4>1, <4>2
    <3> QED  BY <3>1
  <2> HIDE DEF h, Sol
  <2>3. \E g1 : Sol(g1, m + 1)  BY <2>2
  <2> QED  BY <2>3
<1> HIDE DEF S
<1>3. n \in S  BY <1>1, <1>2, Induction DEF S
<1> QED  BY <1>3 DEF S

\* Taken() of no argument, and of one more.
LEMMA TakenNone == E!Taken(<<>>) = E!Start
<1> DEFINE f == CHOOSE g : g = [i \in 0 .. 0 |-> IF i = 0 THEN E!Start ELSE E!TakeArgument(g[i - 1], <<>>[i])]
<1>1. E!Taken(<<>>) = f[0]  BY DEF E!Taken
<1>2. f = [i \in 0 .. 0 |-> IF i = 0 THEN E!Start ELSE E!TakeArgument(f[i - 1], <<>>[i])]
  BY TakenRec
<1> QED  BY <1>1, <1>2

LEMMA TakenNext ==
  ASSUME NEW T, NEW p \in Seq(T), NEW c \in T
  PROVE  E!Taken(Append(p, c)) = E!TakeArgument(E!Taken(p), c)
<1> DEFINE q == Append(p, c)
           m == Len(p)
           f == CHOOSE g : g = [i \in 0 .. m |-> IF i = 0 THEN E!Start ELSE E!TakeArgument(g[i - 1], p[i])]
           h == CHOOSE g : g = [i \in 0 .. Len(q) |-> IF i = 0 THEN E!Start ELSE E!TakeArgument(g[i - 1], q[i])]
<1>1. E!Taken(p) = f[m] /\ E!Taken(q) = h[Len(q)]  BY DEF E!Taken
<1> HIDE DEF q, m
<1>2. m \in Nat /\ Len(q) = m + 1 /\ q[m + 1] = c /\ \A i \in 1 .. m : q[i] = p[i]
  BY AppendProperties, LenProperties DEF q, m
<1>3. f = [i \in 0 .. m |-> IF i = 0 THEN E!Start ELSE E!TakeArgument(f[i - 1], p[i])]
  BY <1>2, TakenRec
<1>4. h = [i \in 0 .. Len(q) |-> IF i = 0 THEN E!Start ELSE E!TakeArgument(h[i - 1], q[i])]
  <2>1. Len(q) \in Nat  BY <1>2
  <2>2. \E g : g = [i \in 0 .. Len(q) |-> IF i = 0 THEN E!Start ELSE E!TakeArgument(g[i - 1], q[i])]
    BY <2>1, TakenRec
  <2> QED  BY <2>2
<1> HIDE DEF f, h
<1> DEFINE S == {i \in Nat : i <= m => f[i] = h[i]}
<1>5. 0 \in S  BY <1>2, <1>3, <1>4
<1>6. ASSUME NEW i \in S PROVE i + 1 \in S
  <2>1. CASE i + 1 <= m
    <3>1. i + 1 \in 0 .. m /\ i + 1 \in 0 .. Len(q) /\ i + 1 # 0 /\ (i + 1) - 1 = i
      BY <1>2, <2>1
    <3>2. f[i + 1] = E!TakeArgument(f[i], p[i + 1])  BY <1>3, <3>1
    <3>3. h[i + 1] = E!TakeArgument(h[i], q[i + 1])  BY <1>4, <3>1
    <3>4. f[i] = h[i] /\ q[i + 1] = p[i + 1]  BY <1>2, <2>1
    <3> QED  BY <3>2, <3>3, <3>4
  <2> QED  BY <2>1
<1> HIDE DEF S
<1>7. S = Nat  BY <1>5, <1>6, Induction DEF S
<1>8. f[m] = h[m]  BY <1>2, <1>7 DEF S
<1>9. h[m + 1] = E!TakeArgument(h[m], q[m + 1])  BY <1>2, <1>4
<1> QED  BY <1>1, <1>2, <1>8, <1>9 DEF q

Arguments == [dash: BOOLEAN, text: STRING]

Dashes(argv, k) == {i \in 1 .. k : argv[i].dash}

IsRefused(argv, i) == argv[i] = E!Lone \/ (~argv[i].dash /\ (i = 1 \/ ~argv[i - 1].dash))

Value(argv, i) == IF Follows(argv, i) THEN argv[i + 1].text ELSE ""

\* args has what comes of the keys up to the kth argument.
Holds(argv, args, k) ==
  /\ DOMAIN args = {argv[i].text : i \in Dashes(argv, k)}
  /\ \A i \in Dashes(argv, k) :
       (\A j \in Dashes(argv, k) : j > i => argv[j].text # argv[i].text)
       => args[argv[i].text] = Value(argv, i)

\* The loop after the kth argument, which may be a key whose value is to come.
AfterArgument(argv, k, st) ==
  /\ DOMAIN st = {"args", "key", "ok"}
  /\ st.ok \in BOOLEAN
  /\ st.ok <=> \A i \in 1 .. k : ~IsRefused(argv, i)
  /\ st.ok => /\ st.key = IF k > 0 /\ argv[k].dash THEN argv[k].text ELSE None
              /\ Holds(argv, st.args, k - 1)

\* A key, and then its word.
LEMMA HoldsKey ==
  ASSUME NEW argv \in Seq(Arguments), NEW k \in 1 .. Len(argv), argv[k].dash,
         NEW args, Holds(argv, args, k - 1)
  PROVE  Holds(argv, E!Add(args, argv[k].text, Value(argv, k)), k)
<1> DEFINE key == argv[k].text
           new == E!Add(args, key, Value(argv, k))
<1>1. Dashes(argv, k) = Dashes(argv, k - 1) \cup {k} /\ \A i \in Dashes(argv, k - 1) : i < k
  BY DEF Dashes
<1>2. new = [x \in DOMAIN args \cup {key} |-> IF x = key THEN Value(argv, k) ELSE args[x]]
  BY DEF E!Add
<1>3. DOMAIN new = {argv[i].text : i \in Dashes(argv, k)}  BY <1>1, <1>2 DEF Holds
<1>4. ASSUME NEW i \in Dashes(argv, k),
             \A j \in Dashes(argv, k) : j > i => argv[j].text # argv[i].text
      PROVE  new[argv[i].text] = Value(argv, i)
  <2>1. CASE i = k  BY <1>2, <2>1
  <2>2. CASE i # k
    <3>1. i \in Dashes(argv, k - 1) /\ argv[i].text # key  BY <1>1, <1>4, <2>2
    <3>2. args[argv[i].text] = Value(argv, i)  BY <1>1, <1>4, <3>1 DEF Holds
    <3>3. argv[i].text \in DOMAIN args  BY <3>1 DEF Holds
    <3> QED  BY <1>2, <3>1, <3>2, <3>3
  <2> QED  BY <2>1, <2>2
<1> QED  BY <1>3, <1>4 DEF Holds

LEMMA HoldsWord ==
  ASSUME NEW argv \in Seq(Arguments), NEW k \in 0 .. Len(argv), k > 0 => ~argv[k].dash,
         NEW args, Holds(argv, args, k - 1)
  PROVE  Holds(argv, args, k)
<1>1. Dashes(argv, k) = Dashes(argv, k - 1)  BY DEF Dashes
<1> QED  BY <1>1 DEF Holds

\* AddPending(): a key that no word follows gets "".
LEMMA Pending ==
  ASSUME NEW argv \in Seq(Arguments), NEW k \in 0 .. Len(argv), NEW st,
         \A i \in DOMAIN argv : argv[i].text # None,
         AfterArgument(argv, k, st), st.ok, ~(k < Len(argv) /\ ~argv[k + 1].dash)
  PROVE  LET new == E!AddPending(st) IN
         /\ DOMAIN new = {"args", "key", "ok"} /\ new.ok = st.ok
         /\ Holds(argv, new.args, k)
<1>1. DOMAIN st = {"args", "key", "ok"}  BY DEF AfterArgument
<1>2. CASE k > 0 /\ argv[k].dash
  <2>1. k \in DOMAIN argv /\ st.key = argv[k].text /\ st.key # None /\ Holds(argv, st.args, k - 1)
    BY <1>2 DEF AfterArgument
  <2>2. ~Follows(argv, k)  BY DEF Follows
  <2> DEFINE more == E!Add(st.args, argv[k].text, Value(argv, k))
  <2>3. E!AddPending(st) = [[st EXCEPT !.args = more] EXCEPT !.key = None]
    BY <2>1, <2>2 DEF E!AddPending, Value
  <2> HIDE DEF more
  <2>4. /\ DOMAIN E!AddPending(st) = {"args", "key", "ok"}
        /\ E!AddPending(st).ok = st.ok /\ E!AddPending(st).args = more
    BY <1>1, <2>3
  <2> QED  BY <1>2, <2>1, <2>4, HoldsKey DEF more
<1>3. CASE ~(k > 0 /\ argv[k].dash)
  <2>1. st.key = None /\ Holds(argv, st.args, k - 1)  BY <1>3 DEF AfterArgument
  <2>2. E!AddPending(st) = st  BY <2>1 DEF E!AddPending
  <2>3. Holds(argv, st.args, k)  BY <1>3, <2>1, HoldsWord
  <2> QED  BY <1>1, <2>2, <2>3
<1> QED  BY <1>2, <1>3

\* One more argument.
LEMMA NextArgument ==
  ASSUME NEW argv \in Seq(Arguments), NEW k \in Nat, k < Len(argv), NEW st,
         \A i \in DOMAIN argv : argv[i].text # None,
         AfterArgument(argv, k, st)
  PROVE  AfterArgument(argv, k + 1, E!TakeArgument(st, argv[k + 1]))
<1> DEFINE a == argv[k + 1]
           new == E!TakeArgument(st, a)
           Fine(n) == \A i \in 1 .. n : ~IsRefused(argv, i)
<1>1. k + 1 \in DOMAIN argv /\ a \in Arguments /\ (k > 0 => k \in DOMAIN argv)  OBVIOUS
<1>2. Fine(k + 1) <=> Fine(k) /\ ~IsRefused(argv, k + 1)
  <2>1. 1 .. k + 1 = 1 .. k \cup {k + 1}  OBVIOUS
  <2> QED  BY <2>1
<1>3. /\ DOMAIN st = {"args", "key", "ok"}
      /\ st.ok \in BOOLEAN
      /\ st.ok <=> Fine(k)
      /\ st.ok => /\ st.key = IF k > 0 /\ argv[k].dash THEN argv[k].text ELSE None
                  /\ Holds(argv, st.args, k - 1)
  BY DEF AfterArgument
<1>4. IsRefused(argv, k + 1) <=> a = E!Lone \/ (~a.dash /\ ~(k > 0 /\ argv[k].dash))
  BY <1>1 DEF IsRefused
<1>5. SUFFICES /\ DOMAIN new = {"args", "key", "ok"}
               /\ new.ok \in BOOLEAN
               /\ new.ok <=> Fine(k + 1)
               /\ new.ok => /\ new.key = IF a.dash THEN a.text ELSE None
                            /\ Holds(argv, new.args, k)
  BY DEF AfterArgument
<1> HIDE DEF Fine
<1>6. CASE ~st.ok
  <2>1. new = st  BY <1>6 DEF E!TakeArgument
  <2> QED  BY <1>2, <1>3, <1>6, <2>1
<1>7. CASE st.ok /\ a = E!Lone
  <2>1. new = [st EXCEPT !.ok = FALSE]  BY <1>7 DEF E!TakeArgument
  <2>2. DOMAIN new = {"args", "key", "ok"} /\ new.ok = FALSE  BY <1>3, <2>1
  <2> QED  BY <1>2, <1>4, <1>7, <2>2
<1>8. CASE st.ok /\ a # E!Lone /\ a.dash
  <2> DEFINE p == E!AddPending(st)
  <2>1. new = [p EXCEPT !.key = a.text]  BY <1>8 DEF E!TakeArgument
  <2>2. DOMAIN p = {"args", "key", "ok"} /\ p.ok = st.ok /\ Holds(argv, p.args, k)
    <3>1. k \in 0 .. Len(argv) /\ ~(k < Len(argv) /\ ~argv[k + 1].dash)  BY <1>8
    <3> QED  BY <1>8, <3>1, Pending
  <2> HIDE DEF p
  <2>3. /\ DOMAIN new = {"args", "key", "ok"}
        /\ new.ok = st.ok /\ new.args = p.args /\ new.key = a.text
    BY <2>1, <2>2
  <2> QED  BY <1>2, <1>3, <1>4, <1>8, <2>2, <2>3
<1>9. CASE st.ok /\ a # E!Lone /\ ~a.dash /\ k > 0 /\ argv[k].dash
  <2>1. st.key = argv[k].text /\ st.key # None /\ Holds(argv, st.args, k - 1)  BY <1>1, <1>3, <1>9
  <2>2. Value(argv, k) = a.text  BY <1>1, <1>9 DEF Value, Follows
  <2> DEFINE more == E!Add(st.args, argv[k].text, Value(argv, k))
  <2>3. new = [st EXCEPT !.args = more, !.key = None]
    BY <1>9, <2>1, <2>2 DEF E!TakeArgument, E!AddValue
  <2>4. Holds(argv, more, k)  BY <1>9, <2>1, HoldsKey
  <2> HIDE DEF more
  <2>5. /\ DOMAIN new = {"args", "key", "ok"}
        /\ new.ok = st.ok /\ new.args = more /\ new.key = None
    BY <1>3, <2>3
  <2> QED  BY <1>2, <1>3, <1>4, <1>9, <2>4, <2>5
<1>10. CASE st.ok /\ a # E!Lone /\ ~a.dash /\ ~(k > 0 /\ argv[k].dash)
  <2>1. st.key = None  BY <1>3, <1>10
  <2>2. new = [st EXCEPT !.ok = FALSE]  BY <1>10, <2>1 DEF E!TakeArgument
  <2>3. DOMAIN new = {"args", "key", "ok"} /\ new.ok = FALSE  BY <1>3, <2>2
  <2> QED  BY <1>2, <1>4, <1>10, <2>3
<1> QED  BY <1>6, <1>7, <1>8, <1>9, <1>10

\* All the arguments.
LEMMA AllTaken ==
  ASSUME NEW argv \in Seq(Arguments), \A i \in DOMAIN argv : argv[i].text # None
  PROVE  AfterArgument(argv, Len(argv), E!Taken(argv))
<1> DEFINE st(k) == E!Taken(SubSeq(argv, 1, k))
           S == {k \in Nat : k <= Len(argv) => AfterArgument(argv, k, st(k))}
<1>1. 0 \in S
  <2>1. st(0) = E!Start  BY PrefixEnds, TakenNone
  <2>2. AfterArgument(argv, 0, E!Start)
    BY DEF AfterArgument, E!Start, Holds, Dashes
  <2> QED  BY <2>1, <2>2
<1>2. ASSUME NEW k \in S PROVE k + 1 \in S
  <2> SUFFICES ASSUME k < Len(argv) PROVE AfterArgument(argv, k + 1, st(k + 1))  OBVIOUS
  <2>1. /\ SubSeq(argv, 1, k) \in Seq(Arguments) /\ argv[k + 1] \in Arguments
        /\ SubSeq(argv, 1, k + 1) = Append(SubSeq(argv, 1, k), argv[k + 1])
    BY PrefixNext
  <2>3. st(k + 1) = E!TakeArgument(st(k), argv[k + 1])  BY <2>1, TakenNext
  <2>2. AfterArgument(argv, k, st(k))  OBVIOUS
  <2> QED  BY <2>2, <2>3, NextArgument
<1> HIDE DEF S
<1>3. S = Nat
  <2>1. S \in SUBSET Nat  BY DEF S
  <2> QED  BY <1>1, <1>2, <2>1, Induction
<1>4. AfterArgument(argv, Len(argv), st(Len(argv)))  BY <1>3 DEF S
<1> QED  BY <1>4, PrefixEnds

\* The last of the arguments that are a key.
LEMMA LastIs ==
  ASSUME NEW argv \in Seq(Arguments), NEW i \in Dashes(argv, Len(argv))
  PROVE  LET l == LastOf(argv, argv[i].text) IN
         /\ l \in Dashes(argv, Len(argv)) /\ argv[l].text = argv[i].text
         /\ \A j \in Dashes(argv, Len(argv)) : j > l => argv[j].text # argv[l].text
<1> DEFINE key == argv[i].text
           n == Len(argv)
           Is(j) == j \in 1 .. n /\ argv[j] = E!Dash(key)
           T == {d \in Nat : Is(n - d)}
<1>1. \A j \in 1 .. n : argv[j] = E!Dash(key) <=> argv[j].dash /\ argv[j].text = key
  <2> SUFFICES ASSUME NEW a \in Arguments
               PROVE  a = E!Dash(key) <=> a.dash /\ a.text = key
    OBVIOUS
  <2>1. PICK b \in BOOLEAN, t \in STRING : a = [dash |-> b, text |-> t]  BY DEF Arguments
  <2>2. a.dash = b /\ a.text = t  BY <2>1
  <2> QED  BY <2>1, <2>2 DEF E!Dash
<1>2. n - i \in T  BY <1>1 DEF Dashes
<1>3. PICK d \in T : \A e \in T : d <= e
  <2> HIDE DEF T
  <2>1. T \in SUBSET Nat  BY DEF T
  <2> QED  BY <1>2, <2>1, Smallest
<1>4. Is(n - d) /\ \A j \in n - d + 1 .. n : argv[j] # E!Dash(key)
  <2>1. ASSUME NEW j \in n - d + 1 .. n, argv[j] = E!Dash(key) PROVE FALSE
    <3>1. n - j \in T  BY <2>1, <1>3
    <3>2. d <= n - j /\ d \in Nat  BY <1>3, <3>1
    <3> QED  BY <3>2
  <2> QED  BY <1>3, <2>1
<1> DEFINE l == LastOf(argv, key)
<1>5. l \in DOMAIN argv /\ argv[l] = E!Dash(key) /\ \A j \in l + 1 .. n : argv[j] # E!Dash(key)
  <2>1. n - d \in DOMAIN argv  BY <1>4
  <2> QED  BY <1>4, <2>1 DEF LastOf
<1> HIDE DEF l
<1>6. l \in 1 .. n  BY <1>5
<1> QED  BY <1>1, <1>5, <1>6 DEF Dashes, l

\* The call of init().
LEMMA ArgumentsRead ==
  ASSUME CallEnvInit, call \in Calls
  PROVE  ArgumentsReadBack'
<1> DEFINE argv == call.argv
           n == Len(argv)
           end == E!Taken(argv)
           keys == {argv[i].text : i \in {j \in DOMAIN argv : argv[j].dash}}
<1>1. call' = call /\ call.to = "argv" /\ result' = E!InitArgs(argv)  BY DEF CallEnvInit, To
<1>2. argv \in Seq(Arguments) /\ argv # <<>>
      /\ \A i \in DOMAIN argv : argv[i].text # None
  BY <1>1, PureCallsAssumption DEF Calls, Arguments
<1> SUFFICES /\ argv[1].dash => result'.ok = ~Misplaced(argv)
             /\ result'.ok => /\ DOMAIN result'.args = keys
                              /\ \A k \in keys : LET i == LastOf(argv, k) IN
                                   E!Get(result'.args, k, None) = Value(argv, i)
  BY <1>1 DEF ArgumentsReadBack, Done, Value
<1> HIDE DEF argv
<1>3. AfterArgument(argv, n, end)  BY <1>2, AllTaken
<1>4. n \in Nat /\ DOMAIN argv = 1 .. n  BY <1>2
<1>5. argv[1].dash => end.ok = ~Misplaced(argv)
  <2>1. end.ok \in BOOLEAN /\ (end.ok <=> ~ \E i \in 1 .. n : IsRefused(argv, i))
    BY <1>3 DEF AfterArgument
  <2>2. ASSUME argv[1].dash, NEW i \in 1 .. n
        PROVE  IsRefused(argv, i)
                 <=> \/ argv[i] = E!Lone
                     \/ (i > 1 /\ ~argv[i].dash /\ ~argv[i - 1].dash)
    <3>1. CASE i = 1  BY <2>2, <3>1 DEF IsRefused
    <3>2. CASE i > 1  BY <2>2, <3>2 DEF IsRefused
    <3> QED  BY <3>1, <3>2
  <2>3. argv[1].dash =>
          (Misplaced(argv) <=> \E i \in 1 .. n : IsRefused(argv, i))
    BY <1>4, <2>2 DEF Misplaced
  <2> HIDE DEF end
  <2> QED  BY <2>1, <2>3
<1>9. end.ok \in BOOLEAN  BY <1>3 DEF AfterArgument
<1>6. keys = {argv[i].text : i \in Dashes(argv, n)}  BY <1>4 DEF Dashes
<1> HIDE DEF end, keys
<1>7. CASE ~end.ok
  <2>1. result'.ok = FALSE  BY <1>1, <1>7 DEF E!InitArgs, end
  <2> QED  BY <1>5, <1>7, <2>1
<1>8. CASE end.ok
  <2>1. result' = [ok |-> TRUE, args |-> E!AddPending(end).args]  BY <1>1, <1>8 DEF E!InitArgs, end
  <2>2. Holds(argv, result'.args, n)  BY <1>2, <1>3, <1>4, <1>8, <2>1, Pending
  <2>3. DOMAIN result'.args = keys  BY <1>6, <2>2 DEF Holds
  <2>4. ASSUME NEW k \in keys
        PROVE  E!Get(result'.args, k, None) = Value(argv, LastOf(argv, k))
    <3>1. PICK i \in Dashes(argv, n) : k = argv[i].text  BY <1>6
    <3> DEFINE l == LastOf(argv, k)
    <3>2. /\ l \in Dashes(argv, n) /\ argv[l].text = k
          /\ \A j \in Dashes(argv, n) : j > l => argv[j].text # argv[l].text
      BY <1>2, <3>1, LastIs
    <3>3. result'.args[k] = Value(argv, l)  BY <2>2, <3>2 DEF Holds
    <3> QED  BY <2>3, <3>3 DEF E!Get, E!Has
  <2> QED  BY <1>5, <1>8, <2>1, <2>3, <2>4
<1> QED  BY <1>7, <1>8, <1>9

(***************************************************************************)
(* The theorems: a call gets one answer, and only that action gives it.    *)
(***************************************************************************)

\* The actions by the kind of the call.
LEMMA OneAnswer ==
  ASSUME call \in Calls, [CallNext]_callVars
  PROVE  /\ call' = call
         /\ UNCHANGED result \/ CASE call.to = "IPv4"              -> CallIPv4
                                  [] call.to = "IPv6"              -> CallIPv6
                                  [] call.to \in {"groups", "path"} -> CallInsert
                                  [] call.to = "host"              -> CallLookup
                                  [] call.to = "pattern"           -> CallPattern
                                  [] OTHER                         -> CallEnvInit
<1>1. CASE CallIPv4  BY <1>1 DEF CallIPv4, To
<1>2. CASE CallIPv6  BY <1>2 DEF CallIPv6, To
<1>3. CASE CallInsert  BY <1>3 DEF CallInsert, To
<1>4. CASE CallLookup  BY <1>4 DEF CallLookup, To
<1>5. CASE CallPattern  BY <1>5 DEF CallPattern, To
<1>6. CASE CallEnvInit  BY <1>6 DEF CallEnvInit, To
<1>7. CASE UNCHANGED callVars  BY <1>7 DEF callVars
<1> QED  BY <1>1, <1>2, <1>3, <1>4, <1>5, <1>6, <1>7 DEF CallNext

\* The masks of an address keep the prefix, change the rest, and are found again by
\* their length, for every address and every prefix (address.cc:25-35, 310-340,
\* 408-440): the networks of an interface are the ones it has.
THEOREM MasksRight == CallSpec => []MasksCohere
<1> DEFINE Inv == call \in Calls /\ MasksCohere
<1>1. CallInit => Inv  BY DEF CallInit, MasksCohere, Done
<1>2. Inv /\ [CallNext]_callVars => Inv'
  <2> SUFFICES ASSUME Inv, [CallNext]_callVars PROVE Inv'  OBVIOUS
  <2>1. call' = call  BY OneAnswer
  <2>2. CASE UNCHANGED result  BY <2>1, <2>2 DEF MasksCohere, Done
  <2>3. CASE ~UNCHANGED result
    BY <2>1, <2>3, OneAnswer, Masks4, Masks6 DEF MasksCohere, Done
  <2> QED  BY <2>1, <2>2, <2>3
<1> QED  BY <1>1, <1>2, PTL DEF CallSpec

\* What is printed of an IPv6 address reads back as that address, wherever its zeros
\* are, and of a path as that path, if it fits; if not, and only then, the
\* constructor throws (address.cc:382-406, 457-500).
THEOREM TextsRight == CallSpec => []PrintReadsBack
<1> DEFINE Inv == call \in Calls /\ PrintReadsBack
<1>1. CallInit => Inv  BY DEF CallInit, PrintReadsBack, Done
<1>2. Inv /\ [CallNext]_callVars => Inv'
  <2> SUFFICES ASSUME Inv, [CallNext]_callVars PROVE Inv'  OBVIOUS
  <2>1. call' = call  BY OneAnswer
  <2>2. CASE UNCHANGED result  BY <2>1, <2>2 DEF PrintReadsBack, Done
  <2>3. CASE ~UNCHANGED result
    BY <2>1, <2>3, OneAnswer, TextsRead DEF PrintReadsBack, Done
  <2> QED  BY <2>1, <2>2, <2>3
<1> QED  BY <1>1, <1>2, PTL DEF CallSpec

\* A host name that is written with its brackets is taken apart into the node and
\* the service it was written of, whatever they are (address.cc:73-101).
THEOREM HostsRight == CallSpec => []HostIsSplit
<1> DEFINE Inv == call \in Calls /\ HostIsSplit
<1>1. CallInit => Inv  BY DEF CallInit, HostIsSplit, Done
<1>2. Inv /\ [CallNext]_callVars => Inv'
  <2> SUFFICES ASSUME Inv, [CallNext]_callVars PROVE Inv'  OBVIOUS
  <2>1. call' = call  BY OneAnswer
  <2>2. CASE UNCHANGED result  BY <2>1, <2>2 DEF HostIsSplit, Done
  <2>3. CASE ~UNCHANGED result
    BY <2>1, <2>3, OneAnswer, HostSplit DEF HostIsSplit, Done
  <2> QED  BY <2>1, <2>2, <2>3
<1> QED  BY <1>1, <1>2, PTL DEF CallSpec

\* A pattern becomes the items it was written of, however long it is, and an unknown
\* item is an error (log.cc:226-355).
THEOREM PatternsRight == CallSpec => []PatternReadsBack
<1> DEFINE Inv == call \in Calls /\ PatternReadsBack
<1>1. CallInit => Inv  BY DEF CallInit, PatternReadsBack, Done
<1>2. Inv /\ [CallNext]_callVars => Inv'
  <2> SUFFICES ASSUME Inv, [CallNext]_callVars PROVE Inv'  OBVIOUS
  <2>1. call' = call  BY OneAnswer
  <2>2. CASE UNCHANGED result  BY <2>1, <2>2 DEF PatternReadsBack, Done
  <2>3. CASE ~UNCHANGED result
    BY <2>1, <2>3, OneAnswer, PatternRead DEF PatternReadsBack, Done
  <2> QED  BY <2>1, <2>2, <2>3
<1> QED  BY <1>1, <1>2, PTL DEF CallSpec

\* Of arguments that begin with a key init() refuses just those with a word or a
\* dash out of place, and of whatever it accepts every key has the word behind its
\* last occurrence, for every argument vector (env.cc:33-58).
THEOREM ArgumentsRight == CallSpec => []ArgumentsReadBack
<1> DEFINE Inv == call \in Calls /\ ArgumentsReadBack
<1>1. CallInit => Inv  BY DEF CallInit, ArgumentsReadBack, Done
<1>2. Inv /\ [CallNext]_callVars => Inv'
  <2> SUFFICES ASSUME Inv, [CallNext]_callVars PROVE Inv'  OBVIOUS
  <2>1. call' = call  BY OneAnswer
  <2>2. CASE UNCHANGED result  BY <2>1, <2>2 DEF ArgumentsReadBack, Done
  <2>3. CASE ~UNCHANGED result
    BY <2>1, <2>3, OneAnswer, ArgumentsRead DEF ArgumentsReadBack, Done
  <2> QED  BY <2>1, <2>2, <2>3
<1> QED  BY <1>1, <1>2, PTL DEF CallSpec

(***************************************************************************)
(* Daemon                                                                  *)
(*                                                                         *)
(* The parent's record says how many children crashed, except between a    *)
(* crash and the addition that follows the wait for it; a child's record   *)
(* is a copy of the parent's, which does not change while the child lives. *)
(***************************************************************************)
Infos == [parent_id: Pids \cup {NoPid}, main_id: Pids \cup {NoPid},
            parent_start_time: Nat, main_start_time: Nat, restart_count: Nat]

Types ==
  /\ first \in Pids /\ parent \in Pids
  /\ pc \in {"call", "main", "record", "fork", "wait", "waited", "sleep", "done"}
  /\ pid \in Pids \cup {NoPid}
  /\ status \in {"zero", "crashed"}
  /\ proc \in [Pids -> Process]
  /\ info \in [Pids -> Infos]
  /\ now \in Nat /\ crashes \in Nat
  /\ ignored \in BOOLEAN /\ interrupts \in BOOLEAN /\ unheard \in BOOLEAN

\* The parent runs, and the only child there may be is the one it waits for.
Waits == pc \in {"wait", "waited", "done"}
Child1 == /\ proc[parent] = "main"
          /\ Waits => pid \in Children
          /\ \A p \in Children : proc[p] # "none" => Waits /\ p = pid

\* Who has waited for its child in vain finishes.
Heard == /\ unheard => pc \in {"waited", "done"} /\ status = "zero"
         /\ pc = "done" => status = "zero"
         /\ pc = "wait" => status = "zero"
         /\ pc \in {"waited", "done"} /\ ~unheard => proc[pid] = "none"

\* What the parent's record says of itself.
Parents == LET i == info[parent] IN
  pc \notin {"call", "main", "record"} =>
    i.parent_id = parent /\ i.parent_start_time <= now

\* How far it is behind: not at all while the child lives, or none is there.
Count == info[parent].restart_count
Counts ==
  /\ pc \in {"call", "main", "record", "fork", "sleep"} => Count = crashes
  /\ pc \in {"wait", "waited", "done"} /\ Alive(pid) => Count = crashes
  /\ pc = "wait" /\ proc[pid] = "zero" => Count = crashes
  /\ pc = "wait" /\ proc[pid] = "crashed" => Count + 1 = crashes
  /\ pc = "waited" /\ status = "crashed" => Count + 1 = crashes

\* A child's record is a copy of the parent's, completed when it is in main_cb.
Copies == Waits =>
  /\ proc[pid] = "forked" => info[pid] = info[parent]
  /\ proc[pid] = "main" =>
       LET i == info[pid] IN
       /\ i.parent_id = info[parent].parent_id
       /\ i.parent_start_time = info[parent].parent_start_time
       /\ i.restart_count = Count
       /\ i.main_id = pid
       /\ i.parent_start_time <= i.main_start_time /\ i.main_start_time <= now

DInv == /\ Types /\ Child1 /\ Heard /\ Parents /\ Counts /\ Copies

LEMMA DInvInit == Init => DInv
<1> SUFFICES ASSUME Init PROVE DInv  OBVIOUS
<1>1. NoInfo \in Infos  BY DEF NoInfo, Infos
<1>2. Types  BY <1>1 DEF Init, Types, Process
<1>3. \A p \in Children : proc[p] = "none"  BY DEF Init, Children
<1>4. Count = 0  BY DEF Init, Count, NoInfo
<1> QED
  BY <1>2, <1>3, <1>4
  DEF Init, DInv, Child1, Waits, Heard, Parents, Counts, Copies

USE DEF kernelVars, Waits, Children, Alive, Count

\* daemon() leaves the record with whoever goes on.
LEMMA DInvDaemonize ==
  ASSUME DInv, NEW p \in Pids, Daemonize(p)
  PROVE  DInv'
<1> USE DEF DInv
<1>1. /\ pc = "call" /\ pc' = "record" /\ parent' = p
      /\ UNCHANGED <<pid, status, now, crashes, unheard, first, ignored,
                     interrupts>>
      /\ \/ p = parent /\ UNCHANGED <<proc, info>>
         \/ /\ p \in Pids /\ proc[p] = "none"
            /\ proc' = [proc EXCEPT ![parent] = "none", ![p] = "main"]
            /\ info' = [info EXCEPT ![p] = info[parent], ![parent] = NoInfo]
  BY DEF Daemonize, Unused
<1>2. NoInfo \in Infos  BY DEF NoInfo, Infos
<1>3. Types'
  <2>1. proc' \in [Pids -> Process] /\ info' \in [Pids -> Infos]
    BY <1>1, <1>2 DEF Types, Process
  <2> QED  BY <1>1, <2>1 DEF Types
<1>4. /\ info'[p] = info[parent] /\ proc'[p] = "main"
      /\ \A q \in Pids : q # p => proc'[q] = "none"
  BY <1>1 DEF Types, Child1
<1>5. Child1' /\ Heard'  BY <1>1, <1>4 DEF Child1, Heard
<1>6. Parents' /\ Counts' /\ Copies'
  BY <1>1, <1>4 DEF Parents, Counts, Copies
<1> QED  BY <1>3, <1>5, <1>6

\* Every step preserves the invariant.
LEMMA DInvNext == DInv /\ [Next]_vars => DInv'
<1> SUFFICES ASSUME DInv, [Next]_vars PROVE DInv'  OBVIOUS
<1> USE DEF DInv
<1>1. CASE RealStart
  BY <1>1 DEF RealStart, Types, Child1, Heard, Parents, Counts, Copies
<1>2. ASSUME NEW p \in Pids, Daemonize(p) PROVE DInv'
  BY <1>2, DInvDaemonize
<1>3. CASE Record
  <2>1. /\ pc = "record" /\ pc' = "fork"
        /\ info' = [info EXCEPT ![parent].parent_id = parent,
                                ![parent].parent_start_time = now]
        /\ UNCHANGED <<parent, pid, status, proc, now, crashes, unheard,
                       first, ignored, interrupts>>
    BY <1>3 DEF Record, Getpid
  <2>2. info' \in [Pids -> Infos]  BY <2>1 DEF Types, Infos
  <2>3. /\ info'[parent].parent_id = parent
        /\ info'[parent].parent_start_time = now
        /\ info'[parent].restart_count = info[parent].restart_count
    BY <2>1 DEF Types, Infos
  <2>4. Types' /\ Child1' /\ Heard'
    BY <2>1, <2>2 DEF Types, Child1, Heard
  <2>5. Parents' /\ Counts' /\ Copies'
    BY <2>1, <2>3 DEF Types, Parents, Counts, Copies
  <2> QED  BY <2>4, <2>5
<1>4. ASSUME NEW p \in Pids, Fork(p) PROVE DInv'
  <2>1. /\ pc = "fork" /\ pc' = "wait" /\ pid' = p /\ status' = "zero"
        /\ proc[p] = "none" /\ proc' = [proc EXCEPT ![p] = "forked"]
        /\ info' = [info EXCEPT ![p] = info[parent]]
        /\ UNCHANGED <<parent, now, crashes, unheard, first, ignored,
                       interrupts>>
    BY <1>4 DEF Fork, Unused
  <2>2. p # parent  BY <2>1 DEF Child1
  <2>3. /\ info'[p] = info[parent] /\ info'[parent] = info[parent]
        /\ proc'[p] = "forked"
        /\ \A q \in Children : q # p => proc'[q] = "none"
    BY <2>1, <2>2 DEF Types, Child1
  <2>4. Types'  BY <2>1 DEF Types, Process
  <2>5. Child1' /\ Heard'  BY <2>1, <2>2, <2>3 DEF Child1, Heard
  <2>6. Parents' /\ Counts' /\ Copies'
    BY <2>1, <2>3 DEF Parents, Counts, Copies
  <2> QED  BY <2>4, <2>5, <2>6
<1>5. CASE Reap
  <2>1. /\ pc = "wait" /\ pc' = "waited"
        /\ proc[pid] \in {"zero", "crashed"} /\ status' = proc[pid]
        /\ proc' = [proc EXCEPT ![pid] = "none"]
        /\ UNCHANGED <<parent, pid, info, now, crashes, unheard, first,
                       ignored, interrupts>>
    BY <1>5 DEF Reap
  <2>2. /\ pid \in Children /\ proc'[pid] = "none" /\ proc'[parent] = "main"
        /\ \A q \in Children : proc'[q] = "none"
    BY <2>1 DEF Types, Child1
  <2>3. Types'  BY <2>1 DEF Types, Process
  <2>4. Child1' /\ Heard'  BY <2>1, <2>2 DEF Child1, Heard
  <2>5. Parents' /\ Counts' /\ Copies'
    BY <2>1, <2>2 DEF Parents, Counts, Copies
  <2> QED  BY <2>3, <2>4, <2>5
<1>6. CASE WaitFails
  BY <1>6 DEF WaitFails, Types, Child1, Heard, Parents, Counts, Copies
<1>7. CASE Finish
  BY <1>7 DEF Finish, Finished, Crashed, Types, Child1, Heard, Parents, Counts,
              Copies
<1>8. CASE Restart
  <2>1. /\ pc = "waited" /\ pc' = "sleep" /\ status # "zero"
        /\ info' = [info EXCEPT ![parent].restart_count = @ + 1]
        /\ UNCHANGED <<parent, pid, status, proc, now, crashes, unheard,
                       first, ignored, interrupts>>
    BY <1>8 DEF Restart, Counted, Finished, Crashed
  <2>2. /\ info' \in [Pids -> Infos]
        /\ info'[parent].restart_count = info[parent].restart_count + 1
        /\ info'[parent].parent_id = info[parent].parent_id
        /\ info'[parent].parent_start_time = info[parent].parent_start_time
    BY <2>1 DEF Types, Infos
  <2>3. ~unheard /\ proc[pid] = "none"  BY <2>1 DEF Heard
  <2>4. Types' /\ Child1' /\ Heard'
    BY <2>1, <2>2, <2>3 DEF Types, Child1, Heard
  <2>5. Parents' /\ Copies'  BY <2>1, <2>2 DEF Parents, Copies
  <2>6. Counts'  BY <2>1, <2>2 DEF Types, Counts
  <2> QED  BY <2>4, <2>5, <2>6
<1>9. CASE Awake
  BY <1>9 DEF Awake, Types, Child1, Heard, Parents, Counts, Copies
<1>10. ASSUME NEW p \in Pids, EnterMain(p) PROVE DInv'
  <2>1. /\ p \in Children /\ proc[p] = "forked"
        /\ proc' = [proc EXCEPT ![p] = "main"]
        /\ info' = [info EXCEPT ![p].main_id = p, ![p].main_start_time = now]
        /\ UNCHANGED <<parent, pc, pid, status, now, crashes, unheard, first,
                       ignored, interrupts>>
    BY <1>10 DEF EnterMain
  <2>2. Waits /\ p = pid /\ p # parent  BY <2>1 DEF Child1
  <2>3. info[p] = info[parent]  BY <2>1, <2>2 DEF Copies
  <2>4. /\ info' \in [Pids -> Infos] /\ info'[parent] = info[parent]
        /\ proc'[p] = "main" /\ proc'[parent] = "main"
        /\ \A q \in Pids : q # p => proc'[q] = proc[q]
    <3>1. [info[p] EXCEPT !.main_id = p, !.main_start_time = now] \in Infos
      BY DEF Types, Infos
    <3>2. info' = [info EXCEPT ![p] =
                     [info[p] EXCEPT !.main_id = p, !.main_start_time = now]]
      BY <2>1 DEF Types, Infos
    <3> QED  BY <2>1, <2>2, <3>1, <3>2 DEF Types, Child1
  <2>5. Types'  BY <2>1, <2>4 DEF Types, Process
  <2>6. Child1' /\ Heard'  BY <2>1, <2>2, <2>4 DEF Child1, Heard
  <2>7. Parents' /\ Counts'
    BY <2>1, <2>2, <2>4 DEF Parents, Counts
  <2>8. /\ info'[p].parent_id = info[p].parent_id
        /\ info'[p].parent_start_time = info[p].parent_start_time
        /\ info'[p].restart_count = info[p].restart_count
        /\ info'[p].main_id = p /\ info'[p].main_start_time = now
    BY <2>1 DEF Types, Infos
  <2>9. info[parent].parent_start_time <= now /\ now <= now
    BY <2>2 DEF Types, Parents
  <2>10. Copies'
    BY <2>1, <2>2, <2>3, <2>4, <2>8, <2>9 DEF Copies
  <2> QED  BY <2>5, <2>6, <2>7, <2>10
<1>11. ASSUME NEW p \in Pids, NEW s \in {"zero", "crashed"},
              p \in Children, Alive(p), Ends(p, s),
              crashes' = IF s = "crashed" THEN crashes + 1 ELSE crashes
       PROVE  DInv'
  <2>1. /\ proc' = [proc EXCEPT ![p] = IF ignored THEN "none" ELSE s]
        /\ info' = [info EXCEPT ![p] = NoInfo]
        /\ UNCHANGED <<parent, pc, pid, status, now, unheard, first, ignored,
                       interrupts>>
    BY <1>11 DEF Ends
  <2>2. Waits /\ p = pid /\ p # parent  BY <1>11 DEF Child1
  <2>3. /\ info'[parent] = info[parent] /\ proc'[p] \in {"none", s}
        /\ proc'[parent] = "main"
        /\ \A q \in Pids : q # p => proc'[q] = proc[q]
    BY <2>1, <2>2 DEF Types, Child1
  <2>4. pc \in {"waited", "done"} => unheard /\ status = "zero"
    BY <1>11, <2>2 DEF Heard
  <2>5. Types'
    <3>1. NoInfo \in Infos  BY DEF NoInfo, Infos
    <3>2. proc' \in [Pids -> Process] /\ info' \in [Pids -> Infos]
      BY <2>1, <3>1 DEF Types, Process
    <3> QED  BY <1>11, <2>1, <3>2 DEF Types
  <2>6. Child1' /\ Heard'  BY <2>1, <2>2, <2>3, <2>4 DEF Child1, Heard
  <2>7. Parents' /\ Copies'  BY <2>1, <2>2, <2>3 DEF Parents, Copies
  <2>8. Count = crashes  BY <1>11, <2>2 DEF Counts
  <2>9. Counts'
    BY <1>11, <2>1, <2>2, <2>3, <2>4, <2>8 DEF Counts
  <2> QED  BY <2>5, <2>6, <2>7, <2>9
<1>12. ASSUME NEW p \in Pids, Return(p) PROVE DInv'
  BY <1>11, <1>12 DEF Return
<1>13. ASSUME NEW p \in Pids, Crash(p) PROVE DInv'
  BY <1>11, <1>13 DEF Crash
<1>14. CASE Tick
  <2>1. /\ now' = now + 1
        /\ UNCHANGED <<parent, pc, pid, status, proc, info, crashes, unheard,
                       first, ignored, interrupts>>
    BY <1>14 DEF Tick
  <2>2. Types' /\ Child1' /\ Heard'  BY <2>1 DEF Types, Child1, Heard
  <2>3. info[parent] \in Infos /\ (pid \in Pids => info[pid] \in Infos)
    BY DEF Types
  <2>4. Parents' /\ Counts'
    BY <2>1, <2>3 DEF Types, Infos, Parents, Counts
  <2>5. Copies'
    BY <2>1, <2>3 DEF Types, Infos, Child1, Copies
  <2> QED  BY <2>2, <2>4, <2>5
<1>15. CASE UNCHANGED vars
  BY <1>15 DEF vars, Types, Child1, Heard, Parents, Counts, Copies
<1> QED
  BY <1>1, <1>2, <1>3, <1>4, <1>5, <1>6, <1>7, <1>8, <1>9, <1>10, <1>12, <1>13,
     <1>14, <1>15
  DEF Next, Parent, Child, Forks, ForkFails, Over

LEMMA DInvAlways == Spec => []DInv
<1>1. Init => DInv  BY DInvInit
<1>2. DInv /\ [Next]_vars => DInv'  BY DInvNext
<1> QED  BY <1>1, <1>2, PTL DEF Spec

\* Whatever crashed before, a child in main_cb that the parent waits for has the
\* right numbers, times and count in its ProcessInfo (daemon.cc:31-61).
THEOREM InfoCorrect == Spec => []InfoIsTrue
<1>1. DInv => InfoIsTrue
  <2> SUFFICES ASSUME DInv, NEW p \in Children, proc[p] = "main",
                      pc \in {"wait", "waited"}
               PROVE  /\ p = pid
                      /\ info[p].main_id = p /\ info[p].parent_id = parent
                      /\ info[p].parent_start_time <= info[p].main_start_time
                      /\ info[p].main_start_time <= now
                      /\ info[p].restart_count = crashes
    BY DEF InfoIsTrue
  <2> USE DEF DInv
  <2>1. p = pid  BY DEF Child1
  <2> QED  BY <2>1 DEF Copies, Parents, Counts
<1> QED  BY <1>1, DInvAlways, PTL

\* Never two children, and no end of the daemon before a child has ended with
\* status 0, as long as waitpid() does what it should (daemon.cc:48-60).
THEOREM OneChildOnly == Spec => []OneChild
<1>1. DInv => OneChild
  BY DEF DInv, Child1, Heard, OneChild
<1> QED  BY <1>1, DInvAlways, PTL
==================================================================================

------------------------------ MODULE Log_proofs ------------------------------
(***************************************************************************)
(* Proofs about setValue() and its listeners, as Config has them and Log   *)
(* uses them, for any number of threads, variables, loggers and files.     *)
(*                                                                         *)
(* LInv follows a call of setValue() that is alone with its variable:      *)
(* there is one at most, and every listener has heard what it sets or is   *)
(* on its list.  It needs no more of the types than Shapes says.           *)
(*                                                                         *)
(* Following does the same for the loggers: until such a call has called   *)
(* the log system's listener they are as the old value has them, and from  *)
(* then on each of them is as the new one has it, half way there, or still *)
(* to be worked on.                                                        *)
(***************************************************************************)
EXTENDS Log, SequenceTheorems, FiniteSetTheorems, TLAPS

\* setValue() is between its comparison and its return.
Sets(t, k) == In(t, k, {"notify", "store"})
Fields == {"pc", "todo", "key", "new", "left", "alone"}

\* What the types of the variables say that the argument needs.
Shapes ==
  /\ datas \subseteq Keys
  /\ cbs \in [Keys -> Seq(Listeners)]
  /\ DOMAIN val = Keys /\ DOMAIN dispute = Keys /\ DOMAIN heard = Keys
  /\ \A k \in Keys : DOMAIN heard[k] = Listeners
  /\ DOMAIN call = Threads
  /\ \A t \in Threads : DOMAIN call[t] = Fields
  /\ \A t \in Threads : call[t].pc \in {"notify", "store"} =>
       call[t].key \in Keys /\ call[t].left \in Seq(Listeners)

\* Who is alone in setting a variable is the only one that sets it.
OneAlone == \A t, u \in Threads : \A k \in Keys :
  t # u /\ Sets(t, k) /\ Sets(u, k) => ~call[t].alone

\* Every listener has heard what a call that is alone sets, or is still to hear.
ToHear(t) == {call[t].left[i] : i \in DOMAIN call[t].left}
Hearing == \A t \in Threads : \A k \in Keys : Sets(t, k) /\ call[t].alone =>
  \A l \in Registered(k) :
    heard[k][l] = call[t].new \/ (call[t].pc = "notify" /\ l \in ToHear(t))

\* When nobody sets it and no call was in another's way, all have heard.
Settled == \A k \in Keys : ~Setting(k) /\ dispute[k] # "now" =>
  \A l \in Registered(k) : heard[k][l] = val[k]

LInv == Shapes /\ OneAlone /\ Hearing /\ Settled

-----------------------------------------------------------------------------
(***************************************************************************)
(* Sequences of listeners                                                  *)
(***************************************************************************)
\* One listener more ...
LEMMA AppendSet ==
  ASSUME NEW s \in Seq(Listeners), NEW l \in Listeners
  PROVE  /\ Append(s, l) \in Seq(Listeners)
         /\ \A i \in DOMAIN Append(s, l) :
              Append(s, l)[i] = l \/ \E j \in DOMAIN s : Append(s, l)[i] = s[j]
<1> DEFINE a == Append(s, l)
<1>1. /\ a \in Seq(Listeners) /\ Len(a) = Len(s) + 1 /\ a[Len(s) + 1] = l
      /\ \A i \in 1 .. Len(s) : a[i] = s[i]
  BY AppendProperties
<1>2. /\ DOMAIN a = 1 .. Len(s) + 1 /\ DOMAIN s = 1 .. Len(s) /\ Len(s) \in Nat
  BY <1>1, LenProperties
<1> HIDE DEF a
<1>3. \A i \in 1 .. Len(s) + 1 : i = Len(s) + 1 \/ i \in 1 .. Len(s)
  BY <1>2
<1> QED  BY <1>1, <1>2, <1>3 DEF a

\* ... or fewer ...
LEMMA RemoveSet ==
  ASSUME NEW s \in Seq(Listeners), NEW n \in DOMAIN s
  PROVE  /\ RemoveAt(s, n) \in Seq(Listeners)
         /\ DOMAIN RemoveAt(s, n) = 1 .. Len(s) - 1
         /\ \A i \in DOMAIN RemoveAt(s, n) :
              /\ i < n => i \in DOMAIN s /\ RemoveAt(s, n)[i] = s[i]
              /\ i >= n => i + 1 \in DOMAIN s /\ RemoveAt(s, n)[i] = s[i + 1]
<1> DEFINE a == SubSeq(s, 1, n - 1)
           b == SubSeq(s, n + 1, Len(s))
<1>1. /\ DOMAIN s = 1 .. Len(s) /\ Len(s) \in Nat /\ n \in 1 .. Len(s)
      /\ \A i \in 1 .. Len(s) : s[i] \in Listeners
  BY LenProperties, ElementOfSeq
<1>2. n - 1 \in Int /\ n + 1 \in Int /\ Len(s) \in Int /\ n \in Int  BY <1>1
<1>3. /\ a \in Seq(Listeners)
      /\ Len(a) = IF 1 <= n - 1 THEN n - 1 - 1 + 1 ELSE 0
      /\ \A i \in 1 .. n - 1 - 1 + 1 : a[i] = s[1 + i - 1]
  <2>1. \A i \in 1 .. n - 1 : s[i] \in Listeners  BY <1>1, <1>2
  <2> QED  BY <1>2, <2>1, SubSeqProperties
<1>4. /\ b \in Seq(Listeners)
      /\ Len(b) = IF n + 1 <= Len(s) THEN Len(s) - (n + 1) + 1 ELSE 0
      /\ \A i \in 1 .. Len(s) - (n + 1) + 1 : b[i] = s[(n + 1) + i - 1]
  <2>1. \A i \in n + 1 .. Len(s) : s[i] \in Listeners  BY <1>1, <1>2
  <2> QED  BY <1>2, <2>1, SubSeqProperties
<1> HIDE DEF a, b
<1>5. Len(a) = n - 1 /\ Len(b) = Len(s) - n
  BY <1>1, <1>2, <1>3, <1>4
<1>6. /\ a \o b \in Seq(Listeners) /\ Len(a \o b) = Len(a) + Len(b)
      /\ \A i \in 1 .. Len(a) + Len(b) :
           (a \o b)[i] = IF i <= Len(a) THEN a[i] ELSE b[i - Len(a)]
  BY <1>3, <1>4, ConcatProperties
<1>7. DOMAIN (a \o b) = 1 .. Len(s) - 1
  <2>1. Len(a) + Len(b) = Len(s) - 1  BY <1>1, <1>2, <1>5
  <2> QED  BY <1>6, <2>1, LenProperties
<1>8. ASSUME NEW i \in 1 .. Len(s) - 1
      PROVE  /\ i < n => i \in DOMAIN s /\ (a \o b)[i] = s[i]
             /\ i >= n => i + 1 \in DOMAIN s /\ (a \o b)[i] = s[i + 1]
  <2>1. i \in Int /\ i \in 1 .. Len(a) + Len(b)  BY <1>1, <1>2, <1>5
  <2>2. CASE i <= n - 1
    <3>1. i \in 1 .. n - 1 - 1 + 1 /\ 1 + i - 1 = i /\ i \in 1 .. Len(s)
      BY <1>1, <1>2, <2>1, <2>2
    <3>2. (a \o b)[i] = a[i] /\ a[i] = s[i]  BY <1>3, <1>5, <1>6, <2>1, <2>2, <3>1
    <3> QED  BY <1>1, <1>2, <2>1, <2>2, <3>1, <3>2
  <2>3. CASE ~(i <= n - 1)
    <3> DEFINE m == i - (n - 1)
    <3>1. m \in 1 .. Len(s) - (n + 1) + 1 /\ (n + 1) + m - 1 = i + 1
          /\ i + 1 \in 1 .. Len(s)
      BY <1>1, <1>2, <2>1, <2>3
    <3>2. (a \o b)[i] = b[m]  BY <1>5, <1>6, <2>1, <2>3
    <3> HIDE DEF m
    <3>3. b[m] = s[i + 1]  BY <1>4, <3>1
    <3> QED  BY <1>1, <1>2, <2>1, <2>3, <3>1, <3>2, <3>3
  <2> QED  BY <2>2, <2>3
<1> QED  BY <1>1, <1>6, <1>7, <1>8 DEF RemoveAt, a, b

\* ... or told.
LEMMA TailSet ==
  ASSUME NEW s \in Seq(Listeners), s # <<>>
  PROVE  /\ Head(s) \in Listeners /\ Tail(s) \in Seq(Listeners)
         /\ \A i \in DOMAIN s :
              s[i] = Head(s) \/ \E j \in DOMAIN Tail(s) : Tail(s)[j] = s[i]
<1> DEFINE r == Tail(s)
<1>1. /\ Head(s) = s[1] /\ Head(s) \in Listeners /\ r \in Seq(Listeners)
      /\ Len(r) = Len(s) - 1 /\ \A i \in 1 .. Len(r) : r[i] = s[i + 1]
  BY HeadTailProperties
<1>2. DOMAIN r = 1 .. Len(s) - 1 /\ DOMAIN s = 1 .. Len(s) /\ Len(s) \in Nat
  BY <1>1, LenProperties
<1> HIDE DEF r
<1>3. ASSUME NEW i \in 1 .. Len(s), i # 1
      PROVE  \E j \in DOMAIN r : r[j] = s[i]
  <2>1. i - 1 \in 1 .. Len(s) - 1 /\ (i - 1) + 1 = i  BY <1>2, <1>3
  <2> QED  BY <1>1, <1>2, <2>1
<1> QED  BY <1>1, <1>2, <1>3 DEF r
\* None of this makes a listener appear twice.
Distinct(s) == \A i, j \in DOMAIN s : s[i] = s[j] => i = j

LEMMA AppendDistinct ==
  ASSUME NEW s \in Seq(Listeners), NEW l \in Listeners, Distinct(s),
         \A i \in DOMAIN s : s[i] # l
  PROVE  Distinct(Append(s, l))
<1> DEFINE a == Append(s, l)
<1>1. /\ a \in Seq(Listeners) /\ Len(a) = Len(s) + 1 /\ a[Len(s) + 1] = l
      /\ \A i \in 1 .. Len(s) : a[i] = s[i]
  BY AppendProperties
<1>2. /\ DOMAIN a = 1 .. Len(s) + 1 /\ DOMAIN s = 1 .. Len(s) /\ Len(s) \in Nat
  BY <1>1, LenProperties
<1> HIDE DEF a
<1>3. \A i \in DOMAIN a : i = Len(s) + 1 \/ i \in DOMAIN s
  BY <1>2
<1>4. Distinct(a)  BY <1>1, <1>2, <1>3 DEF Distinct
<1> QED  BY <1>4 DEF a

LEMMA RemoveDistinct ==
  ASSUME NEW s \in Seq(Listeners), NEW n \in DOMAIN s, Distinct(s)
  PROVE  Distinct(RemoveAt(s, n))
<1> DEFINE r == RemoveAt(s, n)
<1>1. /\ DOMAIN r = 1 .. Len(s) - 1
      /\ \A i \in DOMAIN r :
           /\ i < n => i \in DOMAIN s /\ r[i] = s[i]
           /\ i >= n => i + 1 \in DOMAIN s /\ r[i] = s[i + 1]
  BY RemoveSet
<1>2. DOMAIN s = 1 .. Len(s) /\ Len(s) \in Nat  BY LenProperties
<1> HIDE DEF r
<1>3. ASSUME NEW i \in DOMAIN r, NEW j \in DOMAIN r, r[i] = r[j]
      PROVE  i = j
  <2> DEFINE p(x) == IF x < n THEN x ELSE x + 1
  <2>1. i \in Int /\ j \in Int /\ n \in Int  BY <1>1, <1>2
  <2>2. p(i) \in DOMAIN s /\ s[p(i)] = r[i] /\ p(j) \in DOMAIN s /\ s[p(j)] = r[j]
    BY <1>1, <2>1
  <2>3. p(i) = p(j)  BY <1>3, <2>2, Zenon DEF Distinct
  <2> QED  BY <2>1, <2>3
<1>4. Distinct(r)  BY <1>3 DEF Distinct
<1> QED  BY <1>4 DEF r

LEMMA TailDistinct ==
  ASSUME NEW s \in Seq(Listeners), s # <<>>, Distinct(s)
  PROVE  /\ Distinct(Tail(s))
         /\ \A i \in DOMAIN Tail(s) : /\ Tail(s)[i] # Head(s)
                                      /\ \E j \in DOMAIN s : Tail(s)[i] = s[j]
<1> DEFINE r == Tail(s)
<1>1. /\ Head(s) = s[1] /\ r \in Seq(Listeners)
      /\ Len(r) = Len(s) - 1 /\ \A i \in 1 .. Len(r) : r[i] = s[i + 1]
  BY HeadTailProperties
<1>2. /\ DOMAIN r = 1 .. Len(s) - 1 /\ DOMAIN s = 1 .. Len(s) /\ Len(s) \in Nat
      /\ Len(r) = Len(s) - 1
  BY <1>1, LenProperties
<1> HIDE DEF r
<1>3. \A i \in DOMAIN r : i + 1 \in DOMAIN s /\ 1 \in DOMAIN s /\ i + 1 # 1
                         /\ i \in Int
  BY <1>2
<1>4. \A i \in DOMAIN r : r[i] = s[i + 1]  BY <1>1, <1>2
<1>5. Distinct(r)
  <2> SUFFICES ASSUME NEW i \in DOMAIN r, NEW j \in DOMAIN r, r[i] = r[j]
               PROVE  i = j
    BY DEF Distinct
  <2>1. i + 1 = j + 1  BY <1>3, <1>4 DEF Distinct
  <2> QED  BY <1>3, <2>1
<1>6. \A i \in DOMAIN r : r[i] # Head(s) /\ \E j \in DOMAIN s : r[i] = s[j]
  BY <1>1, <1>3, <1>4 DEF Distinct
<1> QED  BY <1>5, <1>6 DEF r
-----------------------------------------------------------------------------
(***************************************************************************)
(* The steps of Config                                                     *)
(***************************************************************************)
\* Initially nobody sets anything, and what was heard is the default.
LEMMA LInvInit == Init => LInv
<1> SUFFICES ASSUME Init PROVE LInv  OBVIOUS
<1>1. /\ datas = StaticKeys /\ val = [k \in Keys |-> Default]
      /\ cbs = [k \in Keys |-> IF k = Logs THEN <<LogIniter>> ELSE <<>>]
      /\ call = [t \in Threads |-> NoCall]
      /\ heard = [k \in Keys |-> [l \in Listeners |-> Default]]
      /\ dispute = [k \in Keys |-> "never"]
  BY DEF Init, ConfigInit
<1>2. \A t \in Threads : call[t] = NoCall /\ call[t].pc = "user"
                         /\ DOMAIN call[t] = Fields
  BY <1>1 DEF NoCall, Fields
<1>3. cbs \in [Keys -> Seq(Listeners)]
  <2>1. <<LogIniter>> \in Seq(Listeners) /\ <<>> \in Seq(Listeners)
    BY LogAssumption
  <2> QED  BY <1>1, <2>1
<1>4. Shapes
  BY <1>1, <1>2, <1>3, ConfigAssumption DEF Shapes
<1>5. OneAlone /\ Hearing
  BY <1>2 DEF OneAlone, Hearing, Sets, In
<1>6. Settled
  <2>1. \A k \in Keys : \A l \in Registered(k) : l \in Listeners
    BY <1>3, ElementOfSeq DEF Registered
  <2> QED  BY <1>1, <2>1 DEF Settled
<1> QED  BY <1>4, <1>5, <1>6 DEF LInv

\* Steps outside setValue(), and steps of it that only turn a position.
LEMMA LInvQuiet ==
  ASSUME LInv, UNCHANGED <<val, cbs, heard, dispute>>, datas' \subseteq Keys,
         DOMAIN call' = Threads, \A t \in Threads : DOMAIN call'[t] = Fields,
         \A t \in Threads :
           \/ call'[t] = call[t]
           \/ /\ call[t].pc \notin {"notify", "store"}
              /\ call'[t].pc \notin {"notify", "store"}
  PROVE  LInv'
<1>1. \A t \in Threads : call'[t].pc \in {"notify", "store"} => call'[t] = call[t]
  OBVIOUS
<1>2. \A t \in Threads : \A k : Sets(t, k)' <=> Sets(t, k)  BY DEF Sets, In
<1>3. \A k : Setting(k)' <=> Setting(k)  BY <1>2 DEF Setting, Sets
<1>4. \A k : Registered(k)' = Registered(k)  BY DEF Registered
<1>5. Shapes'  BY <1>1 DEF LInv, Shapes
<1>6. OneAlone'  BY <1>1, <1>2 DEF LInv, OneAlone, Sets, In
<1>7. Hearing'
  <2> SUFFICES ASSUME NEW t \in Threads, NEW k \in Keys, Sets(t, k)', call'[t].alone,
                      NEW l \in Registered(k)
               PROVE  heard[k][l] = call'[t].new
                      \/ (call'[t].pc = "notify" /\ l \in ToHear(t)')
    BY <1>4 DEF Hearing
  <2>1. Sets(t, k) /\ call'[t] = call[t]  BY <1>1, <1>2 DEF Sets, In
  <2>2. ToHear(t)' = ToHear(t)  BY <2>1 DEF ToHear
  <2> QED  BY <2>1, <2>2 DEF LInv, Hearing
<1>8. Settled'  BY <1>3, <1>4 DEF LInv, Settled
<1> QED  BY <1>5, <1>6, <1>7, <1>8 DEF LInv

\* What the fields of a call are.
LEMMA Positions ==
  /\ DOMAIN NoCall = Fields
  /\ \A rest : /\ DOMAIN Resume(rest) = Fields
               /\ Resume(rest).pc \notin {"notify", "store"}
<1>1. DOMAIN NoCall = Fields /\ NoCall.pc = "user"  BY DEF NoCall, Fields
<1>2. ASSUME NEW rest
      PROVE  /\ DOMAIN Resume(rest) = Fields
             /\ Resume(rest).pc \notin {"notify", "store"}
  BY DEF Resume, NoCall, Fields
<1> QED  BY <1>1, <1>2

\* A call begins: it has everybody to tell, and who was alone no longer is.
LEMMA LInvCompare ==
  ASSUME LInv, NEW t \in Threads, NEW k \in Keys, NEW v, NEW rest,
         call[t].pc \notin {"notify", "store"}, Compare(t, k, v, rest),
         UNCHANGED <<datas, val, cbs, heard, dispute>>
  PROVE  LInv'
<1>0. Shapes  BY DEF LInv
<1>1. CASE v = val[k]
  <2>1. call' = [call EXCEPT ![t] = Resume(rest)]  BY <1>1 DEF Compare
  <2>2. /\ DOMAIN call' = Threads /\ call'[t] = Resume(rest)
        /\ \A u \in Threads : u # t => call'[u] = call[u]
    BY <1>0, <2>1 DEF Shapes
  <2>3. \A u \in Threads : DOMAIN call'[u] = Fields
    BY <1>0, <2>2, Positions DEF Shapes
  <2>4. call'[t].pc \notin {"notify", "store"}  BY <2>2, Positions
  <2>5. datas' \subseteq Keys  BY <1>0 DEF Shapes
  <2> QED  BY <2>2, <2>3, <2>4, <2>5, LInvQuiet
<1>2. CASE v # val[k]
  <2> DEFINE c == [pc |-> "notify", todo |-> rest, key |-> k, new |-> v,
                   left |-> cbs[k], alone |-> ~Setting(k)]
  <2>1. call' = [u \in Threads |->
                   IF u = t THEN c
                   ELSE IF In(u, k, {"notify", "store"})
                   THEN [call[u] EXCEPT !.alone = FALSE] ELSE call[u]]
    BY <1>2 DEF Compare
  <2>2. /\ c.pc = "notify" /\ c.key = k /\ c.left = cbs[k] /\ c.new = v
        /\ (c.alone => ~Setting(k)) /\ DOMAIN c = Fields
    BY DEF Fields
  <2> HIDE DEF c
  <2>3. /\ DOMAIN call' = Threads /\ call'[t] = c
        /\ \A u \in Threads : u # t =>
             /\ ~Sets(u, k) => call'[u] = call[u]
             /\ Sets(u, k) => call'[u] = [call[u] EXCEPT !.alone = FALSE]
    BY <2>1 DEF Sets
  <2>4. \A u \in Threads : u # t =>
          /\ DOMAIN call'[u] = Fields /\ call'[u].pc = call[u].pc
          /\ call'[u].key = call[u].key /\ call'[u].new = call[u].new
          /\ call'[u].left = call[u].left
          /\ Sets(u, k) => call'[u].alone = FALSE
          /\ call'[u].alone => call[u].alone
    <3> SUFFICES ASSUME NEW u \in Threads, u # t
                 PROVE  /\ DOMAIN call'[u] = Fields /\ call'[u].pc = call[u].pc
                        /\ call'[u].key = call[u].key /\ call'[u].new = call[u].new
                        /\ call'[u].left = call[u].left
                        /\ Sets(u, k) => call'[u].alone = FALSE
                        /\ call'[u].alone => call[u].alone
      OBVIOUS
    <3>1. DOMAIN call[u] = Fields  BY <1>0 DEF Shapes
    <3>2. CASE ~Sets(u, k)  BY <2>3, <3>1, <3>2
    <3>3. CASE Sets(u, k)
      <4>1. call'[u] = [call[u] EXCEPT !.alone = FALSE]  BY <2>3, <3>3
      <4> QED  BY <3>1, <4>1 DEF Fields
    <3> QED  BY <3>2, <3>3
  <2>5. \A u \in Threads : \A j : Sets(u, j)' <=> Sets(u, j) \/ (u = t /\ j = k)
    BY <2>2, <2>3, <2>4 DEF Sets, In
  <2>6. \A j : Registered(j)' = Registered(j)  BY DEF Registered
  <2>7. \A u \in Threads : u # t => ToHear(u)' = ToHear(u)  BY <2>4 DEF ToHear
  <2>8. ToHear(t)' = Registered(k)  BY <2>2, <2>3 DEF ToHear, Registered
  <2>9. Shapes'
    <3>1. \A u \in Threads : DOMAIN call'[u] = Fields  BY <2>2, <2>3, <2>4
    <3>2. \A u \in Threads : call'[u].pc \in {"notify", "store"} =>
            call'[u].key \in Keys /\ call'[u].left \in Seq(Listeners)
      BY <1>0, <2>2, <2>3, <2>4 DEF Shapes
    <3> QED  BY <1>0, <2>3, <3>1, <3>2 DEF Shapes
  <2>10. OneAlone'
    <3> SUFFICES ASSUME NEW u \in Threads, NEW w \in Threads, NEW j \in Keys,
                        u # w, Sets(u, j)', Sets(w, j)'
                 PROVE  ~call'[u].alone
      BY DEF OneAlone
    <3>1. CASE u = t
      <4>1. j = k /\ Sets(w, k)  BY <2>2, <2>3, <2>5, <3>1 DEF Sets, In
      <4>2. Setting(k)  BY <4>1 DEF Sets, Setting
      <4> QED  BY <2>2, <2>3, <3>1, <4>2
    <3>2. CASE u # t /\ w = t
      <4>1. j = k /\ Sets(u, k)  BY <2>2, <2>3, <2>5, <3>2 DEF Sets, In
      <4> QED  BY <2>4, <3>2, <4>1
    <3>3. CASE u # t /\ w # t
      BY <2>4, <2>5, <3>3 DEF LInv, OneAlone
    <3> QED  BY <3>1, <3>2, <3>3
  <2>11. Hearing'
    <3> SUFFICES ASSUME NEW u \in Threads, NEW j \in Keys, Sets(u, j)', call'[u].alone,
                        NEW l \in Registered(j)
                 PROVE  heard[j][l] = call'[u].new
                        \/ (call'[u].pc = "notify" /\ l \in ToHear(u)')
      BY <2>6 DEF Hearing
    <3>1. CASE u = t
      <4>1. j = k  BY <2>2, <2>3, <3>1 DEF Sets, In
      <4> QED  BY <2>2, <2>3, <2>8, <3>1, <4>1
    <3>2. CASE u # t
      BY <2>4, <2>5, <2>7, <3>2 DEF LInv, Hearing
    <3> QED  BY <3>1, <3>2
  <2>12. Settled'
    <3> SUFFICES ASSUME NEW j \in Keys, ~Setting(j)', dispute[j] # "now",
                        NEW l \in Registered(j)
                 PROVE  heard[j][l] = val[j]
      BY <2>6 DEF Settled
    <3>1. ~Setting(j)  BY <2>5 DEF Setting, Sets
    <3> QED  BY <3>1 DEF LInv, Settled
  <2> QED  BY <2>9, <2>10, <2>11, <2>12 DEF LInv
<1> QED  BY <1>1, <1>2

\* Registering a variable, loading a file, listing a directory.
LEMMA LInvLoads ==
  ASSUME LInv, NEW t \in Threads,
         \/ \E k \in Keys : Lookup(t, k)
         \/ \E k \in Keys, v \in Values : SetValue(t, k, v)
         \/ \E doc \in Docs : Load(t, doc)
         \/ LoadFromConDir(t) \/ LoadNode(t)
  PROVE  LInv'
<1>0. Shapes  BY DEF LInv
<1>1. ASSUME NEW k \in Keys, Lookup(t, k) PROVE LInv'
  <2>1. UNCHANGED <<val, cbs, call, heard, dispute>> /\ datas' \subseteq Keys
    BY <1>0, <1>1 DEF Lookup, Shapes
  <2> QED  BY <1>0, <2>1, LInvQuiet DEF Shapes
<1>2. ASSUME NEW k \in Keys, NEW v \in Values, SetValue(t, k, v) PROVE LInv'
  <2>1. /\ call[t].pc = "user" /\ Compare(t, k, v, <<>>)
        /\ UNCHANGED <<datas, val, cbs, heard, dispute>>
    BY <1>2 DEF SetValue
  <2> QED  BY <2>1, LInvCompare
<1>3. ASSUME NEW c, call' = [call EXCEPT ![t] = c], DOMAIN c = Fields,
             c.pc \notin {"notify", "store"}, call[t].pc \notin {"notify", "store"},
             UNCHANGED <<datas, val, cbs, heard, dispute>>
      PROVE  LInv'
  <2>1. /\ DOMAIN call' = Threads /\ call'[t] = c
        /\ \A u \in Threads : u # t => call'[u] = call[u]
    BY <1>0, <1>3 DEF Shapes
  <2>2. \A u \in Threads : DOMAIN call'[u] = Fields
    BY <1>0, <1>3, <2>1 DEF Shapes
  <2>3. datas' \subseteq Keys  BY <1>0, <1>3 DEF Shapes
  <2> QED  BY <1>3, <2>1, <2>2, <2>3, LInvQuiet
<1>4. ASSUME NEW doc \in Docs, Load(t, doc) PROVE LInv'
  <2>1. /\ call[t].pc = "user" /\ call' = [call EXCEPT ![t] = Resume(doc)]
        /\ UNCHANGED <<datas, val, cbs, heard, dispute>>
    BY <1>4 DEF Load
  <2> QED  BY <1>3, <2>1, Positions
<1>5. CASE LoadFromConDir(t)
  <2> DEFINE c == [call[t] EXCEPT !.pc = "listing"]
  <2>1. /\ call[t].pc = "user" /\ UNCHANGED <<datas, val, cbs, heard, dispute>>
        /\ call' = [call EXCEPT ![t] = c]
    BY <1>0, <1>5 DEF LoadFromConDir, Shapes
  <2>2. DOMAIN c = Fields /\ c.pc = "listing"
    <3>1. DOMAIN call[t] = Fields  BY <1>0 DEF Shapes
    <3> QED  BY <3>1 DEF Fields
  <2> HIDE DEF c
  <2> QED  BY <1>3, <2>1, <2>2
<1>6. CASE LoadNode(t)
  <2> DEFINE node == Head(call[t].todo)
             rest == Tail(call[t].todo)
  <2>1. /\ call[t].pc = "load" /\ UNCHANGED <<datas, val, cbs, heard, dispute>>
        /\ IF IsListed(node) /\ node.key \in datas /\ node.value # None
           THEN Compare(t, node.key, node.value, rest)
           ELSE call' = [call EXCEPT ![t] = Resume(rest)]
    BY <1>6 DEF LoadNode
  <2>2. CASE IsListed(node) /\ node.key \in datas /\ node.value # None
    <3>1. node.key \in Keys  BY <1>0, <2>2 DEF Shapes
    <3> HIDE DEF node, rest
    <3> QED  BY <2>1, <2>2, <3>1, LInvCompare
  <2>3. CASE ~(IsListed(node) /\ node.key \in datas /\ node.value # None)
    <3> HIDE DEF node, rest
    <3> QED  BY <1>3, <2>1, <2>3, Positions
  <2> QED  BY <2>2, <2>3
<1> QED  BY <1>1, <1>2, <1>4, <1>5, <1>6

\* addListener() after the notification: the call is not alone any more.
LEMMA LInvAddListener ==
  ASSUME LInv, NEW t \in Threads, NEW k \in Keys, NEW l \in Listeners,
         AddListener(t, k, l)
  PROVE  LInv'
<1>0. Shapes  BY DEF LInv
<1>1. /\ ~Reading(k) /\ UNCHANGED <<datas, val, dispute>>
      /\ cbs' = [cbs EXCEPT ![k] = Append(@, l)]
      /\ heard' = [heard EXCEPT ![k][l] = val[k]]
      /\ call' = [u \in Threads |->
                    IF In(u, k, {"store"}) THEN [call[u] EXCEPT !.alone = FALSE]
                    ELSE call[u]]
  BY DEF AddListener
<1>2. /\ DOMAIN call' = Threads
      /\ \A u \in Threads :
           /\ DOMAIN call'[u] = Fields /\ call'[u].pc = call[u].pc
           /\ call'[u].key = call[u].key /\ call'[u].new = call[u].new
           /\ call'[u].left = call[u].left
           /\ In(u, k, {"store"}) => call'[u].alone = FALSE
           /\ call'[u].alone => call[u].alone
  <2> SUFFICES ASSUME NEW u \in Threads
               PROVE  /\ DOMAIN call'[u] = Fields /\ call'[u].pc = call[u].pc
                      /\ call'[u].key = call[u].key /\ call'[u].new = call[u].new
                      /\ call'[u].left = call[u].left
                      /\ In(u, k, {"store"}) => call'[u].alone = FALSE
                      /\ call'[u].alone => call[u].alone
    BY <1>1
  <2>1. DOMAIN call[u] = Fields  BY <1>0 DEF Shapes
  <2>2. CASE ~In(u, k, {"store"})
    <3>1. call'[u] = call[u]  BY <1>1, <2>2
    <3> QED  BY <2>1, <2>2, <3>1
  <2>3. CASE In(u, k, {"store"})
    <3>1. call'[u] = [call[u] EXCEPT !.alone = FALSE]  BY <1>1, <2>3
    <3> QED  BY <2>1, <3>1 DEF Fields
  <2> QED  BY <2>2, <2>3
<1>3. \A u \in Threads : /\ \A j : Sets(u, j)' <=> Sets(u, j)
                         /\ ToHear(u)' = ToHear(u)
  BY <1>2 DEF Sets, In, ToHear
<1>4. /\ cbs[k] \in Seq(Listeners) /\ cbs' \in [Keys -> Seq(Listeners)]
      /\ cbs'[k] = Append(cbs[k], l)
      /\ \A j \in Keys : j # k => cbs'[j] = cbs[j]
  BY <1>0, <1>1, AppendSet DEF Shapes
<1>5. \A j \in Keys : \A m : m \in Registered(j)' =>
        m \in Registered(j) \/ (j = k /\ m = l)
  <2>1. \A m : m \in Registered(k)' => m \in Registered(k) \/ m = l
    BY <1>4, AppendSet DEF Registered
  <2>2. \A j \in Keys : j # k => Registered(j)' = Registered(j)
    BY <1>4 DEF Registered
  <2> QED  BY <2>1, <2>2
<1>6. /\ DOMAIN heard' = Keys /\ \A j \in Keys : DOMAIN heard'[j] = Listeners
      /\ heard'[k][l] = val[k]
      /\ \A j \in Keys : \A m \in Listeners : ~(j = k /\ m = l) =>
           heard'[j][m] = heard[j][m]
  <2>1. DOMAIN heard = Keys /\ \A j \in Keys : DOMAIN heard[j] = Listeners
    BY <1>0 DEF Shapes
  <2>2. DOMAIN heard' = Keys /\ heard'[k] = [heard[k] EXCEPT ![l] = val[k]]
        /\ \A j \in Keys : j # k => heard'[j] = heard[j]
    BY <1>1, <2>1
  <2> QED  BY <2>1, <2>2
<1>7. \A j \in Keys : \A m : m \in Registered(j) => m \in Listeners
  BY <1>0, ElementOfSeq DEF Shapes, Registered
<1>8. Shapes'  BY <1>0, <1>1, <1>2, <1>4, <1>6 DEF Shapes
<1>9. OneAlone'  BY <1>2, <1>3 DEF LInv, OneAlone
<1>10. Hearing'
  <2> SUFFICES ASSUME NEW u \in Threads, NEW j \in Keys, Sets(u, j)', call'[u].alone,
                      NEW m \in Registered(j)'
               PROVE  heard'[j][m] = call'[u].new
                      \/ (call'[u].pc = "notify" /\ m \in ToHear(u)')
    BY DEF Hearing
  <2>1. Sets(u, j) /\ call[u].alone  BY <1>2, <1>3
  <2>2. j # k
    <3> SUFFICES ASSUME j = k PROVE FALSE  OBVIOUS
    <3>1. In(u, k, {"store"})  BY <1>1, <2>1 DEF Sets, In, Reading
    <3> QED  BY <1>2, <3>1
  <2>3. m \in Registered(j) /\ m \in Listeners  BY <1>5, <1>7, <2>2
  <2>4. heard'[j][m] = heard[j][m]  BY <1>6, <2>2, <2>3
  <2> QED  BY <1>2, <1>3, <2>1, <2>3, <2>4 DEF LInv, Hearing
<1>11. Settled'
  <2> SUFFICES ASSUME NEW j \in Keys, ~Setting(j)', dispute[j] # "now",
                      NEW m \in Registered(j)'
               PROVE  heard'[j][m] = val[j]
    BY <1>1 DEF Settled
  <2>1. ~Setting(j)  BY <1>3 DEF Setting, Sets
  <2>2. CASE j = k /\ m = l  BY <1>6, <2>2
  <2>3. CASE ~(j = k /\ m = l)
    <3>1. m \in Registered(j) /\ m \in Listeners  BY <1>5, <1>7, <2>3
    <3> QED  BY <1>6, <2>1, <2>3, <3>1 DEF LInv, Settled
  <2> QED  BY <2>2, <2>3
<1> QED  BY <1>8, <1>9, <1>10, <1>11 DEF LInv

\* Who is not registered any more need not have heard anything.
LEMMA LInvDelListener ==
  ASSUME LInv, NEW t \in Threads, NEW k \in Keys,
         ClearListener(t, k) \/ \E l \in Listeners : DelListener(t, k, l)
  PROVE  LInv'
<1>0. Shapes  BY DEF LInv
<1>1. /\ UNCHANGED <<datas, val, call, heard, dispute>>
      /\ cbs' = [cbs EXCEPT ![k] = <<>>]
         \/ \E i \in DOMAIN cbs[k] : cbs' = [cbs EXCEPT ![k] = RemoveAt(cbs[k], i)]
  BY DEF ClearListener, DelListener
<1>2. /\ cbs' \in [Keys -> Seq(Listeners)]
      /\ \A j \in Keys : \A m : m \in Registered(j)' => m \in Registered(j)
  <2>1. cbs \in [Keys -> Seq(Listeners)] /\ cbs[k] \in Seq(Listeners)
    BY <1>0 DEF Shapes
  <2>2. PICK s \in Seq(Listeners) :
          /\ cbs' = [cbs EXCEPT ![k] = s]
          /\ \A i \in DOMAIN s : \E j \in DOMAIN cbs[k] : s[i] = cbs[k][j]
    <3>1. CASE cbs' = [cbs EXCEPT ![k] = <<>>]
      <4>1. <<>> \in Seq(Listeners) /\ DOMAIN <<>> = {}  BY EmptySeq
      <4> QED  BY <3>1, <4>1
    <3>2. ASSUME NEW i \in DOMAIN cbs[k], cbs' = [cbs EXCEPT ![k] = RemoveAt(cbs[k], i)]
          PROVE  \E s \in Seq(Listeners) :
                   /\ cbs' = [cbs EXCEPT ![k] = s]
                   /\ \A n \in DOMAIN s : \E j \in DOMAIN cbs[k] : s[n] = cbs[k][j]
      <4> DEFINE r == RemoveAt(cbs[k], i)
      <4>1. /\ r \in Seq(Listeners) /\ DOMAIN r = 1 .. Len(cbs[k]) - 1
            /\ \A n \in DOMAIN r : /\ n < i => n \in DOMAIN cbs[k] /\ r[n] = cbs[k][n]
                                   /\ n >= i => n + 1 \in DOMAIN cbs[k]
                                                /\ r[n] = cbs[k][n + 1]
        BY <2>1, RemoveSet
      <4>2. DOMAIN cbs[k] = 1 .. Len(cbs[k])  BY <2>1, LenProperties
      <4> HIDE DEF r
      <4>3. \A n \in DOMAIN r : n < i \/ n >= i  BY <4>1, <4>2
      <4>4. \A n \in DOMAIN r : \E j \in DOMAIN cbs[k] : r[n] = cbs[k][j]
        BY <4>1, <4>3
      <4> QED  BY <3>2, <4>1, <4>4 DEF r
    <3> QED  BY <1>1, <3>1, <3>2
  <2>3. cbs' \in [Keys -> Seq(Listeners)] /\ cbs'[k] = s
        /\ \A j \in Keys : j # k => cbs'[j] = cbs[j]
    BY <2>1, <2>2
  <2>4. \A m : m \in Registered(k)' => m \in Registered(k)
    BY <2>2, <2>3 DEF Registered
  <2>5. \A j \in Keys : j # k => Registered(j)' = Registered(j)
    BY <2>3 DEF Registered
  <2> QED  BY <2>3, <2>4, <2>5
<1>3. \A u \in Threads : /\ \A j : Sets(u, j)' <=> Sets(u, j)
                         /\ ToHear(u)' = ToHear(u)
  BY <1>1 DEF Sets, In, ToHear
<1>4. \A j : Setting(j)' <=> Setting(j)  BY <1>1 DEF Setting, In
<1>5. Shapes'  BY <1>0, <1>1, <1>2 DEF Shapes
<1>6. OneAlone'  BY <1>1, <1>3 DEF LInv, OneAlone
<1>7. Hearing'
  BY <1>1, <1>2, <1>3 DEF LInv, Hearing
<1>8. Settled'  BY <1>1, <1>2, <1>4 DEF LInv, Settled
<1> QED  BY <1>5, <1>6, <1>7, <1>8 DEF LInv

\* Telling one listener: it has heard, the others are still to hear ...
LEMMA ToldOne ==
  ASSUME LInv, NEW t \in Threads, call[t].pc = "notify", call[t].left # <<>>, Told(t)
  PROVE  \E k \in Keys, m \in Listeners :
           /\ k = call[t].key /\ m = Head(call[t].left)
           /\ Tail(call[t].left) \in Seq(Listeners)
           /\ \A l : l \in ToHear(t) =>
                l = m \/ \E i \in DOMAIN Tail(call[t].left) : Tail(call[t].left)[i] = l
           /\ DOMAIN heard' = Keys /\ \A j \in Keys : DOMAIN heard'[j] = Listeners
           /\ heard'[k][m] = call[t].new
           /\ \A j \in Keys : \A l \in Listeners : ~(j = k /\ l = m) =>
                heard'[j][l] = heard[j][l]
<1>0. Shapes  BY DEF LInv
<1>1. PICK k \in Keys : k = call[t].key  BY <1>0 DEF Shapes
<1>2. PICK s \in Seq(Listeners) : s = call[t].left  BY <1>0 DEF Shapes
<1>3. /\ Head(s) \in Listeners /\ Tail(s) \in Seq(Listeners)
      /\ \A i \in DOMAIN s :
           s[i] = Head(s) \/ \E j \in DOMAIN Tail(s) : Tail(s)[j] = s[i]
  BY <1>2, TailSet
<1>4. PICK m \in Listeners : m = Head(s)  BY <1>3
<1>5. heard' = [heard EXCEPT ![k][m] = call[t].new]  BY <1>1, <1>2, <1>4 DEF Told
<1>6. DOMAIN heard = Keys /\ \A j \in Keys : DOMAIN heard[j] = Listeners
  BY <1>0 DEF Shapes
<1>7. DOMAIN heard' = Keys /\ heard'[k] = [heard[k] EXCEPT ![m] = call[t].new]
      /\ \A j \in Keys : j # k => heard'[j] = heard[j]
  BY <1>5, <1>6
<1>8. /\ \A j \in Keys : DOMAIN heard'[j] = Listeners
      /\ heard'[k][m] = call[t].new
      /\ \A j \in Keys : \A l \in Listeners : ~(j = k /\ l = m) =>
           heard'[j][l] = heard[j][l]
  BY <1>6, <1>7
<1>9. \A l : l \in ToHear(t) =>
        l = m \/ \E i \in DOMAIN Tail(call[t].left) : Tail(call[t].left)[i] = l
  BY <1>2, <1>3, <1>4 DEF ToHear
<1> QED  BY <1>1, <1>2, <1>3, <1>4, <1>7, <1>8, <1>9

\* ... whether it returns ...
LEMMA LInvNotify ==
  ASSUME LInv, NEW t \in Threads, Notify(t)
  PROVE  LInv'
<1>0. Shapes  BY DEF LInv
<1>1. /\ call[t].pc = "notify" /\ call[t].left # <<>> /\ Told(t)
      /\ call' = [call EXCEPT ![t].left = Tail(call[t].left)]
      /\ UNCHANGED <<datas, val, cbs, dispute>>
  BY DEF Notify
<1>2. PICK k \in Keys, m \in Listeners :
           /\ k = call[t].key /\ m = Head(call[t].left)
           /\ Tail(call[t].left) \in Seq(Listeners)
           /\ \A l : l \in ToHear(t) =>
                l = m \/ \E i \in DOMAIN Tail(call[t].left) : Tail(call[t].left)[i] = l
           /\ DOMAIN heard' = Keys /\ \A j \in Keys : DOMAIN heard'[j] = Listeners
           /\ heard'[k][m] = call[t].new
           /\ \A j \in Keys : \A l \in Listeners : ~(j = k /\ l = m) =>
                heard'[j][l] = heard[j][l]
  BY <1>1, ToldOne
<1>3. /\ DOMAIN call' = Threads
      /\ \A u \in Threads : u # t => call'[u] = call[u]
      /\ DOMAIN call'[t] = Fields /\ call'[t].pc = call[t].pc
      /\ call'[t].key = call[t].key /\ call'[t].new = call[t].new
      /\ call'[t].left = Tail(call[t].left) /\ call'[t].alone = call[t].alone
  <2>1. DOMAIN call[t] = Fields /\ DOMAIN call = Threads  BY <1>0 DEF Shapes
  <2>2. call' = [call EXCEPT ![t] = [call[t] EXCEPT !.left = Tail(call[t].left)]]
    BY <1>1, <2>1
  <2>3. /\ DOMAIN call' = Threads
        /\ \A u \in Threads : u # t => call'[u] = call[u]
        /\ call'[t] = [call[t] EXCEPT !.left = Tail(call[t].left)]
    BY <2>1, <2>2
  <2> QED  BY <2>1, <2>3 DEF Fields
<1>4. \A u \in Threads : \A j : Sets(u, j)' <=> Sets(u, j)
  BY <1>3 DEF Sets, In
<1>5. \A j : Setting(j)' <=> Setting(j)  BY <1>4 DEF Setting, Sets
<1>6. \A j : Registered(j)' = Registered(j)  BY <1>1 DEF Registered
<1>7. \A j \in Keys : \A l : l \in Registered(j) => l \in Listeners
  BY <1>0, ElementOfSeq DEF Shapes, Registered
<1>8. \A l : l \in ToHear(t) => l = m \/ l \in ToHear(t)'
  <2> DEFINE r == Tail(call[t].left)
  <2>1. ToHear(t)' = {r[i] : i \in DOMAIN r}  BY <1>3 DEF ToHear
  <2>2. \A l : l \in ToHear(t) => l = m \/ \E i \in DOMAIN r : r[i] = l
    BY <1>2
  <2> HIDE DEF r
  <2> QED  BY <2>1, <2>2
<1>9. \A u \in Threads : u # t => ToHear(u)' = ToHear(u)
  BY <1>3 DEF ToHear
<1>10. Sets(t, k)  BY <1>1, <1>2 DEF Sets, In
<1>11. Shapes'
  <2>1. \A u \in Threads : DOMAIN call'[u] = Fields  BY <1>0, <1>3 DEF Shapes
  <2>2. \A u \in Threads : call'[u].pc \in {"notify", "store"} =>
          call'[u].key \in Keys /\ call'[u].left \in Seq(Listeners)
    BY <1>0, <1>2, <1>3 DEF Shapes
  <2> QED  BY <1>0, <1>1, <1>2, <1>3, <2>1, <2>2 DEF Shapes
<1>12. OneAlone'
  <2>1. \A u \in Threads : call'[u].alone => call[u].alone  BY <1>3
  <2> QED  BY <1>4, <2>1 DEF LInv, OneAlone
<1>13. Hearing'
  <2> SUFFICES ASSUME NEW u \in Threads, NEW j \in Keys, Sets(u, j)', call'[u].alone,
                      NEW l \in Registered(j)
               PROVE  heard'[j][l] = call'[u].new
                      \/ (call'[u].pc = "notify" /\ l \in ToHear(u)')
    BY <1>6 DEF Hearing
  <2>1. Sets(u, j) /\ call[u].alone /\ call'[u].new = call[u].new
        /\ call'[u].pc = call[u].pc
    BY <1>3, <1>4
  <2>2. heard[j][l] = call[u].new \/ (call[u].pc = "notify" /\ l \in ToHear(u))
    BY <2>1 DEF LInv, Hearing
  <2>3. CASE u = t
    <3>1. j = k  BY <1>2, <2>1, <2>3 DEF Sets, In
    <3> QED  BY <1>2, <1>7, <1>8, <2>1, <2>2, <2>3, <3>1
  <2>4. CASE u # t
    <3>1. j # k  BY <1>10, <2>1, <2>4 DEF LInv, OneAlone
    <3> QED  BY <1>2, <1>7, <1>9, <2>1, <2>2, <2>4, <3>1
  <2> QED  BY <2>3, <2>4
<1>14. Settled'
  <2> SUFFICES ASSUME NEW j \in Keys, ~Setting(j), dispute[j] # "now",
                      NEW l \in Registered(j)
               PROVE  heard'[j][l] = val[j]
    BY <1>1, <1>5, <1>6 DEF Settled
  <2>1. j # k  BY <1>10 DEF Setting, Sets
  <2> QED  BY <1>2, <1>7, <2>1 DEF LInv, Settled
<1> QED  BY <1>11, <1>12, <1>13, <1>14 DEF LInv

\* When a call ends, the others on the variable were never alone.
LEMMA LInvEnds ==
  ASSUME LInv, NEW t \in Threads, NEW k \in Keys, k = call[t].key,
         call[t].pc \in {"notify", "store"}, NEW rest,
         call' = [call EXCEPT ![t] = Resume(rest)],
         UNCHANGED <<datas, cbs>>,
         DOMAIN val' = Keys, \A j \in Keys : j # k => val'[j] = val[j],
         NEW d, dispute' = [dispute EXCEPT ![k] = d],
         DOMAIN heard' = Keys, \A j \in Keys : DOMAIN heard'[j] = Listeners,
         \A j \in Keys : \A l \in Listeners : j # k => heard'[j][l] = heard[j][l],
         d # "now" =>
           /\ call[t].alone
           /\ \A l \in Registered(k) : heard'[k][l] = val'[k]
  PROVE  LInv'
<1>0. Shapes  BY DEF LInv
<1>1. /\ DOMAIN call' = Threads /\ call'[t] = Resume(rest)
      /\ \A u \in Threads : u # t => call'[u] = call[u]
  BY <1>0 DEF Shapes
<1>2. DOMAIN call'[t] = Fields /\ call'[t].pc \notin {"notify", "store"}
  BY <1>1, Positions
<1>3. \A u \in Threads : \A j : Sets(u, j)' <=> Sets(u, j) /\ u # t
  BY <1>1, <1>2 DEF Sets, In
<1>4. Sets(t, k)  BY DEF Sets, In
<1>5. \A j : Registered(j)' = Registered(j)  BY DEF Registered
<1>6. \A j \in Keys : \A l : l \in Registered(j) => l \in Listeners
  BY <1>0, ElementOfSeq DEF Shapes, Registered
<1>7. /\ DOMAIN dispute' = Keys /\ dispute'[k] = d
      /\ \A j \in Keys : j # k => dispute'[j] = dispute[j]
  BY <1>0 DEF Shapes
<1>8. Shapes'
  <2>1. \A u \in Threads : DOMAIN call'[u] = Fields  BY <1>0, <1>1, <1>2 DEF Shapes
  <2>2. \A u \in Threads : call'[u].pc \in {"notify", "store"} =>
          call'[u].key \in Keys /\ call'[u].left \in Seq(Listeners)
    BY <1>0, <1>1, <1>2 DEF Shapes
  <2> QED  BY <1>0, <1>1, <1>7, <2>1, <2>2 DEF Shapes
<1>9. OneAlone'
  <2> SUFFICES ASSUME NEW u \in Threads, NEW w \in Threads, NEW j \in Keys,
                      u # w, Sets(u, j)', Sets(w, j)'
               PROVE  ~call'[u].alone
    BY DEF OneAlone
  <2> QED  BY <1>1, <1>3 DEF LInv, OneAlone
<1>10. Hearing'
  <2> SUFFICES ASSUME NEW u \in Threads, NEW j \in Keys, Sets(u, j)', call'[u].alone,
                      NEW l \in Registered(j)
               PROVE  heard'[j][l] = call'[u].new
                      \/ (call'[u].pc = "notify" /\ l \in ToHear(u)')
    BY <1>5 DEF Hearing
  <2>1. u # t /\ Sets(u, j) /\ call'[u] = call[u]  BY <1>1, <1>3
  <2>2. j # k  BY <1>4, <2>1 DEF LInv, OneAlone
  <2>3. ToHear(u)' = ToHear(u)  BY <2>1 DEF ToHear
  <2>4. heard'[j][l] = heard[j][l]  BY <1>6, <2>2
  <2> QED  BY <2>1, <2>3, <2>4 DEF LInv, Hearing
<1>11. Settled'
  <2> SUFFICES ASSUME NEW j \in Keys, ~Setting(j)', dispute'[j] # "now",
                      NEW l \in Registered(j)
               PROVE  heard'[j][l] = val'[j]
    BY <1>5 DEF Settled
  <2>1. CASE j = k  BY <1>7, <2>1
  <2>2. CASE j # k
    <3>1. ~Setting(j)
      <4> SUFFICES ASSUME NEW u \in Threads, Sets(u, j) PROVE FALSE
        BY DEF Setting, Sets
      <4>1. u # t  BY <2>2 DEF Sets, In
      <4>2. Sets(u, j)'  BY <1>3, <4>1
      <4> QED  BY <4>2 DEF Setting, Sets
    <3>2. dispute[j] # "now"  BY <1>7, <2>2
    <3> QED  BY <1>6, <2>2, <3>1, <3>2 DEF LInv, Settled
  <2> QED  BY <2>1, <2>2
<1> QED  BY <1>8, <1>9, <1>10, <1>11 DEF LInv

\* ... or throws, which leaves the variable disputed.
LEMMA LInvThrow ==
  ASSUME LInv, NEW t \in Threads, Throw(t)
  PROVE  LInv'
<1>1. /\ call[t].pc = "notify" /\ call[t].left # <<>> /\ Told(t)
      /\ dispute' = [dispute EXCEPT ![call[t].key] = "now"]
      /\ UNCHANGED <<datas, val, cbs>>
  BY DEF Throw
<1>2. PICK rest : call' = [call EXCEPT ![t] = Resume(rest)]  BY DEF Throw
<1>3. PICK k \in Keys, m \in Listeners :
        /\ k = call[t].key
        /\ DOMAIN heard' = Keys /\ \A j \in Keys : DOMAIN heard'[j] = Listeners
        /\ \A j \in Keys : \A l \in Listeners : ~(j = k /\ l = m) =>
             heard'[j][l] = heard[j][l]
  BY <1>1, ToldOne
<1>4. DOMAIN val' = Keys /\ \A j \in Keys : j # k => val'[j] = val[j]
  BY <1>1 DEF LInv, Shapes
<1>5. dispute' = [dispute EXCEPT ![k] = "now"]  BY <1>1, <1>3
<1>6. \A j \in Keys : \A l \in Listeners : j # k => heard'[j][l] = heard[j][l]
  BY <1>3
<1>7. call[t].pc \in {"notify", "store"} /\ UNCHANGED <<datas, cbs>>  BY <1>1
<1> QED  BY <1>2, <1>3, <1>4, <1>5, <1>6, <1>7, LInvEnds

\* The assignment: who was alone then has told the value to everybody.
LEMMA LInvStore ==
  ASSUME LInv, NEW t \in Threads, Store(t)
  PROVE  LInv'
<1>0. Shapes  BY DEF LInv
<1>1. PICK k \in Keys : k = call[t].key  BY <1>0 DEF Store, Shapes
<1>2. PICK d : d = After(t)  BY Zenon
<1>3. /\ call[t].pc = "store" /\ UNCHANGED <<datas, cbs, heard>>
      /\ val' = [val EXCEPT ![k] = call[t].new]
      /\ call' = [call EXCEPT ![t] = Resume(call[t].todo)]
      /\ dispute' = [dispute EXCEPT ![k] = d]
  BY <1>1, <1>2 DEF Store
<1>4. /\ DOMAIN val' = Keys /\ val'[k] = call[t].new
      /\ \A j \in Keys : j # k => val'[j] = val[j]
  BY <1>0, <1>3 DEF Shapes
<1>5. DOMAIN heard' = Keys /\ \A j \in Keys : DOMAIN heard'[j] = Listeners
  BY <1>0, <1>3 DEF Shapes
<1>6. d # "now" => call[t].alone  BY <1>2 DEF After
<1>7. call[t].alone => \A l \in Registered(k) : heard'[k][l] = val'[k]
  <2>1. Sets(t, k)  BY <1>1, <1>3 DEF Sets, In
  <2> QED  BY <1>3, <1>4, <2>1 DEF LInv, Hearing
<1> QED  BY <1>1, <1>3, <1>4, <1>5, <1>6, <1>7, LInvEnds

\* Between the two locks everybody has been told.
LEMMA LInvRelease ==
  ASSUME LInv, NEW t \in Threads, Release(t)
  PROVE  LInv'
<1>0. Shapes  BY DEF LInv
<1>1. /\ call[t].pc = "notify" /\ call[t].left = <<>>
      /\ call' = [call EXCEPT ![t].pc = "store"]
      /\ UNCHANGED <<datas, val, cbs, heard, dispute>>
  BY DEF Release, AllTold
<1>2. /\ DOMAIN call' = Threads
      /\ \A u \in Threads : u # t => call'[u] = call[u]
      /\ DOMAIN call'[t] = Fields /\ call'[t].pc = "store"
      /\ call'[t].key = call[t].key /\ call'[t].new = call[t].new
      /\ call'[t].left = call[t].left /\ call'[t].alone = call[t].alone
  <2>1. DOMAIN call[t] = Fields /\ DOMAIN call = Threads  BY <1>0 DEF Shapes
  <2>2. call' = [call EXCEPT ![t] = [call[t] EXCEPT !.pc = "store"]]
    BY <1>1, <2>1
  <2>3. /\ DOMAIN call' = Threads
        /\ \A u \in Threads : u # t => call'[u] = call[u]
        /\ call'[t] = [call[t] EXCEPT !.pc = "store"]
    BY <2>1, <2>2
  <2> QED  BY <2>1, <2>3 DEF Fields
<1>3. \A u \in Threads : \A j : Sets(u, j)' <=> Sets(u, j)
  BY <1>1, <1>2 DEF Sets, In
<1>4. \A j : Setting(j)' <=> Setting(j)  BY <1>3 DEF Setting, Sets
<1>5. \A j : Registered(j)' = Registered(j)  BY <1>1 DEF Registered
<1>6. ToHear(t) = {}  BY <1>1, EmptySeq DEF ToHear
<1>7. Shapes'
  <2>1. \A u \in Threads : DOMAIN call'[u] = Fields  BY <1>0, <1>2 DEF Shapes
  <2>2. \A u \in Threads : call'[u].pc \in {"notify", "store"} =>
          call'[u].key \in Keys /\ call'[u].left \in Seq(Listeners)
    BY <1>0, <1>1, <1>2 DEF Shapes
  <2> QED  BY <1>0, <1>1, <1>2, <2>1, <2>2 DEF Shapes
<1>8. OneAlone'
  <2>1. \A u \in Threads : call'[u].alone => call[u].alone  BY <1>2
  <2> QED  BY <1>3, <2>1 DEF LInv, OneAlone
<1>9. Hearing'
  <2> SUFFICES ASSUME NEW u \in Threads, NEW j \in Keys, Sets(u, j)', call'[u].alone,
                      NEW l \in Registered(j)
               PROVE  heard[j][l] = call'[u].new
                      \/ (call'[u].pc = "notify" /\ l \in ToHear(u)')
    BY <1>1, <1>5 DEF Hearing
  <2>1. Sets(u, j) /\ call[u].alone /\ call'[u].new = call[u].new
    BY <1>2, <1>3
  <2>2. heard[j][l] = call[u].new \/ (call[u].pc = "notify" /\ l \in ToHear(u))
    BY <2>1 DEF LInv, Hearing
  <2>3. CASE u = t  BY <1>6, <2>1, <2>2, <2>3
  <2>4. CASE u # t
    <3>1. call'[u] = call[u] /\ ToHear(u)' = ToHear(u)  BY <1>2, <2>4 DEF ToHear
    <3> QED  BY <2>2, <3>1
  <2> QED  BY <2>3, <2>4
<1>10. Settled'  BY <1>1, <1>4, <1>5 DEF LInv, Settled
<1> QED  BY <1>7, <1>8, <1>9, <1>10 DEF LInv
-----------------------------------------------------------------------------
(***************************************************************************)
(* The theorem                                                             *)
(***************************************************************************)
LEMMA LInvNext == LInv /\ [Next]_vars => LInv'
<1> SUFFICES ASSUME LInv, [Next]_vars PROVE LInv'  OBVIOUS
<1>1. CASE UNCHANGED configVars
  <2>1. UNCHANGED <<datas, val, cbs, call, heard, dispute>>  BY <1>1 DEF configVars
  <2> QED  BY <2>1, LInvQuiet DEF LInv, Shapes
<1>2. ASSUME NEW t \in Threads, User(t) PROVE LInv'
  <2>1. ASSUME NEW k \in Used,
               \/ ClearListener(t, k)
               \/ \E l \in Listeners \ {LogIniter} :
                    AddListener(t, k, l) \/ DelListener(t, k, l)
               \/ \E v \in Values : SetValue(t, k, v)
        PROVE  LInv'
    <3>1. k \in Keys  BY LogAssumption
    <3>2. CASE ClearListener(t, k)  BY <3>1, <3>2, LInvDelListener
    <3>3. ASSUME NEW l \in Listeners, AddListener(t, k, l) \/ DelListener(t, k, l)
          PROVE  LInv'
      BY <3>1, <3>3, LInvAddListener, LInvDelListener
    <3>4. ASSUME NEW v \in Values, SetValue(t, k, v) PROVE LInv'
      BY <3>1, <3>4, LInvLoads
    <3> QED  BY <2>1, <3>2, <3>3, <3>4
  <2>2. ASSUME NEW k \in Keys, Lookup(t, k) PROVE LInv'
    BY <2>2, LInvLoads
  <2> QED  BY <1>2, <2>1, <2>2 DEF User
<1>3. ASSUME NEW t \in Threads, Setter(t) PROVE LInv'
  BY <1>3, LInvLoads, LInvNotify, LInvThrow, LInvRelease, LInvStore DEF Setter
<1>4. ASSUME NEW t \in Threads, Listener(t), ~UNCHANGED configVars PROVE LInv'
  <2>1. NotifyLogs(t)
    BY <1>4 DEF Listener, GetLogger, SetLevel, SetFormatter, ClearAppender,
                SkipAppender, AddAppender, Spin, LeaveLogger, Doing
  <2> QED  BY <2>1, LInvNotify DEF NotifyLogs
<1>5. ASSUME NEW n \in Names, UseLogger(n) PROVE UNCHANGED configVars
  BY <1>5 DEF UseLogger
<1>6. CASE UNCHANGED vars  BY <1>1, <1>6 DEF vars
<1> QED  BY <1>1, <1>2, <1>3, <1>4, <1>5, <1>6 DEF Next, Stuck

\* config.h:338-350: a listener that copies the value it is told has a true copy
\* whenever nobody is setting the variable, unless the last call overlapped
\* another one, was overtaken by addListener(), or ended with an exception.
THEOREM ListenersKnow == Spec => []ListenersHaveHeard
<1>1. LInv => ListenersHaveHeard
  BY DEF LInv, Shapes, Settled, ListenersHaveHeard
<1> QED  BY <1>1, LInvInit, LInvNext, PTL DEF Spec
-----------------------------------------------------------------------------
(***************************************************************************)
(* The types of Config                                                     *)
(***************************************************************************)
\* A call that sets a variable has one, and a value for it; a file in progress
\* has nodes left; LogIniter is on a list once, and on that of its variable.
GoodCall(c) ==
  /\ c \in Call
  /\ c.pc \in {"notify", "store"} => c.key \in Keys /\ c.new \in Values
  /\ c.pc = "load" => c.todo # <<>>
  /\ c.pc = "notify" =>
       /\ Distinct(c.left)
       /\ \A i \in DOMAIN c.left : c.left[i] = LogIniter => c.key = Logs

OnlyOfLogs == \A k \in Keys : LogIniter \in Registered(k) => k = Logs

Registry == ConfigTypeOK /\ OnlyOfLogs /\ \A t \in Threads : GoodCall(call[t])

\* What a step of another thread leaves of a call: it may not be alone any more.
Kept(t) == /\ call'[t].pc = call[t].pc /\ call'[t].key = call[t].key
           /\ call'[t].new = call[t].new /\ call'[t].left = call[t].left
           /\ call'[t].alone => call[t].alone

LEMMA RegistryInit == Init => Registry
<1> SUFFICES ASSUME Init PROVE Registry  OBVIOUS
<1>1. /\ datas = StaticKeys /\ val = [k \in Keys |-> Default]
      /\ cbs = [k \in Keys |-> IF k = Logs THEN <<LogIniter>> ELSE <<>>]
      /\ call = [t \in Threads |-> NoCall]
      /\ heard = [k \in Keys |-> [l \in Listeners |-> Default]]
      /\ dispute = [k \in Keys |-> "never"]
  BY DEF Init, ConfigInit
<1>2. <<LogIniter>> \in Seq(Listeners) /\ <<>> \in Seq(Listeners) /\ <<>> \in Seq(Node)
  BY LogAssumption
<1>3. NoCall \in Call /\ NoCall.pc = "user"
  BY <1>2 DEF NoCall, Call
<1>4. \A k \in Keys : \A i, j \in DOMAIN cbs[k] : cbs[k][i] = cbs[k][j] => i = j
  BY <1>1
<1>5. ConfigTypeOK
  BY <1>1, <1>2, <1>3, <1>4, ConfigAssumption DEF ConfigTypeOK
<1>6. OnlyOfLogs  BY <1>1 DEF OnlyOfLogs, Registered
<1>7. \A t \in Threads : GoodCall(call[t])  BY <1>1, <1>3 DEF GoodCall
<1> QED  BY <1>5, <1>6, <1>7 DEF Registry

\* A call that returns, to its caller or to the next node of a file.
LEMMA GoodResume ==
  ASSUME NEW rest \in Seq(Node)
  PROVE  GoodCall(Resume(rest))
<1> DEFINE p == IF rest = <<>> THEN "user" ELSE "load"
<1>1. Resume(rest) = [NoCall EXCEPT !.pc = p, !.todo = rest]  BY DEF Resume
<1>2. p \in {"user", "load"} /\ (p = "load" => rest # <<>>)  OBVIOUS
<1> HIDE DEF p
<1>3. Resume(rest) = [pc |-> p, todo |-> rest, key |-> None, new |-> None,
                      left |-> <<>>, alone |-> TRUE]
  BY <1>1 DEF NoCall
<1>4. <<>> \in Seq(Listeners)  OBVIOUS
<1>5. Resume(rest) \in Call  BY <1>2, <1>3, <1>4 DEF Call
<1> QED  BY <1>2, <1>3, <1>5 DEF GoodCall

\* One call changes.
LEMMA CallSet ==
  ASSUME Registry, NEW t \in Threads, NEW c, GoodCall(c),
         call' = [call EXCEPT ![t] = c]
  PROVE  /\ call' \in [Threads -> Call] /\ \A u \in Threads : GoodCall(call'[u])
         /\ call'[t] = c
         /\ \A u \in Threads : u # t => call'[u] = call[u] /\ Kept(u)
<1>1. call \in [Threads -> Call] /\ c \in Call
  BY DEF Registry, ConfigTypeOK, GoodCall
<1>2. call'[t] = c /\ \A u \in Threads : u # t => call'[u] = call[u]
  BY <1>1
<1>3. \A u \in Threads : u # t => Kept(u)  BY <1>2 DEF Kept
<1>4. \A u \in Threads : GoodCall(call'[u])  BY <1>2 DEF Registry
<1> QED  BY <1>1, <1>2, <1>3, <1>4

\* Some calls are not alone any more.
LEMMA CallsKept ==
  ASSUME Registry, NEW t \in Threads,
         call'[t] = call[t] \/ call'[t] = [call[t] EXCEPT !.alone = FALSE]
  PROVE  GoodCall(call'[t]) /\ Kept(t)
<1>1. GoodCall(call[t])  BY DEF Registry
<1>2. CASE call'[t] = call[t]  BY <1>1, <1>2 DEF Kept
<1>3. CASE call'[t] = [call[t] EXCEPT !.alone = FALSE]
  <2>1. call[t] \in Call  BY <1>1 DEF GoodCall
  <2>2. /\ call'[t] \in Call /\ call'[t].pc = call[t].pc
        /\ call'[t].key = call[t].key /\ call'[t].new = call[t].new
        /\ call'[t].left = call[t].left /\ call'[t].todo = call[t].todo
        /\ call'[t].alone = FALSE
    BY <1>3, <2>1 DEF Call
  <2> QED  BY <1>1, <2>2 DEF GoodCall, Kept
<1> QED  BY <1>2, <1>3

\* A call begins.
LEMMA CallBegins ==
  ASSUME Registry, NEW t \in Threads, NEW k \in Keys, NEW v \in Values,
         NEW rest \in Seq(Node), Compare(t, k, v, rest)
  PROVE  /\ call' \in [Threads -> Call] /\ \A u \in Threads : GoodCall(call'[u])
         /\ \A u \in Threads : u # t => Kept(u)
<1>1. CASE v = val[k]
  <2>1. call' = [call EXCEPT ![t] = Resume(rest)]  BY <1>1 DEF Compare
  <2> QED  BY <2>1, CallSet, GoodResume
<1>2. CASE v # val[k]
  <2> DEFINE c == [pc |-> "notify", todo |-> rest, key |-> k, new |-> v,
                   left |-> cbs[k], alone |-> ~Setting(k)]
  <2>1. call' = [u \in Threads |->
                   IF u = t THEN c
                   ELSE IF In(u, k, {"notify", "store"})
                   THEN [call[u] EXCEPT !.alone = FALSE] ELSE call[u]]
    BY <1>2 DEF Compare
  <2>2. /\ cbs[k] \in Seq(Listeners) /\ Distinct(cbs[k])
        /\ (~Setting(k)) \in BOOLEAN
    BY DEF Registry, ConfigTypeOK, Distinct
  <2>3. \A i \in DOMAIN cbs[k] : cbs[k][i] = LogIniter => k = Logs
    BY DEF Registry, OnlyOfLogs, Registered
  <2>4. GoodCall(c)
    <3>1. /\ c.pc = "notify" /\ c.key = k /\ c.new = v /\ c.left = cbs[k]
          /\ c \in Call
      BY <2>2 DEF Call
    <3> HIDE DEF c
    <3> QED  BY <2>2, <2>3, <3>1 DEF GoodCall
  <2> HIDE DEF c
  <2>5. \A u \in Threads : u # t => GoodCall(call'[u]) /\ Kept(u)
    BY <2>1, CallsKept
  <2>6. DOMAIN call' = Threads /\ call'[t] = c  BY <2>1
  <2>7. \A u \in Threads : GoodCall(call'[u])  BY <2>4, <2>5, <2>6
  <2>8. call' \in [Threads -> Call]
    <3>1. \A u \in Threads : call'[u] \in Call  BY <2>7 DEF GoodCall
    <3> QED  BY <2>1, <3>1
  <2> QED  BY <2>5, <2>7, <2>8
<1> QED  BY <1>1, <1>2

\* What a step has to show that does not touch the lists of listeners.
LEMMA RegistryFrom ==
  ASSUME Registry, UNCHANGED cbs, datas' \subseteq Keys, val' \in [Keys -> Values],
         heard' \in [Keys -> [Listeners -> Values]],
         dispute' \in [Keys -> {"never", "now", "before"}],
         call' \in [Threads -> Call], \A u \in Threads : GoodCall(call'[u])
  PROVE  Registry'
<1>1. ConfigTypeOK'  BY DEF Registry, ConfigTypeOK
<1>2. OnlyOfLogs'  BY DEF Registry, OnlyOfLogs, Registered
<1> QED  BY <1>1, <1>2 DEF Registry

LEMMA RegistryLoads ==
  ASSUME Registry, NEW t \in Threads,
         \/ \E k \in Keys : Lookup(t, k)
         \/ \E k \in Keys, v \in Values : SetValue(t, k, v)
         \/ \E doc \in Docs : Load(t, doc)
         \/ LoadFromConDir(t) \/ LoadNode(t)
  PROVE  Registry' /\ \A u \in Threads : u # t => Kept(u)
<1>0. ConfigTypeOK /\ GoodCall(call[t]) /\ call[t] \in Call
  BY DEF Registry, GoodCall
<1>1. ASSUME UNCHANGED <<val, cbs, heard, dispute>>, datas' \subseteq Keys,
             call' \in [Threads -> Call], \A u \in Threads : GoodCall(call'[u])
      PROVE  Registry'
  BY <1>0, <1>1, RegistryFrom DEF ConfigTypeOK
<1>2. datas \subseteq Keys  BY <1>0 DEF ConfigTypeOK
<1>3. ASSUME NEW k \in Keys, Lookup(t, k)
      PROVE  Registry' /\ \A u \in Threads : u # t => Kept(u)
  <2>1. UNCHANGED <<val, cbs, call, heard, dispute>> /\ datas' \subseteq Keys
    BY <1>2, <1>3 DEF Lookup
  <2>2. call' \in [Threads -> Call] /\ \A u \in Threads : GoodCall(call'[u])
    BY <2>1 DEF Registry, ConfigTypeOK
  <2>3. \A u \in Threads : Kept(u)  BY <2>1 DEF Kept
  <2> QED  BY <1>1, <2>1, <2>2, <2>3
<1>4. ASSUME NEW k \in Keys, NEW v \in Values, SetValue(t, k, v)
      PROVE  Registry' /\ \A u \in Threads : u # t => Kept(u)
  <2>1. Compare(t, k, v, <<>>) /\ UNCHANGED <<datas, val, cbs, heard, dispute>>
    BY <1>4 DEF SetValue
  <2>2. <<>> \in Seq(Node)  OBVIOUS
  <2> QED  BY <1>1, <1>2, <2>1, <2>2, CallBegins
<1>5. ASSUME NEW rest \in Seq(Node), call' = [call EXCEPT ![t] = Resume(rest)],
             UNCHANGED <<datas, val, cbs, heard, dispute>>
      PROVE  Registry' /\ \A u \in Threads : u # t => Kept(u)
  BY <1>1, <1>2, <1>5, CallSet, GoodResume
<1>6. ASSUME NEW doc \in Docs, Load(t, doc)
      PROVE  Registry' /\ \A u \in Threads : u # t => Kept(u)
  <2>1. doc \in Seq(Node)  BY ConfigAssumption
  <2> QED  BY <1>5, <1>6, <2>1 DEF Load
<1>7. ASSUME LoadFromConDir(t)
      PROVE  Registry' /\ \A u \in Threads : u # t => Kept(u)
  <2> DEFINE c == [call[t] EXCEPT !.pc = "listing"]
  <2>1. /\ call' = [call EXCEPT ![t] = c] /\ UNCHANGED <<datas, val, cbs, heard, dispute>>
    <3>1. call \in [Threads -> Call]  BY <1>0 DEF ConfigTypeOK
    <3> QED  BY <1>7, <3>1 DEF LoadFromConDir
  <2>2. c \in Call /\ c.pc = "listing"  BY <1>0 DEF Call
  <2> HIDE DEF c
  <2>3. GoodCall(c)  BY <2>2 DEF GoodCall
  <2> QED  BY <1>1, <1>2, <2>1, <2>3, CallSet
<1>8. ASSUME LoadNode(t)
      PROVE  Registry' /\ \A u \in Threads : u # t => Kept(u)
  <2> DEFINE node == Head(call[t].todo)
             rest == Tail(call[t].todo)
  <2>1. /\ call[t].pc = "load" /\ UNCHANGED <<datas, val, cbs, heard, dispute>>
        /\ IF IsListed(node) /\ node.key \in datas /\ node.value # None
           THEN Compare(t, node.key, node.value, rest)
           ELSE call' = [call EXCEPT ![t] = Resume(rest)]
    BY <1>8 DEF LoadNode
  <2>2. node \in Node /\ rest \in Seq(Node)
    <3>1. call[t].todo \in Seq(Node)  BY <1>0 DEF Call
    <3>2. call[t].todo # <<>>  BY <1>0, <2>1 DEF GoodCall
    <3> QED  BY <3>1, <3>2, HeadTailProperties
  <2> HIDE DEF node, rest
  <2>3. CASE IsListed(node) /\ node.key \in datas /\ node.value # None
    <3>1. node.key \in Keys /\ node.value \in Values  BY <2>2, <2>3 DEF Node
    <3>2. Compare(t, node.key, node.value, rest)  BY <2>1, <2>3
    <3> QED  BY <1>1, <1>2, <2>1, <2>2, <3>1, <3>2, CallBegins
  <2>4. CASE ~(IsListed(node) /\ node.key \in datas /\ node.value # None)
    BY <1>5, <2>1, <2>2, <2>4
  <2> QED  BY <2>3, <2>4
<1> QED  BY <1>3, <1>4, <1>6, <1>7, <1>8

\* A listener comes ...
LEMMA RegistryAdd ==
  ASSUME Registry, NEW t \in Threads, NEW k \in Keys, NEW l \in Listeners \ {LogIniter},
         AddListener(t, k, l)
  PROVE  /\ Registry' /\ \A u \in Threads : Kept(u)
         /\ \A j \in Keys : LogIniter \in Registered(j)' => LogIniter \in Registered(j)
<1>0. ConfigTypeOK  BY DEF Registry
<1>1. /\ UNCHANGED <<datas, val, dispute>> /\ l \notin Registered(k)
      /\ cbs' = [cbs EXCEPT ![k] = Append(@, l)]
      /\ heard' = [heard EXCEPT ![k][l] = val[k]]
      /\ call' = [u \in Threads |->
                    IF In(u, k, {"store"}) THEN [call[u] EXCEPT !.alone = FALSE]
                    ELSE call[u]]
  BY DEF AddListener
<1>2. \A u \in Threads : GoodCall(call'[u]) /\ Kept(u)
  <2>1. \A u \in Threads : call'[u] = call[u]
                            \/ call'[u] = [call[u] EXCEPT !.alone = FALSE]
    BY <1>1
  <2> QED  BY <2>1, CallsKept
<1>3. call' \in [Threads -> Call]
  <2>1. \A u \in Threads : call'[u] \in Call  BY <1>2 DEF GoodCall
  <2> QED  BY <1>1, <2>1
<1>4. /\ cbs \in [Keys -> Seq(Listeners)] /\ cbs[k] \in Seq(Listeners)
      /\ Distinct(cbs[k]) /\ \A i \in DOMAIN cbs[k] : cbs[k][i] # l
  BY <1>0, <1>1 DEF ConfigTypeOK, Registered, Distinct
<1>5. /\ Append(cbs[k], l) \in Seq(Listeners) /\ Distinct(Append(cbs[k], l))
      /\ \A i \in DOMAIN Append(cbs[k], l) :
           \/ Append(cbs[k], l)[i] = l
           \/ \E j \in DOMAIN cbs[k] : Append(cbs[k], l)[i] = cbs[k][j]
  BY <1>4, AppendDistinct, AppendSet
<1>6. /\ cbs' \in [Keys -> Seq(Listeners)] /\ cbs'[k] = Append(cbs[k], l)
      /\ \A j \in Keys : j # k => cbs'[j] = cbs[j]
  BY <1>1, <1>4, <1>5
<1>7. \A j \in Keys : Distinct(cbs'[j])
  BY <1>0, <1>5, <1>6 DEF ConfigTypeOK, Distinct
<1>8. heard' \in [Keys -> [Listeners -> Values]]
  BY <1>0, <1>1 DEF ConfigTypeOK
<1>9. ConfigTypeOK'
  BY <1>0, <1>1, <1>3, <1>6, <1>7, <1>8 DEF ConfigTypeOK, Distinct
<1>10. \A j \in Keys : LogIniter \in Registered(j)' => LogIniter \in Registered(j)
  BY <1>5, <1>6 DEF Registered
<1>11. OnlyOfLogs'  BY <1>10 DEF Registry, OnlyOfLogs
<1> QED  BY <1>2, <1>9, <1>10, <1>11 DEF Registry

\* ... or goes.
LEMMA RegistryDel ==
  ASSUME Registry, NEW t \in Threads, NEW k \in Keys,
         ClearListener(t, k) \/ \E l \in Listeners : DelListener(t, k, l)
  PROVE  /\ Registry' /\ \A u \in Threads : Kept(u)
         /\ \A j \in Keys : LogIniter \in Registered(j)' => LogIniter \in Registered(j)
<1>0. ConfigTypeOK  BY DEF Registry
<1>1. /\ UNCHANGED <<datas, val, call, heard, dispute>>
      /\ cbs' = [cbs EXCEPT ![k] = <<>>]
         \/ \E i \in DOMAIN cbs[k] : cbs' = [cbs EXCEPT ![k] = RemoveAt(cbs[k], i)]
  BY DEF ClearListener, DelListener
<1>2. cbs \in [Keys -> Seq(Listeners)] /\ cbs[k] \in Seq(Listeners) /\ Distinct(cbs[k])
  BY <1>0 DEF ConfigTypeOK, Distinct
<1>3. PICK s \in Seq(Listeners) :
        /\ cbs' = [cbs EXCEPT ![k] = s] /\ Distinct(s)
        /\ \A i \in DOMAIN s : \E j \in DOMAIN cbs[k] : s[i] = cbs[k][j]
  <2>1. CASE cbs' = [cbs EXCEPT ![k] = <<>>]
    <3>1. <<>> \in Seq(Listeners) /\ DOMAIN <<>> = {}  BY EmptySeq
    <3>2. Distinct(<<>>)  BY <3>1 DEF Distinct
    <3> QED  BY <2>1, <3>1, <3>2
  <2>2. ASSUME NEW i \in DOMAIN cbs[k], cbs' = [cbs EXCEPT ![k] = RemoveAt(cbs[k], i)]
        PROVE  \E s \in Seq(Listeners) :
                 /\ cbs' = [cbs EXCEPT ![k] = s] /\ Distinct(s)
                 /\ \A n \in DOMAIN s : \E j \in DOMAIN cbs[k] : s[n] = cbs[k][j]
    <3> DEFINE r == RemoveAt(cbs[k], i)
    <3>1. /\ r \in Seq(Listeners) /\ Distinct(r)
          /\ \A n \in DOMAIN r : /\ n < i => n \in DOMAIN cbs[k] /\ r[n] = cbs[k][n]
                                 /\ n >= i => n + 1 \in DOMAIN cbs[k]
                                              /\ r[n] = cbs[k][n + 1]
          /\ DOMAIN r = 1 .. Len(cbs[k]) - 1 /\ DOMAIN cbs[k] = 1 .. Len(cbs[k])
      BY <1>2, RemoveSet, RemoveDistinct, LenProperties
    <3> HIDE DEF r
    <3>2. \A n \in DOMAIN r : n < i \/ n >= i  BY <3>1
    <3>3. \A n \in DOMAIN r : \E j \in DOMAIN cbs[k] : r[n] = cbs[k][j]
      BY <3>1, <3>2
    <3> QED  BY <2>2, <3>1, <3>3 DEF r
  <2> QED  BY <1>1, <2>1, <2>2
<1>4. /\ cbs' \in [Keys -> Seq(Listeners)] /\ cbs'[k] = s
      /\ \A j \in Keys : j # k => cbs'[j] = cbs[j]
  BY <1>2, <1>3
<1>5. \A j \in Keys : Distinct(cbs'[j])
  BY <1>0, <1>3, <1>4 DEF ConfigTypeOK, Distinct
<1>6. ConfigTypeOK'
  BY <1>0, <1>1, <1>4, <1>5 DEF ConfigTypeOK, Distinct
<1>7. \A j \in Keys : LogIniter \in Registered(j)' => LogIniter \in Registered(j)
  BY <1>3, <1>4 DEF Registered
<1>8. OnlyOfLogs'  BY <1>7 DEF Registry, OnlyOfLogs
<1>9. \A u \in Threads : GoodCall(call'[u]) /\ Kept(u)
  BY <1>1 DEF Registry, Kept
<1> QED  BY <1>6, <1>7, <1>8, <1>9 DEF Registry

\* A listener is told: what a call with one listener fewer is.
LEMMA GoodTold ==
  ASSUME Registry, NEW t \in Threads, call[t].pc = "notify", call[t].left # <<>>, Told(t)
  PROVE  /\ heard' \in [Keys -> [Listeners -> Values]]
         /\ GoodCall([call[t] EXCEPT !.left = Tail(call[t].left)])
         /\ call[t].todo \in Seq(Node) /\ call[t].key \in Keys
         /\ \A i \in DOMAIN Tail(call[t].left) :
              Tail(call[t].left)[i] # Head(call[t].left)
         /\ Head(call[t].left) = LogIniter => call[t].key = Logs
<1>0. GoodCall(call[t]) /\ call[t] \in Call /\ heard \in [Keys -> [Listeners -> Values]]
  BY DEF Registry, GoodCall, ConfigTypeOK
<1>1. /\ call[t].key \in Keys /\ call[t].new \in Values /\ Distinct(call[t].left)
      /\ \A i \in DOMAIN call[t].left :
           call[t].left[i] = LogIniter => call[t].key = Logs
  BY <1>0 DEF GoodCall
<1>2. PICK s \in Seq(Listeners) : s = call[t].left  BY <1>0 DEF Call
<1>3. PICK r : r = Tail(s)  BY Zenon
<1>4. /\ Head(s) \in Listeners /\ r \in Seq(Listeners) /\ Distinct(r)
      /\ \A i \in DOMAIN r : r[i] # Head(s) /\ \E j \in DOMAIN s : r[i] = s[j]
  BY <1>1, <1>2, <1>3, TailSet, TailDistinct
<1>5. heard' \in [Keys -> [Listeners -> Values]]
  BY <1>0, <1>1, <1>2, <1>4 DEF Told
<1>6. \A i \in DOMAIN r : r[i] = LogIniter => call[t].key = Logs
  BY <1>1, <1>2, <1>4
<1>7. GoodCall([call[t] EXCEPT !.left = r])
  <2> DEFINE c == [call[t] EXCEPT !.left = r]
  <2>1. /\ c \in Call /\ c.left = r /\ c.pc = call[t].pc /\ c.key = call[t].key
        /\ c.new = call[t].new /\ c.todo = call[t].todo
    BY <1>0, <1>4 DEF Call
  <2> HIDE DEF c
  <2>2. GoodCall(c)  BY <1>1, <1>4, <1>6, <2>1 DEF GoodCall
  <2> QED  BY <2>2 DEF c
<1>8. Head(s) = LogIniter => call[t].key = Logs
  <2>1. Head(s) = s[1] /\ 1 \in DOMAIN s
    BY <1>2, HeadTailProperties, EmptySeq, LenProperties
  <2> QED  BY <1>1, <1>2, <2>1
<1>9. call[t].todo \in Seq(Node)  BY <1>0 DEF Call
<1> QED  BY <1>1, <1>2, <1>3, <1>4, <1>5, <1>7, <1>8, <1>9

LEMMA RegistrySets ==
  ASSUME Registry, NEW t \in Threads,
         Notify(t) \/ Throw(t) \/ Release(t) \/ Store(t)
  PROVE  Registry' /\ \A u \in Threads : u # t => Kept(u)
<1>0. /\ ConfigTypeOK /\ GoodCall(call[t]) /\ call[t] \in Call
      /\ call[t].todo \in Seq(Node) /\ DOMAIN call = Threads
  BY DEF Registry, GoodCall, ConfigTypeOK, Call
<1>1. ASSUME NEW c, GoodCall(c), call' = [call EXCEPT ![t] = c],
             UNCHANGED <<datas, cbs>>, val' \in [Keys -> Values],
             heard' \in [Keys -> [Listeners -> Values]],
             dispute' \in [Keys -> {"never", "now", "before"}]
      PROVE  Registry' /\ \A u \in Threads : u # t => Kept(u)
  <2>1. datas' \subseteq Keys  BY <1>0, <1>1 DEF ConfigTypeOK
  <2> QED  BY <1>1, <2>1, CallSet, RegistryFrom
<1>2. CASE Notify(t)
  <2> DEFINE c == [call[t] EXCEPT !.left = Tail(call[t].left)]
  <2>1. /\ call[t].pc = "notify" /\ call[t].left # <<>> /\ Told(t)
        /\ call' = [call EXCEPT ![t] = c] /\ UNCHANGED <<datas, val, cbs, dispute>>
    BY <1>0, <1>2 DEF Notify
  <2>2. GoodCall(c) /\ heard' \in [Keys -> [Listeners -> Values]]
    BY <2>1, GoodTold
  <2> HIDE DEF c
  <2> QED  BY <1>0, <1>1, <2>1, <2>2 DEF ConfigTypeOK
<1>3. CASE Throw(t)
  <2>1. /\ call[t].pc = "notify" /\ call[t].left # <<>> /\ Told(t)
        /\ dispute' = [dispute EXCEPT ![call[t].key] = "now"]
        /\ UNCHANGED <<datas, val, cbs>>
    BY <1>3 DEF Throw
  <2>2. PICK rest \in Seq(Node) : call' = [call EXCEPT ![t] = Resume(rest)]
    <3>1. <<>> \in Seq(Node)  OBVIOUS
    <3> QED  BY <1>0, <1>3, <3>1 DEF Throw
  <2>3. heard' \in [Keys -> [Listeners -> Values]]  BY <2>1, GoodTold
  <2>4. dispute' \in [Keys -> {"never", "now", "before"}]
    BY <1>0, <2>1 DEF ConfigTypeOK
  <2> QED  BY <1>0, <1>1, <2>1, <2>2, <2>3, <2>4, GoodResume DEF ConfigTypeOK
<1>4. CASE Release(t)
  <2> DEFINE c == [call[t] EXCEPT !.pc = "store"]
  <2>1. /\ call[t].pc = "notify" /\ call' = [call EXCEPT ![t] = c]
        /\ UNCHANGED <<datas, val, cbs, heard, dispute>>
    BY <1>0, <1>4 DEF Release
  <2>2. c \in Call /\ c.pc = "store" /\ c.key = call[t].key /\ c.new = call[t].new
    BY <1>0 DEF Call
  <2> HIDE DEF c
  <2>3. GoodCall(c)  BY <1>0, <2>1, <2>2 DEF GoodCall
  <2> QED  BY <1>0, <1>1, <2>1, <2>3 DEF ConfigTypeOK
<1>5. CASE Store(t)
  <2>1. /\ call[t].pc = "store" /\ UNCHANGED <<datas, cbs, heard>>
        /\ val' = [val EXCEPT ![call[t].key] = call[t].new]
        /\ call' = [call EXCEPT ![t] = Resume(call[t].todo)]
        /\ dispute' = [dispute EXCEPT ![call[t].key] = After(t)]
    BY <1>5 DEF Store
  <2>2. val' \in [Keys -> Values]
    BY <1>0, <2>1 DEF GoodCall, ConfigTypeOK
  <2>3. dispute' \in [Keys -> {"never", "now", "before"}]
    <3>1. After(t) \in {"never", "now", "before"}  BY DEF After
    <3> QED  BY <1>0, <2>1, <3>1 DEF ConfigTypeOK
  <2> QED  BY <1>0, <1>1, <2>1, <2>2, <2>3, GoodResume DEF ConfigTypeOK
<1> QED  BY <1>2, <1>3, <1>4, <1>5

\* Every step of a thread that is not in the listener.
LEMMA RegistryStep ==
  ASSUME Registry, NEW t \in Threads, User(t) \/ Setter(t) \/ Notify(t)
  PROVE  Registry' /\ \A u \in Threads : u # t => Kept(u)
<1>1. CASE User(t)
  <2>1. ASSUME NEW k \in Used,
               \/ ClearListener(t, k)
               \/ \E l \in Listeners \ {LogIniter} :
                    AddListener(t, k, l) \/ DelListener(t, k, l)
               \/ \E v \in Values : SetValue(t, k, v)
        PROVE  Registry' /\ \A u \in Threads : u # t => Kept(u)
    <3>1. k \in Keys  BY LogAssumption
    <3> QED  BY <2>1, <3>1, RegistryAdd, RegistryDel, RegistryLoads
  <2> QED  BY <1>1, <2>1, RegistryLoads DEF User
<1>2. CASE Setter(t) \/ Notify(t)
  BY <1>2, RegistryLoads, RegistrySets DEF Setter
<1> QED  BY <1>1, <1>2

-----------------------------------------------------------------------------
(***************************************************************************)
(* The types of Log                                                        *)
(***************************************************************************)
\* A run of the listener belongs to a call that tells a value of Logs, and works
\* on a logger that is there, on no more appenders than it is to have.
Running(t) ==
  /\ ~Idle(t) => call[t].pc = "notify" /\ call[t].key = Logs
  /\ run[t].at = "next" => run[t] = Between(run[t].left)
  /\ run[t].at # "next" => /\ run[t].logger \in Names
                           /\ loggers[run[t].logger] # None
                           /\ run[t].at # "add" => run[t].done = 0
                           /\ run[t].done <= Len(Target(t).appenders)

LogTypes == TypeOK /\ Registry /\ \A t \in Threads : Running(t)

LEMMA LogTypesInit == Init => LogTypes
<1> SUFFICES ASSUME Init PROVE LogTypes  OBVIOUS
<1>1. /\ loggers = [n \in Names |-> None] /\ spun = {} /\ daemon \in BOOLEAN
      /\ run = [t \in Threads |-> Between({})]
  BY DEF Init
<1>2. Between({}) \in Run /\ Between({}).at = "next" /\ Between({}).left = {}
  BY DEF Between, Run
<1>3. \A t \in Threads : Running(t)  BY <1>1, <1>2 DEF Running, Idle
<1>4. Registry /\ ConfigTypeOK  BY RegistryInit DEF Registry
<1>5. TypeOK  BY <1>1, <1>2, <1>4 DEF TypeOK
<1> QED  BY <1>3, <1>4, <1>5 DEF LogTypes

\* What a logger is to be, and the loggers that are.
LEMMA Targets ==
  ASSUME NEW v \in Values, NEW n, NEW d, d = IF n \in DOMAIN v THEN v[n] ELSE Silent
  PROVE  /\ d \in Define /\ d.appenders \in Seq(AppenderDefine)
         /\ Len(d.appenders) \in Nat
<1>1. Silent \in Define
  <2>1. <<>> \in Seq(AppenderDefine)  OBVIOUS
  <2> QED  BY <2>1 DEF Silent, Define, Level, Pattern
<1>2. d \in Define  BY <1>1, LogAssumption
<1>3. d.appenders \in Seq(AppenderDefine)  BY <1>2 DEF Define
<1> QED  BY <1>2, <1>3, LenProperties

LEMMA TargetStays ==
  ASSUME NEW t, run'[t].logger = run[t].logger, call'[t].new = call[t].new
  PROVE  Target(t)' = Target(t)
BY DEF Target

LEMMA Known ==
  /\ NewLogger \in Logger /\ NewLogger # None /\ NewLogger.appenders = <<>>
  /\ \A l \in Logger : l # None
<1>1. <<>> \in Seq({"file", "stdout"})  OBVIOUS
<1>2. NewLogger \in Logger /\ NewLogger.appenders = <<>>
  BY <1>1 DEF NewLogger, Logger, Level
<1>3. None \notin Logger  BY LogAssumption
<1> QED  BY <1>2, <1>3

\* Steps outside the listener, by a thread that is not in it.
LEMMA LogTypesConfig ==
  ASSUME LogTypes, NEW t \in Threads, Idle(t), User(t) \/ Setter(t), UNCHANGED logVars
  PROVE  LogTypes'
<1>1. /\ Registry' /\ \A u \in Threads : u # t => Kept(u)
      /\ UNCHANGED <<loggers, run, spun, daemon>>
  BY RegistryStep DEF LogTypes, logVars
<1>2. TypeOK'  BY <1>1 DEF LogTypes, TypeOK, Registry
<1>3. ASSUME NEW u \in Threads PROVE Running(u)'
  <2>1. Running(u)  BY DEF LogTypes
  <2>2. CASE u = t
    <3>1. run'[u] = Between({}) /\ Between({}).at = "next" /\ Between({}).left = {}
      BY <1>1, <2>2 DEF Idle, Between
    <3> QED  BY <3>1 DEF Running, Idle
  <2>3. CASE u # t
    <3>1. Kept(u) /\ run'[u] = run[u]  BY <1>1, <2>3
    <3>2. Target(u)' = Target(u)  BY <3>1, TargetStays DEF Kept
    <3> QED  BY <1>1, <2>1, <3>1, <3>2 DEF Running, Idle, Kept
  <2> QED  BY <2>2, <2>3
<1> QED  BY <1>1, <1>2, <1>3 DEF LogTypes

\* The differences of two values are of loggers.
LEMMA LogTypesNotify ==
  ASSUME LogTypes, NEW t \in Threads, NotifyLogs(t)
  PROVE  /\ LogTypes' /\ call[t].pc = "notify" /\ call[t].key = Logs
         /\ call[t].new \in Values /\ val[Logs] \in Values
         /\ call'[t].new = call[t].new
         /\ run'[t] = Between(Changed(val[Logs], call[t].new)
                              \cup Dropped(val[Logs], call[t].new))
         /\ \A i \in DOMAIN Tail(call[t].left) : Tail(call[t].left)[i] # LogIniter
<1> DEFINE left == Changed(val[Logs], call[t].new) \cup Dropped(val[Logs], call[t].new)
<1>1. /\ Notify(t) /\ UNCHANGED <<loggers, spun, daemon>> /\ call[t].left # <<>>
      /\ Head(call[t].left) = LogIniter /\ run' = [run EXCEPT ![t] = Between(left)]
  BY DEF NotifyLogs, IsLogIniter
<1>2. /\ Registry /\ TypeOK /\ ConfigTypeOK /\ GoodCall(call[t]) /\ Logs \in Keys
  BY LogAssumption, ConfigAssumption DEF LogTypes, Registry
<1>3. call[t].pc = "notify" /\ Told(t) /\ call' = [call EXCEPT ![t].left = Tail(@)]
  BY <1>1 DEF Notify
<1>4. call[t].new \in Values /\ val[Logs] \in Values
  BY <1>2, <1>3 DEF GoodCall, ConfigTypeOK
<1>5. /\ call[t].key = Logs
      /\ \A i \in DOMAIN Tail(call[t].left) : Tail(call[t].left)[i] # LogIniter
  BY <1>1, <1>2, <1>3, GoodTold
<1>6. left \in SUBSET Names
  BY <1>4, LogAssumption DEF Changed, Dropped
<1> HIDE DEF left
<1>7. /\ Registry' /\ \A u \in Threads : u # t => Kept(u)
  BY <1>1, <1>2, RegistryStep
<1>8. /\ call'[t].pc = call[t].pc /\ call'[t].key = call[t].key
      /\ call'[t].new = call[t].new
  <2>1. call \in [Threads -> Call]  BY <1>2 DEF ConfigTypeOK
  <2> QED  BY <1>3, <2>1 DEF Call
<1>9. /\ Between(left) \in Run /\ Between(left).at = "next"
      /\ Between(left).left = left
  BY <1>6 DEF Between, Run
<1>10. /\ run' \in [Threads -> Run] /\ run'[t] = Between(left)
       /\ \A u \in Threads : u # t => run'[u] = run[u]
  BY <1>1, <1>2, <1>9 DEF TypeOK
<1>11. TypeOK'  BY <1>1, <1>2, <1>7, <1>10 DEF TypeOK, Registry
<1>12. ASSUME NEW u \in Threads PROVE Running(u)'
  <2>1. Running(u)  BY DEF LogTypes
  <2>2. CASE u = t  BY <1>3, <1>5, <1>8, <1>9, <1>10, <2>2 DEF Running
  <2>3. CASE u # t
    <3>1. Kept(u) /\ run'[u] = run[u]  BY <1>7, <1>10, <2>3
    <3>2. Target(u)' = Target(u)  BY <3>1, TargetStays DEF Kept
    <3> QED  BY <1>1, <2>1, <3>1, <3>2 DEF Running, Idle, Kept
  <2> QED  BY <2>2, <2>3
<1>13. LogTypes'  BY <1>7, <1>11, <1>12 DEF LogTypes
<1> QED  BY <1>3, <1>4, <1>5, <1>8, <1>10, <1>13 DEF left

\* An operation of the listener.
LEMMA LogTypesOperation ==
  ASSUME LogTypes, NEW t \in Threads, ~Idle(t), UNCHANGED <<configVars, daemon>>,
         spun' \subseteq Names, loggers' \in [Names -> {None} \cup Logger],
         \A n \in Names : loggers[n] # None => loggers'[n] # None,
         NEW r \in Run, run' = [run EXCEPT ![t] = r],
         r.at = "next" => r = Between(r.left),
         r.at # "next" => /\ r.logger \in Names /\ loggers'[r.logger] # None
                          /\ r.at # "add" => r.done = 0
                          /\ r.done <= Len(Target(t)'.appenders)
  PROVE  LogTypes'
<1>1. UNCHANGED <<datas, val, cbs, call, heard, dispute>>  BY DEF configVars
<1>2. Registry'
  BY <1>1 DEF LogTypes, Registry, ConfigTypeOK, OnlyOfLogs, Registered
<1>3. /\ run' \in [Threads -> Run] /\ run'[t] = r
      /\ \A u \in Threads : u # t => run'[u] = run[u]
  BY DEF LogTypes, TypeOK
<1>4. TypeOK'  BY <1>2, <1>3 DEF LogTypes, TypeOK, Registry
<1>5. ASSUME NEW u \in Threads PROVE Running(u)'
  <2>1. Running(u)  BY DEF LogTypes
  <2>2. CASE u = t  BY <1>1, <1>3, <2>1, <2>2 DEF Running
  <2>3. CASE u # t
    <3>1. run'[u] = run[u] /\ Target(u)' = Target(u)
      BY <1>1, <1>3, <2>3, TargetStays
    <3>2. run[u].at # "next" => loggers'[run[u].logger] # None
      BY <2>1 DEF Running
    <3> QED  BY <1>1, <2>1, <3>1, <3>2 DEF Running, Idle
  <2> QED  BY <2>2, <2>3
<1> QED  BY <1>2, <1>4, <1>5 DEF LogTypes

\* A run that works on a logger.
LEMMA AtWork ==
  ASSUME LogTypes, NEW t \in Threads, run[t].at # "next"
  PROVE  /\ ~Idle(t) /\ call[t].pc = "notify" /\ call[t].key = Logs
         /\ call[t].new \in Values
         /\ run[t] \in Run /\ run[t].logger \in Names /\ run[t].done \in Nat
         /\ run[t].at # "add" => run[t].done = 0
         /\ run[t].done <= Len(Target(t).appenders)
         /\ Now(t) \in Logger
         /\ Target(t) \in Define /\ Target(t).appenders \in Seq(AppenderDefine)
         /\ Len(Target(t).appenders) \in Nat
<1>1. /\ Running(t) /\ run[t] \in Run /\ loggers \in [Names -> {None} \cup Logger]
      /\ GoodCall(call[t])
  BY DEF LogTypes, TypeOK, Registry
<1>2. ~Idle(t)
  <2>1. Between({}).at = "next"  BY DEF Between
  <2> QED  BY <2>1 DEF Idle
<1>3. call[t].pc = "notify" /\ call[t].new \in Values /\ call[t].key = Logs
  BY <1>1, <1>2 DEF Running, GoodCall
<1>4. /\ run[t].logger \in Names /\ loggers[run[t].logger] # None
      /\ run[t].at # "add" => run[t].done = 0
      /\ run[t].done <= Len(Target(t).appenders)
  BY <1>1 DEF Running
<1>5. Now(t) \in Logger  BY <1>1, <1>4 DEF Now
<1>6. run[t].done \in Nat  BY <1>1 DEF Run
<1>7. /\ Target(t) \in Define /\ Target(t).appenders \in Seq(AppenderDefine)
      /\ Len(Target(t).appenders) \in Nat
  BY <1>3, Targets DEF Target
<1> QED  BY <1>1, <1>2, <1>3, <1>4, <1>5, <1>6, <1>7

\* ... and stays at it.
LEMMA Works ==
  ASSUME LogTypes, NEW t \in Threads, run[t].at # "next",
         UNCHANGED <<configVars, daemon>>, spun' \subseteq Names,
         NEW l \in Logger, Update(t, l),
         NEW at \in {"level", "formatter", "clear", "add"}, NEW done \in Nat,
         run' = [run EXCEPT ![t] = [@ EXCEPT !.at = at, !.done = done]],
         at # "add" => done = 0, done <= Len(Target(t).appenders)
  PROVE  /\ LogTypes' /\ Target(t)' = Target(t) /\ Now(t)' = l
         /\ run'[t].at = at /\ run'[t].logger = run[t].logger
         /\ run'[t].done = done /\ run'[t].left = run[t].left
         /\ \A n \in Names : n # run[t].logger => loggers'[n] = loggers[n]
<1>1. /\ ~Idle(t) /\ run[t] \in Run /\ run[t].logger \in Names
  BY AtWork
<1>2. loggers \in [Names -> {None} \cup Logger] /\ run \in [Threads -> Run]
  BY DEF LogTypes, TypeOK
<1>3. PICK r : r = [run[t] EXCEPT !.at = at, !.done = done]  BY Zenon
<1>4. /\ r \in Run /\ r.at = at /\ r.done = done /\ r.logger = run[t].logger
      /\ r.left = run[t].left
  BY <1>1, <1>3 DEF Run
<1>5. run' = [run EXCEPT ![t] = r] /\ run'[t] = r  BY <1>2, <1>3
<1>6. /\ loggers' \in [Names -> {None} \cup Logger] /\ loggers'[run[t].logger] = l
      /\ \A n \in Names : n # run[t].logger => loggers'[n] = loggers[n]
  BY <1>1, <1>2 DEF Update
<1>7. l # None  BY Known
<1>8. Target(t)' = Target(t) /\ Now(t)' = l
  <2>1. UNCHANGED call  BY DEF configVars
  <2> QED  BY <1>4, <1>5, <1>6, <2>1, TargetStays DEF Now
<1>9. \A n \in Names : loggers[n] # None => loggers'[n] # None  BY <1>6, <1>7
<1>10. LogTypes'
  <2>1. r.at # "next"  BY <1>4
  <2>2. r.logger \in Names /\ loggers'[r.logger] # None  BY <1>1, <1>4, <1>6, <1>7
  <2>3. r.at # "add" => r.done = 0  BY <1>4
  <2>4. r.done <= Len(Target(t)'.appenders)  BY <1>4, <1>8
  <2> HIDE DEF Target
  <2> QED  BY <1>1, <1>4, <1>5, <1>6, <1>9, <2>1, <2>2, <2>3, <2>4, LogTypesOperation
<1> QED  BY <1>4, <1>5, <1>6, <1>8, <1>10

-----------------------------------------------------------------------------
(***************************************************************************)
(* The appenders of a definition, one by one                               *)
(***************************************************************************)
LEMMA FunctionIsSeq ==
  ASSUME NEW S, NEW c \in Nat, NEW f \in [1 .. c -> S]
  PROVE  f \in Seq(S) /\ Len(f) = c
<1>1. f \in Seq(S)  BY SeqDef
<1>2. Len(f) \in Nat /\ 1 .. Len(f) = 1 .. c  BY <1>1, LenProperties
<1> QED  BY <1>1, <1>2

LEMMA OneMore ==
  ASSUME NEW S, NEW c \in Nat, NEW f \in [1 .. c -> S], NEW g \in [1 .. c + 1 -> S],
         \A i \in 1 .. c : g[i] = f[i]
  PROVE  g = Append(f, g[c + 1])
<1>1. /\ f \in Seq(S) /\ Len(f) = c /\ g \in Seq(S) /\ Len(g) = c + 1
  BY FunctionIsSeq
<1>2. g[c + 1] \in S  OBVIOUS
<1> DEFINE a == Append(f, g[c + 1])
<1>3. /\ a \in Seq(S) /\ Len(a) = c + 1 /\ a[c + 1] = g[c + 1]
      /\ \A i \in 1 .. c : a[i] = f[i]
  BY <1>1, <1>2, AppendProperties
<1> HIDE DEF a
<1>4. \A i \in 1 .. c + 1 : a[i] = g[i]
  <2>1. \A i \in 1 .. c + 1 : i = c + 1 \/ i \in 1 .. c  OBVIOUS
  <2> QED  BY <1>3, <2>1
<1>5. a = g  BY <1>1, <1>3, <1>4, SeqEqual
<1> QED  BY <1>5 DEF a

\* Nothing of it ...
LEMMA TypesNone ==
  ASSUME NEW d
  PROVE  TypesUpTo(d, 0) = <<>>
<1>1. {i \in 1 .. 0 : d.appenders[i].type = "file"} = {} /\ 1 .. 0 = {}
  OBVIOUS
<1>2. Cardinality({}) = 0  BY FS_EmptySet
<1>3. \A e : [i \in 1 .. 0 |-> e] = <<>>  BY <1>1
<1>4. CASE daemon
  <2>1. TypesUpTo(d, 0) = [i \in 1 .. 0 |-> "file"]
    BY <1>1, <1>2, <1>4 DEF TypesUpTo
  <2> QED  BY <1>3, <2>1
<1>5. CASE ~daemon
  <2>1. TypesUpTo(d, 0) = [i \in 1 .. 0 |-> d.appenders[i].type]
    BY <1>5 DEF TypesUpTo
  <2> QED  BY <1>1, <2>1
<1> QED  BY <1>4, <1>5

\* ... and one more, unless it is left out.
LEMMA TypesMore ==
  ASSUME NEW d \in Define, NEW m \in Nat, m < Len(d.appenders), daemon \in BOOLEAN
  PROVE  TypesUpTo(d, m + 1) =
           IF Skips(d.appenders[m + 1]) THEN TypesUpTo(d, m)
           ELSE Append(TypesUpTo(d, m), d.appenders[m + 1].type)
<1> DEFINE Types == {"file", "stdout"}
           types == [i \in 1 .. m + 1 |-> d.appenders[i].type]
           Files(n) == {i \in 1 .. n : d.appenders[i].type = "file"}
<1>1. \A i \in 1 .. m + 1 : d.appenders[i] \in AppenderDefine
  <2>1. d.appenders \in Seq(AppenderDefine)  BY DEF Define
  <2>2. Len(d.appenders) \in Nat  BY <2>1, LenProperties
  <2>3. \A i \in 1 .. m + 1 : i \in 1 .. Len(d.appenders)  BY <2>2
  <2> QED  BY <2>1, <2>3, ElementOfSeq
<1>2. \A i \in 1 .. m + 1 : d.appenders[i].type \in Types
  BY <1>1 DEF AppenderDefine
<1>3. m + 1 \in 1 .. m + 1 /\ m + 1 \notin 1 .. m /\ 1 .. m \subseteq 1 .. m + 1
      /\ \A i \in 1 .. m + 1 : i = m + 1 \/ i \in 1 .. m
  OBVIOUS
<1>4. CASE daemon
  <2>1. TypesUpTo(d, m) = [i \in 1 .. Cardinality(Files(m)) |-> "file"]
        /\ TypesUpTo(d, m + 1) = [i \in 1 .. Cardinality(Files(m + 1)) |-> "file"]
    BY <1>4 DEF TypesUpTo
  <2>2. IsFiniteSet(Files(m)) /\ Cardinality(Files(m)) \in Nat
    <3>1. IsFiniteSet(1 .. m)  BY FS_Interval
    <3>2. Files(m) \in SUBSET (1 .. m)  OBVIOUS
    <3> QED  BY <3>1, <3>2, FS_Subset, FS_CardinalityType
  <2>3. CASE d.appenders[m + 1].type = "stdout"
    <3>1. Files(m + 1) = Files(m)  BY <1>3, <2>3
    <3>2. Skips(d.appenders[m + 1])  BY <1>4, <2>3 DEF Skips
    <3> QED  BY <2>1, <3>1, <3>2
  <2>4. CASE d.appenders[m + 1].type = "file"
    <3>1. Files(m + 1) = Files(m) \cup {m + 1} /\ m + 1 \notin Files(m)
      BY <1>3, <2>4
    <3>2. Cardinality(Files(m + 1)) = Cardinality(Files(m)) + 1
      BY <2>2, <3>1, FS_AddElement
    <3>3. ~Skips(d.appenders[m + 1])  BY <2>4 DEF Skips
    <3>4. PICK c \in Nat : c = Cardinality(Files(m))  BY <2>2
    <3>5. [i \in 1 .. c + 1 |-> "file"] = Append([i \in 1 .. c |-> "file"], "file")
      <4> DEFINE f == [i \in 1 .. c |-> "file"]
                 g == [i \in 1 .. c + 1 |-> "file"]
      <4>1. /\ f \in [1 .. c -> Types] /\ g \in [1 .. c + 1 -> Types]
            /\ \A i \in 1 .. c : g[i] = f[i]
            /\ g[c + 1] = "file"
        OBVIOUS
      <4> HIDE DEF f, g
      <4>2. g = Append(f, "file")  BY <4>1, OneMore
      <4> QED  BY <4>2 DEF f, g
    <3> QED  BY <2>1, <2>4, <3>2, <3>3, <3>4, <3>5
  <2> QED  BY <1>2, <1>3, <2>3, <2>4
<1>5. CASE ~daemon
  <2>1. TypesUpTo(d, m) = [i \in 1 .. m |-> d.appenders[i].type]
        /\ TypesUpTo(d, m + 1) = types
    BY <1>5 DEF TypesUpTo
  <2>2. ~Skips(d.appenders[m + 1])  BY <1>5 DEF Skips
  <2> DEFINE f == [i \in 1 .. m |-> d.appenders[i].type]
  <2>3. /\ f \in [1 .. m -> Types] /\ types \in [1 .. m + 1 -> Types]
        /\ \A i \in 1 .. m : types[i] = f[i]
        /\ types[m + 1] = d.appenders[m + 1].type
    BY <1>2, <1>3
  <2> HIDE DEF f, types
  <2>4. types = Append(f, d.appenders[m + 1].type)  BY <2>3, OneMore
  <2> QED  BY <2>1, <2>2, <2>4 DEF f
<1> QED  BY <1>4, <1>5

-----------------------------------------------------------------------------
(***************************************************************************)
(* The loggers follow                                                      *)
(***************************************************************************)
\* What a run has done to the logger it is at ...
Halfway(t) ==
  /\ run[t].at \in {"formatter", "clear", "add"} => Now(t).level = Target(t).level
  /\ run[t].at = "add" => Now(t).appenders = TypesUpTo(Target(t), run[t].done)

\* ... and the others are as the new value has them, or still to be worked on.
Reached(t, n) ==
  IF run[t].at # "next" /\ n = run[t].logger THEN Halfway(t)
  ELSE n \in run[t].left \/ Agrees(n, call[t].new)

Tells(t) == call[t].pc = "notify" /\ LogIniter \in ToHear(t)
Undisputed == dispute[Logs] = "never" /\ LogIniter \in Registered(Logs)

\* Until the listener is called the loggers are as the old value has them.
AloneFollows == \A t \in Threads : Sets(t, Logs) /\ call[t].alone =>
  /\ Tells(t) => Idle(t) /\ \A n \in Names : Agrees(n, val[Logs])
  /\ ~Tells(t) => \A n \in Names : Reached(t, n)

Following ==
  Undisputed => /\ AloneFollows
                /\ ~Setting(Logs) => \A n \in Names : Agrees(n, val[Logs])

FollowInv == LInv /\ LogTypes /\ Following

LEMMA FollowingInit == Init => Following
<1> SUFFICES ASSUME Init PROVE Following  OBVIOUS
<1>1. /\ call = [t \in Threads |-> NoCall] /\ val = [k \in Keys |-> Default]
      /\ loggers = [n \in Names |-> None]
  BY DEF Init, ConfigInit
<1>2. AloneFollows
  <2>1. \A t \in Threads : call[t].pc = "user"  BY <1>1 DEF NoCall
  <2> QED  BY <2>1 DEF AloneFollows, Sets, In
<1>3. \A n \in Names : Agrees(n, val[Logs])
  <2>1. val[Logs] = <<>> /\ DOMAIN val[Logs] = {}
    BY <1>1, LogAssumption, ConfigAssumption
  <2> QED  BY <1>1, <2>1 DEF Agrees
<1> QED  BY <1>2, <1>3 DEF Following

\* What a logger is depends on nothing else.
LEMMA AgreesStays ==
  ASSUME UNCHANGED daemon, NEW n, loggers'[n] = loggers[n], NEW v
  PROVE  (Agrees(n, v))' <=> Agrees(n, v')
BY DEF Agrees, TypesUpTo

\* Calls on other variables, and steps of one on Logs that neither begin nor end
\* it, nor call the listener.
LEMMA FollowQuiet ==
  ASSUME FollowInv, NEW t \in Threads, \A u \in Threads : u # t => Kept(u),
         UNCHANGED logVars, val'[Logs] = val[Logs],
         dispute'[Logs] = "never" => dispute[Logs] = "never",
         LogIniter \in Registered(Logs)' => LogIniter \in Registered(Logs),
         \/ ~Sets(t, Logs) /\ ~Sets(t, Logs)'
         \/ /\ Sets(t, Logs) /\ Sets(t, Logs)' /\ (Tells(t)' <=> Tells(t))
            /\ call'[t].new = call[t].new
            /\ call'[t].alone => call[t].alone
  PROVE  Following'
<1>1. UNCHANGED <<loggers, run, spun, daemon>>  BY DEF logVars
<1>2. \A u \in Threads : u # t =>
        /\ Sets(u, Logs)' <=> Sets(u, Logs)
        /\ Tells(u)' <=> Tells(u)
        /\ call'[u].new = call[u].new
        /\ call'[u].alone => call[u].alone
  BY DEF Kept, Sets, In, Tells, ToHear
<1>3. \A u \in Threads : Sets(u, Logs)' => /\ Sets(u, Logs) /\ (Tells(u)' <=> Tells(u))
                                           /\ call'[u].new = call[u].new
                                           /\ call'[u].alone => call[u].alone
  BY <1>2
<1>4. \A u \in Threads : Sets(u, Logs)' <=> Sets(u, Logs)  BY <1>2
<1>5. Setting(Logs)' <=> Setting(Logs)  BY <1>4 DEF Setting, Sets
<1>6. Undisputed' => Undisputed  BY DEF Undisputed
<1>7. \A n \in Names : Agrees(n, val[Logs])' <=> Agrees(n, val[Logs])
  BY <1>1 DEF Agrees, TypesUpTo
<1>8. ASSUME NEW u \in Threads, Sets(u, Logs)', NEW n \in Names
      PROVE  Reached(u, n)' <=> Reached(u, n)
  <2>1. call'[u].new = call[u].new  BY <1>3, <1>8
  <2>2. Target(u)' = Target(u) /\ Now(u)' = Now(u)
    BY <1>1, <2>1, TargetStays DEF Now
  <2>3. Halfway(u)' <=> Halfway(u)  BY <1>1, <2>2 DEF Halfway, TypesUpTo
  <2>4. Agrees(n, call[u].new)' <=> Agrees(n, call[u].new)
    BY <1>1, <2>1 DEF Agrees, TypesUpTo
  <2> QED  BY <1>1, <2>3, <2>4 DEF Reached
<1>9. AloneFollows => AloneFollows'
  BY <1>1, <1>3, <1>7, <1>8 DEF AloneFollows, Idle
<1> QED  BY <1>5, <1>6, <1>7, <1>9 DEF FollowInv, Following

\* A call on Logs begins, and everybody else is not alone any more.
LEMMA FollowCompare ==
  ASSUME FollowInv, NEW t \in Threads, \A u \in Threads : u # t => Kept(u),
         UNCHANGED logVars, UNCHANGED <<val, cbs, dispute>>, Idle(t),
         call[t].pc \notin {"notify", "store"}, NEW k \in Keys, NEW v, NEW rest,
         Compare(t, k, v, rest)
  PROVE  Following'
<1>0. DOMAIN call = Threads /\ Logs \in Keys
  BY LogAssumption, ConfigAssumption DEF FollowInv, LInv, Shapes
<1>1. ~Sets(t, Logs) /\ Registered(Logs)' = Registered(Logs)
  BY DEF Sets, In, Registered
<1>2. CASE v = val[k]
  <2>1. call'[t] = Resume(rest)  BY <1>0, <1>2 DEF Compare
  <2>2. ~Sets(t, Logs)'  BY <2>1, Positions DEF Sets, In
  <2> QED  BY <1>1, <2>2, FollowQuiet
<1>3. CASE v # val[k]
  <2>1. call' = [u \in Threads |->
                   IF u = t
                   THEN [pc |-> "notify", todo |-> rest, key |-> k, new |-> v,
                         left |-> cbs[k], alone |-> ~Setting(k)]
                   ELSE IF In(u, k, {"notify", "store"})
                   THEN [call[u] EXCEPT !.alone = FALSE] ELSE call[u]]
    BY <1>3 DEF Compare
  <2>2. /\ call'[t].pc = "notify" /\ call'[t].key = k /\ call'[t].left = cbs[k]
        /\ call'[t].alone => ~Setting(k)
    BY <2>1
  <2>3. CASE k # Logs
    <3>1. ~Sets(t, Logs)'  BY <2>2, <2>3 DEF Sets, In
    <3> QED  BY <1>1, <3>1, FollowQuiet
  <2>4. CASE k = Logs
    <3>1. UNCHANGED <<loggers, run, spun, daemon>>  BY DEF logVars
    <3>2. Setting(Logs)'
      <4>1. Sets(t, Logs)'  BY <2>2, <2>4 DEF Sets, In
      <4> QED  BY <4>1 DEF Setting, Sets
    <3>3. ASSUME NEW u \in Threads, Sets(u, Logs)', call'[u].alone PROVE u = t
      <4> SUFFICES ASSUME u # t PROVE FALSE  OBVIOUS
      <4>1. Sets(u, Logs)  BY <3>3 DEF Kept, Sets, In
      <4>2. call'[u] = [call[u] EXCEPT !.alone = FALSE]
        BY <2>1, <2>4, <4>1 DEF Sets
      <4>3. DOMAIN call[u] = Fields  BY DEF FollowInv, LInv, Shapes
      <4> QED  BY <3>3, <4>2, <4>3 DEF Fields
    <3>4. ASSUME Undisputed', call'[t].alone
          PROVE  Tells(t)' /\ Idle(t)' /\ \A n \in Names : Agrees(n, val[Logs])'
      <4>1. Undisputed  BY <1>1, <3>4 DEF Undisputed
      <4>2. Tells(t)'
        BY <2>2, <2>4, <4>1 DEF Tells, ToHear, Undisputed, Registered
      <4>3. \A n \in Names : Agrees(n, val[Logs])
        BY <2>2, <2>4, <3>4, <4>1 DEF FollowInv, Following
      <4>4. \A n \in Names : Agrees(n, val[Logs])' <=> Agrees(n, val[Logs])
        BY <3>1 DEF Agrees, TypesUpTo
      <4> QED  BY <3>1, <4>2, <4>3, <4>4 DEF Idle
    <3>5. Undisputed' => AloneFollows'  BY <3>3, <3>4 DEF AloneFollows
    <3> QED  BY <3>2, <3>5 DEF Following
  <2> QED  BY <2>3, <2>4
<1> QED  BY <1>2, <1>3

LEMMA FollowUser ==
  ASSUME FollowInv, NEW t \in Threads, Idle(t), User(t), UNCHANGED logVars
  PROVE  Following'
<1>0. Registry /\ DOMAIN call = Threads /\ Logs \in Keys
  BY LogAssumption, ConfigAssumption DEF FollowInv, LogTypes, LInv, Shapes
<1>1. ASSUME UNCHANGED <<val, dispute>>, \A u \in Threads : Kept(u),
             \A j \in Keys : LogIniter \in Registered(j)' => LogIniter \in Registered(j)
      PROVE  Following'
  <2>1. /\ Sets(t, Logs)' <=> Sets(t, Logs)
        /\ Tells(t)' <=> Tells(t)
        /\ call'[t].new = call[t].new
        /\ call'[t].alone => call[t].alone
    BY <1>1 DEF Kept, Sets, In, Tells, ToHear
  <2> QED  BY <1>0, <1>1, <2>1, FollowQuiet
<1>2. ASSUME NEW k \in Keys, Lookup(t, k) PROVE Following'
  <2>1. UNCHANGED <<val, cbs, call, heard, dispute>>  BY <1>2 DEF Lookup
  <2> QED  BY <1>1, <2>1 DEF Kept, Registered
<1>3. ASSUME NEW k \in Used,
             \/ ClearListener(t, k)
             \/ \E l \in Listeners \ {LogIniter} :
                  AddListener(t, k, l) \/ DelListener(t, k, l)
             \/ \E v \in Values : SetValue(t, k, v)
      PROVE  Following'
  <2>0. k \in Keys  BY LogAssumption
  <2>1. CASE ClearListener(t, k) \/ \E l \in Listeners : DelListener(t, k, l)
    <3>1. UNCHANGED <<val, dispute>>  BY <2>1 DEF ClearListener, DelListener
    <3> QED  BY <1>0, <1>1, <2>0, <2>1, <3>1, RegistryDel
  <2>2. ASSUME NEW l \in Listeners \ {LogIniter}, AddListener(t, k, l) PROVE Following'
    <3>1. UNCHANGED <<val, dispute>>  BY <2>2 DEF AddListener
    <3> QED  BY <1>0, <1>1, <2>0, <2>2, <3>1, RegistryAdd
  <2>3. ASSUME NEW v \in Values, SetValue(t, k, v) PROVE Following'
    <3>1. /\ call[t].pc = "user" /\ Compare(t, k, v, <<>>)
          /\ UNCHANGED <<datas, val, cbs, heard, dispute>>
      BY <2>3 DEF SetValue
    <3>2. \A u \in Threads : u # t => Kept(u)  BY <1>0, <2>0, <2>3, RegistryLoads
    <3> QED  BY <2>0, <3>1, <3>2, FollowCompare
  <2> QED  BY <1>3, <2>1, <2>2, <2>3
<1> QED  BY <1>2, <1>3 DEF User

\* The steps of a call: a variable other than Logs plays no part; on Logs all
\* loggers have been reached when a call that was alone assigns the value.
LEMMA FollowSetter ==
  ASSUME FollowInv, NEW t \in Threads, Idle(t), Setter(t), UNCHANGED logVars
  PROVE  Following'
<1>0. Registry /\ DOMAIN call = Threads /\ Logs \in Keys /\ call[t] \in Call
  BY LogAssumption, ConfigAssumption
  DEF FollowInv, LogTypes, LInv, Shapes, Registry, GoodCall
<1>1. \A u \in Threads : u # t => Kept(u)  BY <1>0, RegistryStep
<1>2. ASSUME UNCHANGED <<val, cbs, dispute>>, NEW c, call' = [call EXCEPT ![t] = c],
             call[t].pc \notin {"notify", "store"}, c.pc \notin {"notify", "store"}
      PROVE  Following'
  <2>1. call'[t] = c  BY <1>0, <1>2
  <2>2. ~Sets(t, Logs) /\ ~Sets(t, Logs)'  BY <1>2, <2>1 DEF Sets, In
  <2> QED  BY <1>1, <1>2, <2>2, FollowQuiet DEF Registered
<1>3. ASSUME NEW doc \in Docs, Load(t, doc) PROVE Following'
  BY <1>2, <1>3, Positions DEF Load
<1>4. CASE LoadFromConDir(t)
  <2> DEFINE c == [call[t] EXCEPT !.pc = "listing"]
  <2>1. /\ call[t].pc = "user" /\ call' = [call EXCEPT ![t] = c]
        /\ UNCHANGED <<val, cbs, dispute>>
    BY <1>0, <1>4 DEF LoadFromConDir
  <2>2. c.pc = "listing"  BY <1>0 DEF Call
  <2> HIDE DEF c
  <2> QED  BY <1>2, <2>1, <2>2
<1>5. CASE LoadNode(t)
  <2> DEFINE node == Head(call[t].todo)
             rest == Tail(call[t].todo)
  <2>1. /\ call[t].pc = "load" /\ UNCHANGED <<datas, val, cbs, heard, dispute>>
        /\ IF IsListed(node) /\ node.key \in datas /\ node.value # None
           THEN Compare(t, node.key, node.value, rest)
           ELSE call' = [call EXCEPT ![t] = Resume(rest)]
    BY <1>5 DEF LoadNode
  <2> HIDE DEF node, rest
  <2>2. CASE IsListed(node) /\ node.key \in datas /\ node.value # None
    <3>1. node.key \in Keys  BY <1>0, <2>2 DEF Registry, ConfigTypeOK
    <3> QED  BY <1>1, <2>1, <2>2, <3>1, FollowCompare
  <2>3. CASE ~(IsListed(node) /\ node.key \in datas /\ node.value # None)
    BY <1>2, <2>1, <2>3, Positions
  <2> QED  BY <2>2, <2>3
<1>6. CASE ~IsLogIniter(t) /\ Notify(t)
  <2>1. /\ call[t].pc = "notify" /\ call[t].left # <<>> /\ Told(t)
        /\ call' = [call EXCEPT ![t].left = Tail(@)]
        /\ UNCHANGED <<datas, val, cbs, dispute>>
    BY <1>6 DEF Notify
  <2>2. /\ call'[t].pc = call[t].pc /\ call'[t].key = call[t].key
        /\ call'[t].new = call[t].new /\ call'[t].alone = call[t].alone
        /\ call'[t].left = Tail(call[t].left)
    BY <1>0, <2>1 DEF Call
  <2>3. PICK s \in Seq(Listeners) : s = call[t].left  BY <1>0 DEF Call
  <2>4. Head(s) # LogIniter  BY <1>6, <2>1, <2>3 DEF IsLogIniter
  <2>5. /\ \A i \in DOMAIN s : s[i] = Head(s) \/ \E j \in DOMAIN Tail(s) : Tail(s)[j] = s[i]
        /\ \A i \in DOMAIN Tail(s) : \E j \in DOMAIN s : Tail(s)[i] = s[j]
    <3>1. Distinct(s)  BY <1>0, <2>1, <2>3 DEF Registry, GoodCall
    <3> QED  BY <2>1, <2>3, <3>1, TailSet, TailDistinct
  <2>6. Tells(t)' <=> Tells(t)
    <3>1. LogIniter \in ToHear(t) <=> \E i \in DOMAIN s : s[i] = LogIniter
      BY <2>3 DEF ToHear
    <3>2. LogIniter \in ToHear(t)' <=> \E i \in DOMAIN Tail(s) : Tail(s)[i] = LogIniter
      BY <2>2, <2>3 DEF ToHear
    <3> QED  BY <2>2, <2>4, <2>5, <3>1, <3>2 DEF Tells
  <2>7. Sets(t, Logs)' <=> Sets(t, Logs)  BY <2>2 DEF Sets, In
  <2> QED  BY <1>1, <2>1, <2>2, <2>6, <2>7, FollowQuiet DEF Registered
<1>7. CASE Throw(t)
  <2>1. /\ call[t].pc = "notify" /\ dispute' = [dispute EXCEPT ![call[t].key] = "now"]
        /\ UNCHANGED <<datas, val, cbs>>
    BY <1>7 DEF Throw
  <2>2. DOMAIN dispute = Keys  BY DEF FollowInv, LInv, Shapes
  <2>3. CASE call[t].key = Logs
    BY <1>0, <2>1, <2>2, <2>3 DEF Following, Undisputed
  <2>4. CASE call[t].key # Logs
    <3>1. PICK rest : call' = [call EXCEPT ![t] = Resume(rest)]  BY <1>7 DEF Throw
    <3>2. call'[t] = Resume(rest)  BY <1>0, <3>1
    <3>3. ~Sets(t, Logs) /\ ~Sets(t, Logs)'  BY <2>4, <3>2, Positions DEF Sets, In
    <3>4. dispute'[Logs] = dispute[Logs]  BY <2>1, <2>2, <2>4
    <3> QED  BY <1>1, <2>1, <3>3, <3>4, FollowQuiet DEF Registered
  <2> QED  BY <2>3, <2>4
<1>8. CASE Release(t)
  <2>1. /\ call[t].pc = "notify" /\ call[t].left = <<>>
        /\ call' = [call EXCEPT ![t].pc = "store"]
        /\ UNCHANGED <<datas, val, cbs, heard, dispute>>
    BY <1>8 DEF Release, AllTold
  <2>2. /\ call'[t].pc = "store" /\ call'[t].key = call[t].key
        /\ call'[t].new = call[t].new /\ call'[t].alone = call[t].alone
    BY <1>0, <2>1 DEF Call
  <2>3. ~Tells(t) /\ ~Tells(t)'
    <3>1. ToHear(t) = {}  BY <2>1, EmptySeq DEF ToHear
    <3> QED  BY <2>2, <3>1 DEF Tells
  <2>4. Sets(t, Logs)' <=> Sets(t, Logs)  BY <2>1, <2>2 DEF Sets, In
  <2> QED  BY <1>1, <2>1, <2>2, <2>3, <2>4, FollowQuiet DEF Registered
<1>9. CASE Store(t)
  <2>1. /\ call[t].pc = "store" /\ UNCHANGED <<datas, cbs, heard>>
        /\ val' = [val EXCEPT ![call[t].key] = call[t].new]
        /\ call' = [call EXCEPT ![t] = Resume(call[t].todo)]
        /\ dispute' = [dispute EXCEPT ![call[t].key] = After(t)]
    BY <1>9 DEF Store
  <2>2. DOMAIN dispute = Keys /\ DOMAIN val = Keys  BY DEF FollowInv, LInv, Shapes
  <2>3. call'[t] = Resume(call[t].todo)  BY <1>0, <2>1
  <2>4. ~Sets(t, Logs)'  BY <2>3, Positions DEF Sets, In
  <2>5. CASE call[t].key # Logs
    <3>1. ~Sets(t, Logs)  BY <2>5 DEF Sets, In
    <3>2. dispute'[Logs] = dispute[Logs] /\ val'[Logs] = val[Logs]
      BY <2>1, <2>2, <2>5
    <3> QED  BY <1>1, <2>1, <2>4, <3>1, <3>2, FollowQuiet DEF Registered
  <2>6. CASE call[t].key = Logs
    <3>1. Sets(t, Logs)  BY <2>1, <2>6 DEF Sets, In
    <3>2. val'[Logs] = call[t].new /\ dispute'[Logs] = After(t)
      BY <1>0, <2>1, <2>2, <2>6
    <3>3. ASSUME Undisputed' PROVE Undisputed /\ call[t].alone
      BY <2>1, <2>6, <3>2, <3>3 DEF Undisputed, After, Registered
    <3>4. UNCHANGED <<loggers, run, spun, daemon>>  BY DEF logVars
    <3>5. ASSUME Undisputed', NEW n \in Names PROVE Agrees(n, val[Logs])'
      <4>1. ~Tells(t)  BY <2>1 DEF Tells
      <4>2. Reached(t, n)
        BY <3>1, <3>3, <3>5, <4>1 DEF FollowInv, Following, AloneFollows
      <4>3. run[t].at = "next" /\ run[t].left = {}  BY DEF Idle, Between
      <4>4. Agrees(n, call[t].new)  BY <4>2, <4>3 DEF Reached
      <4> QED  BY <3>2, <3>4, <4>4 DEF Agrees, TypesUpTo
    <3>6. ASSUME NEW u \in Threads, Sets(u, Logs)' PROVE ~call'[u].alone
      <4>1. u # t  BY <2>4, <3>6
      <4>2. Sets(u, Logs) /\ (call'[u].alone => call[u].alone)
        BY <1>1, <3>6, <4>1 DEF Kept, Sets, In
      <4> QED  BY <1>0, <3>1, <4>1, <4>2 DEF FollowInv, LInv, OneAlone
    <3>7. AloneFollows'  BY <3>6 DEF AloneFollows
    <3> QED  BY <3>5, <3>7 DEF Following
  <2> QED  BY <2>5, <2>6
<1> QED  BY <1>3, <1>4, <1>5, <1>6, <1>7, <1>8, <1>9 DEF Setter

\* The listener is called: what the two values do not differ in is reached.
LEMMA FollowNotify ==
  ASSUME FollowInv, NEW t \in Threads, NotifyLogs(t)
  PROVE  FollowInv'
<1>1. /\ Notify(t) /\ UNCHANGED <<loggers, spun, daemon>> /\ Idle(t) /\ IsLogIniter(t)
      /\ call[t].pc = "notify" /\ call[t].left # <<>>
      /\ UNCHANGED <<datas, val, cbs, dispute>>
      /\ call' = [call EXCEPT ![t].left = Tail(@)]
  BY DEF NotifyLogs, Notify
<1>2. LInv' /\ Registry /\ LogTypes  BY <1>1, LInvNotify DEF FollowInv, LogTypes
<1>3. PICK old \in Values, new \in Values :
        /\ old = val[Logs] /\ new = call[t].new /\ new = call'[t].new
        /\ call[t].key = Logs /\ LogTypes'
        /\ run'[t] = Between(Changed(old, new) \cup Dropped(old, new))
        /\ \A i \in DOMAIN Tail(call[t].left) : Tail(call[t].left)[i] # LogIniter
  BY <1>2, LogTypesNotify
<1>4. call[t] \in Call /\ DOMAIN call = Threads
  BY <1>2 DEF Registry, GoodCall, ConfigTypeOK
<1>5. /\ call'[t].pc = "notify" /\ call'[t].key = Logs
      /\ call'[t].left = Tail(call[t].left) /\ call'[t].alone = call[t].alone
      /\ \A u \in Threads : u # t => call'[u] = call[u]
  BY <1>1, <1>3, <1>4 DEF Call
<1>6. Sets(t, Logs) /\ Sets(t, Logs)'  BY <1>1, <1>3, <1>5 DEF Sets, In
<1>7. Tells(t) /\ ~Tells(t)'
  <2>1. PICK q \in Seq(Listeners) : q = call[t].left  BY <1>4 DEF Call
  <2>2. Head(q) = q[1] /\ 1 \in DOMAIN q
    BY <1>1, <2>1, HeadTailProperties, EmptySeq, LenProperties
  <2>3. LogIniter \in ToHear(t)
    BY <1>1, <2>1, <2>2 DEF IsLogIniter, ToHear
  <2>4. LogIniter \notin ToHear(t)'  BY <1>3, <1>5 DEF ToHear
  <2> QED  BY <1>1, <2>3, <2>4 DEF Tells
<1>8. ASSUME Undisputed', call'[t].alone, NEW n \in Names PROVE Reached(t, n)'
  <2>1. Undisputed  BY <1>1, <1>8 DEF Undisputed, Registered
  <2>2. Agrees(n, old)
    BY <1>3, <1>5, <1>6, <1>7, <1>8, <2>1 DEF FollowInv, Following, AloneFollows
  <2>3. /\ run'[t].at = "next"
        /\ run'[t].left = Changed(old, new) \cup Dropped(old, new)
    BY <1>3 DEF Between
  <2>4. n \notin run'[t].left =>
          /\ n \in DOMAIN old <=> n \in DOMAIN new
          /\ n \in DOMAIN new => old[n] = new[n]
    BY <2>3 DEF Changed, Dropped
  <2>5. n \notin run'[t].left => Agrees(n, new)
    BY <2>2, <2>4 DEF Agrees
  <2>6. n \notin run'[t].left => Agrees(n, call[t].new)'
    BY <1>1, <1>3, <2>5 DEF Agrees, TypesUpTo
  <2> QED  BY <2>3, <2>6 DEF Reached
<1>9. ASSUME NEW u \in Threads, Sets(u, Logs)', call'[u].alone PROVE u = t
  BY <1>2, <1>6, <1>9, LogAssumption, ConfigAssumption DEF LInv, OneAlone
<1>10. Undisputed' => AloneFollows'  BY <1>7, <1>8, <1>9 DEF AloneFollows
<1>11. Setting(Logs)'  BY <1>6 DEF Sets, Setting
<1> QED  BY <1>2, <1>3, <1>10, <1>11 DEF FollowInv, Following

\* An operation of the listener matters to its own call alone.
LEMMA FollowOperation ==
  ASSUME FollowInv, NEW t \in Threads, ~Idle(t), UNCHANGED configVars, LogTypes',
         (\A n \in Names : Reached(t, n)) => \A n \in Names : Reached(t, n)'
  PROVE  FollowInv'
<1>1. UNCHANGED <<datas, val, cbs, call, heard, dispute>>  BY DEF configVars
<1>2. LInv'  BY <1>1, LInvQuiet DEF FollowInv, LInv, Shapes
<1>3. Sets(t, Logs)  BY DEF FollowInv, LogTypes, Running, Sets, In
<1>4. Setting(Logs)'  BY <1>1, <1>3 DEF Setting, Sets, In
<1>5. ASSUME Undisputed', NEW u \in Threads, Sets(u, Logs)', call'[u].alone
      PROVE  ~Tells(u)' /\ \A n \in Names : Reached(u, n)'
  <2>1. Undisputed /\ Sets(u, Logs) /\ call[u].alone
    BY <1>1, <1>5 DEF Undisputed, Registered, Sets, In
  <2>2. u = t
    BY <1>3, <2>1, LogAssumption, ConfigAssumption DEF FollowInv, LInv, OneAlone
  <2>3. ~Tells(t)  BY <2>1, <2>2 DEF FollowInv, Following, AloneFollows
  <2>4. \A n \in Names : Reached(t, n)
    BY <2>1, <2>2, <2>3 DEF FollowInv, Following, AloneFollows
  <2>5. ~Tells(t)'  BY <1>1, <2>3 DEF Tells, ToHear
  <2> QED  BY <2>2, <2>4, <2>5
<1>6. Undisputed' => AloneFollows'  BY <1>5 DEF AloneFollows
<1> QED  BY <1>2, <1>4, <1>6 DEF FollowInv, Following

LEMMA FollowGetLogger ==
  ASSUME FollowInv, NEW t \in Threads, GetLogger(t)
  PROVE  FollowInv'
<1>0. LogTypes /\ TypeOK /\ Running(t) /\ GoodCall(call[t]) /\ run[t] \in Run
  BY DEF FollowInv, LogTypes, TypeOK, Registry
<1>1. PICK n : n = NextLogger(t)  BY Zenon
<1>2. /\ run[t].at = "next" /\ run[t].left # {} /\ UNCHANGED <<configVars, spun, daemon>>
      /\ loggers' = [loggers EXCEPT ![n] = IF @ = None THEN NewLogger ELSE @]
      /\ run' = [run EXCEPT ![t] = [at |-> "level", left |-> run[t].left \ {n},
                                   logger |-> n, done |-> 0]]
  BY <1>1 DEF GetLogger
<1>3. n \in run[t].left /\ n \in Names /\ run[t].left \subseteq Names
  <2>1. run[t].left \subseteq Names  BY <1>0 DEF Run
  <2>2. n \in run[t].left
    <3> DEFINE S == IF run[t].left \cap DOMAIN call[t].new # {}
                    THEN run[t].left \cap DOMAIN call[t].new ELSE run[t].left
    <3>1. n = CHOOSE m \in S : TRUE  BY <1>1 DEF NextLogger
    <3>2. S # {} /\ S \subseteq run[t].left  BY <1>2
    <3> HIDE DEF S
    <3> QED  BY <3>1, <3>2
  <2> QED  BY <2>1, <2>2
<1>4. ~Idle(t)
  <2>1. Between({}).left = {}  BY DEF Between
  <2> QED  BY <1>2, <2>1 DEF Idle
<1>5. PICK r : r = [at |-> "level", left |-> run[t].left \ {n}, logger |-> n, done |-> 0]
  BY Zenon
<1>6. /\ r \in Run /\ r.at = "level" /\ r.left = run[t].left \ {n} /\ r.logger = n
      /\ r.done = 0 /\ run' = [run EXCEPT ![t] = r] /\ run'[t] = r
  BY <1>0, <1>2, <1>3, <1>5 DEF Run, TypeOK
<1>7. /\ loggers' \in [Names -> {None} \cup Logger] /\ loggers'[n] # None
      /\ \A m \in Names : m # n => loggers'[m] = loggers[m]
  BY <1>0, <1>2, <1>3, Known DEF TypeOK
<1>8. \A m \in Names : loggers[m] # None => loggers'[m] # None  BY <1>7
<1>9. call'[t] = call[t] /\ call[t].new \in Values
  BY <1>0, <1>2, <1>4 DEF Running, GoodCall, configVars
<1>10. r.done <= Len(Target(t)'.appenders)
  <2>1. Len(Target(t)'.appenders) \in Nat  BY <1>9, Targets DEF Target
  <2> QED  BY <1>6, <2>1
<1>11. LogTypes'
  <2>1. spun' \subseteq Names /\ UNCHANGED <<configVars, daemon>>
    BY <1>0, <1>2 DEF TypeOK
  <2>2. /\ r.at # "next" /\ r.logger \in Names /\ loggers'[r.logger] # None
        /\ r.at # "add" => r.done = 0
    BY <1>3, <1>6, <1>7
  <2>3. /\ r \in Run /\ run' = [run EXCEPT ![t] = r]
        /\ loggers' \in [Names -> {None} \cup Logger]
    BY <1>6, <1>7
  <2> HIDE DEF Target
  <2> QED  BY <1>0, <1>4, <1>8, <1>10, <2>1, <2>2, <2>3, LogTypesOperation
<1>12. ASSUME \A m \in Names : Reached(t, m), NEW m \in Names PROVE Reached(t, m)'
  <2>1. CASE m = n  BY <1>6, <2>1 DEF Reached, Halfway
  <2>2. CASE m # n
    <3>1. m \in run[t].left \/ Agrees(m, call[t].new)  BY <1>2, <1>12 DEF Reached
    <3>2. Agrees(m, call[t].new) => Agrees(m, call[t].new)'
      BY <1>2, <1>7, <1>9, <2>2 DEF Agrees, TypesUpTo
    <3> QED  BY <1>6, <2>2, <3>1, <3>2 DEF Reached
  <2> QED  BY <2>1, <2>2
<1> QED  BY <1>2, <1>4, <1>11, <1>12, FollowOperation

\* An operation on the logger the run is at: enough that it gets halfway there.
LEMMA FollowWorks ==
  ASSUME FollowInv, NEW t \in Threads, run[t].at # "next",
         UNCHANGED <<configVars, daemon>>, spun' \subseteq Names,
         NEW l \in Logger, Update(t, l),
         NEW at \in {"level", "formatter", "clear", "add"}, NEW done \in Nat,
         run' = [run EXCEPT ![t] = [@ EXCEPT !.at = at, !.done = done]],
         at # "add" => done = 0, done <= Len(Target(t).appenders),
         Halfway(t) => /\ at # "level" => l.level = Target(t).level
                       /\ at = "add" => l.appenders = TypesUpTo(Target(t), done)
  PROVE  FollowInv'
<1>1. /\ LogTypes' /\ Target(t)' = Target(t) /\ Now(t)' = l
      /\ run'[t].at = at /\ run'[t].logger = run[t].logger
      /\ run'[t].done = done /\ run'[t].left = run[t].left
      /\ \A n \in Names : n # run[t].logger => loggers'[n] = loggers[n]
  <2>1. LogTypes  BY DEF FollowInv
  <2> HIDE DEF Target, Now
  <2> QED  BY <2>1, Works
<1>2. ~Idle(t) /\ run[t].logger \in Names  BY AtWork DEF FollowInv
<1>3. UNCHANGED <<configVars, daemon, call>>  BY DEF configVars
<1>4. Halfway(t) => Halfway(t)'
  <2>1. TypesUpTo(Target(t), run[t].done)' = TypesUpTo(Target(t), done)
    <3> DEFINE Of(dm, d, m) ==
                 LET files == {i \in 1 .. m : d.appenders[i].type = "file"}
                 IN IF dm THEN [i \in 1 .. Cardinality(files) |-> "file"]
                    ELSE [i \in 1 .. m |-> d.appenders[i].type]
    <3>1. TypesUpTo(Target(t), run[t].done)' = Of(daemon', Target(t)', run'[t].done)
      BY Zenon DEF TypesUpTo
    <3>2. TypesUpTo(Target(t), done) = Of(daemon, Target(t), done)
      BY Zenon DEF TypesUpTo
    <3> HIDE DEF Of
    <3> QED  BY <1>1, <1>3, <3>1, <3>2
  <2>2. at \in {"formatter", "clear", "add"} <=> at # "level"  OBVIOUS
  <2> QED  BY <1>1, <2>1, <2>2 DEF Halfway
<1>5. ASSUME \A n \in Names : Reached(t, n), NEW n \in Names PROVE Reached(t, n)'
  <2>1. CASE n = run[t].logger  BY <1>1, <1>4, <1>5, <2>1 DEF Reached
  <2>2. CASE n # run[t].logger
    <3>1. n \in run[t].left \/ Agrees(n, call[t].new)  BY <1>5, <2>2 DEF Reached
    <3>2. Agrees(n, call[t].new) => Agrees(n, call[t].new)'
      BY <1>1, <1>3, <2>2 DEF Agrees, TypesUpTo
    <3> QED  BY <1>1, <2>2, <3>1, <3>2 DEF Reached
  <2> QED  BY <2>1, <2>2
<1> QED  BY <1>1, <1>2, <1>3, <1>5, FollowOperation

LEMMA FollowDoes ==
  ASSUME FollowInv, NEW t \in Threads,
         \/ SetLevel(t) \/ SetFormatter(t) \/ ClearAppender(t)
         \/ SkipAppender(t) \/ AddAppender(t) \/ Spin(t)
  PROVE  FollowInv'
<1> DEFINE d == Target(t)
           m == run[t].done
<1>1. run[t].at # "next"
  BY DEF SetLevel, SetFormatter, ClearAppender, SkipAppender, AddAppender, Spin,
         Doing, More
<1>2. /\ run[t] \in Run /\ run[t].logger \in Names /\ m \in Nat
      /\ run[t].at # "add" => m = 0
      /\ m <= Len(d.appenders)
      /\ Now(t) \in Logger /\ d \in Define
      /\ d.appenders \in Seq(AppenderDefine) /\ Len(d.appenders) \in Nat
  BY <1>1, AtWork DEF FollowInv
<1>3. /\ TypeOK /\ run \in [Threads -> Run] /\ daemon \in BOOLEAN /\ spun \subseteq Names
      /\ loggers \in [Names -> {None} \cup Logger]
  BY DEF FollowInv, LogTypes, TypeOK
<1>4. UNCHANGED loggers => Update(t, Now(t))  BY <1>2, <1>3 DEF Update, Now
<1>5. ASSUME NEW at \in {"level", "formatter", "clear", "add"}, Goes(t, at)
      PROVE  run' = [run EXCEPT ![t] = [@ EXCEPT !.at = at, !.done = m]]
  BY <1>2, <1>3, <1>5 DEF Goes, Run
<1>6. CASE SetLevel(t)
  <2> DEFINE l == [Now(t) EXCEPT !.level = d.level]
  <2>1. PICK at \in {"formatter", "clear"} : Goes(t, at)  BY <1>6 DEF SetLevel
  <2>2. l \in Logger /\ l.level = d.level
    <3>1. d.level \in Level  BY <1>2 DEF Define
    <3> QED  BY <1>2, <3>1 DEF Logger
  <2>3. Update(t, l) /\ UNCHANGED <<configVars, spun, daemon>> /\ run[t].at = "level"
    BY <1>6 DEF SetLevel, Doing
  <2> HIDE DEF l, d, m
  <2>4. run' = [run EXCEPT ![t] = [@ EXCEPT !.at = at, !.done = m]]  BY <1>5, <2>1
  <2> QED  BY <1>1, <1>2, <1>3, <2>2, <2>3, <2>4, FollowWorks DEF d
<1>7. CASE SetFormatter(t)
  <2>1. /\ run[t].at = "formatter" /\ Goes(t, "clear")
        /\ UNCHANGED <<configVars, spun, daemon>>
    BY <1>7 DEF SetFormatter, Doing
  <2>2. PICK l \in Logger : Update(t, l) /\ l.level = Now(t).level
    <3>1. CASE d.formatter = "invalid"  BY <1>2, <1>4, <1>7, <3>1 DEF SetFormatter
    <3>2. CASE d.formatter # "invalid"
      <4>1. Update(t, [Now(t) EXCEPT !.formatter = "valid"])
        BY <1>7, <3>2 DEF SetFormatter
      <4>2. /\ [Now(t) EXCEPT !.formatter = "valid"] \in Logger
            /\ [Now(t) EXCEPT !.formatter = "valid"].level = Now(t).level
        BY <1>2 DEF Logger
      <4> QED  BY <4>1, <4>2
    <3> QED  BY <3>1, <3>2
  <2>3. Halfway(t) => l.level = d.level  BY <2>1, <2>2 DEF Halfway
  <2> HIDE DEF d, m
  <2>4. run' = [run EXCEPT ![t] = [@ EXCEPT !.at = "clear", !.done = m]]  BY <1>5, <2>1
  <2> QED  BY <1>1, <1>2, <1>3, <2>1, <2>2, <2>3, <2>4, FollowWorks DEF d
<1>8. CASE ClearAppender(t)
  <2> DEFINE l == [Now(t) EXCEPT !.appenders = <<>>]
  <2>1. /\ run[t].at = "clear" /\ Goes(t, "add") /\ Update(t, l)
        /\ UNCHANGED <<configVars, spun, daemon>>
    BY <1>8 DEF ClearAppender, Doing
  <2>2. l \in Logger /\ l.level = Now(t).level /\ l.appenders = <<>>
    <3>1. <<>> \in Seq({"file", "stdout"})  OBVIOUS
    <3> QED  BY <1>2, <3>1 DEF Logger
  <2>3. Halfway(t) => l.level = d.level  BY <2>1, <2>2 DEF Halfway
  <2>4. m = 0 /\ l.appenders = TypesUpTo(d, m)  BY <1>2, <2>1, <2>2, TypesNone
  <2> HIDE DEF d, m, l
  <2>5. run' = [run EXCEPT ![t] = [@ EXCEPT !.at = "add", !.done = m]]  BY <1>5, <2>1
  <2> QED  BY <1>1, <1>2, <1>3, <2>1, <2>2, <2>3, <2>4, <2>5, FollowWorks DEF d
<1>9. ASSUME More(t)
      PROVE  /\ run[t].at = "add" /\ m < Len(d.appenders)
             /\ Appender(t) = d.appenders[m + 1] /\ Appender(t) \in AppenderDefine
             /\ m + 1 \in Nat /\ m + 1 <= Len(d.appenders)
             /\ Halfway(t) => Now(t).level = d.level /\ Now(t).appenders = TypesUpTo(d, m)
             /\ TypesUpTo(d, m + 1) =
                  IF Skips(Appender(t)) THEN TypesUpTo(d, m)
                  ELSE Append(TypesUpTo(d, m), Appender(t).type)
  <2>1. /\ run[t].at = "add" /\ m < Len(d.appenders) /\ Appender(t) = d.appenders[m + 1]
    BY <1>9 DEF More, Appender
  <2>2. Halfway(t) => Now(t).level = d.level /\ Now(t).appenders = TypesUpTo(d, m)
    BY <2>1 DEF Halfway
  <2> HIDE DEF d, m
  <2>3. m + 1 \in Nat /\ m + 1 <= Len(d.appenders) /\ m + 1 \in 1 .. Len(d.appenders)
    BY <1>2, <2>1
  <2>4. Appender(t) \in AppenderDefine  BY <1>2, <2>1, <2>3, ElementOfSeq
  <2> QED  BY <1>2, <1>3, <2>1, <2>2, <2>3, <2>4, TypesMore
<1>10. ASSUME More(t), Advance(t)
       PROVE  run' = [run EXCEPT ![t] = [@ EXCEPT !.at = "add", !.done = m + 1]]
  BY <1>2, <1>3, <1>9, <1>10 DEF Advance, Run
<1>11. CASE SkipAppender(t)
  <2>1. /\ More(t) /\ Skips(Appender(t)) /\ Advance(t) /\ Update(t, Now(t))
        /\ UNCHANGED <<configVars, spun, daemon>>
    BY <1>4, <1>11 DEF SkipAppender
  <2> HIDE DEF d, m
  <2> QED  BY <1>1, <1>2, <1>3, <1>9, <1>10, <2>1, FollowWorks DEF d
<1>12. CASE AddAppender(t)
  <2> DEFINE l == [Now(t) EXCEPT !.appenders = Append(@, Appender(t).type)]
  <2>1. /\ More(t) /\ ~Skips(Appender(t)) /\ Advance(t) /\ Update(t, l)
        /\ UNCHANGED <<configVars, spun, daemon>>
    BY <1>12 DEF AddAppender
  <2>2. l \in Logger /\ l.level = Now(t).level
        /\ l.appenders = Append(Now(t).appenders, Appender(t).type)
    <3>1. Appender(t).type \in {"file", "stdout"}  BY <1>9, <2>1 DEF AppenderDefine
    <3>2. Now(t).appenders \in Seq({"file", "stdout"})  BY <1>2 DEF Logger
    <3>3. Append(Now(t).appenders, Appender(t).type) \in Seq({"file", "stdout"})
      BY <3>1, <3>2, AppendProperties
    <3> QED  BY <1>2, <3>3 DEF Logger
  <2> HIDE DEF d, m, l
  <2> QED  BY <1>1, <1>2, <1>3, <1>9, <1>10, <2>1, <2>2, FollowWorks DEF d
<1>13. CASE Spin(t)
  <2>1. /\ More(t) /\ spun' \subseteq Names /\ Update(t, Now(t)) /\ UNCHANGED run
        /\ UNCHANGED <<configVars, daemon>>
    BY <1>2, <1>3, <1>4, <1>13 DEF Spin
  <2>2. run' = [run EXCEPT ![t] = [@ EXCEPT !.at = "add", !.done = m]]
    BY <1>2, <1>3, <1>9, <2>1 DEF Run
  <2> HIDE DEF d, m
  <2> QED  BY <1>1, <1>2, <1>9, <2>1, <2>2, FollowWorks DEF d
<1> QED  BY <1>6, <1>7, <1>8, <1>11, <1>12, <1>13

\* The run leaves a logger as the new value has it.
LEMMA FollowLeave ==
  ASSUME FollowInv, NEW t \in Threads, LeaveLogger(t)
  PROVE  FollowInv'
<1>1. /\ run[t].at = "add" /\ ~More(t) /\ run' = [run EXCEPT ![t] = Between(run[t].left)]
      /\ UNCHANGED <<configVars, loggers, spun, daemon>>
  BY DEF LeaveLogger, FollowInv, LogTypes, TypeOK
<1>2. /\ ~Idle(t) /\ run[t] \in Run /\ run[t].done \in Nat /\ run[t].logger \in Names
      /\ run[t].done <= Len(Target(t).appenders) /\ Len(Target(t).appenders) \in Nat
      /\ Now(t) \in Logger
  BY <1>1, AtWork DEF FollowInv
<1>3. TypeOK /\ LogTypes  BY DEF FollowInv, LogTypes
<1>4. run[t].done = Len(Target(t).appenders)
  <2>1. ~(run[t].done < Len(Target(t).appenders))  BY <1>1 DEF More
  <2> QED  BY <1>2, <2>1
<1>5. PICK r : r = Between(run[t].left)  BY Zenon
<1>6. /\ r \in Run /\ r.at = "next" /\ r = Between(r.left) /\ r.left = run[t].left
      /\ run' = [run EXCEPT ![t] = r] /\ run'[t] = r
  BY <1>1, <1>2, <1>3, <1>5 DEF Between, Run, TypeOK
<1>7. LogTypes'
  <2>1. /\ spun' \subseteq Names /\ UNCHANGED <<configVars, daemon>>
        /\ loggers' \in [Names -> {None} \cup Logger]
        /\ \A n \in Names : loggers[n] # None => loggers'[n] # None
    BY <1>1, <1>3 DEF TypeOK
  <2> HIDE DEF Target
  <2> QED  BY <1>2, <1>3, <1>6, <2>1, LogTypesOperation
<1>8. ASSUME Halfway(t) PROVE Agrees(run[t].logger, call[t].new)
  <2>1. /\ Now(t).level = Target(t).level
        /\ Now(t).appenders = TypesUpTo(Target(t), Len(Target(t).appenders))
    BY <1>1, <1>4, <1>8 DEF Halfway
  <2>2. CASE run[t].logger \in DOMAIN call[t].new
    <3>1. Target(t) = call[t].new[run[t].logger]  BY <2>2 DEF Target
    <3>2. Now(t) # None  BY <1>2, Known
    <3> QED  BY <2>1, <2>2, <3>1, <3>2 DEF Agrees, Now
  <2>3. CASE run[t].logger \notin DOMAIN call[t].new
    <3>1. Target(t).appenders = <<>> /\ Len(Target(t).appenders) = 0
      BY <2>3, EmptySeq DEF Target, Silent
    <3>2. Now(t).appenders = <<>>  BY <2>1, <3>1, TypesNone
    <3> QED  BY <2>3, <3>2 DEF Agrees, Now
  <2> QED  BY <2>2, <2>3
<1>9. ASSUME \A n \in Names : Reached(t, n), NEW n \in Names PROVE Reached(t, n)'
  <2>1. n \in run[t].left \/ Agrees(n, call[t].new)
    BY <1>1, <1>8, <1>9 DEF Reached
  <2>2. Agrees(n, call[t].new) => Agrees(n, call[t].new)'
    BY <1>1 DEF Agrees, TypesUpTo, configVars
  <2> QED  BY <1>6, <2>1, <2>2 DEF Reached
<1> QED  BY <1>1, <1>2, <1>7, <1>9, FollowOperation

\* A logger that nobody has asked for yet comes without appenders.
LEMMA FollowUse ==
  ASSUME FollowInv, NEW m \in Names, UseLogger(m)
  PROVE  FollowInv'
<1>1. /\ loggers[m] = None /\ loggers' = [loggers EXCEPT ![m] = NewLogger]
      /\ UNCHANGED <<configVars, run, spun, daemon>>
      /\ UNCHANGED <<datas, val, cbs, call, heard, dispute>>
  BY DEF UseLogger, configVars
<1>2. TypeOK /\ LogTypes /\ Registry  BY DEF FollowInv, LogTypes
<1>3. LInv'  BY <1>1, LInvQuiet DEF FollowInv, LInv, Shapes
<1>4. /\ loggers' \in [Names -> {None} \cup Logger] /\ loggers'[m] = NewLogger
      /\ \A n \in Names : n # m => loggers'[n] = loggers[n]
  BY <1>1, <1>2, Known DEF TypeOK
<1>5. \A n \in Names : loggers[n] # None => loggers'[n] = loggers[n]  BY <1>1, <1>4
<1>6. Registry'
  BY <1>1, <1>2 DEF Registry, ConfigTypeOK, OnlyOfLogs, Registered
<1>7. TypeOK'  BY <1>1, <1>2, <1>4, <1>6 DEF TypeOK, Registry
<1>8. ASSUME NEW t \in Threads
      PROVE  /\ Running(t)' /\ Target(t)' = Target(t)
             /\ run[t].at # "next" => run[t].logger \in Names /\ Now(t)' = Now(t)
  <2>1. Running(t)  BY <1>2 DEF LogTypes
  <2>2. Target(t)' = Target(t)  BY <1>1, TargetStays
  <2>3. run[t].at # "next" => /\ run[t].logger \in Names
                             /\ loggers'[run[t].logger] = loggers[run[t].logger]
    BY <1>5, <2>1 DEF Running
  <2>4. Running(t)'  BY <1>1, <2>1, <2>2, <2>3 DEF Running, Idle
  <2> QED  BY <1>1, <2>2, <2>3, <2>4 DEF Now
<1>9. LogTypes'  BY <1>6, <1>7, <1>8 DEF LogTypes
<1>10. ASSUME NEW n \in Names, NEW v, Agrees(n, v) PROVE Agrees(n, v)'
  <2>1. CASE loggers[n] # None
    <3>1. loggers'[n] = loggers[n]  BY <1>5, <2>1
    <3> QED  BY <1>1, <1>10, <3>1 DEF Agrees, TypesUpTo
  <2>2. CASE loggers[n] = None
    <3>1. n \notin DOMAIN v  BY <1>10, <2>2 DEF Agrees
    <3>2. loggers'[n] = None \/ loggers'[n].appenders = <<>>
      BY <1>4, <2>2, Known
    <3> QED  BY <3>1, <3>2 DEF Agrees
  <2> QED  BY <2>1, <2>2
<1>11. \A n \in Names : Agrees(n, val[Logs]) => Agrees(n, val[Logs])'
  <2> SUFFICES ASSUME NEW n \in Names, Agrees(n, val[Logs]) PROVE Agrees(n, val[Logs])'
    OBVIOUS
  <2>1. PICK v : v = val[Logs]  BY Zenon
  <2>2. Agrees(n, v)'  BY <1>10, <2>1
  <2> QED  BY <1>1, <2>1, <2>2 DEF Agrees
<1>12. ASSUME NEW t \in Threads, NEW n \in Names, Reached(t, n) PROVE Reached(t, n)'
  <2>1. CASE run[t].at # "next" /\ n = run[t].logger
    <3>1. Halfway(t)  BY <1>12, <2>1 DEF Reached
    <3>2. Target(t)' = Target(t) /\ Now(t)' = Now(t)  BY <1>8, <2>1
    <3>3. Halfway(t)'  BY <1>1, <3>1, <3>2 DEF Halfway, TypesUpTo
    <3> QED  BY <1>1, <2>1, <3>3 DEF Reached
  <2>2. CASE ~(run[t].at # "next" /\ n = run[t].logger)
    <3>1. PICK v : v = call[t].new  BY Zenon
    <3>2. n \in run[t].left \/ Agrees(n, v)  BY <1>12, <2>2, <3>1 DEF Reached
    <3>3. Agrees(n, v) => Agrees(n, call[t].new)'
      <4> SUFFICES ASSUME Agrees(n, v) PROVE Agrees(n, call[t].new)'  OBVIOUS
      <4>1. Agrees(n, v)'  BY <1>10
      <4> QED  BY <1>1, <3>1, <4>1 DEF Agrees
    <3> QED  BY <1>1, <2>2, <3>2, <3>3 DEF Reached
  <2> QED  BY <2>1, <2>2
<1>13. AloneFollows => AloneFollows'
  BY <1>1, <1>11, <1>12 DEF AloneFollows, Sets, In, Tells, ToHear, Idle
<1>14. Following'
  BY <1>1, <1>11, <1>13
  DEF FollowInv, Following, Undisputed, Registered, Setting, In
<1> QED  BY <1>3, <1>9, <1>14 DEF FollowInv

LEMMA FollowNext == FollowInv /\ [Next]_vars => FollowInv'
<1> SUFFICES ASSUME FollowInv, [Next]_vars PROVE FollowInv'  OBVIOUS
<1>1. CASE UNCHANGED vars
  <2>1. /\ UNCHANGED <<datas, val, cbs, call, heard, dispute>>
        /\ UNCHANGED <<loggers, run, spun, daemon>>
    BY <1>1 DEF vars, configVars, logVars
  <2>2. LInv'  BY <1>1, LInvNext DEF FollowInv
  <2>3. LogTypes'
    BY <2>1 DEF FollowInv, LogTypes, TypeOK, Registry, ConfigTypeOK, OnlyOfLogs,
                Registered, Running, Idle, Target
  <2>4. Following'
    <3>1. \A n \in Names : Agrees(n, val[Logs])' <=> Agrees(n, val[Logs])
      BY <2>1 DEF Agrees, TypesUpTo
    <3>2. \A t \in Threads : Halfway(t)' <=> Halfway(t)
      BY <2>1 DEF Halfway, Now, Target, TypesUpTo
    <3>3. \A t \in Threads : \A n \in Names : Reached(t, n)' <=> Reached(t, n)
      BY <2>1, <3>2 DEF Reached, Agrees, TypesUpTo
    <3>4. AloneFollows => AloneFollows'
      BY <2>1, <3>1, <3>3 DEF AloneFollows, Sets, In, Tells, ToHear, Idle
    <3> QED  BY <2>1, <3>1, <3>4
             DEF FollowInv, Following, Undisputed, Registered, Setting, In
  <2> QED  BY <2>2, <2>3, <2>4 DEF FollowInv
<1>2. ASSUME NEW t \in Threads, Idle(t), User(t) \/ Setter(t), UNCHANGED logVars
      PROVE  FollowInv'
  <2>1. LInv'
    <3>1. [Next]_vars  BY <1>2 DEF Next
    <3> QED  BY <3>1, LInvNext DEF FollowInv
  <2>2. LogTypes'  BY <1>2, LogTypesConfig DEF FollowInv
  <2>3. Following'  BY <1>2, FollowUser, FollowSetter
  <2> QED  BY <2>1, <2>2, <2>3 DEF FollowInv
<1>3. ASSUME NEW t \in Threads, Listener(t) PROVE FollowInv'
  BY <1>3, FollowNotify, FollowGetLogger, FollowDoes, FollowLeave DEF Listener
<1>4. ASSUME NEW n \in Names, UseLogger(n) PROVE FollowInv'
  BY <1>4, FollowUse
<1> QED  BY <1>1, <1>2, <1>3, <1>4 DEF Next, Stuck

LEMMA FollowInvariant == Spec => []FollowInv
<1>1. Init => FollowInv
  BY LInvInit, LogTypesInit, FollowingInit DEF FollowInv
<1> QED  BY <1>1, FollowNext, PTL DEF Spec

\* Types of the variables of config.h and log.h, with the positions of calls and of
\* the listener's runs.
THEOREM TypeCorrect == Spec => []TypeOK
<1>1. FollowInv => TypeOK  BY DEF FollowInv, LogTypes
<1> QED  BY <1>1, FollowInvariant, PTL

\* log.cc:677-740: a listener that only works off the difference of two values
\* still leaves every logger as the variable has it, unless calls got in each
\* other's way or it is not registered any more.
THEOREM LoggersKeepUp == Spec => []LoggersFollow
<1>1. FollowInv => LoggersFollow
  BY DEF FollowInv, Following, Undisputed, LoggersFollow
<1> QED  BY <1>1, FollowInvariant, PTL
===============================================================================
